-------------------------- MODULE ThreadPoolProofs --------------------------
(***************************************************************************)
(* Theorems about ThreadPool for any number of workers, clients, outsiders  *)
(* and jobs, and any capacity of the job queue: no job that was accepted is *)
(* lost or run twice; dispose waits for all of them but one that raced it,  *)
(* and for all of them when nobody else holds the queue; and the pool never *)
(* stands still with work that a worker could do.                           *)
(***************************************************************************)
EXTENDS ThreadPool, SequenceLemmas

-----------------------------------------------------------------------------
(* The inductive invariant *)

QueueTypes ==
  /\ queue \in Seq(Items) /\ disposed \in BOOLEAN /\ hand \in SUBSET Items
  /\ op \in [Threads -> Ops \cup {"none"}]
  /\ carry \in [Threads -> Seq(Items)]
  /\ ret \in [Threads -> Rets]
  /\ seen \in [Threads -> {"nothing", "open"}]

\* Who is in which method, and when.
WorkerRole(w) ==
  /\ worker[w] = "loop" => op[w] \in {"none", "pop"}
  /\ worker[w] = "job" => op[w] \in {"none", "push"}
  /\ worker[w] = "disposing" => op[w] = "dispose"
  /\ worker[w] \in {"left", "panicked", "joining"} => op[w] = "none"

RoleInv ==
  /\ \A w \in Workers : WorkerRole(w)
  /\ \A t \in Threads \ Workers : op[t] \in PushOps \cup {"dispose", "none"}
  /\ op[Owner] \in {"dispose", "none"} /\ (op[Owner] = "dispose" => owner = "disposing")

\* What a call carries and what its result says: a pop brings one job or none,
\* and is refused only when no job is left that came in time.
CallOk(t) ==
  /\ op[t] = "none" => ret[t] = "none"
  /\ op[t] \in PushOps /\ ret[t] # "ok" => \E i \in Items : carry[t] = <<i>>
  /\ op[t] = "pop" /\ ret[t] = "ok" => \E i \in Items : carry[t] = <<i>>
  /\ op[t] \in PushOps /\ ret[t] = "ok" => carry[t] = <<>>
  /\ op[t] \notin PushOps /\ (op[t] # "pop" \/ ret[t] # "ok") => carry[t] = <<>>
  /\ op[t] = "pop" /\ ret[t] \notin {"none", "ok"} => disposed /\ Range(queue) \subseteq late
  /\ op[t] = "dispose" /\ ret[t] # "none" => disposed

CallInv == \A t \in Threads : CallOk(t)

\* One push at most is admitted and has yet to enter, and it finds room.
SeenInv == \A t \in Threads : seen[t] = "open" =>
  /\ op[t] \in PushOps /\ ret[t] = "none"
  /\ op[t] = "try_push" \/ ~Q!IsFull
  /\ \A u \in Threads : seen[u] = "open" => u = t

\* So one job at most enters a queue that is disposed, and none after it.
LateInv ==
  /\ \A i, j \in late : i = j
  /\ late # {} => disposed /\ \A t \in Threads : seen[t] # "open"

\* A job is in one place: the queue, one call, the hands of the callers.  What
\* is spent is in hand for the queue, and comes back to no call.
Apart ==
  /\ IsInjective(queue) /\ Range(queue) \cap (hand \cup Spent) = {}
  /\ \A t \in Threads :
       /\ Range(carry[t]) \cap (Range(queue) \cup hand \cup Spent) = {}
       /\ \A u \in Threads \ {t} : Range(carry[t]) \cap Range(carry[u]) = {}
  /\ \A v \in Workers :
       /\ running[v] \notin ended
       /\ \A w \in Workers \ {v} : running[v] = running[w] => running[v] = NoJob

\* The accepted jobs are exactly those in the pool.
Account ==
  /\ accepted = Range(queue) \cup InFlight \cup ended
  /\ accepted \cap dropped = {}

\* A worker leaves a disposed queue with no job that came in time, and none
\* comes in time any more; and until a worker disposes the pool, only who is
\* over has been joined.
EndInv ==
  /\ owner \in {"joining", "closed"} => disposed
  /\ owner = "closed" => handles = {}
  /\ \A w \in Workers :
       /\ worker[w] = "left" => disposed /\ Range(queue) \subseteq late
       /\ worker[w] \in {"disposing", "joining"} => owner = "gone"
       /\ owner # "gone" /\ w \notin handles => worker[w] \in {"left", "panicked"}

IInv == /\ TypeOK /\ QueueTypes /\ RoleInv /\ CallInv /\ SeenInv /\ LateInv
        /\ Apart /\ Account /\ EndInv

\* The vocabulary of the job queue is the one of the pool.
LEMMA SameWords == Q!PushOps = PushOps /\ Q!PopOps = PopOps
BY DEF Q!PushOps, PushOps, Q!PopOps, PopOps

LEMMA PushIsNoPop == PushOps \cap {"pop", "dispose", "none", "drain"} = {}
BY DEF PushOps

\* The threads are the four groups.
LEMMA Groups ==
  /\ Workers \subseteq Threads /\ Clients \subseteq Threads /\ Owner \in Threads
  /\ Outsiders \subseteq Threads
  /\ \A t \in Threads \ Workers : OpsOf[t] \subseteq PushOps \cup {"dispose"}
  /\ \A t \in Workers : OpsOf[t] = {"pop", "push", "dispose"}
BY BQAssumption, PoolAssumption DEF Outsiders, PushOps

LEMMA CapacityIsNat == Capacity \in Nat \ {0}
BY BQAssumption DEF Capacity

LEMMA NoJobIsNone == NoJob \notin Items
BY PoolAssumption

LEMMA ReturnEffect ==
  ASSUME NEW t \in Threads, Q!Return(t)
  PROVE  /\ ret[t] # "none"
         /\ hand' = hand \cup Range(carry[t]) /\ op' = [op EXCEPT ![t] = "none"]
         /\ carry' = [carry EXCEPT ![t] = <<>>] /\ ret' = [ret EXCEPT ![t] = "none"]
         /\ queue' = queue /\ disposed' = disposed
BY DEF Q!Return, Q!Result, Q!Range, Range

-----------------------------------------------------------------------------
(* The initial state *)

LEMMA InitIInv == Init => IInv
<1> SUFFICES ASSUME Init PROVE IInv
  OBVIOUS
<1> USE DEF Init, Q!Init2, Q!Init
<1>1. TypeOK
  BY NoJobIsNone DEF TypeOK
<1>2. QueueTypes
  BY EmptySeq DEF QueueTypes, Rets
<1>3. RoleInv /\ CallInv
  BY Groups, PushIsNoPop DEF RoleInv, WorkerRole, CallInv, CallOk
<1>4. Apart
  <2>1. Range(queue) = {} /\ IsInjective(queue) /\ \A t \in Threads : Range(carry[t]) = {}
    BY EmptyRange
  <2>2. QED
    BY <2>1 DEF Apart
<1>5. Account
  <2>1. Popped = {}
    BY Groups DEF Popped
  <2>2. Range(running) \subseteq {NoJob}
    BY DEF Range
  <2>3. Range(queue) = {}
    BY EmptyRange
  <2>4. QED
    BY <2>1, <2>2, <2>3 DEF Account, InFlight
<1>6. EndInv
  BY DEF EndInv
<1>7. SeenInv /\ LateInv
  BY DEF SeenInv, LateInv
<1>8. QED
  BY <1>1, <1>2, <1>3, <1>4, <1>5, <1>6, <1>7 DEF IInv

-----------------------------------------------------------------------------
(* The shapes of steps *)

\* The methods that are in use, and who uses them.
LEMMA Methods ==
  ASSUME TypeOK, RoleInv, NEW t \in Threads
  PROVE  /\ op[t] \in PushOps \cup {"pop", "dispose", "none"}
         /\ op[t] = "pop" => t \in Workers /\ worker[t] = "loop"
<1>1. CASE t \in Workers
  <2>1. worker[t] \in {"loop", "job", "left", "panicked", "disposing", "joining"}
    BY <1>1 DEF TypeOK
  <2>2. QED
    BY <1>1, <2>1 DEF RoleInv, WorkerRole, PushOps
<1>2. CASE t \notin Workers
  BY <1>2, PushIsNoPop DEF RoleInv, WorkerRole
<1>3. QED
  BY <1>1, <1>2

LEMMA CallEffect ==
  ASSUME NEW t \in Threads, Q!Call(t)
  PROVE  /\ op[t] = "none" /\ queue' = queue /\ disposed' = disposed /\ ret' = ret
         /\ \E o \in OpsOf[t] :
              /\ op' = [op EXCEPT ![t] = o]
              /\ \/ /\ o \in PushOps
                    /\ \E i \in hand : /\ hand' = hand \ {i}
                                       /\ carry' = [carry EXCEPT ![t] = <<i>>]
                 \/ o \notin PushOps /\ hand' = hand /\ carry' = carry
BY SameWords DEF Q!Call

\* No push is between look and effect.
NoneAdmitted == \A u \in Threads : op[u] \in PushOps => seen[u] = "nothing"

\* A call that looks or takes effect: a push, a refusal, a pop or a dispose.
LookEffect(t) ==
  /\ op[t] \in PushOps /\ ret[t] = "none" /\ ~disposed
  /\ op[t] = "try_push" \/ ~Q!IsFull
  /\ NoneAdmitted /\ seen' = [seen EXCEPT ![t] = "open"]
  /\ UNCHANGED <<queue, disposed, hand, carry, ret, accepted, late>>

PushEffect(t) ==
  /\ op[t] \in PushOps /\ ret[t] = "none" /\ disposed' = disposed
  /\ ~Q!IsFull /\ (seen[t] = "open" \/ (~disposed /\ NoneAdmitted))
  /\ seen' = [seen EXCEPT ![t] = "nothing"]
  /\ \E i \in Items : /\ carry[t] = <<i>> /\ queue' = queue \o <<i>>
                      /\ accepted' = accepted \cup {i}
                      /\ late' = IF disposed THEN late \cup {i} ELSE late
  /\ carry' = [carry EXCEPT ![t] = <<>>] /\ ret' = [ret EXCEPT ![t] = "ok"]
  /\ hand' = hand

RefuseEffect(t) ==
  /\ op[t] \in PushOps \/ (op[t] = "pop" /\ disposed /\ queue = <<>>)
  /\ op[t] \in PushOps => seen[t] = "open" \/ NoneAdmitted
  /\ op[t] = "push" => disposed
  /\ ret[t] = "none" /\ \E r \in Rets \ {"none", "ok"} : ret' = [ret EXCEPT ![t] = r]
  /\ seen' = [seen EXCEPT ![t] = "nothing"]
  /\ UNCHANGED <<queue, disposed, hand, carry, accepted, late>>

PopEffect(t) ==
  /\ op[t] = "pop" /\ ret[t] = "none" /\ queue # <<>> /\ disposed' = disposed
  /\ carry' = [carry EXCEPT ![t] = <<Head(queue)>>] /\ queue' = Tail(queue)
  /\ ret' = [ret EXCEPT ![t] = "ok"] /\ hand' = hand
  /\ seen' = seen /\ accepted' = accepted /\ late' = late

DisposeEffect(t) ==
  /\ op[t] = "dispose" /\ disposed' = TRUE /\ ret' = [ret EXCEPT ![t] = "ok"]
  /\ UNCHANGED <<queue, hand, carry, seen, accepted, late>>

LEMMA QueueEffect ==
  ASSUME IInv, NEW t \in Threads, QueueStep(t)
  PROVE  /\ \/ LookEffect(t) \/ PushEffect(t) \/ RefuseEffect(t)
            \/ PopEffect(t) \/ DisposeEffect(t)
         /\ op' = op /\ worker' = worker /\ running' = running /\ ended' = ended
         /\ dropped' = dropped /\ handles' = handles /\ owner' = owner
<1> USE DEF IInv
<1>0. UNCHANGED pool
  BY DEF QueueStep
<1>1. op[t] \in PushOps \cup {"pop", "dispose", "none"}
  BY Methods
<1>2. ret'[t] # "ok" \/ op[t] \notin PushOps => accepted' = accepted /\ late' = late
  BY DEF QueueStep, Entering
\* Who is alone on the side of the pushes.
<1>3. op[t] \in PushOps /\ Q!Alone(t) => NoneAdmitted
  BY SameWords DEF Q!Alone, Q!SideOf, NoneAdmitted
<1>4. ASSUME op[t] \in PushOps, ret[t] = "none", Q!Enqueue(t),
             seen[t] = "open" \/ (~disposed /\ NoneAdmitted),
             seen' = [seen EXCEPT ![t] = "nothing"]
      PROVE  PushEffect(t) /\ op' = op
  <2>1. PICK i \in Items : carry[t] = <<i>>
    BY <1>4 DEF CallInv, CallOk
  <2>2. Range(carry[t]) = {i}
    BY <2>1, SingleRange
  <2>3. ret' = [ret EXCEPT ![t] = "ok"] /\ ret'[t] = "ok"
    BY <1>4 DEF Q!Enqueue, Q!Result, QueueTypes
  <2>4. accepted' = accepted \cup {i} /\ late' = IF disposed THEN late \cup {i} ELSE late
    BY <1>4, <2>2, <2>3 DEF QueueStep, Entering
  <2>5. QED
    BY <1>4, <2>1, <2>3, <2>4 DEF Q!Enqueue, PushEffect
<1>5. ASSUME NEW r \in Rets \ {"none", "ok"}, Q!Refuse(t, r), ret[t] = "none",
             op[t] \in PushOps \/ (op[t] = "pop" /\ disposed /\ queue = <<>>),
             op[t] \in PushOps => seen[t] = "open" \/ NoneAdmitted,
             op[t] = "push" => disposed,
             seen' = [seen EXCEPT ![t] = "nothing"]
      PROVE  RefuseEffect(t) /\ op' = op
  <2>1. ret' = [ret EXCEPT ![t] = r] /\ ret'[t] = r
    BY <1>5 DEF Q!Refuse, Q!Result, QueueTypes
  <2>2. accepted' = accepted /\ late' = late
    BY <1>2, <2>1
  <2>3. QED
    BY <1>5, <2>1, <2>2 DEF Q!Refuse, RefuseEffect
<1>6. CASE Q!Admit(t)
  <2>1. op[t] \in PushOps /\ ret[t] = "none" /\ ret' = ret
    BY <1>6, SameWords DEF Q!Admit, Q!Pending, Q!Look, Q!vars
  <2>2. accepted' = accepted /\ late' = late
    BY <1>2, <2>1
  <2>3. LookEffect(t) /\ op' = op
    BY <1>3, <1>6, <2>1, <2>2 DEF Q!Admit, Q!Look, Q!vars, LookEffect
  <2>4. QED
    BY <1>0, <2>3 DEF pool
<1>7. CASE Q!PushAdmitted(t)
  <2>1. seen[t] = "open" /\ seen' = [seen EXCEPT ![t] = "nothing"]
    BY <1>7 DEF Q!PushAdmitted, Q!Settle
  <2>2. op[t] \in PushOps /\ ret[t] = "none"
    BY <2>1 DEF SeenInv
  <2>3. CASE Q!Enqueue(t)
    BY <1>0, <1>4, <2>1, <2>2, <2>3 DEF pool
  <2>4. CASE op[t] = "try_push" /\ Q!Refuse(t, "would_block")
    BY <1>0, <1>5, <2>1, <2>2, <2>4 DEF pool, Rets
  <2>5. QED
    BY <1>7, <2>3, <2>4 DEF Q!PushAdmitted
<1>8. CASE Q!AtOnce(t)
  <2>1. seen' = seen
    BY <1>8 DEF Q!AtOnce
  <2>2. CASE Q!Dispose(t)
    <3>1. op[t] = "dispose" /\ accepted' = accepted /\ late' = late
      BY <1>2, <2>2, PushIsNoPop DEF Q!Dispose, Q!Pending
    <3>2. QED
      BY <1>0, <2>1, <2>2, <3>1 DEF Q!Dispose, Q!Result, DisposeEffect, pool
  <2>3. ASSUME Q!Alone(t), op[t] \in PushOps
        PROVE  NoneAdmitted /\ seen' = [seen EXCEPT ![t] = "nothing"]
    BY <1>3, <2>1, <2>3 DEF QueueTypes, NoneAdmitted
  <2>4. CASE Q!Alone(t) /\ Q!PushOk(t)
    <3>1. op[t] \in PushOps /\ ret[t] = "none" /\ ~disposed /\ Q!Enqueue(t)
      BY <2>4, SameWords DEF Q!PushOk, Q!Pending
    <3>2. QED
      BY <1>0, <1>4, <2>3, <2>4, <3>1 DEF pool
  <2>5. CASE Q!Alone(t) /\ Q!PushRefused(t)
    <3>1. /\ op[t] \in PushOps /\ ret[t] = "none"
          /\ op[t] = "push" => disposed
          /\ \E r \in {"unavailable", "would_block", "timeout"} : Q!Refuse(t, r)
      BY <2>5, SameWords DEF Q!PushRefused, Q!Pending
    <3>2. QED
      BY <1>0, <1>5, <2>3, <2>5, <3>1 DEF pool, Rets
  <2>6. CASE Q!PopOk(t)
    <3>1. op[t] = "pop" /\ ret[t] = "none"
      BY <1>1, <2>6, SameWords, PushIsNoPop DEF Q!PopOk, Q!Pending, PopOps, PushOps
    <3>2. accepted' = accepted /\ late' = late
      BY <1>2, <3>1, PushIsNoPop
    <3>3. QED
      BY <1>0, <2>1, <2>6, <3>1, <3>2 DEF Q!PopOk, Q!Result, PopEffect, pool
  <2>7. CASE Q!Alone(t) /\ Q!PopRefused(t)
    <3>1. op[t] = "pop" /\ ret[t] = "none"
      BY <1>1, <2>7, SameWords, PushIsNoPop DEF Q!PopRefused, Q!Pending, PopOps, PushOps
    <3>2. disposed /\ queue = <<>> /\ Q!Refuse(t, "unavailable")
      BY <2>7, <3>1 DEF Q!PopRefused
    <3>3. seen[t] = "nothing"
      BY <3>1, PushIsNoPop DEF SeenInv, QueueTypes
    <3>4. seen' = [seen EXCEPT ![t] = "nothing"]
      BY <2>1, <3>3 DEF QueueTypes
    <3>5. QED
      BY <1>0, <1>5, <3>1, <3>2, <3>4, PushIsNoPop DEF pool, Rets
  <2>8. CASE Q!Alone(t) /\ Q!LateTimeout(t)
    <3>1. op[t] \in PushOps /\ ret[t] = "none" /\ disposed /\ Q!Refuse(t, "timeout")
      BY <1>1, <2>8, PushIsNoPop DEF Q!LateTimeout, Q!Pending, PushOps
    <3>2. QED
      BY <1>0, <1>5, <2>3, <2>8, <3>1 DEF pool, Rets
  <2>9. ~Q!Drain(t)
    BY <1>1, PushIsNoPop DEF Q!Drain, Q!Pending, PushOps
  <2>10. QED
    BY <1>8, <2>2, <2>4, <2>5, <2>6, <2>7, <2>8, <2>9 DEF Q!AtOnce
<1>9. QED
  BY <1>6, <1>7, <1>8 DEF QueueStep

LEMMA QueueTypesStep == IInv /\ [Next]_vars => QueueTypes'
<1> SUFFICES ASSUME IInv, [Next]_vars PROVE QueueTypes'
  OBVIOUS
<1> USE DEF IInv, QueueTypes, Rets, Ops
<1>1. ASSUME NEW t \in Threads, Q!Call2(t) PROVE QueueTypes'
  <2>1. OpsOf[t] \subseteq Ops
    BY BQAssumption
  <2>2. PICK o \in OpsOf[t] :
          /\ op' = [op EXCEPT ![t] = o]
          /\ \/ \E i \in hand : hand' = hand \ {i} /\ carry' = [carry EXCEPT ![t] = <<i>>]
             \/ UNCHANGED <<hand, carry>>
          /\ UNCHANGED <<queue, disposed, ret>>
    BY <1>1 DEF Q!Call2, Q!Call
  <2>3. op' \in [Threads -> Ops \cup {"none"}]
    BY <2>1, <2>2
  <2>4. carry' \in [Threads -> Seq(Items)] /\ hand' \in SUBSET Items
    <3>1. CASE UNCHANGED <<hand, carry>>
      BY <3>1
    <3>2. CASE \E i \in hand : hand' = hand \ {i} /\ carry' = [carry EXCEPT ![t] = <<i>>]
      <4>1. PICK i \in hand : hand' = hand \ {i} /\ carry' = [carry EXCEPT ![t] = <<i>>]
        BY <3>2
      <4>2. <<i>> \in Seq(Items)
        OBVIOUS
      <4>3. QED
        BY <4>1, <4>2
    <3>3. QED
      BY <2>2, <3>1, <3>2
  <2>5. seen' = seen
    BY <1>1 DEF Q!Call2
  <2>6. QED
    BY <2>2, <2>3, <2>4, <2>5
<1>2. ASSUME NEW t \in Threads, Q!Return2(t) PROVE QueueTypes'
  <2>1. Range(carry[t]) \subseteq Items
    BY DEF Range
  <2>2. /\ hand' = hand \cup Range(carry[t]) /\ op' = [op EXCEPT ![t] = "none"]
        /\ carry' = [carry EXCEPT ![t] = <<>>] /\ ret' = [ret EXCEPT ![t] = "none"]
        /\ queue' = queue /\ disposed' = disposed /\ seen' = seen
    BY <1>2, ReturnEffect DEF Q!Return2
  <2>3. <<>> \in Seq(Items)
    BY EmptySeq
  <2>4. carry' \in [Threads -> Seq(Items)] /\ op' \in [Threads -> Ops \cup {"none"}]
    BY <2>2, <2>3
  <2>5. hand' \in SUBSET Items /\ ret' \in [Threads -> Rets]
    BY <2>1, <2>2
  <2>6. QED
    BY <2>2, <2>4, <2>5
<1>3. ASSUME NEW t \in Threads, QueueStep(t) PROVE QueueTypes'
  <2>1. /\ op' = op /\ \E s \in {"nothing", "open"} : seen' = [seen EXCEPT ![t] = s]
        /\ PushEffect(t) \/ LookEffect(t) \/ RefuseEffect(t) \/ PopEffect(t) \/ DisposeEffect(t)
    <3> HIDE DEF IInv, QueueTypes, Rets, Ops
    <3>1. /\ op' = op
          /\ PushEffect(t) \/ LookEffect(t) \/ RefuseEffect(t) \/ PopEffect(t) \/ DisposeEffect(t)
      BY <1>3, QueueEffect
    <3>2. PushEffect(t) \/ LookEffect(t) \/ RefuseEffect(t) =>
            \E s \in {"nothing", "open"} : seen' = [seen EXCEPT ![t] = s]
      BY DEF PushEffect, LookEffect, RefuseEffect
    <3>3. PopEffect(t) \/ DisposeEffect(t) => seen' = [seen EXCEPT ![t] = seen[t]]
      BY DEF PopEffect, DisposeEffect, IInv, QueueTypes
    <3>4. seen[t] \in {"nothing", "open"}
      BY DEF IInv, QueueTypes
    <3>5. QED
      BY <3>1, <3>2, <3>3, <3>4
  <2>2. seen' \in [Threads -> {"nothing", "open"}]
    BY <2>1
  <2>3. CASE PushEffect(t)
    <3>1. PICK i \in Items : queue' = queue \o <<i>>
      BY <2>3 DEF PushEffect
    <3>2. queue' \in Seq(Items)
      BY <3>1
    <3>3. /\ carry' = [carry EXCEPT ![t] = <<>>] /\ ret' = [ret EXCEPT ![t] = "ok"]
          /\ hand' = hand /\ disposed' = disposed
      BY <2>3 DEF PushEffect
    <3>4. QED
      BY <2>1, <2>2, <3>2, <3>3, EmptySeq
  <2>4. CASE LookEffect(t) \/ RefuseEffect(t) \/ DisposeEffect(t)
    <3>1. /\ queue' = queue /\ hand' = hand /\ carry' = carry
          /\ disposed' = disposed \/ disposed' = TRUE
      BY <2>4 DEF LookEffect, RefuseEffect, DisposeEffect
    <3>2. ret' = ret \/ \E r \in Rets : ret' = [ret EXCEPT ![t] = r]
      BY <2>4 DEF LookEffect, RefuseEffect, DisposeEffect
    <3>3. ret' \in [Threads -> Rets]
      BY <3>2
    <3>4. QED
      BY <2>1, <2>2, <3>1, <3>3
  <2>5. CASE PopEffect(t)
    <3>1. Head(queue) \in Items /\ Tail(queue) \in Seq(Items)
      BY <2>5, HeadTailProperties DEF PopEffect
    <3>2. QED
      BY <2>1, <2>2, <2>5, <3>1 DEF PopEffect
  <2>6. QED
    BY <2>1, <2>3, <2>4, <2>5
<1>4. CASE UNCHANGED jobQueue
  BY <1>4 DEF jobQueue
<1>5. CASE UNCHANGED vars
  BY <1>4, <1>5 DEF vars
<1>6. ASSUME Next PROVE \/ UNCHANGED jobQueue
                        \/ \E t \in Threads : Q!Call2(t) \/ Q!Return2(t) \/ QueueStep(t)
  BY <1>6, Groups DEF Next, WorkerStep, ClientStep, OutsiderStep, OwnerStep, Submit, SubmitNested,
     Submitted, OutsiderCalls, OutsiderReturns, WorkerPops, WorkerGot, JobReturns, JobPanics,
     JobOver, DropLast, DropNotLast, JobDropsLast, Disposed, Join, JoinSelf, Closed, Calls
<1>7. QED
  BY <1>1, <1>2, <1>3, <1>4, <1>5, <1>6

\* What becomes of the jobs of a call that returns.
ReturnStep(t) ==
  /\ Q!Return(t) /\ UNCHANGED <<seen, entries, ended>>
  /\ \/ /\ op[t] = "push" /\ running' = running
        /\ dropped' = dropped \cup Range(carry[t])
     \/ op[t] # "pop" /\ running' = running /\ dropped' = dropped
     \/ /\ t \in Workers /\ worker[t] = "loop" /\ dropped' = dropped
        /\ \/ ret[t] = "ok" /\ running' = [running EXCEPT ![t] = Head(carry[t])]
           \/ ret[t] # "ok" /\ running' = running

CallStep(t) ==
  /\ Q!Call(t) /\ (op'[t] = "push" \/ t \in Outsiders => Range(carry'[t]) \cap Spent = {})
  /\ UNCHANGED <<seen, entries, running, ended, dropped>>

\* A job is over, or the pool changes in a way that no job notices.
OverStep(w) ==
  /\ w \in Workers /\ worker[w] \in {"job", "joining"}
  /\ running' = [running EXCEPT ![w] = NoJob] /\ ended' = ended \cup {running[w]}
  /\ UNCHANGED <<jobQueue, entries, dropped>>

IdleStep == UNCHANGED <<jobQueue, entries, running, ended, dropped>>

LEMMA Shapes ==
  ASSUME IInv, [Next]_vars
  PROVE  \/ \E t \in Threads : CallStep(t) \/ ReturnStep(t) \/ QueueStep(t) \/ OverStep(t)
         \/ IdleStep
<1>1. CASE UNCHANGED vars
  BY <1>1 DEF vars, pool, IdleStep
<1>2. ASSUME NEW t \in Threads, Submit(t) \/ SubmitNested(t) \/ OutsiderCalls(t)
      PROVE  CallStep(t)
  BY <1>2 DEF Submit, SubmitNested, Calls, OutsiderCalls, Fresh, Q!Call2, CallStep, pool
<1>3. ASSUME NEW t \in Workers, WorkerPops(t) \/ JobDropsLast(t) PROVE CallStep(t)
  BY <1>3, PoolAssumption DEF WorkerPops, JobDropsLast, Calls, Q!Call2, CallStep, Outsiders, pool
<1>4. CASE DropLast
  <2>1. Owner \in Threads /\ Q!Call(Owner) /\ OpsOf[Owner] = {"dispose"} /\ Owner \notin Outsiders
    BY <1>4, Groups, PoolAssumption DEF DropLast, Q!Call2, Outsiders
  <2>2. op'[Owner] = "dispose"
    <3>1. PICK o \in OpsOf[Owner] : op' = [op EXCEPT ![Owner] = o]
      BY <2>1, CallEffect
    <3>2. QED
      BY <2>1, <3>1 DEF IInv, QueueTypes
  <2>3. CallStep(Owner)
    BY <1>4, <2>1, <2>2 DEF DropLast, Q!Call2, CallStep
  <2>4. QED
    BY <2>1, <2>3
<1>5. ASSUME NEW t \in Threads, Submitted(t) PROVE ReturnStep(t)
  BY <1>5 DEF Submitted, Q!Return2, ReturnStep
<1>6. ASSUME NEW t \in Outsiders, OutsiderReturns(t) PROVE ReturnStep(t)
  <2>1. t \in Threads \ Workers
    BY <1>6 DEF Outsiders
  <2>2. op[t] # "pop"
    BY <2>1, Methods DEF IInv
  <2>3. QED
    BY <1>6, <2>2 DEF OutsiderReturns, Q!Return2, ReturnStep, pool
<1>7. ASSUME NEW t \in Workers, WorkerGot(t) PROVE ReturnStep(t)
  BY <1>7 DEF WorkerGot, Q!Return2, ReturnStep
<1>8. ASSUME NEW t \in Threads, Disposed(t) PROVE ReturnStep(t)
  <2>1. op[t] # "pop"
    BY <1>8, Methods, PoolAssumption DEF Disposed, IInv
  <2>2. QED
    BY <1>8, <2>1 DEF Disposed, Q!Return2, ReturnStep
<1>9. ASSUME NEW t \in Workers, JobReturns(t) \/ JobPanics(t) \/ JoinSelf(t) PROVE OverStep(t)
  BY <1>9 DEF JobReturns, JobPanics, JobOver, JoinSelf, OverStep
<1>10. ASSUME NEW t \in Workers, Join(t) PROVE IdleStep
  BY <1>10 DEF Join, IdleStep
<1>11. CASE Closed \/ DropNotLast
  BY <1>11 DEF Closed, DropNotLast, IdleStep
<1>12. QED
  BY <1>1, <1>2, <1>3, <1>4, <1>5, <1>6, <1>7, <1>8, <1>9, <1>10, <1>11, Groups
     DEF Next, WorkerStep, ClientStep, OutsiderStep, OwnerStep

-----------------------------------------------------------------------------
(* Types, methods and results *)

\* A call and a step of the queue concern the calls of one thread alone.
LEMMA OthersStand ==
  ASSUME IInv, NEW t \in Threads, CallStep(t) \/ ReturnStep(t) \/ QueueStep(t),
         NEW u \in Threads \ {t}
  PROVE  op'[u] = op[u] /\ carry'[u] = carry[u] /\ ret'[u] = ret[u] /\ seen'[u] = seen[u]
<1> USE DEF IInv, QueueTypes
<1>1. CASE CallStep(t)
  BY <1>1, CallEffect DEF CallStep
<1>2. CASE ReturnStep(t)
  BY <1>2, ReturnEffect DEF ReturnStep
<1>3. CASE QueueStep(t)
  <2>1. /\ op' = op
        /\ LookEffect(t) \/ PushEffect(t) \/ RefuseEffect(t) \/ PopEffect(t) \/ DisposeEffect(t)
    BY <1>3, QueueEffect
  <2>2. carry'[u] = carry[u]
    BY <2>1 DEF LookEffect, PushEffect, RefuseEffect, PopEffect, DisposeEffect
  <2>3. ret'[u] = ret[u] /\ seen'[u] = seen[u]
    BY <2>1 DEF LookEffect, PushEffect, RefuseEffect, PopEffect, DisposeEffect
  <2>4. QED
    BY <2>1, <2>2, <2>3
<1>4. QED
  BY <1>1, <1>2, <1>3

LEMMA TypeStep == IInv /\ [Next]_vars => TypeOK'
<1> SUFFICES ASSUME IInv, [Next]_vars PROVE TypeOK'
  OBVIOUS
<1> USE NoJobIsNone, Groups DEF IInv, TypeOK
<1>0. CASE UNCHANGED vars
  BY <1>0 DEF vars, pool, entries
<1>1. ASSUME NEW t \in Threads, QueueStep(t) PROVE TypeOK'
  <2>1. accepted' \subseteq Items /\ late' \subseteq accepted'
    <3>1. CASE PushEffect(t)
      <4>1. PICK i \in Items : /\ accepted' = accepted \cup {i}
                               /\ late' = IF disposed THEN late \cup {i} ELSE late
        BY <3>1 DEF PushEffect
      <4>2. QED
        BY <4>1
    <3>2. CASE LookEffect(t) \/ RefuseEffect(t) \/ PopEffect(t) \/ DisposeEffect(t)
      <4>1. accepted' = accepted /\ late' = late
        BY <3>2 DEF LookEffect, RefuseEffect, PopEffect, DisposeEffect
      <4>2. QED
        BY <4>1
    <3>3. QED
      BY <1>1, <3>1, <3>2, QueueEffect
  <2>2. /\ worker' = worker /\ running' = running /\ ended' = ended /\ dropped' = dropped
        /\ handles' = handles /\ owner' = owner
    <3> HIDE DEF IInv, TypeOK
    <3>1. QED
      BY <1>1, QueueEffect
  <2>3. QED
    BY <2>1, <2>2
<1>2. CASE DropLast \/ DropNotLast \/ Closed
  BY <1>2 DEF DropLast, DropNotLast, Closed, entries
<1>3. ASSUME NEW t \in Threads, Submit(t) \/ OutsiderCalls(t) \/ OutsiderReturns(t) PROVE TypeOK'
  BY <1>3 DEF Submit, OutsiderCalls, OutsiderReturns, pool, entries
<1>4. ASSUME NEW t \in Threads, Submitted(t) PROVE TypeOK'
  <2>1. Range(carry[t]) \subseteq Items
    BY DEF QueueTypes, Range
  <2>2. QED
    BY <1>4, <2>1 DEF Submitted, entries
<1>5. ASSUME NEW t \in Threads, Disposed(t) PROVE TypeOK'
  BY <1>5 DEF Disposed, entries
<1>6. ASSUME NEW w \in Workers, WorkerPops(w) \/ SubmitNested(w) PROVE TypeOK'
  BY <1>6 DEF WorkerPops, SubmitNested, pool, entries
<1>7. ASSUME NEW w \in Workers, WorkerGot(w) PROVE TypeOK'
  <2>1. CASE ret[w] = "ok"
    <3>1. op[w] = "pop"
      BY <1>7, <2>1 DEF WorkerGot, RoleInv, WorkerRole, CallInv, CallOk, entries
    <3>2. PICK i \in Items : carry[w] = <<i>>
      BY <2>1, <3>1 DEF CallInv, CallOk
    <3>3. Head(carry[w]) \in Items
      BY <3>2
    <3>4. QED
      BY <1>7, <2>1, <3>3 DEF WorkerGot, entries
  <2>2. CASE ret[w] # "ok"
    BY <1>7, <2>2 DEF WorkerGot, entries
  <2>3. QED
    BY <2>1, <2>2
<1>8. ASSUME NEW w \in Workers, JobReturns(w) \/ JobPanics(w) \/ JoinSelf(w) PROVE TypeOK'
  <2>1. running[w] \in Items
    BY <1>8 DEF JobReturns, JobPanics, JobOver, JoinSelf, entries
  <2>2. QED
    BY <1>8, <2>1 DEF JobReturns, JobPanics, JobOver, JoinSelf, entries
<1>9. ASSUME NEW w \in Workers, JobDropsLast(w) \/ Join(w) PROVE TypeOK'
  BY <1>9 DEF JobDropsLast, Join, entries
<1>10. QED
  BY <1>0, <1>1, <1>2, <1>3, <1>4, <1>5, <1>6, <1>7, <1>8, <1>9
     DEF Next, WorkerStep, ClientStep, OutsiderStep, OwnerStep

LEMMA CallMoves ==
  ASSUME IInv, NEW t \in Threads, Q!Call2(t)
  PROVE  /\ op[t] = "none" /\ op'[t] \in OpsOf[t] /\ \A u \in Threads \ {t} : op'[u] = op[u]
         /\ op'[t] \notin PushOps => carry' = carry
         /\ queue' = queue /\ disposed' = disposed /\ ret' = ret
<1>1. Q!Call(t)
  BY DEF Q!Call2
<1>2. PICK o \in OpsOf[t] : op' = [op EXCEPT ![t] = o] /\ (o \notin PushOps => carry' = carry)
  BY <1>1, CallEffect
<1>3. op'[t] = o /\ \A u \in Threads \ {t} : op'[u] = op[u]
  BY <1>2 DEF IInv, QueueTypes
<1>4. QED
  BY <1>1, <1>2, <1>3, CallEffect

LEMMA ReturnMoves ==
  ASSUME IInv, NEW t \in Threads, Q!Return2(t)
  PROVE  /\ op[t] # "none" /\ op'[t] = "none" /\ \A u \in Threads \ {t} : op'[u] = op[u]
         /\ queue' = queue /\ disposed' = disposed
<1>1. Q!Return(t)
  BY DEF Q!Return2
<1>2. QED
  BY <1>1, ReturnEffect DEF IInv, QueueTypes, CallInv, CallOk

LEMMA RoleStep == IInv /\ [Next]_vars => RoleInv'
<1> SUFFICES ASSUME IInv, [Next]_vars PROVE RoleInv'
  OBVIOUS
<1> USE Groups, PushIsNoPop DEF RoleInv
<1>0. Owner \in Threads \ Workers /\ OpsOf[Owner] = {"dispose"} /\ RoleInv
  BY PoolAssumption DEF IInv
<1>1. worker \in [Workers -> {"loop", "job", "left", "panicked", "disposing", "joining"}]
  BY DEF IInv, TypeOK
<1>2. ASSUME NEW t \in Threads, Q!Call2(t)
      PROVE  op'[t] \in OpsOf[t] /\ \A u \in Threads \ {t} : op'[u] = op[u]
  BY <1>2, CallMoves
<1>3. ASSUME NEW t \in Threads, Q!Return2(t)
      PROVE  op'[t] = "none" /\ \A u \in Threads \ {t} : op'[u] = op[u]
  BY <1>3, ReturnMoves
\* A step that concerns one worker, and one that concerns no worker.
<1>4. ASSUME NEW w \in Workers, \A u \in Threads \ {w} : op'[u] = op[u],
             \A v \in Workers \ {w} : worker'[v] = worker[v], owner' = owner,
             WorkerRole(w)'
      PROVE  RoleInv'
  <2>1. \A v \in Workers \ {w} : WorkerRole(v)'
    BY <1>0, <1>4 DEF WorkerRole
  <2>2. QED
    BY <1>0, <1>4, <2>1
<1>5. ASSUME NEW t \in Threads \ Workers, \A u \in Threads \ {t} : op'[u] = op[u],
             worker' = worker, op'[t] \in PushOps \cup {"dispose", "none"},
             op'[Owner] \in {"dispose", "none"} /\ (op'[Owner] = "dispose" => owner' = "disposing")
      PROVE  RoleInv'
  <2>1. \A v \in Workers : WorkerRole(v)'
    BY <1>0, <1>5 DEF WorkerRole
  <2>2. QED
    BY <1>0, <1>5, <2>1
<1>6. ASSUME op' = op, worker' = worker, owner' = owner \/ op[Owner] = "none" PROVE RoleInv'
  BY <1>0, <1>6 DEF WorkerRole
<1>7. CASE UNCHANGED vars
  BY <1>6, <1>7 DEF vars, pool, jobQueue
<1>8. ASSUME NEW t \in Threads, QueueStep(t) PROVE RoleInv'
  BY <1>6, <1>8, QueueEffect
<1>9. CASE DropNotLast \/ Closed
  <2>1. op[Owner] = "none"
    BY <1>0, <1>9 DEF DropNotLast, Closed
  <2>2. QED
    BY <1>6, <1>9, <2>1 DEF DropNotLast, Closed, jobQueue
<1>10. CASE DropLast
  <2>1. op'[Owner] = "dispose" /\ \A u \in Threads \ {Owner} : op'[u] = op[u]
    BY <1>0, <1>2, <1>10 DEF DropLast
  <2>2. QED
    BY <1>0, <1>5, <1>10, <2>1 DEF DropLast
<1>11. ASSUME NEW t \in Clients \cup Outsiders, Submit(t) \/ OutsiderCalls(t) \/ OutsiderReturns(t)
       PROVE  RoleInv'
  <2>1. t \in Threads \ (Workers \cup {Owner})
    BY PoolAssumption DEF Outsiders
  <2>2. /\ worker' = worker /\ owner' = owner
        /\ op'[t] \in PushOps \cup {"dispose", "none"} /\ \A u \in Threads \ {t} : op'[u] = op[u]
    BY <1>2, <1>3, <1>11, <2>1 DEF Submit, OutsiderCalls, OutsiderReturns, pool
  <2>3. QED
    BY <1>0, <1>5, <2>1, <2>2
<1>12. ASSUME NEW t \in Threads, Submitted(t) PROVE RoleInv'
  <2>1. /\ worker' = worker /\ owner' = owner /\ op[t] = "push"
        /\ op'[t] = "none" /\ \A u \in Threads \ {t} : op'[u] = op[u]
    BY <1>3, <1>12 DEF Submitted
  <2>2. CASE t \in Workers
    <3>1. WorkerRole(t)'
      BY <1>0, <2>1, <2>2 DEF WorkerRole
    <3>2. QED
      BY <1>4, <2>1, <2>2, <3>1
  <2>3. CASE t \notin Workers
    BY <1>0, <1>5, <2>1, <2>3
  <2>4. QED
    BY <2>2, <2>3
<1>13. ASSUME NEW t \in Threads, Disposed(t) PROVE RoleInv'
  <2>1. op'[t] = "none" /\ \A u \in Threads \ {t} : op'[u] = op[u]
    BY <1>3, <1>13 DEF Disposed
  <2>2. CASE t = Owner /\ worker' = worker
    BY <1>0, <1>5, <2>1, <2>2
  <2>3. CASE t \in Workers /\ worker' = [worker EXCEPT ![t] = "joining"] /\ owner' = owner
    <3>1. worker'[t] = "joining" /\ \A v \in Workers \ {t} : worker'[v] = worker[v]
      BY <1>1, <2>3
    <3>2. WorkerRole(t)'
      BY <2>1, <3>1 DEF WorkerRole
    <3>3. QED
      BY <1>4, <2>1, <2>3, <3>1, <3>2
  <2>4. QED
    BY <1>13, <2>2, <2>3 DEF Disposed
<1>14. ASSUME NEW w \in Workers, WorkerPops(w) \/ SubmitNested(w) \/ JobDropsLast(w) PROVE RoleInv'
  <2>1. owner' = owner /\ \A u \in Threads \ {w} : op'[u] = op[u]
    BY <1>2, <1>14 DEF WorkerPops, SubmitNested, JobDropsLast, Calls, pool
  <2>2. \A v \in Workers \ {w} : worker'[v] = worker[v]
    BY <1>1, <1>14 DEF WorkerPops, SubmitNested, JobDropsLast, pool
  <2>3. \/ worker'[w] = "loop" /\ op'[w] = "pop"
        \/ worker'[w] = "job" /\ op'[w] = "push"
        \/ worker'[w] = "disposing" /\ op'[w] = "dispose"
    BY <1>1, <1>14 DEF WorkerPops, SubmitNested, JobDropsLast, Calls, pool
  <2>4. WorkerRole(w)'
    BY <2>3 DEF WorkerRole
  <2>5. QED
    BY <1>4, <2>1, <2>2, <2>4
<1>15. ASSUME NEW w \in Workers, WorkerGot(w) PROVE RoleInv'
  <2>1. op'[w] = "none" /\ \A u \in Threads \ {w} : op'[u] = op[u]
    BY <1>3, <1>15 DEF WorkerGot
  <2>2. owner' = owner /\ \A v \in Workers \ {w} : worker'[v] = worker[v]
    BY <1>1, <1>15 DEF WorkerGot
  <2>3. worker'[w] \in {"job", "left"}
    BY <1>1, <1>15 DEF WorkerGot
  <2>4. WorkerRole(w)'
    BY <2>1, <2>3 DEF WorkerRole
  <2>5. QED
    BY <1>4, <2>1, <2>2, <2>4
<1>16. ASSUME NEW w \in Workers, JobReturns(w) \/ JobPanics(w) \/ JoinSelf(w) PROVE RoleInv'
  <2>1. op' = op /\ owner' = owner /\ op[w] = "none"
    BY <1>0, <1>16 DEF JobReturns, JobPanics, JobOver, JoinSelf, jobQueue, WorkerRole
  <2>2. worker'[w] \in {"loop", "panicked"} /\ \A v \in Workers \ {w} : worker'[v] = worker[v]
    BY <1>1, <1>16 DEF JobReturns, JobPanics, JobOver, JoinSelf
  <2>3. WorkerRole(w)'
    BY <2>1, <2>2 DEF WorkerRole
  <2>4. QED
    BY <1>4, <2>1, <2>2, <2>3
<1>17. ASSUME NEW w \in Workers, Join(w) PROVE RoleInv'
  BY <1>6, <1>17 DEF Join, jobQueue
<1>18. QED
  BY <1>7, <1>8, <1>9, <1>10, <1>11, <1>12, <1>13, <1>14, <1>15, <1>16, <1>17
     DEF Next, WorkerStep, ClientStep, OutsiderStep, OwnerStep

\* What a disposed queue holds came late, once it did.
LEMMA LateStands ==
  ASSUME IInv, NEW t \in Threads, QueueStep(t)
  PROVE  /\ disposed => disposed'
         /\ disposed /\ Range(queue) \subseteq late => Range(queue') \subseteq late'
<1> USE DEF IInv
<1>1. CASE PushEffect(t)
  <2>1. PICK i \in Items : /\ carry[t] = <<i>> /\ queue' = queue \o <<i>>
                           /\ late' = IF disposed THEN late \cup {i} ELSE late
    BY <1>1 DEF PushEffect
  <2>2. Range(queue') \subseteq Range(queue) \cup {i}
    BY <2>1 DEF QueueTypes, Range
  <2>3. QED
    BY <1>1, <2>1, <2>2 DEF PushEffect
<1>2. CASE PopEffect(t)
  <2>1. Range(queue') \subseteq Range(queue)
    BY <1>2, RangeHeadTail DEF PopEffect, QueueTypes
  <2>2. QED
    BY <1>2, <2>1 DEF PopEffect
<1>3. CASE LookEffect(t) \/ RefuseEffect(t) \/ DisposeEffect(t)
  BY <1>3 DEF LookEffect, RefuseEffect, DisposeEffect
<1>4. QED
  BY <1>1, <1>2, <1>3, QueueEffect

LEMMA CallInvStep == IInv /\ [Next]_vars => CallInv'
<1> SUFFICES ASSUME IInv, [Next]_vars PROVE CallInv'
  OBVIOUS
<1> USE PushIsNoPop DEF IInv
<1>1. CASE UNCHANGED <<jobQueue, entries>>
  BY <1>1 DEF jobQueue, entries, CallInv, CallOk
<1>2. ASSUME NEW t \in Threads, CallStep(t) \/ ReturnStep(t) \/ QueueStep(t) PROVE CallInv'
  <2>0. \A u \in Threads \ {t} : op'[u] = op[u] /\ carry'[u] = carry[u] /\ ret'[u] = ret[u]
    BY <1>2, OthersStand
  <2>1. CASE CallStep(t)
    <3>1. PICK o \in OpsOf[t] : /\ op'[t] = o /\ ret' = ret
                                /\ UNCHANGED <<queue, disposed, late>>
                                /\ \/ o \in PushOps /\ \E i \in hand : carry'[t] = <<i>>
                                   \/ o \notin PushOps /\ carry' = carry
      BY <2>1, CallEffect DEF CallStep, QueueTypes, entries
    <3>2. op[t] = "none" /\ ret[t] = "none" /\ carry[t] = <<>> /\ hand \subseteq Items
      BY <2>1, CallEffect DEF CallStep, CallInv, CallOk, QueueTypes
    <3>3. QED
      BY <2>0, <3>1, <3>2 DEF CallInv, CallOk
  <2>2. CASE ReturnStep(t)
    <3>1. /\ op'[t] = "none" /\ carry'[t] = <<>> /\ ret'[t] = "none"
          /\ UNCHANGED <<queue, disposed, late>>
      BY <2>2, ReturnEffect DEF ReturnStep, QueueTypes, entries
    <3>2. QED
      BY <2>0, <3>1 DEF CallInv, CallOk
  <2>3. CASE QueueStep(t)
    <3>1. /\ op' = op /\ (disposed => disposed')
          /\ disposed /\ Range(queue) \subseteq late => Range(queue') \subseteq late'
      BY <2>3, QueueEffect, LateStands
    <3>o. \A u \in Threads \ {t} : CallOk(u)'
      BY <2>0, <3>1 DEF CallInv, CallOk
    <3>t. CallOk(t)
      BY DEF CallInv
    <3>2. CASE PushEffect(t)
      <4>1. op[t] \in PushOps /\ carry'[t] = <<>> /\ ret'[t] = "ok"
        BY <3>2 DEF PushEffect, QueueTypes
      <4>2. QED
        BY <3>o, <3>t, <3>1, <4>1 DEF CallInv, CallOk
    <3>3. CASE RefuseEffect(t)
      <4>1. /\ op[t] \in PushOps \/ (op[t] = "pop" /\ disposed /\ Range(queue) \subseteq late)
            /\ ret[t] = "none" /\ carry' = carry
        <5>1. queue = <<>> => Range(queue) \subseteq late
          BY EmptyRange
        <5>2. QED
          BY <3>3, <5>1 DEF RefuseEffect
      <4>2. ret'[t] \notin {"none", "ok"}
        BY <3>3 DEF RefuseEffect, QueueTypes
      <4>3. QED
        BY <3>o, <3>t, <3>1, <4>1, <4>2 DEF CallInv, CallOk
    <3>4. CASE PopEffect(t)
      <4>1. Head(queue) \in Items
        BY <3>4, HeadTailProperties DEF PopEffect, QueueTypes
      <4>2. op[t] = "pop" /\ carry'[t] = <<Head(queue)>> /\ ret'[t] = "ok"
        BY <3>4 DEF PopEffect, QueueTypes
      <4>3. QED
        BY <3>o, <3>t, <3>1, <4>1, <4>2 DEF CallInv, CallOk
    <3>5. CASE DisposeEffect(t)
      <4>1. op[t] = "dispose" /\ disposed' /\ carry' = carry /\ ret'[t] = "ok"
        BY <3>5 DEF DisposeEffect, QueueTypes
      <4>2. QED
        BY <3>o, <3>t, <3>1, <4>1 DEF CallInv, CallOk
    <3>6. CASE LookEffect(t)
      <4>1. carry' = carry /\ ret' = ret
        BY <3>6 DEF LookEffect
      <4>2. QED
        BY <3>o, <3>t, <3>1, <4>1 DEF CallInv, CallOk
    <3>7. QED
      BY <2>3, <3>2, <3>3, <3>4, <3>5, <3>6, QueueEffect
  <2>4. QED
    BY <1>2, <2>1, <2>2, <2>3
<1>3. QED
  BY <1>1, <1>2, Shapes DEF OverStep, IdleStep

\* The room that an admitted push has seen is not taken by another push.
LEMMA SeenStep == IInv /\ [Next]_vars => SeenInv' /\ LateInv'
<1> SUFFICES ASSUME IInv, [Next]_vars PROVE SeenInv' /\ LateInv'
  OBVIOUS
<1> USE PushIsNoPop DEF IInv
<1>1. CASE UNCHANGED <<jobQueue, entries>>
  BY <1>1 DEF jobQueue, entries, SeenInv, LateInv, Q!IsFull, Q!Capacity
<1>2. ASSUME NEW t \in Threads, CallStep(t) \/ ReturnStep(t) PROVE SeenInv' /\ LateInv'
  <2>1. seen[t] # "open"
    BY <1>2, CallEffect, ReturnEffect DEF CallStep, ReturnStep, CallInv, CallOk, SeenInv
  <2>2. /\ \A u \in Threads \ {t} : op'[u] = op[u] /\ ret'[u] = ret[u]
        /\ UNCHANGED <<queue, disposed, seen, late>>
    BY <1>2, CallEffect, ReturnEffect, OthersStand DEF CallStep, ReturnStep, entries
  <2>3. QED
    BY <2>1, <2>2 DEF SeenInv, LateInv, Q!IsFull, Q!Capacity
<1>3. ASSUME NEW t \in Threads, QueueStep(t) PROVE SeenInv' /\ LateInv'
  <2>0. /\ op' = op
        /\ \A u \in Threads \ {t} : ret'[u] = ret[u] /\ seen'[u] = seen[u]
    BY <1>3, QueueEffect, OthersStand
  <2>1. CASE LookEffect(t)
    <3>1. /\ op[t] \in PushOps /\ ret[t] = "none" /\ ~disposed
          /\ op[t] = "try_push" \/ ~Q!IsFull
          /\ UNCHANGED <<queue, disposed, ret, late>>
      BY <2>1 DEF LookEffect
    <3>2. \A u \in Threads : seen[u] # "open"
      BY <2>1 DEF LookEffect, NoneAdmitted, SeenInv
    <3>3. QED
      BY <2>0, <3>1, <3>2 DEF SeenInv, LateInv, Q!IsFull, Q!Capacity
  <2>2. CASE PushEffect(t)
    <3>1. PICK i \in Items : late' = IF disposed THEN late \cup {i} ELSE late
      BY <2>2 DEF PushEffect
    <3>2. \A u \in Threads \ {t} : seen[u] # "open"
      BY <2>2 DEF PushEffect, NoneAdmitted, SeenInv
    <3>3. seen'[t] = "nothing" /\ disposed' = disposed /\ (disposed => seen[t] = "open")
      BY <2>2 DEF PushEffect, QueueTypes
    <3>4. \A u \in Threads : seen'[u] # "open"
      BY <2>0, <3>2, <3>3
    <3>5. disposed => late = {}
      BY <3>3 DEF LateInv
    <3>6. QED
      BY <3>1, <3>3, <3>4, <3>5 DEF SeenInv, LateInv
  <2>3. CASE RefuseEffect(t)
    <3>1. seen'[t] = "nothing" /\ UNCHANGED <<queue, disposed, late>>
      BY <2>3 DEF RefuseEffect, QueueTypes
    <3>2. QED
      BY <2>0, <3>1 DEF SeenInv, LateInv, Q!IsFull, Q!Capacity
  <2>4. CASE PopEffect(t) \/ DisposeEffect(t)
    <3>1. op[t] \notin PushOps /\ UNCHANGED <<seen, late>> /\ (disposed => disposed')
      BY <2>4 DEF PopEffect, DisposeEffect
    <3>2. Len(queue') <= Len(queue) /\ Len(queue) \in Nat /\ Len(queue') \in Nat
      BY <2>4, HeadTailProperties DEF PopEffect, DisposeEffect, QueueTypes
    <3>3. ~Q!IsFull => ~Q!IsFull'
      BY <3>2, CapacityIsNat DEF Q!IsFull, Q!Capacity, Capacity
    <3>4. QED
      BY <2>0, <3>1, <3>3 DEF SeenInv, LateInv
  <2>5. QED
    BY <1>3, <2>1, <2>2, <2>3, <2>4, QueueEffect
<1>4. QED
  BY <1>1, <1>2, <1>3, Shapes DEF OverStep, IdleStep

-----------------------------------------------------------------------------
(* Where workers leave *)

LEMMA EndStep == IInv /\ [Next]_vars => EndInv'
<1> SUFFICES ASSUME IInv, [Next]_vars PROVE EndInv'
  OBVIOUS
<1> USE Groups, PushIsNoPop DEF IInv, TypeOK, EndInv
<1>0. CASE UNCHANGED vars
  BY <1>0 DEF vars, pool, jobQueue, entries
<1>1. ASSUME NEW t \in Threads, QueueStep(t) PROVE EndInv'
  <2>1. /\ disposed => disposed'
        /\ disposed /\ Range(queue) \subseteq late => Range(queue') \subseteq late'
    BY <1>1, LateStands
  <2>2. worker' = worker /\ handles' = handles /\ owner' = owner
    BY <1>1, QueueEffect
  <2>3. QED
    BY <2>1, <2>2
<1>2. ASSUME NEW t \in Threads, Q!Call2(t) \/ Q!Return2(t) PROVE queue' = queue /\ disposed' = disposed
  BY <1>2, CallEffect, ReturnEffect DEF Q!Call2, Q!Return2
<1>3. CASE DropLast \/ DropNotLast \/ Closed
  BY <1>2, <1>3 DEF DropLast, DropNotLast, Closed, jobQueue, entries
<1>4. ASSUME NEW t \in Threads, Submit(t) \/ OutsiderCalls(t) \/ OutsiderReturns(t) \/ Submitted(t)
      PROVE  EndInv'
  BY <1>2, <1>4 DEF Submit, OutsiderCalls, OutsiderReturns, Submitted, pool, entries
<1>5. ASSUME NEW t \in Threads, Disposed(t), t = Owner \/ t \in Workers PROVE EndInv'
  <2>1. queue' = queue /\ disposed' = disposed /\ late' = late
    BY <1>2, <1>5 DEF Disposed, entries
  <2>2. CASE t \in Workers /\ worker[t] = "disposing" /\ worker' = [worker EXCEPT ![t] = "joining"]
             /\ owner' = owner
    BY <1>5, <2>1, <2>2 DEF Disposed
  <2>3. CASE t = Owner /\ owner' = "joining" /\ worker' = worker
    <3>1. ret[Owner] # "none"
      BY <1>5, <2>3, ReturnEffect DEF Disposed, Q!Return2
    <3>2. op[Owner] = "dispose"
      BY <3>1 DEF RoleInv, WorkerRole, CallInv, CallOk
    <3>3. disposed /\ owner = "disposing"
      BY <3>1, <3>2 DEF RoleInv, WorkerRole, CallInv, CallOk
    <3>4. QED
      BY <1>5, <2>1, <2>3, <3>3 DEF Disposed
  <2>4. QED
    BY <1>5, <2>2, <2>3 DEF Disposed
<1>6. ASSUME NEW w \in Workers, WorkerPops(w) \/ SubmitNested(w) PROVE EndInv'
  BY <1>2, <1>6 DEF WorkerPops, SubmitNested, Calls, pool, entries
<1>7. ASSUME NEW w \in Workers, WorkerGot(w) PROVE EndInv'
  <2>1. ret[w] # "ok" => disposed /\ Range(queue) \subseteq late
    <3>1. ret[w] # "none"
      BY <1>7, ReturnEffect DEF WorkerGot, Q!Return2
    <3>2. op[w] = "pop"
      BY <1>7, <3>1 DEF WorkerGot, RoleInv, WorkerRole, CallInv, CallOk
    <3>3. QED
      BY <3>1, <3>2 DEF CallInv, CallOk
  <2>2. queue' = queue /\ disposed' = disposed /\ late' = late
    BY <1>2, <1>7 DEF WorkerGot, entries
  <2>3. QED
    BY <1>7, <2>1, <2>2 DEF WorkerGot
<1>8. ASSUME NEW w \in Workers, JobReturns(w) \/ JobPanics(w) \/ Join(w) PROVE EndInv'
  BY <1>8 DEF JobReturns, JobPanics, JobOver, Join, jobQueue, entries
<1>9. ASSUME NEW w \in Workers, JoinSelf(w) PROVE EndInv'
  BY <1>9 DEF JoinSelf, jobQueue, entries
<1>10. ASSUME NEW w \in Workers, JobDropsLast(w) PROVE EndInv'
  BY <1>2, <1>10 DEF JobDropsLast, Calls, DropsLast, entries
<1>11. QED
  BY <1>0, <1>1, <1>3, <1>4, <1>5, <1>6, <1>7, <1>8, <1>9, <1>10
     DEF Next, WorkerStep, ClientStep, OutsiderStep, OwnerStep

-----------------------------------------------------------------------------
(* Jobs *)

\* A job enters the hands of a call, or leaves them.
LEMMA ApartStep == IInv /\ [Next]_vars => Apart'
<1> SUFFICES ASSUME IInv, [Next]_vars PROVE Apart'
  OBVIOUS
<1> USE DEF IInv
<1>1. CASE IdleStep
  BY <1>1 DEF IdleStep, jobQueue, Apart, Spent
<1>2. ASSUME NEW w \in Workers, OverStep(w) PROVE Apart'
  <2>1. /\ running'[w] = NoJob /\ \A v \in Workers \ {w} : running'[v] = running[v]
        /\ ended' = ended \cup {running[w]} /\ dropped' = dropped
        /\ UNCHANGED <<queue, hand, carry>> /\ running[w] # NoJob
    BY <1>2 DEF OverStep, jobQueue, TypeOK
  <2>2. Spent' \subseteq Spent \cup {NoJob}
    <3>1. DOMAIN running = Workers /\ DOMAIN running' = Workers
      BY <1>2 DEF OverStep, TypeOK
    <3>2. Range(running') \subseteq Range(running) \cup {NoJob} /\ running[w] \in Range(running)
      BY <2>1, <3>1 DEF Range
    <3>3. QED
      BY <2>1, <3>2 DEF Spent
  <2>3. NoJob \notin Range(queue) \cup ended /\ \A t \in Threads : NoJob \notin Range(carry[t])
    BY NoJobIsNone DEF Range, QueueTypes, TypeOK
  <2>4. /\ IsInjective(queue') /\ Range(queue') \cap (hand' \cup Spent') = {}
        /\ \A t \in Threads :
             /\ Range(carry'[t]) \cap (Range(queue') \cup hand' \cup Spent') = {}
             /\ \A u \in Threads \ {t} : Range(carry'[t]) \cap Range(carry'[u]) = {}
    BY <2>1, <2>2, <2>3 DEF Apart
  <2>5. ASSUME NEW v \in Workers
        PROVE  /\ running'[v] \notin ended'
               /\ \A u \in Workers \ {v} : running'[v] = running'[u] => running'[v] = NoJob
    BY <2>1, <2>3 DEF Apart
  <2>6. QED
    BY <2>4, <2>5 DEF Apart
<1>3. ASSUME NEW t \in Threads, CallStep(t) PROVE Apart'
  <2>1. /\ \A u \in Threads \ {t} : carry'[u] = carry[u]
        /\ queue' = queue /\ Spent' = Spent /\ running' = running /\ ended' = ended
    BY <1>3, CallEffect, OthersStand DEF CallStep, Spent
  <2>2. CASE hand' = hand /\ carry' = carry
    BY <2>1, <2>2 DEF Apart
  <2>3. CASE \E i \in hand : hand' = hand \ {i} /\ carry' = [carry EXCEPT ![t] = <<i>>]
    <3>1. PICK i \in hand : hand' = hand \ {i} /\ carry'[t] = <<i>>
      BY <2>3 DEF QueueTypes
    <3>2. Range(carry'[t]) = {i}
      BY <3>1, SingleRange
    <3>3. i \notin Spent
      <4>1. Range(carry[t]) # {i}
        BY <3>1 DEF Apart
      <4>2. op'[t] \in OpsOf[t] \cap PushOps
        BY <1>3, <3>2, <4>1, CallEffect DEF CallStep, QueueTypes
      <4>3. op'[t] = "push" \/ t \in Outsiders
        BY <4>2, PoolAssumption DEF Outsiders, PushOps
      <4>4. QED
        BY <1>3, <3>2, <4>3 DEF CallStep
    <3>4. \A u \in Threads \ {t} : i \notin Range(carry[u])
      BY DEF Apart
    <3>5. QED
      BY <2>1, <3>1, <3>2, <3>3, <3>4 DEF Apart
  <2>4. QED
    BY <1>3, <2>2, <2>3, CallEffect DEF CallStep
<1>4. ASSUME NEW t \in Threads, ReturnStep(t) PROVE Apart'
  <2>1. /\ hand' = hand \cup Range(carry[t]) /\ queue' = queue
        /\ \A u \in Threads \ {t} : carry'[u] = carry[u]
        /\ carry'[t] = <<>> /\ ended' = ended
    BY <1>4, ReturnEffect, OthersStand DEF ReturnStep, QueueTypes
  <2>2. Range(carry'[t]) = {}
    BY <2>1, EmptyRange
  <2>3. Spent' \subseteq Spent \cup Range(carry[t])
    <3>1. CASE running' = running
      BY <1>4, <2>1, <3>1 DEF ReturnStep, Spent
    <3>2. CASE t \in Workers /\ dropped' = dropped /\ running' = [running EXCEPT ![t] = Head(carry[t])]
               /\ ret[t] = "ok" /\ worker[t] = "loop"
      <4>1. PICK i \in Items : carry[t] = <<i>>
        BY <1>4, <3>2, ReturnEffect DEF ReturnStep, CallInv, CallOk, RoleInv, WorkerRole
      <4>2. Range(carry[t]) = {i} /\ Head(carry[t]) = i
        BY <4>1, SingleRange
      <4>3. Range(running') \subseteq Range(running) \cup {i}
        BY <3>2, <4>2 DEF TypeOK, Range
      <4>4. QED
        BY <2>1, <3>2, <4>2, <4>3 DEF Spent
    <3>3. QED
      BY <1>4, <3>1, <3>2 DEF ReturnStep
  <2>4. /\ IsInjective(queue') /\ Range(queue') \cap (hand' \cup Spent') = {}
        /\ \A u \in Threads : Range(carry'[u]) \cap (Range(queue') \cup hand' \cup Spent') = {}
    BY <2>1, <2>2, <2>3 DEF Apart
  <2>5. \A u \in Threads : \A v \in Threads \ {u} : Range(carry'[u]) \cap Range(carry'[v]) = {}
    BY <2>1, <2>2 DEF Apart
  <2>6. ASSUME NEW v \in Workers
        PROVE  /\ running'[v] \notin ended'
               /\ \A u \in Workers \ {v} : running'[v] = running'[u] => running'[v] = NoJob
    <3>1. CASE running' = running
      BY <2>1, <3>1 DEF Apart
    <3>2. CASE t \in Workers /\ running' = [running EXCEPT ![t] = Head(carry[t])]
               /\ ret[t] = "ok" /\ worker[t] = "loop"
      <4>1. PICK i \in Items : carry[t] = <<i>>
        BY <1>4, <3>2, ReturnEffect DEF ReturnStep, CallInv, CallOk, RoleInv, WorkerRole
      <4>2. Range(carry[t]) = {i} /\ Head(carry[t]) = i
        BY <4>1, SingleRange
      <4>3. i \notin Spent
        BY <4>2 DEF Apart
      <4>4. i \notin ended /\ \A u \in Workers : running[u] # i
        BY <4>3 DEF Spent, Range, TypeOK
      <4>5. running'[t] = i /\ \A u \in Workers \ {t} : running'[u] = running[u]
        BY <3>2, <4>2 DEF TypeOK
      <4>6. QED
        BY <2>1, <4>4, <4>5 DEF Apart
    <3>3. QED
      BY <1>4, <3>1, <3>2 DEF ReturnStep
  <2>7. QED
    BY <2>4, <2>5, <2>6 DEF Apart
<1>5. ASSUME NEW t \in Threads, QueueStep(t) PROVE Apart'
  <2>1. /\ \A u \in Threads \ {t} : carry'[u] = carry[u]
        /\ Spent' = Spent /\ running' = running /\ ended' = ended
    BY <1>5, QueueEffect, OthersStand DEF Spent
  <2>2. hand' = hand
    BY <1>5, QueueEffect DEF LookEffect, PushEffect, RefuseEffect, PopEffect, DisposeEffect
  <2>3. CASE queue' = queue /\ carry' = carry
    BY <2>1, <2>2, <2>3 DEF Apart
  <2>4. CASE PushEffect(t)
    <3>1. PICK i \in Items : carry[t] = <<i>> /\ queue' = queue \o <<i>>
      BY <2>4 DEF PushEffect
    <3>2. Range(carry[t]) = {i} /\ Range(carry'[t]) = {}
      BY <2>4, <3>1, SingleRange, EmptyRange DEF PushEffect, QueueTypes
    <3>3. i \notin Range(queue) \cup hand \cup Spent /\ \A u \in Threads \ {t} : i \notin Range(carry[u])
      BY <3>2 DEF Apart
    <3>4. IsInjective(queue') /\ Range(queue') = Range(queue) \cup {i}
      BY <3>1, <3>3, AppendKeepsInjective DEF QueueTypes, Apart
    <3>5. QED
      BY <2>1, <2>2, <3>2, <3>3, <3>4 DEF Apart
  <2>5. CASE PopEffect(t)
    <3>1. /\ queue # <<>> /\ queue' = Tail(queue) /\ carry'[t] = <<Head(queue)>>
      BY <2>5 DEF PopEffect, QueueTypes
    <3>2. Range(carry'[t]) = {Head(queue)}
      BY <3>1, SingleRange
    <3>3. IsInjective(queue') /\ Head(queue) \notin Range(queue')
      BY <3>1, TailInjective DEF QueueTypes, Apart
    <3>4. Range(queue) = Range(queue') \cup {Head(queue)}
      BY <3>1, RangeHeadTail DEF QueueTypes
    <3>5. QED
      BY <2>1, <2>2, <3>2, <3>3, <3>4 DEF Apart
  <2>6. QED
    BY <1>5, <2>3, <2>4, <2>5, QueueEffect DEF LookEffect, RefuseEffect, DisposeEffect
<1>6. QED
  BY <1>1, <1>2, <1>3, <1>4, <1>5, Shapes DEF OverStep

\* The jobs that a worker has in a pop, and the job it runs.
Taken(w) == IF op[w] = "pop" THEN Range(carry[w]) ELSE {}

LEMMA PoppedTaken == Popped = UNION {Taken(w) : w \in Workers}
BY DEF Popped, Taken

LEMMA RunningJobs ==
  ASSUME TypeOK
  PROVE  Range(running) \ {NoJob} = {running[w] : w \in Workers} \ {NoJob}
BY DEF TypeOK, Range

\* What is in the pool stays so when one worker passes a job on.
LEMMA Accounted ==
  ASSUME IInv, TypeOK', NEW t \in Workers,
         \A u \in Workers \ {t} : Taken(u)' = Taken(u) /\ running'[u] = running[u],
         accepted' = accepted, queue' = queue, ended \subseteq ended',
         Taken(t)' \cup ({running'[t]} \ {NoJob}) \cup ended'
           = Taken(t) \cup ({running[t]} \ {NoJob}) \cup ended
  PROVE  accepted' = Range(queue') \cup InFlight' \cup ended'
<1>1. Popped' = UNION {Taken(w)' : w \in Workers}
  BY DEF Popped, Taken
<1>2. Range(running') \ {NoJob} = {running'[w] : w \in Workers} \ {NoJob}
  BY DEF TypeOK, Range
<1>3. Popped' \cup (Range(running') \ {NoJob}) \cup ended'
        = Popped \cup (Range(running) \ {NoJob}) \cup ended
  <2>1. UNION {Taken(w) : w \in Workers} = Taken(t) \cup UNION {Taken(w) : w \in Workers \ {t}}
    OBVIOUS
  <2>2. UNION {Taken(w)' : w \in Workers} = Taken(t)' \cup UNION {Taken(w)' : w \in Workers \ {t}}
    OBVIOUS
  <2>3. UNION {Taken(w)' : w \in Workers \ {t}} = UNION {Taken(w) : w \in Workers \ {t}}
    OBVIOUS
  <2>4. {running[w] : w \in Workers} = {running[t]} \cup {running[w] : w \in Workers \ {t}}
    OBVIOUS
  <2>5. {running'[w] : w \in Workers} = {running'[t]} \cup {running'[w] : w \in Workers \ {t}}
    OBVIOUS
  <2>6. {running'[w] : w \in Workers \ {t}} = {running[w] : w \in Workers \ {t}}
    OBVIOUS
  <2>7. QED
    BY <1>1, <1>2, <2>1, <2>2, <2>3, <2>4, <2>5, <2>6, PoppedTaken, RunningJobs DEF IInv
<1>4. QED
  BY <1>3 DEF IInv, Account, InFlight

LEMMA AccountStep == IInv /\ TypeOK' /\ [Next]_vars => Account'
<1> SUFFICES ASSUME IInv, TypeOK', [Next]_vars PROVE Account'
  OBVIOUS
<1> USE DEF IInv
<1>1. CASE IdleStep
  BY <1>1 DEF IdleStep, jobQueue, entries, Account, InFlight, Popped
<1>2. ASSUME NEW w \in Workers, OverStep(w) PROVE Account'
  <2>1. /\ \A u \in Workers \ {w} : Taken(u)' = Taken(u) /\ running'[u] = running[u]
        /\ Taken(w)' = Taken(w) /\ running'[w] = NoJob /\ ended' = ended \cup {running[w]}
        /\ UNCHANGED <<queue, accepted, dropped>>
    BY <1>2 DEF OverStep, jobQueue, entries, TypeOK, Taken
  <2>2. running[w] # NoJob
    BY <1>2 DEF OverStep, TypeOK
  <2>3. accepted' = Range(queue') \cup InFlight' \cup ended'
    BY <2>1, <2>2, Accounted
  <2>4. QED
    BY <2>1, <2>3 DEF Account
<1>3. ASSUME NEW t \in Threads, CallStep(t) PROVE Account'
  <2>1. carry[t] = <<>> /\ op[t] = "none"
    BY <1>3, CallEffect, PushIsNoPop DEF CallStep, CallInv, CallOk
  <2>2. /\ queue' = queue
        /\ UNCHANGED <<accepted, running, ended, dropped>>
        /\ \A u \in Threads \ {t} : op'[u] = op[u] /\ carry'[u] = carry[u]
    BY <1>3, CallEffect, OthersStand DEF CallStep, entries
  <2>3. op'[t] = "pop" => carry'[t] = <<>>
    <3>1. PICK o \in OpsOf[t] : /\ op' = [op EXCEPT ![t] = o]
                                /\ o \in PushOps \/ carry' = carry
      BY <1>3, CallEffect DEF CallStep
    <3>2. op'[t] = o
      BY <3>1 DEF QueueTypes
    <3>3. QED
      BY <2>1, <3>1, <3>2, PushIsNoPop
  <2>4. \A w \in Workers : Taken(w)' = Taken(w)
    BY <2>1, <2>2, <2>3, EmptyRange, Groups DEF Taken
  <2>5. Popped' = Popped
    BY <2>4 DEF Popped, Taken
  <2>6. QED
    BY <2>2, <2>5 DEF Account, InFlight
<1>4. ASSUME NEW t \in Threads, ReturnStep(t) PROVE Account'
  <2>1. /\ queue' = queue /\ accepted' = accepted /\ ended' = ended
        /\ \A u \in Threads \ {t} : op'[u] = op[u] /\ carry'[u] = carry[u]
        /\ op'[t] = "none"
    BY <1>4, ReturnEffect, OthersStand DEF ReturnStep, QueueTypes, entries
  <2>2. \A u \in Workers \ {t} : Taken(u)' = Taken(u)
    BY <2>1, Groups DEF Taken
  <2>3. Taken(t)' = {}
    BY <2>1 DEF Taken
  <2>4. CASE op[t] # "pop" /\ running' = running
    <3>1. \A w \in Workers : Taken(w)' = Taken(w)
      BY <2>2, <2>3, <2>4 DEF Taken
    <3>2. Popped' = Popped
      BY <3>1 DEF Popped, Taken
    <3>3. accepted \cap dropped' = {}
      <4>1. CASE dropped' = dropped
        BY <4>1 DEF Account
      <4>2. CASE dropped' = dropped \cup Range(carry[t])
        <5>1. Range(carry[t]) \cap (Range(queue) \cup Spent) = {}
          BY DEF Apart
        <5>2. Range(carry[t]) \cap Popped = {}
          BY <2>4, Groups DEF Apart, Popped
        <5>3. QED
          BY <4>2, <5>1, <5>2 DEF Account, InFlight, Spent
      <4>3. QED
        BY <1>4, <2>4, <4>1, <4>2 DEF ReturnStep
    <3>4. QED
      BY <2>1, <2>4, <3>2, <3>3 DEF Account, InFlight
  <2>5. CASE t \in Workers /\ worker[t] = "loop" /\ dropped' = dropped
    <3>1. op[t] = "pop" /\ running[t] = NoJob
      BY <1>4, <2>5, ReturnEffect DEF ReturnStep, RoleInv, WorkerRole, CallInv, CallOk, TypeOK
    <3>2. CASE ret[t] = "ok" /\ running' = [running EXCEPT ![t] = Head(carry[t])]
      <4>1. PICK i \in Items : carry[t] = <<i>>
        BY <3>1, <3>2 DEF CallInv, CallOk
      <4>2. Taken(t) = {i} /\ Head(carry[t]) = i /\ i # NoJob
        BY <3>1, <4>1, SingleRange, NoJobIsNone DEF Taken
      <4>3. running'[t] = i /\ \A u \in Workers \ {t} : running'[u] = running[u]
        BY <2>5, <3>2, <4>2 DEF TypeOK
      <4>4. Taken(t)' \cup ({running'[t]} \ {NoJob}) \cup ended'
              = Taken(t) \cup ({running[t]} \ {NoJob}) \cup ended
        BY <2>1, <2>3, <3>1, <4>2, <4>3
      <4>5. accepted' = Range(queue') \cup InFlight' \cup ended'
        BY <2>1, <2>2, <2>5, <4>3, <4>4, Accounted
      <4>6. QED
        BY <2>1, <2>5, <4>5 DEF Account
    <3>3. CASE ret[t] # "ok" /\ running' = running
      <4>1. Taken(t) = {}
        BY <3>1, <3>3, EmptyRange, PushIsNoPop DEF CallInv, CallOk, Taken
      <4>2. accepted' = Range(queue') \cup InFlight' \cup ended'
        BY <2>1, <2>2, <2>3, <2>5, <3>3, <4>1, Accounted
      <4>3. QED
        BY <2>1, <2>5, <4>2 DEF Account
    <3>4. QED
      BY <1>4, <2>5, <3>1, <3>2, <3>3 DEF ReturnStep
  <2>6. QED
    BY <1>4, <2>4, <2>5 DEF ReturnStep
<1>5. ASSUME NEW t \in Threads, QueueStep(t) PROVE Account'
  <2>1. /\ op' = op /\ running' = running /\ ended' = ended /\ dropped' = dropped
        /\ \A u \in Threads \ {t} : carry'[u] = carry[u]
    BY <1>5, QueueEffect, OthersStand
  <2>2. CASE UNCHANGED <<queue, carry, accepted>>
    BY <2>1, <2>2 DEF Account, InFlight, Popped
  <2>3. CASE PushEffect(t)
    <3>1. PICK i \in Items : /\ carry[t] = <<i>> /\ queue' = queue \o <<i>>
                             /\ accepted' = accepted \cup {i}
      BY <2>3 DEF PushEffect
    <3>2. Range(carry[t]) = {i}
      BY <3>1, SingleRange
    <3>3. i \notin Range(queue) \cup Spent
      BY <3>2 DEF Apart
    <3>4. Range(queue') = Range(queue) \cup {i}
      BY <3>1, <3>3, AppendKeepsInjective DEF QueueTypes, Apart
    <3>5. \A w \in Workers : Taken(w)' = Taken(w)
      BY <2>1, <2>3, Groups, PushIsNoPop DEF PushEffect, Taken
    <3>6. Popped' = Popped
      BY <3>5 DEF Popped, Taken
    <3>7. QED
      BY <2>1, <3>1, <3>3, <3>4, <3>6 DEF Account, InFlight, Spent
  <2>4. CASE PopEffect(t)
    <3>1. /\ op[t] = "pop" /\ ret[t] = "none" /\ queue # <<>> /\ queue' = Tail(queue)
          /\ carry'[t] = <<Head(queue)>> /\ accepted' = accepted
      BY <2>4 DEF PopEffect, QueueTypes
    <3>2. t \in Workers
      BY <3>1, Methods
    <3>3. Range(carry'[t]) = {Head(queue)} /\ Range(carry[t]) = {}
      BY <3>1, SingleRange, EmptyRange, PushIsNoPop DEF CallInv, CallOk
    <3>4. Range(queue) = Range(queue') \cup {Head(queue)}
      BY <3>1, RangeHeadTail DEF QueueTypes
    <3>5. Taken(t)' = {Head(queue)} /\ Taken(t) = {} /\ \A w \in Workers \ {t} : Taken(w)' = Taken(w)
      BY <2>1, <3>1, <3>3, Groups DEF Taken
    <3>6. Popped' = Popped \cup {Head(queue)}
      <4>1. Popped' = UNION {Taken(w)' : w \in Workers}
        BY DEF Popped, Taken
      <4>2. UNION {Taken(w)' : w \in Workers} = Taken(t)' \cup UNION {Taken(w)' : w \in Workers \ {t}}
        BY <3>2
      <4>3. UNION {Taken(w) : w \in Workers} = Taken(t) \cup UNION {Taken(w) : w \in Workers \ {t}}
        BY <3>2
      <4>4. UNION {Taken(w)' : w \in Workers \ {t}} = UNION {Taken(w) : w \in Workers \ {t}}
        BY <3>5
      <4>5. QED
        BY <3>5, <4>1, <4>2, <4>3, <4>4, PoppedTaken
    <3>7. QED
      BY <2>1, <3>1, <3>4, <3>6 DEF Account, InFlight
  <2>5. QED
    BY <1>5, <2>2, <2>3, <2>4, QueueEffect DEF LookEffect, RefuseEffect, DisposeEffect
<1>6. QED
  BY <1>1, <1>2, <1>3, <1>4, <1>5, Shapes DEF OverStep

-----------------------------------------------------------------------------
(* The theorems *)

LEMMA Inductive == Spec => []IInv
<1>1. IInv /\ [Next]_vars => IInv'
  BY TypeStep, QueueTypesStep, RoleStep, CallInvStep, SeenStep, ApartStep, AccountStep, EndStep
     DEF IInv
<1>2. QED
  BY <1>1, InitIInv, PTL DEF Spec

\* Every variable keeps its type, and a worker has a job exactly while it runs
\* one.
THEOREM TypeCorrect == Spec => []TypeOK
<1>1. IInv => TypeOK
  BY DEF IInv
<1>2. QED
  BY <1>1, Inductive, PTL

LEMMA Kept == IInv => JobsKept
<1> SUFFICES ASSUME IInv PROVE JobsKept
  OBVIOUS
<1> USE DEF IInv
<1>1. Range(running) \ {NoJob} = {running[w] : w \in Workers} \ {NoJob}
  BY RunningJobs
<1>2. Range(queue) \cap (InFlight \cup ended) = {}
  <2>1. Range(queue) \cap Popped = {}
    BY Groups DEF Apart, Popped
  <2>2. QED
    BY <2>1 DEF Apart, InFlight, Spent
<1>3. InFlight \cap ended = {}
  <2>1. Popped \cap ended = {}
    BY Groups DEF Apart, Popped, Spent
  <2>2. (Range(running) \ {NoJob}) \cap ended = {}
    BY <1>1 DEF Apart
  <2>3. QED
    BY <2>1, <2>2 DEF InFlight
<1>4. ASSUME NEW v \in Workers, NEW w \in Workers, v # w
      PROVE  (Range(carry[v]) \cup {running[v]}) \cap (Range(carry[w]) \cup {running[w]}) \subseteq {NoJob}
  <2>1. running[v] \in Spent /\ running[w] \in Spent
    BY DEF Spent, Range, TypeOK
  <2>2. Range(carry[v]) \cap Spent = {} /\ Range(carry[w]) \cap Spent = {}
    BY Groups DEF Apart
  <2>3. Range(carry[v]) \cap Range(carry[w]) = {}
    BY <1>4, Groups DEF Apart
  <2>4. running[v] = running[w] => running[v] = NoJob
    BY <1>4 DEF Apart
  <2>5. QED
    BY <2>1, <2>2, <2>3, <2>4
<1>5. QED
  BY <1>2, <1>3, <1>4 DEF JobsKept, Account

\* A job that entered the queue is never lost and never in two hands, and one
\* whose submit failed never runs.
THEOREM JobSafety == Spec => []JobsKept
BY Kept, Inductive, PTL

LEMMA Finishes == IInv => DisposeFinishes
<1> SUFFICES ASSUME IInv, owner = "closed", Panicked # Workers
               PROVE  accepted \ ended \subseteq late
  BY DEF DisposeFinishes, LateInv, IInv
<1> USE DEF IInv
<1>1. \A w \in Workers : worker[w] \in {"left", "panicked"}
  BY DEF EndInv
<1>2. PICK w \in Workers : worker[w] = "left"
  BY <1>1 DEF Panicked
<1>3. Range(queue) \subseteq late
  BY <1>2 DEF EndInv
<1>4. Popped = {}
  BY <1>1 DEF Popped, RoleInv, WorkerRole
<1>5. \A v \in Workers : running[v] = NoJob
  BY <1>1 DEF TypeOK
<1>6. Range(running) \ {NoJob} = {}
  BY <1>5, RunningJobs
<1>7. QED
  BY <1>3, <1>4, <1>6 DEF Account, InFlight

\* When dispose has returned to the owner, every accepted job has been run,
\* except one whose push had read the flag before the queue was disposed, and
\* unless each worker was ended by a panic.
THEOREM DisposeSafety == Spec => []DisposeFinishes
BY Finishes, Inductive, PTL

-----------------------------------------------------------------------------
(* A pool that made its queue itself *)

\* Who submits: the clients while the owner has its reference, and the jobs
\* that hold one.
CallerInv ==
  /\ \A w \in Workers : op[w] = "push" => running[w] \in Holders
  /\ \A c \in Clients : op[c] \in {"push", "none"} /\ (owner # "open" => op[c] = "none")

Closing == disposed \/ \E t \in Threads : op[t] = "dispose"

\* Who calls dispose had the last reference, and no job gets a new one.
LastInv ==
  Outsiders = {} /\ Closing =>
    /\ owner # "open"
    /\ \A i \in Holding :
         \E w \in Workers : worker[w] \in {"disposing", "joining"} /\ running[w] = i

\* No push of the pool comes too late.
InTime ==
  Outsiders = {} =>
    /\ late = {} /\ dropped = {}
    /\ \A t \in Threads : op[t] = "push" => ret[t] \in {"none", "ok"}

OwnInv == CallerInv /\ LastInv /\ InTime

LEMMA CallerStep == IInv /\ CallerInv /\ [Next]_vars => CallerInv'
<1> SUFFICES ASSUME IInv, CallerInv, [Next]_vars PROVE CallerInv'
  OBVIOUS
<1> USE Groups DEF CallerInv
<1>0. /\ Owner \notin Workers \cup Clients /\ Workers \cap Clients = {} /\ CallerInv
      /\ \A c \in Clients : OpsOf[c] = {"push"}
      /\ \A t \in Outsiders : t \notin Workers \cup Clients
  BY PoolAssumption DEF Outsiders
<1>1. running \in [Workers -> Items \cup {NoJob}]
  BY DEF IInv, TypeOK
\* A step that concerns one thread.
<1>2. ASSUME NEW t \in Threads, \A u \in Threads \ {t} : op'[u] = op[u],
             \A w \in Workers \ {t} : running'[w] = running[w],
             t \in Workers /\ op'[t] = "push" => running'[t] \in Holders,
             owner' = owner \/ owner # "open",
             t \in Clients => op'[t] = "none" \/ (op'[t] = "push" /\ owner' = "open")
      PROVE  CallerInv'
  <2>1. \A w \in Workers : op'[w] = "push" => running'[w] \in Holders
    BY <1>0, <1>2
  <2>2. \A c \in Clients : op'[c] \in {"push", "none"} /\ (owner' # "open" => op'[c] = "none")
    BY <1>0, <1>2
  <2>3. QED
    BY <2>1, <2>2
<1>3. ASSUME op' = op, running' = running,
             owner' = owner \/ owner # "open" \/ \A c \in Clients : op[c] = "none"
      PROVE  CallerInv'
  BY <1>0, <1>3
<1>4. CASE UNCHANGED vars
  BY <1>3, <1>4 DEF vars, pool, jobQueue
<1>5. ASSUME NEW t \in Threads, QueueStep(t) PROVE CallerInv'
  BY <1>3, <1>5, QueueEffect
<1>6. CASE DropNotLast \/ Closed
  BY <1>3, <1>6 DEF DropNotLast, Closed, jobQueue
<1>7. CASE DropLast
  <2>1. /\ \A u \in Threads \ {Owner} : op'[u] = op[u] /\ \A c \in Clients : op[c] = "none"
        /\ running' = running
    BY <1>7, CallMoves DEF DropLast
  <2>2. QED
    BY <1>0, <2>1
<1>8. ASSUME NEW c \in Clients, Submit(c) PROVE CallerInv'
  <2>1. /\ op'[c] = "push" /\ \A u \in Threads \ {c} : op'[u] = op[u]
        /\ running' = running /\ owner' = owner /\ owner = "open"
    BY <1>0, <1>8, CallMoves DEF Submit, pool
  <2>2. QED
    BY <1>0, <1>2, <2>1
<1>9. ASSUME NEW t \in Outsiders, OutsiderCalls(t) \/ OutsiderReturns(t) PROVE CallerInv'
  <2>1. /\ \A u \in Threads \ {t} : op'[u] = op[u]
        /\ running' = running /\ owner' = owner
    BY <1>9, CallMoves, ReturnMoves DEF OutsiderCalls, OutsiderReturns, pool
  <2>2. QED
    BY <1>0, <1>2, <2>1
<1>10. ASSUME NEW t \in Threads, Submitted(t) PROVE CallerInv'
  <2>1. /\ op'[t] = "none" /\ \A u \in Threads \ {t} : op'[u] = op[u]
        /\ running' = running /\ owner' = owner
    BY <1>10, ReturnMoves DEF Submitted
  <2>2. QED
    BY <1>2, <2>1
<1>11. ASSUME NEW t \in Threads, Disposed(t) PROVE CallerInv'
  <2>1. /\ op[t] # "none" /\ op'[t] = "none" /\ \A u \in Threads \ {t} : op'[u] = op[u]
        /\ running' = running /\ (owner' = owner \/ t = Owner)
    BY <1>11, ReturnMoves DEF Disposed
  <2>2. t = Owner => owner # "open"
    BY <2>1 DEF IInv, RoleInv
  <2>3. QED
    BY <1>2, <2>1, <2>2
<1>12. ASSUME NEW w \in Workers, WorkerPops(w) \/ SubmitNested(w) \/ JobDropsLast(w) PROVE CallerInv'
  <2>1. /\ \A u \in Threads \ {w} : op'[u] = op[u]
        /\ running' = running /\ owner' = owner
    BY <1>12, CallMoves DEF WorkerPops, SubmitNested, JobDropsLast, Calls, pool
  <2>2. op'[w] = "push" => running[w] \in Holders
    BY <1>12 DEF WorkerPops, SubmitNested, JobDropsLast, Calls
  <2>3. QED
    BY <1>0, <1>2, <2>1, <2>2
<1>13. ASSUME NEW w \in Workers, WorkerGot(w) PROVE CallerInv'
  <2>1. op'[w] = "none" /\ \A u \in Threads \ {w} : op'[u] = op[u]
    BY <1>13, ReturnMoves DEF WorkerGot
  <2>2. owner' = owner /\ \A v \in Workers \ {w} : running'[v] = running[v]
    BY <1>1, <1>13 DEF WorkerGot
  <2>3. QED
    BY <1>0, <1>2, <2>1, <2>2
<1>14. ASSUME NEW w \in Workers, JobReturns(w) \/ JobPanics(w) \/ JoinSelf(w) PROVE CallerInv'
  <2>1. op' = op /\ owner' = owner /\ \A v \in Workers \ {w} : running'[v] = running[v]
    BY <1>1, <1>14 DEF JobReturns, JobPanics, JobOver, JoinSelf, jobQueue
  <2>2. op[w] = "none"
    BY <1>14 DEF JobReturns, JobPanics, JobOver, JoinSelf, IInv, RoleInv, WorkerRole
  <2>3. QED
    BY <1>0, <1>2, <2>1, <2>2
<1>15. ASSUME NEW w \in Workers, Join(w) PROVE CallerInv'
  BY <1>3, <1>15 DEF Join, jobQueue
<1>16. QED
  BY <1>4, <1>5, <1>6, <1>7, <1>8, <1>9, <1>10, <1>11, <1>12, <1>13, <1>14, <1>15
     DEF Next, WorkerStep, ClientStep, OutsiderStep, OwnerStep

\* A job that holds a reference came with a push.
LEMMA HoldingShrinks ==
  ASSUME IInv, [Next]_vars,
         \A t \in Threads : op[t] = "none" => op'[t] \notin PushOps
  PROVE  Holding' \subseteq Holding
<1> USE DEF IInv
<1> DEFINE Around == Range(queue) \cup Range(running) \cup UNION {Range(carry[t]) : t \in Threads}
<1>0. SUFFICES Around' \subseteq Around \cup {NoJob}
  <2>1. Holding = Holders \cap Around /\ Holding' = Holders \cap Around'
    BY DEF Holding
  <2>2. NoJob \notin Holders
    BY PoolAssumption
  <2> HIDE DEF Around
  <2>3. QED
    BY <2>1, <2>2
<1>1. CASE IdleStep
  BY <1>1 DEF IdleStep, jobQueue
<1>2. ASSUME NEW w \in Workers, OverStep(w) PROVE Around' \subseteq Around \cup {NoJob}
  <2>1. queue' = queue /\ carry' = carry
    BY <1>2 DEF OverStep, jobQueue
  <2>2. running' = [running EXCEPT ![w] = NoJob] /\ running \in [Workers -> Items \cup {NoJob}]
    BY <1>2 DEF OverStep, TypeOK
  <2>3. Range(running') \subseteq Range(running) \cup {NoJob}
    BY <2>2 DEF Range
  <2>4. QED
    BY <2>1, <2>3
<1>3. ASSUME NEW t \in Threads, CallStep(t) PROVE Around' \subseteq Around \cup {NoJob}
  <2>1. PICK o \in OpsOf[t] : op' = [op EXCEPT ![t] = o] /\ (o \notin PushOps => carry' = carry)
    BY <1>3, CallEffect DEF CallStep
  <2>2. op[t] = "none" /\ op'[t] = o
    BY <1>3, <2>1, CallEffect DEF CallStep, QueueTypes
  <2>3. queue' = queue /\ carry' = carry /\ running' = running
    BY <1>3, <2>1, <2>2, CallEffect DEF CallStep
  <2>4. QED
    BY <2>3
<1>4. ASSUME NEW t \in Threads, ReturnStep(t) PROVE Around' \subseteq Around \cup {NoJob}
  <2>1. /\ queue' = queue /\ \A u \in Threads \ {t} : carry'[u] = carry[u]
        /\ Range(carry'[t]) = {}
    BY <1>4, ReturnEffect, EmptyRange DEF ReturnStep, QueueTypes
  <2>2. UNION {Range(carry'[u]) : u \in Threads} \subseteq UNION {Range(carry[u]) : u \in Threads}
    BY <2>1
  <2>3. Range(running') \subseteq Range(running) \cup Range(carry[t])
    <3>1. CASE running' = running
      BY <3>1
    <3>2. CASE t \in Workers /\ running' = [running EXCEPT ![t] = Head(carry[t])]
               /\ ret[t] = "ok" /\ worker[t] = "loop"
      <4>1. PICK i \in Items : carry[t] = <<i>>
        BY <1>4, <3>2, ReturnEffect DEF ReturnStep, CallInv, CallOk, RoleInv, WorkerRole
      <4>2. Range(carry[t]) = {i} /\ Head(carry[t]) = i
        BY <4>1, SingleRange
      <4>3. QED
        BY <3>2, <4>2 DEF TypeOK, Range
    <3>3. QED
      BY <1>4, <3>1, <3>2 DEF ReturnStep
  <2>4. QED
    BY <2>1, <2>2, <2>3
<1>5. ASSUME NEW t \in Threads, QueueStep(t) PROVE Around' \subseteq Around \cup {NoJob}
  <2>1. running' = running /\ \A u \in Threads \ {t} : carry'[u] = carry[u]
    BY <1>5, QueueEffect, OthersStand
  <2>2. Range(queue') \cup Range(carry'[t]) \subseteq Range(queue) \cup Range(carry[t])
    <3>1. CASE PushEffect(t)
      <4>1. PICK i \in Items : carry[t] = <<i>> /\ queue' = queue \o <<i>>
        BY <3>1 DEF PushEffect
      <4>2. Range(queue') \subseteq Range(queue) \cup {i}
        BY <4>1 DEF QueueTypes, Range
      <4>3. Range(carry'[t]) = {} /\ Range(carry[t]) = {i}
        BY <3>1, <4>1, EmptyRange, SingleRange DEF PushEffect, QueueTypes
      <4>4. QED
        BY <4>2, <4>3
    <3>2. CASE PopEffect(t)
      <4>1. Range(queue) = Range(queue') \cup {Head(queue)}
        BY <3>2, RangeHeadTail DEF PopEffect, QueueTypes
      <4>2. Range(carry'[t]) = {Head(queue)}
        BY <3>2, SingleRange DEF PopEffect, QueueTypes
      <4>3. QED
        BY <4>1, <4>2
    <3>3. CASE queue' = queue /\ carry' = carry
      BY <3>3
    <3>4. QED
      BY <1>5, <3>1, <3>2, <3>3, QueueEffect DEF LookEffect, RefuseEffect, DisposeEffect
  <2>3. QED
    BY <2>1, <2>2
<1>6. QED
  BY <1>1, <1>2, <1>3, <1>4, <1>5, Shapes DEF OverStep

\* Once a dispose is under way nobody submits.
LEMMA NoPushWhileClosing ==
  ASSUME IInv, CallerInv, LastInv, Outsiders = {}, Closing
  PROVE  /\ \A t \in Threads : op[t] \notin PushOps
         /\ \A w \in Workers : worker[w] = "job" => running[w] \notin Holders
<1>1. /\ owner # "open"
      /\ \A i \in Holding :
           \E w \in Workers : worker[w] \in {"disposing", "joining"} /\ running[w] = i
  BY DEF LastInv
<1>2. ASSUME NEW w \in Workers, worker[w] = "job" PROVE running[w] \notin Holders
  <2>1. running[w] \in Range(running) /\ running[w] # NoJob
    BY <1>2 DEF IInv, TypeOK, Range
  <2>2. \A v \in Workers : running[v] = running[w] => v = w
    BY <2>1 DEF IInv, Apart
  <2>3. running[w] \notin Holding
    BY <1>1, <1>2, <2>2
  <2>4. QED
    BY <2>1, <2>3 DEF Holding
<1>3. ASSUME NEW t \in Threads, op[t] \in PushOps PROVE FALSE
  <2>1. t \in Workers \cup Clients \cup {Owner}
    BY DEF Outsiders
  <2>2. t \notin Clients \cup {Owner}
    BY <1>1, <1>3, PushIsNoPop DEF CallerInv, IInv, RoleInv
  <2>3. t \in Workers /\ WorkerRole(t)
        /\ worker[t] \in {"loop", "job", "left", "panicked", "disposing", "joining"}
    BY <2>1, <2>2 DEF IInv, RoleInv, TypeOK
  <2>4. worker[t] = "job" /\ op[t] = "push"
    BY <1>3, <2>3, PushIsNoPop DEF WorkerRole
  <2>5. QED
    BY <1>2, <2>3, <2>4 DEF CallerInv
<1>4. QED
  BY <1>2, <1>3

\* So no call that begins now is a push.
LEMMA NoCallWhileClosing ==
  ASSUME IInv, CallerInv, LastInv, Outsiders = {}, Closing, [Next]_vars, NEW t \in Threads
  PROVE  op[t] = "none" => op'[t] \notin PushOps
<1>0. /\ owner # "open" /\ \A w \in Workers : worker[w] = "job" => running[w] \notin Holders
  BY NoPushWhileClosing DEF LastInv
<1> SUFFICES ASSUME op[t] = "none", op'[t] \in PushOps PROVE FALSE
  OBVIOUS
<1> USE Groups, PushIsNoPop
<1>1. op'[t] # op[t] /\ op'[t] \notin {"none", "pop", "dispose"}
  OBVIOUS
<1>2. ~UNCHANGED jobQueue
  BY <1>1 DEF jobQueue
<1>3. \A u \in Threads : ~QueueStep(u)
  BY <1>1, QueueEffect
<1>4. \A u \in Threads : ~Q!Return2(u)
  BY <1>1, ReturnMoves
<1>5. ASSUME NEW u \in Threads, Q!Call2(u) PROVE u = t
  BY <1>1, <1>5, CallMoves
<1>6. ~DropLast /\ \A c \in Clients : ~Submit(c)
  BY <1>0 DEF DropLast, Submit
<1>7. \A w \in Workers : ~SubmitNested(w)
  BY <1>0 DEF SubmitNested
<1>8. \A w \in Workers : ~WorkerPops(w) /\ ~JobDropsLast(w)
  BY <1>1, <1>5 DEF WorkerPops, JobDropsLast, Calls
<1>9. QED
  BY <1>2, <1>3, <1>4, <1>6, <1>7, <1>8
     DEF Next, vars, WorkerStep, ClientStep, OutsiderStep, OwnerStep, Submitted, WorkerGot,
         JobReturns, JobPanics, JobOver, Disposed, Join, JoinSelf, DropNotLast, Closed

\* A dispose begins with the last reference.
LEMMA DisposeBegins ==
  ASSUME IInv, Outsiders = {}, [Next]_vars, ~Closing, Closing'
  PROVE  DropLast \/ \E w \in Workers : JobDropsLast(w)
<1> USE Groups, PushIsNoPop
<1>1. ASSUME disposed' = disposed, \A t \in Threads : op'[t] = "dispose" => op[t] = "dispose"
      PROVE  FALSE
  BY <1>1 DEF Closing
<1>2. ~UNCHANGED jobQueue
  BY <1>1 DEF jobQueue
<1>3. ASSUME NEW t \in Threads, QueueStep(t) PROVE FALSE
  <2>1. op' = op /\ op[t] # "dispose"
    BY <1>3, QueueEffect DEF Closing
  <2>2. disposed' = disposed
    BY <1>3, <2>1, QueueEffect DEF LookEffect, PushEffect, RefuseEffect, PopEffect, DisposeEffect
  <2>3. QED
    BY <1>1, <2>1, <2>2
<1>4. ASSUME NEW t \in Threads, Q!Return2(t) PROVE FALSE
  BY <1>1, <1>4, ReturnMoves
<1>5. ASSUME NEW t \in Threads, Q!Call2(t), op'[t] # "dispose" PROVE FALSE
  BY <1>1, <1>5, CallMoves
<1>6. \A c \in Clients : ~Submit(c)
  <2>1. \A c \in Clients : OpsOf[c] = {"push"}
    BY PoolAssumption
  <2>2. QED
    BY <1>5, <2>1, CallMoves DEF Submit
<1>7. \A w \in Workers : ~WorkerPops(w) /\ ~SubmitNested(w)
  BY <1>5 DEF WorkerPops, SubmitNested, Calls
<1>8. QED
  BY <1>2, <1>3, <1>4, <1>6, <1>7
     DEF Next, vars, WorkerStep, ClientStep, OutsiderStep, OwnerStep, Submitted, WorkerGot,
         JobReturns, JobPanics, JobOver, Disposed, Join, JoinSelf, DropNotLast, Closed

\* Who disposes the pool keeps the job that held the last reference, until
\* that job is over.
LEMMA DisposerStays ==
  ASSUME IInv, [Next]_vars, NEW w \in Workers, worker[w] \in {"disposing", "joining"}
  PROVE  \/ worker'[w] \in {"disposing", "joining"} /\ running'[w] = running[w]
         \/ running[w] \in ended'
<1>1. /\ worker \in [Workers -> {"loop", "job", "left", "panicked", "disposing", "joining"}]
      /\ running \in [Workers -> Items \cup {NoJob}]
  BY DEF IInv, TypeOK
<1>2. CASE worker' = worker /\ running' = running
  BY <1>2
<1>3. ASSUME NEW v \in Workers,
             WorkerGot(v) \/ JobReturns(v) \/ JobPanics(v) \/ JobDropsLast(v)
      PROVE  worker'[w] = worker[w] /\ running'[w] = running[w]
  BY <1>1, <1>3 DEF WorkerGot, JobReturns, JobPanics, JobOver, JobDropsLast
<1>4. ASSUME NEW v \in Threads, Disposed(v)
      PROVE  worker'[w] \in {"disposing", "joining"} /\ running'[w] = running[w]
  BY <1>1, <1>4 DEF Disposed
<1>5. ASSUME NEW v \in Workers, JoinSelf(v)
      PROVE  (worker'[w] = worker[w] /\ running'[w] = running[w]) \/ running[w] \in ended'
  BY <1>1, <1>5 DEF JoinSelf
<1>6. ASSUME NEW t \in Threads, QueueStep(t) PROVE worker' = worker /\ running' = running
  BY <1>6, QueueEffect
<1>7. QED
  BY <1>2, <1>3, <1>4, <1>5, <1>6, Groups
     DEF Next, vars, pool, WorkerStep, ClientStep, OutsiderStep, OwnerStep, Submit, SubmitNested,
         Submitted, OutsiderCalls, OutsiderReturns, WorkerPops, Join, DropLast, DropNotLast, Closed

\* The owner takes no new reference.
LEMMA OwnerStays ==
  ASSUME IInv, [Next]_vars, owner # "open"
  PROVE  owner' # "open"
<1>1. ASSUME NEW t \in Threads, QueueStep(t) PROVE owner' = owner
  BY <1>1, QueueEffect
<1>2. QED
  BY <1>1, Groups
     DEF Next, vars, pool, WorkerStep, ClientStep, OutsiderStep, OwnerStep, Submit, SubmitNested,
         Submitted, OutsiderCalls, OutsiderReturns, WorkerPops, WorkerGot, JobReturns, JobPanics,
         JobOver, JobDropsLast, Disposed, Join, JoinSelf, DropLast, DropNotLast, Closed

LEMMA LastStep == IInv /\ IInv' /\ CallerInv /\ LastInv /\ [Next]_vars => LastInv'
<1> SUFFICES ASSUME IInv, IInv', CallerInv, LastInv, [Next]_vars, Outsiders = {}, Closing'
             PROVE  /\ owner' # "open"
                    /\ \A i \in Holding' :
                         \E w \in Workers : worker'[w] \in {"disposing", "joining"} /\ running'[w] = i
  BY DEF LastInv
<1>1. CASE Closing
  <2>1. owner' # "open"
    BY <1>1, OwnerStays DEF LastInv
  <2>2. ASSUME NEW i \in Holding'
        PROVE  \E w \in Workers : worker'[w] \in {"disposing", "joining"} /\ running'[w] = i
    <3>1. i \in Holding
      BY <1>1, NoCallWhileClosing, HoldingShrinks
    <3>2. PICK w \in Workers : worker[w] \in {"disposing", "joining"} /\ running[w] = i
      BY <1>1, <3>1 DEF LastInv
    <3>3. i \notin ended'
      <4>1. i \in Items /\ i # NoJob
        BY PoolAssumption DEF Holding
      <4>2. CASE i \in Range(running')
        <5>1. PICK v \in Workers : running'[v] = i
          BY <4>2 DEF Range, IInv, TypeOK
        <5>2. QED
          BY <5>1 DEF IInv, Apart
      <4>3. CASE i \in Range(queue') \cup UNION {Range(carry'[t]) : t \in Threads}
        BY <4>3 DEF IInv, Apart, Spent
      <4>4. QED
        BY <4>2, <4>3 DEF Holding
    <3>4. QED
      BY <3>2, <3>3, DisposerStays
  <2>3. QED
    BY <2>1, <2>2
<1>2. CASE ~Closing
  <2>1. DropLast \/ \E w \in Workers : JobDropsLast(w)
    BY <1>2, DisposeBegins
  <2>2. CASE DropLast
    <3>1. Q!Call2(Owner) /\ owner' = "disposing" /\ Holding = {} /\ running' = running
      BY <2>2 DEF DropLast
    <3>2. op'[Owner] \notin PushOps
      BY <3>1, Groups, CallMoves, PoolAssumption, PushIsNoPop
    <3>3. queue' = queue /\ carry' = carry
      BY <3>1, <3>2, Groups, CallMoves
    <3>4. Holding' = Holding
      BY <3>1, <3>3 DEF Holding
    <3>5. QED
      BY <3>1, <3>4
  <2>3. ASSUME NEW w \in Workers, JobDropsLast(w)
        PROVE  /\ owner' # "open"
               /\ \A i \in Holding' :
                    \E v \in Workers : worker'[v] \in {"disposing", "joining"} /\ running'[v] = i
    <3>1. /\ Q!Call2(w) /\ op'[w] = "dispose" /\ worker' = [worker EXCEPT ![w] = "disposing"]
          /\ owner' = owner /\ owner = "gone" /\ Holding = {running[w]} /\ running' = running
      BY <2>3 DEF JobDropsLast, Calls, DropsLast
    <3>2. queue' = queue /\ carry' = carry
      BY <3>1, Groups, CallMoves, PushIsNoPop
    <3>3. Holding' = {running'[w]} /\ worker'[w] = "disposing"
      BY <3>1, <3>2 DEF Holding, IInv, TypeOK
    <3>4. QED
      BY <3>1, <3>3
  <2>4. QED
    BY <2>1, <2>2, <2>3
<1>3. QED
  BY <1>1, <1>2

LEMMA InTimeStep == IInv /\ CallerInv /\ LastInv /\ InTime /\ [Next]_vars => InTime'
<1> SUFFICES ASSUME IInv, CallerInv, LastInv, InTime, [Next]_vars, Outsiders = {}
             PROVE  /\ late' = {} /\ dropped' = {}
                    /\ \A t \in Threads : op'[t] = "push" => ret'[t] \in {"none", "ok"}
  BY DEF InTime
<1> USE PushIsNoPop
<1>0. /\ late = {} /\ dropped = {}
      /\ \A t \in Threads : op[t] = "push" => ret[t] \in {"none", "ok"}
  BY DEF InTime
<1>1. CASE IdleStep
  BY <1>0, <1>1 DEF IdleStep, jobQueue, entries
<1>2. ASSUME NEW w \in Workers, OverStep(w)
      PROVE  UNCHANGED <<late, dropped, op, ret>>
  BY <1>2 DEF OverStep, jobQueue, entries
<1>3. ASSUME NEW t \in Threads, CallStep(t)
      PROVE  /\ late' = late /\ dropped' = dropped /\ ret' = ret /\ ret[t] = "none"
             /\ \A u \in Threads \ {t} : op'[u] = op[u]
  BY <1>3, CallEffect, OthersStand DEF CallStep, entries, IInv, CallInv, CallOk
<1>4. ASSUME NEW t \in Threads, ReturnStep(t)
      PROVE  /\ late' = late /\ dropped' = dropped /\ op'[t] = "none"
             /\ \A u \in Threads \ {t} : op'[u] = op[u] /\ ret'[u] = ret[u]
  <2>1. /\ ret[t] # "none" /\ op'[t] = "none" /\ late' = late
        /\ \A u \in Threads \ {t} : op'[u] = op[u] /\ ret'[u] = ret[u]
    BY <1>4, ReturnEffect, OthersStand DEF ReturnStep, entries, IInv, QueueTypes
  <2>2. op[t] = "push" => Range(carry[t]) = {}
    BY <1>0, <2>1, EmptyRange DEF IInv, CallInv, CallOk, PushOps
  <2>3. dropped' = dropped
    BY <1>4, <2>2 DEF ReturnStep
  <2>4. QED
    BY <2>1, <2>3
<1>5. ASSUME NEW t \in Threads, QueueStep(t)
      PROVE  /\ late' = late /\ dropped' = dropped /\ op' = op
             /\ op[t] = "push" => ret'[t] \in {"none", "ok"}
             /\ \A u \in Threads \ {t} : ret'[u] = ret[u]
  <2>1. /\ dropped' = dropped /\ op' = op /\ \A u \in Threads \ {t} : ret'[u] = ret[u]
        /\ \/ LookEffect(t) \/ PushEffect(t) \/ RefuseEffect(t)
           \/ PopEffect(t) \/ DisposeEffect(t)
    BY <1>5, QueueEffect, OthersStand
  <2>2. op[t] \in PushOps => ~disposed
    BY NoPushWhileClosing DEF Closing
  <2>3. late' = late
    BY <2>1, <2>2 DEF LookEffect, PushEffect, RefuseEffect, PopEffect, DisposeEffect
  <2>4. ASSUME op[t] = "push" PROVE ret'[t] \in {"none", "ok"}
    <3>1. op[t] \in PushOps /\ ret \in [Threads -> Rets]
      BY <2>4 DEF PushOps, IInv, QueueTypes
    <3>2. LookEffect(t) \/ PushEffect(t)
      BY <2>1, <2>2, <2>4, <3>1 DEF RefuseEffect, PopEffect, DisposeEffect
    <3>3. QED
      BY <3>1, <3>2 DEF LookEffect, PushEffect
  <2>5. QED
    BY <2>1, <2>3, <2>4
<1>6. QED
  BY <1>0, <1>1, <1>2, <1>3, <1>4, <1>5, Shapes DEF OverStep

LEMMA OwnInductive == Spec => []OwnInv
<1>1. Init => OwnInv
  <2> SUFFICES ASSUME Init PROVE OwnInv
    OBVIOUS
  <2>1. /\ ~disposed /\ late = {} /\ dropped = {} /\ owner = "open"
        /\ \A t \in Threads : op[t] = "none"
    BY DEF Init, Q!Init2, Q!Init
  <2>2. QED
    BY <2>1, Groups DEF OwnInv, CallerInv, LastInv, InTime, Closing
<1>2. IInv /\ IInv' /\ OwnInv /\ [Next]_vars => OwnInv'
  BY CallerStep, LastStep, InTimeStep DEF OwnInv
<1>3. QED
  BY <1>1, <1>2, Inductive, PTL DEF Spec

\* ThreadPool::new makes the queue, and nobody else holds it: then submit never
\* fails, and when dispose has returned every job that was submitted has been
\* run, unless each worker was ended by a panic.
PrivateQueue ==
  Outsiders = {} =>
    /\ dropped = {}
    /\ owner = "closed" /\ Panicked # Workers => accepted = ended

\* A pool made by ThreadPool::new strands no job and refuses none, although
\* its LinkedBQ does not order a push and a dispose: the Arc of the pool does.
THEOREM PrivateQueueSafety == Spec => []PrivateQueue
<1>1. ASSUME IInv, OwnInv, Outsiders = {}
      PROVE  dropped = {} /\ (owner = "closed" /\ Panicked # Workers => accepted = ended)
  <2>1. late = {} /\ dropped = {}
    BY <1>1 DEF OwnInv, InTime
  <2>2. DisposeFinishes
    BY <1>1, Finishes
  <2>3. ended \subseteq accepted
    BY <1>1 DEF IInv, Account
  <2>4. QED
    BY <2>1, <2>2, <2>3 DEF DisposeFinishes
<1>2. IInv /\ OwnInv => PrivateQueue
  BY <1>1 DEF PrivateQueue
<1>3. QED
  BY <1>2, Inductive, OwnInductive, PTL

-----------------------------------------------------------------------------
(* Standstill *)

\* A call that cannot look or take effect: a pop of an empty queue, and a push
\* while another one is admitted or while there is no room.
CallStuck(t) ==
  /\ ret[t] = "none"
  /\ \/ op[t] = "pop" /\ queue = <<>> /\ ~disposed
     \/ /\ op[t] \in PushOps /\ seen[t] # "open"
        /\ ~NoneAdmitted \/ (op[t] = "push" /\ ~disposed /\ Q!IsFull)

\* Where WorkerStep, ClientStep, OutsiderStep and OwnerStep have nothing to do.
\* A job that waits for nothing comes to its end, so a worker with one is not
\* stuck; one that joins itself is.
WorkerStuck(w) ==
  \/ CallStuck(w)
  \/ worker[w] = "joining"
  \/ worker[w] \in {"left", "panicked"} /\ ~(Joining /\ w \in handles)
CallerStuck(t) == op[t] = "none" \/ CallStuck(t)
OwnerStuck == op[Owner] = "none" /\ ~(owner = "joining" /\ handles = {})

Standstill ==
  /\ \A w \in Workers : WorkerStuck(w)
  /\ \A t \in Clients \cup Outsiders : CallerStuck(t)
  /\ OwnerStuck

\* If nothing can go on by itself, the owner is not inside dispose; and unless
\* the pool has lost all its workers, nobody waits to submit, and every job
\* that entered the queue in time has been run, or is one that dropped the
\* last reference and whose worker joins itself.
StandstillIsSettled ==
  Standstill =>
    /\ owner \notin {"disposing", "joining"}
    /\ Lost # Workers =>
         /\ \A t \in Threads : op[t] \notin PushOps
         /\ \A i \in accepted \ (ended \cup late) :
              \E w \in Workers : worker[w] = "joining" /\ running[w] = i

\* Whoever is stuck takes no step.
LEMMA StuckTakesNoStep ==
  ASSUME IInv
  PROVE  /\ \A w \in Workers : WorkerStuck(w) => ~WorkerStep(w)
         /\ \A c \in Clients : CallerStuck(c) => ~ClientStep(c)
         /\ \A t \in Outsiders : CallerStuck(t) => ~OutsiderStep(t)
         /\ OwnerStuck => ~OwnerStep
<1> USE Groups, PushIsNoPop
<1>1. ASSUME NEW t \in Threads, CallStuck(t) PROVE ~QueueStep(t) /\ ~Q!Return2(t)
  <2>1. ~LookEffect(t) /\ ~PushEffect(t) /\ ~RefuseEffect(t)
    BY <1>1 DEF CallStuck, LookEffect, PushEffect, RefuseEffect
  <2>2. ~PopEffect(t) /\ ~DisposeEffect(t)
    BY <1>1 DEF CallStuck, PopEffect, DisposeEffect
  <2>3. ~Q!Return2(t)
    BY <1>1, ReturnEffect DEF CallStuck, Q!Return2
  <2>4. QED
    BY <2>1, <2>2, <2>3, QueueEffect
<1>2. ASSUME NEW t \in Threads, op[t] = "none" PROVE ~QueueStep(t) /\ ~Q!Return2(t)
  <2>1. ret[t] = "none"
    BY <1>2 DEF IInv, CallInv, CallOk
  <2>2. /\ ~LookEffect(t) /\ ~PushEffect(t) /\ ~RefuseEffect(t)
        /\ ~PopEffect(t) /\ ~DisposeEffect(t)
    BY <1>2 DEF LookEffect, PushEffect, RefuseEffect, PopEffect, DisposeEffect
  <2>3. QED
    BY <2>1, <2>2, QueueEffect, ReturnEffect DEF Q!Return2
<1>3. ASSUME NEW t \in Threads, op[t] # "none" PROVE ~Q!Call2(t)
  BY <1>3, CallEffect DEF Q!Call2
<1>4. ASSUME NEW w \in Workers, WorkerStuck(w) PROVE ~WorkerStep(w)
  <2>1. WorkerRole(w)
    BY DEF IInv, RoleInv
  <2>2. CASE CallStuck(w)
    <3>1. op[w] # "none"
      BY <2>2 DEF CallStuck
    <3>2. worker[w] \notin {"left", "panicked"}
      BY <2>1, <3>1 DEF WorkerRole
    <3>3. QED
      BY <1>1, <1>3, <2>2, <3>1, <3>2
         DEF WorkerStep, WorkerPops, Calls, WorkerGot, Submitted, JobReturns, JobPanics, JobOver,
             JobDropsLast, Disposed, Join
  <2>3. CASE worker[w] = "joining" \/ (worker[w] \in {"left", "panicked"} /\ ~(Joining /\ w \in handles))
    <3>1. op[w] = "none"
      BY <2>1, <2>3 DEF WorkerRole
    <3>2. QED
      BY <1>2, <2>3, <3>1
         DEF WorkerStep, WorkerPops, WorkerGot, Submitted, JobReturns, JobPanics, JobOver,
             JobDropsLast, Disposed, Join
  <2>4. QED
    BY <1>4, <2>2, <2>3 DEF WorkerStuck
<1>5. ASSUME NEW t \in Clients \cup Outsiders, CallerStuck(t)
      PROVE  ~ClientStep(t) /\ ~OutsiderStep(t)
  BY <1>1, <1>2, <1>5 DEF CallerStuck, ClientStep, OutsiderStep, Submitted, OutsiderReturns
<1>6. OwnerStuck => ~OwnerStep
  BY <1>2 DEF OwnerStuck, OwnerStep, Disposed, Closed
<1>7. QED
  BY <1>4, <1>5, <1>6

\* The owner disposes the queue from its call on.
DisposingInv == owner = "disposing" => op[Owner] = "dispose"

LEMMA DisposingStep == IInv /\ DisposingInv /\ [Next]_vars => DisposingInv'
<1> SUFFICES ASSUME IInv, DisposingInv, [Next]_vars, owner' = "disposing"
             PROVE  op'[Owner] = "dispose"
  BY DEF DisposingInv
<1> USE Groups
<1>0. Owner \notin Workers \cup Clients \cup Outsiders /\ OpsOf[Owner] = {"dispose"}
  BY PoolAssumption DEF Outsiders
<1>1. ASSUME NEW t \in Threads \ {Owner}, Q!Call2(t) \/ Q!Return2(t) PROVE op'[Owner] = op[Owner]
  BY <1>1, CallMoves, ReturnMoves
<1>2. ASSUME NEW t \in Threads, QueueStep(t) PROVE op' = op /\ owner' = owner
  BY <1>2, QueueEffect
<1>3. CASE DropLast
  BY <1>0, <1>3, CallMoves DEF DropLast
<1>4. ASSUME NEW t \in Threads, Submitted(t) PROVE op'[Owner] = op[Owner] /\ owner' = owner
  <2>1. t # Owner
    BY <1>0, <1>4, PushIsNoPop DEF Submitted, IInv, RoleInv
  <2>2. QED
    BY <1>1, <1>4, <2>1 DEF Submitted
<1>5. ASSUME NEW w \in Workers, Disposed(w) PROVE op'[Owner] = op[Owner] /\ owner' = owner
  BY <1>0, <1>1, <1>5 DEF Disposed
<1>6. ~Disposed(Owner)
  BY <1>0 DEF Disposed
<1>7. ASSUME ~DropLast
      PROVE  op'[Owner] = op[Owner] /\ owner' = owner
  BY <1>0, <1>1, <1>2, <1>4, <1>5, <1>6, <1>7
     DEF Next, vars, jobQueue, pool, WorkerStep, ClientStep, OutsiderStep, OwnerStep, Submit,
         SubmitNested, Calls, OutsiderCalls, OutsiderReturns, WorkerPops, WorkerGot, JobReturns,
         JobPanics, JobOver, JobDropsLast, Join, JoinSelf, DropNotLast, Closed
<1>8. QED
  BY <1>3, <1>7 DEF DisposingInv

\* What is left of DisposeReturns, AcceptedJobsRun and SubmitsReturn when
\* nothing moves, for any number of threads and any capacity.
THEOREM NoDeadlock == Spec => []StandstillIsSettled
<1>1. ASSUME IInv, DisposingInv, Standstill
      PROVE  /\ owner \notin {"disposing", "joining"}
             /\ Lost # Workers =>
                  /\ \A t \in Threads : op[t] \notin PushOps
                  /\ \A i \in accepted \ (ended \cup late) :
                       \E w \in Workers : worker[w] = "joining" /\ running[w] = i
  <2> USE Groups, PushIsNoPop
  <2>0. /\ TypeOK /\ QueueTypes /\ RoleInv /\ SeenInv /\ Account /\ EndInv
        /\ \A w \in Workers : WorkerRole(w)
    BY <1>1 DEF IInv, RoleInv
  <2>1. \A t \in Threads : \/ CallStuck(t)
                           \/ op[t] = "none"
    BY <1>1, <2>0 DEF Standstill, WorkerStuck, WorkerRole, CallerStuck, OwnerStuck, Outsiders
  <2>2. NoneAdmitted
    BY <2>0, <2>1 DEF CallStuck, SeenInv, NoneAdmitted, QueueTypes
  <2>3. \A t \in Threads : op[t] \in PushOps =>
          op[t] = "push" /\ ret[t] = "none" /\ ~disposed /\ Q!IsFull
    BY <2>1, <2>2 DEF CallStuck
  <2>4. \A t \in Threads : op[t] \notin PushOps /\ op[t] # "none" =>
          op[t] = "pop" /\ ret[t] = "none" /\ queue = <<>> /\ ~disposed
    BY <2>1 DEF CallStuck
  <2>5. owner \notin {"disposing", "joining"}
    <3>1. op[Owner] = "none" /\ ~(owner = "joining" /\ handles = {})
      BY <1>1 DEF Standstill, OwnerStuck
    <3>2. owner # "disposing"
      BY <1>1, <3>1 DEF DisposingInv
    <3>3. ASSUME owner = "joining", NEW w \in handles PROVE FALSE
      <4>1. w \in Workers /\ disposed /\ worker[w] # "joining" /\ Joining
        BY <2>0, <3>3 DEF TypeOK, EndInv, Joining
      <4>2. ~CallStuck(w)
        BY <2>3, <2>4, <4>1 DEF CallStuck
      <4>3. QED
        BY <1>1, <3>3, <4>1, <4>2 DEF Standstill, WorkerStuck
    <3>4. QED
      BY <3>1, <3>2, <3>3
  <2>6. ASSUME Lost # Workers
        PROVE  /\ \A t \in Threads : op[t] \notin PushOps
               /\ \A i \in accepted \ (ended \cup late) :
                    \E w \in Workers : worker[w] = "joining" /\ running[w] = i
    <3>1. PICK w \in Workers : w \notin Lost
      BY <2>6 DEF Lost
    <3>2. Range(queue) \subseteq late /\ \A t \in Threads : op[t] \notin PushOps
      <4>1. CASE CallStuck(w)
        <5>1. op[w] \notin PushOps
          BY <2>3, <3>1 DEF Lost
        <5>2. queue = <<>>
          BY <2>4, <4>1, <5>1 DEF CallStuck
        <5>3. ~Q!IsFull
          BY <5>2, CapacityIsNat DEF Q!IsFull, Q!Capacity, Capacity
        <5>4. QED
          BY <2>3, <5>2, <5>3, EmptyRange
      <4>2. CASE worker[w] = "left"
        BY <2>0, <2>3, <4>2 DEF EndInv
      <4>3. QED
        BY <1>1, <3>1, <4>1, <4>2 DEF Standstill, WorkerStuck, Lost
    <3>3. Popped = {}
      <4>1. \A v \in Workers : op[v] = "pop" => Range(carry[v]) = {}
        BY <1>1, <2>4, EmptyRange DEF IInv, CallInv, CallOk
      <4>2. QED
        BY <4>1 DEF Popped
    <3>4. ASSUME NEW v \in Workers, running[v] # NoJob PROVE worker[v] = "joining"
      <4>1. worker[v] \in {"job", "disposing", "joining"}
        BY <2>0, <3>4 DEF TypeOK
      <4>2. op[v] # "dispose"
        BY <2>4, PushIsNoPop
      <4>3. CASE worker[v] = "job"
        <5>1. op[v] = "none"
          BY <2>0, <3>2, <4>3 DEF WorkerRole, PushOps
        <5>2. QED
          BY <1>1, <4>3, <5>1 DEF Standstill, WorkerStuck, CallStuck
      <4>4. QED
        BY <2>0, <4>1, <4>2, <4>3 DEF WorkerRole
    <3>5. \A i \in accepted \ (ended \cup late) : i \in Range(running) \ {NoJob}
      BY <2>0, <3>2, <3>3 DEF Account, InFlight
    <3>6. QED
      BY <2>0, <3>2, <3>4, <3>5, RunningJobs
  <2>7. QED
    BY <2>5, <2>6
<1>2. Init => DisposingInv
  BY DEF Init, DisposingInv
<1>3. IInv /\ DisposingInv => StandstillIsSettled
  BY <1>1 DEF StandstillIsSettled
<1>4. QED
  BY <1>2, <1>3, DisposingStep, Inductive, PTL DEF Spec
=============================================================================

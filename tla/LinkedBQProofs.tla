--------------------------- MODULE LinkedBQProofs ---------------------------
(***************************************************************************)
(* Proofs about LinkedBQ for every number of threads, every set of items    *)
(* and every capacity.                                                      *)
(***************************************************************************)
EXTENDS LinkedBQ, SequenceLemmas, FiniteSetTheorems

-----------------------------------------------------------------------------
(* The inductive invariant *)

Critical == {"if_flag", "if_count", "while_flag", "while_count", "sleep",
             "verdict_flag", "verdict_count", "link", "add", "unlink", "sub"}
InWait   == {"while_flag", "while_count", "sleep", "asleep"}

\* The mutex of a side is owned by the one thread of that side in a critical
\* section.
LockInv == \A t \in Threads, s \in Sides :
  lock[s] = t <=> pc[t] \in Critical /\ Side(t) = s

\* Which methods reach which place.
OpInv == \A t \in Threads :
  /\ pc[t] = "idle" => op[t] = "none"
  /\ pc[t] = "lock" => op[t] \in PushOps \cup PopOps \cup {"drain"}
  /\ pc[t] \in InWait \cup {"if_flag", "if_count"} =>
       op[t] \in {"push", "push_timeout", "pop", "pop_timeout"}
  /\ pc[t] = "verdict_flag" => op[t] \in PushOps \cup {"try_pop"}
  /\ pc[t] = "verdict_count" => op[t] \in PopOps \cup {"try_push"}
  /\ pc[t] \in {"link", "add"} => op[t] \in PushOps
  /\ pc[t] \in {"unlink", "sub"} => op[t] \in PopOps \cup {"drain"}
  /\ pc[t] = "cas" => op[t] = "dispose"

AllPush    == <<<<"all", "push">>>>
AllPopPush == <<<<"all", "pop">>, <<"all", "push">>>>
OnePop     == <<<<"one", "pop">>>>
OnePush    == <<<<"one", "push">>>>

\* The notifications a call can have left to send; those of a dispose reach
\* everybody.
SigInv == \A t \in Threads :
  /\ sig[t] \in {<<>>, AllPush, AllPopPush, OnePop, OnePush}
  /\ op[t] = "dispose" => sig[t] \notin {OnePop, OnePush}
  /\ pc[t] # "signal" => sig[t] = <<>>

\* A push carries its one item until it links it; a pop carries one item
\* when it has unlinked it.
CarryInv == \A t \in Threads :
  /\ op[t] \in PushOps /\ pc[t] \notin {"add", "signal"} =>
       \E i \in Items : carry[t] = <<i>>
  /\ op[t] \in PopOps /\ pc[t] = "sub" => Len(carry[t]) = 1

WaitSetInv == \A s \in Sides : \A t \in sleepers[s] : pc[t] = "asleep" /\ Side(t) = s

\* The waiter counter of a side counts its threads inside the wait loop.
WaitingAt(s) == {t \in Threads : Side(t) = s /\ pc[t] \in InWait}
CounterInv == \A s \in Sides : waiters[s] = Cardinality(WaitingAt(s))

\* How far the list is from the count, when at most one thread is between
\* the two on each side.
Ahead == IF \E t \in Threads : pc[t] = "add" THEN 1 ELSE 0
TrackInv ==
  /\ (\A t \in Threads : pc[t] # "sub") => Len(list) = count + Ahead
  /\ \A t \in Threads : pc[t] = "sub" =>
       Len(carry[t]) <= count /\ Len(list) + Len(carry[t]) = count + Ahead

\* What a thread has read of the count still holds when it commits: the other
\* side can only have made room for a producer, or items for a consumer.
VerdictInv == \A t \in Threads :
  /\ pc[t] = "verdict_flag" /\ op[t] \in {"push", "push_timeout"} =>
       disposed \/ count < Capacity
  /\ pc[t] = "verdict_count" /\ op[t] \in {"pop", "pop_timeout"} =>
       disposed \/ count > 0
  /\ pc[t] = "unlink" /\ op[t] # "drain" => count > 0

\* Behind a dispose only the push that had read the flag before can come.
SlipInv == exhausted \cap {"pop", "pop_timeout"} # {} =>
  /\ disposed /\ Len(list) <= 1
  /\ \A t \in Threads : Side(t) = "push" /\ pc[t] \in {"verdict_count", "link"} => list = <<>>

\* A thread about to sleep saw nothing to do; if that has changed, somebody
\* has a notification for its side, which its lock keeps from being sent.
SleepInv == \A t \in Threads :
  /\ pc[t] = "sleep" /\ Side(t) = "pop" /\ count > 0 =>
       \E u \in Threads : Sending(u, "pop")
  /\ pc[t] = "sleep" /\ Side(t) = "push" /\ count < Capacity =>
       \E u \in Threads : Sending(u, "push")
  /\ pc[t] \in {"while_count", "sleep"} /\ disposed =>
       \E u \in Threads : op[u] = "dispose" /\ Sending(u, Side(t))

ControlInv == LockInv /\ OpInv /\ SigInv /\ CarryInv /\ WaitSetInv
DataInv    == TrackInv /\ VerdictInv /\ CommitsAreSafe

IInv == /\ TypeOK /\ ControlInv /\ CounterInv /\ DataInv
        /\ SlipInv /\ SleepInv /\ NoLostWakeup

-----------------------------------------------------------------------------
(* Initial states *)

LEMMA CapacityNat == Capacity \in Nat \ {0}
BY BQAssumption DEF Capacity

THEOREM InitIInv == Init => IInv
<1> SUFFICES ASSUME Init PROVE IInv
  OBVIOUS
<1> USE BQAssumption DEF Init
<1>1. TypeOK
  <2>1. list \in Seq(Items) /\ carry \in [Threads -> Seq(Items)]
        /\ sig \in [Threads -> Seq({"one", "all"} \X Sides)]
    BY EmptySeq
  <2>2. QED
    BY <2>1 DEF TypeOK, PCs, Rets
<1>2. ControlInv
  BY DEF ControlInv, LockInv, OpInv, SigInv, CarryInv, WaitSetInv, Critical, InWait,
         PushOps, PopOps, AllPush, AllPopPush, OnePop, OnePush
<1>3. CounterInv
  <2>1. \A s \in Sides : WaitingAt(s) = {}
    BY DEF WaitingAt, InWait
  <2>2. QED
    BY <2>1, FS_EmptySet DEF CounterInv
<1>4. DataInv
  <2>1. list = <<>> /\ count = 0 /\ \A t \in Threads : pc[t] = "idle"
    OBVIOUS
  <2>2. Len(list) = 0 /\ Ahead = 0
    BY <2>1, EmptySeq DEF Ahead
  <2>3. QED
    BY <2>1, <2>2, CapacityNat DEF DataInv, TrackInv, VerdictInv, CommitsAreSafe
<1>5. SlipInv /\ SleepInv
  BY DEF SlipInv, SleepInv
<1>6. NoLostWakeup
  BY DEF NoLostWakeup, NoLostPopWakeup, NoLostPushWakeup, DisposeReaches, IsEmpty, Sides
<1>7. QED
  BY <1>1, <1>2, <1>3, <1>4, <1>5, <1>6 DEF IInv

-----------------------------------------------------------------------------
(* Types *)

\* Everything in TypeOK but the counters.
Types ==
  /\ list \in Seq(Items) /\ disposed \in BOOLEAN
  /\ lock \in [Sides -> Threads \cup {NoThread}]
  /\ sleepers \in [Sides -> SUBSET Threads]
  /\ pc \in [Threads -> PCs]
  /\ op \in [Threads -> Ops \cup {"none"}]
  /\ carry \in [Threads -> Seq(Items)]
  /\ ret \in [Threads -> Rets]
  /\ sig \in [Threads -> Seq({"one", "all"} \X Sides)]
  /\ expired \in [Threads -> BOOLEAN]
  /\ hand \in SUBSET Items
  /\ exhausted \in SUBSET PopOps

LEMMA WhenTyped ==
  ASSUME NEW S, NEW s \in S, NEW c
  PROVE  When(c, s) \in Seq(S)
BY DEF When

LEMMA CascadeTyped ==
  ASSUME sleepers \in [Sides -> SUBSET Threads], NEW s \in Sides, NEW c, Cascade(s, c)
  PROVE  /\ sleepers' \in [Sides -> SUBSET Threads]
         /\ \A r \in Sides : sleepers'[r] \subseteq sleepers[r]
BY DEF Cascade, NotifyOne

LEMMA FinishTyped ==
  ASSUME TypeOK, NEW t \in Threads, NEW r \in Rets, Finish(t, r)
  PROVE  /\ ret' \in [Threads -> Rets] /\ pc' \in [Threads -> PCs]
         /\ lock' \in [Sides -> Threads \cup {NoThread}]
BY DEF TypeOK, Finish, Goto, PCs

LEMMA TypesStep == TypeOK /\ ControlInv /\ [Next]_vars => Types'
<1> SUFFICES ASSUME TypeOK, ControlInv, [Next]_vars PROVE Types'
  OBVIOUS
<1> USE BQAssumption DEF TypeOK, Types, PCs, Rets, Sides, Ops, chain, sync, local, Goto
<1>0. \A t \in Threads : Side(t) \in Sides
  BY DEF Side
<1>1. ASSUME NEW t \in Threads, Call(t) PROVE Types'
  <2>1. PICK o \in OpsOf[t] :
          /\ op' = [op EXCEPT ![t] = o]
          /\ pc' = [pc EXCEPT ![t] = IF o = "dispose" THEN "cas" ELSE "lock"]
          /\ \/ \E i \in hand : /\ hand' = hand \ {i}
                                /\ carry' = [carry EXCEPT ![t] = <<i>>]
             \/ UNCHANGED <<hand, carry>>
    BY <1>1 DEF Call
  <2>2. o \in Ops /\ op' \in [Threads -> Ops \cup {"none"}]
    BY <2>1
  <2>3. hand' \in SUBSET Items /\ carry' \in [Threads -> Seq(Items)]
    <3>1. CASE \E i \in hand : /\ hand' = hand \ {i}
                               /\ carry' = [carry EXCEPT ![t] = <<i>>]
      <4>1. PICK i \in hand : /\ hand' = hand \ {i}
                              /\ carry' = [carry EXCEPT ![t] = <<i>>]
        BY <3>1
      <4>2. <<i>> \in Seq(Items)
        OBVIOUS
      <4>3. QED
        BY <4>1, <4>2
    <3>2. CASE UNCHANGED <<hand, carry>>
      BY <3>2
    <3>3. QED
      BY <2>1, <3>1, <3>2
  <2>4. pc' \in [Threads -> PCs]
    BY <2>1
  <2>5. QED
    BY <1>1, <2>2, <2>3, <2>4 DEF Call
<1>2. ASSUME NEW t \in Threads, Acquire(t) PROVE Types'
  BY <1>2, <1>0 DEF Acquire, TakeLock, Verdict
<1>3. ASSUME NEW t \in Threads, WaitFlag(t) PROVE Types'
  <2>1. pc' \in [Threads -> PCs]
    <3>1. \E p \in {"verdict_flag", "verdict_count", "if_count", "while_count"} :
            pc' = [pc EXCEPT ![t] = p]
      BY <1>3 DEF WaitFlag, Verdict
    <3>2. QED
      BY <3>1
  <2>2. QED
    BY <1>3, <2>1 DEF WaitFlag
<1>4. ASSUME NEW t \in Threads, WaitCount(t) PROVE Types'
  <2>1. CASE Finish(t, "timeout")
    <3>1. "timeout" \in Rets
      OBVIOUS
    <3>2. QED
      BY <1>4, <2>1, <3>1, FinishTyped DEF WaitCount
  <2>2. CASE ~Finish(t, "timeout")
    <3>1. UNCHANGED <<ret, lock, list, disposed, sleepers, op, carry, sig, expired, hand, exhausted>>
      BY <1>4, <2>2 DEF WaitCount
    <3>2. \E l \in PCs : pc' = [pc EXCEPT ![t] = l]
      BY <1>4, <2>2 DEF WaitCount, Verdict
    <3>3. QED
      BY <3>1, <3>2
  <2>3. QED
    BY <1>4, <2>1, <2>2 DEF WaitCount
<1>5. ASSUME NEW t \in Threads, Sleep(t) PROVE Types'
  BY <1>5, <1>0 DEF Sleep
<1>6. ASSUME NEW t \in Threads, Reacquire(t) PROVE Types'
  BY <1>6, <1>0 DEF Reacquire, TakeLock
<1>7. ASSUME NEW t \in Threads, Expire(t) PROVE Types'
  BY <1>7 DEF Expire
<1>8. ASSUME NEW t \in Threads, Leave(t) PROVE Types'
  BY <1>8, <1>0 DEF Leave
<1>9. ASSUME NEW t \in Threads, VerdictFlag(t) PROVE Types'
  <2>1. exhausted' \in SUBSET PopOps
    BY <1>9 DEF VerdictFlag, PopOps
  <2>2. ASSUME NEW r \in {"unavailable", "would_block"}, Finish(t, r) PROVE Types'
    BY <1>9, <2>1, <2>2, FinishTyped DEF VerdictFlag
  <2>3. CASE UNCHANGED <<ret, lock>>
    BY <1>9, <2>1, <2>3 DEF VerdictFlag, Finish
  <2>4. QED
    BY <1>9, <2>2, <2>3 DEF VerdictFlag
<1>10. ASSUME NEW t \in Threads, VerdictCount(t) PROVE Types'
  <2>1. pc[t] = "verdict_count"
    BY <1>10 DEF VerdictCount
  <2>2. Side(t) = "pop" => op[t] \in PopOps
    BY <2>1 DEF ControlInv, OpInv, Side, PushOps
  <2>3. QED
    <3>1. exhausted' \in SUBSET PopOps
      BY <1>10, <1>0, <2>2 DEF VerdictCount
    <3>2. ASSUME NEW r \in {"unavailable", "would_block"}, Finish(t, r) PROVE Types'
      BY <1>10, <3>1, <3>2, FinishTyped DEF VerdictCount
    <3>3. CASE UNCHANGED <<ret, lock>>
      BY <1>10, <3>1, <3>3 DEF VerdictCount, Finish
    <3>4. QED
      BY <1>10, <3>2, <3>3 DEF VerdictCount
<1>11. ASSUME NEW t \in Threads, Link(t) PROVE Types'
  <2>1. list' \in Seq(Items) /\ carry' \in [Threads -> Seq(Items)]
    BY <1>11 DEF Link
  <2>2. QED
    BY <1>11, <2>1 DEF Link
<1>12. ASSUME NEW t \in Threads, Add(t) PROVE Types'
  <2>1. sig' \in [Threads -> Seq({"one", "all"} \X Sides)]
    BY <1>12, WhenTyped DEF Add
  <2>2. sleepers' \in [Sides -> SUBSET Threads]
    BY <1>12, CascadeTyped DEF Add
  <2>3. QED
    BY <1>12, <1>0, <2>1, <2>2 DEF Add, Finish
<1>13. ASSUME NEW t \in Threads, Unlink(t) PROVE Types'
  <2>1. PICK n \in Nat : /\ n <= Len(list)
                         /\ carry' = [carry EXCEPT ![t] = SubSeq(list, 1, n)]
                         /\ list' = SubSeq(list, n + 1, Len(list))
    BY <1>13 DEF Unlink
  <2>2. SubSeq(list, 1, n) \in Seq(Items) /\ SubSeq(list, n + 1, Len(list)) \in Seq(Items)
    BY <2>1
  <2>3. list' \in Seq(Items) /\ carry' \in [Threads -> Seq(Items)]
    BY <2>1, <2>2
  <2>4. QED
    BY <1>13, <2>3 DEF Unlink
<1>14. ASSUME NEW t \in Threads, Sub(t) PROVE Types'
  <2>1. sig' \in [Threads -> Seq({"one", "all"} \X Sides)]
    BY <1>14, WhenTyped DEF Sub
  <2>2. sleepers' \in [Sides -> SUBSET Threads]
    BY <1>14, CascadeTyped DEF Sub
  <2>3. QED
    BY <1>14, <1>0, <2>1, <2>2 DEF Sub, Finish
<1>15. ASSUME NEW t \in Threads, DisposeCas(t) PROVE Types'
  <2>1. sig' \in [Threads -> Seq({"one", "all"} \X Sides)]
    <3>1. <<>> \in Seq({"one", "all"} \X Sides)
          /\ AllPopPush \in Seq({"one", "all"} \X Sides)
      BY DEF AllPopPush
    <3>2. QED
      BY <1>15, <3>1 DEF DisposeCas, AllPopPush
  <2>2. QED
    BY <1>15, <2>1 DEF DisposeCas
<1>16. ASSUME NEW t \in Threads, Signal(t) PROVE Types'
  <2>1. Tail(sig[t]) \in Seq({"one", "all"} \X Sides) /\ Head(sig[t])[2] \in Sides
    BY <1>16, HeadTailProperties DEF Signal
  <2>2. sleepers' \in [Sides -> SUBSET Threads]
    <3>1. CASE Cascade(Head(sig[t])[2], TRUE)
      <4> HIDE DEF Types, chain, sync, local
      <4>1. QED
        BY <2>1, <3>1, CascadeTyped
    <3>2. CASE sleepers' = [sleepers EXCEPT ![Head(sig[t])[2]] = {}]
      <4> HIDE DEF Types, chain, sync, local
      <4>1. QED
        BY <2>1, <3>2
    <3>3. QED
      BY <1>16, <3>1, <3>2 DEF Signal
  <2>3. QED
    BY <1>16, <2>1, <2>2 DEF Signal
<1>17. ASSUME NEW t \in Threads, Return(t) PROVE Types'
  BY <1>17, RangeOfSeq, EmptySeq DEF Return
<1>18. CASE UNCHANGED vars
  BY <1>18 DEF vars
<1>19. QED
  BY <1>1, <1>2, <1>3, <1>4, <1>5, <1>6, <1>7, <1>8, <1>9, <1>10, <1>11, <1>12,
     <1>13, <1>14, <1>15, <1>16, <1>17, <1>18 DEF Next, Step, TimeoutWake, SpuriousWake

-----------------------------------------------------------------------------
(* Control: locks, methods, notifications, what calls carry, wait sets *)

LEMMA SigCases ==
  /\ Head(AllPush) = <<"all", "push">> /\ Tail(AllPush) = <<>>
  /\ Head(AllPopPush) = <<"all", "pop">> /\ Tail(AllPopPush) = AllPush
  /\ Head(OnePop) = <<"one", "pop">> /\ Tail(OnePop) = <<>>
  /\ Head(OnePush) = <<"one", "push">> /\ Tail(OnePush) = <<>>
BY DEF AllPush, AllPopPush, OnePop, OnePush

\* What a thread is in the middle of is left alone by the steps of the others.
LEMMA OthersStand ==
  ASSUME TypeOK, NEW t \in Threads, NEW w \in Threads, w # t,
         Call(t) \/ SpuriousWake(t) \/ Step(t)
  PROVE  pc'[w] = pc[w] /\ op'[w] = op[w] /\ sig'[w] = sig[w] /\ carry'[w] = carry[w]
<1> USE DEF TypeOK, chain, sync, local, Goto
<1>1. CASE WaitCount(t) \/ VerdictFlag(t) \/ VerdictCount(t)
  BY <1>1 DEF WaitCount, VerdictFlag, VerdictCount, Finish
<1>2. CASE Call(t) \/ Acquire(t) \/ WaitFlag(t) \/ Sleep(t) \/ Reacquire(t) \/ Expire(t) \/ Leave(t)
  BY <1>2 DEF Call, Acquire, TakeLock, WaitFlag, Sleep, Reacquire, Expire, Leave
<1>3. CASE Link(t) \/ Add(t) \/ Unlink(t) \/ Sub(t) \/ DisposeCas(t) \/ Signal(t) \/ Return(t)
  BY <1>3 DEF Link, Add, Unlink, Sub, DisposeCas, Signal, Return, Finish
<1>4. QED
  BY <1>1, <1>2, <1>3 DEF Step, TimeoutWake, SpuriousWake

\* How a step moves its own thread, and what it does to the locks.
Enters(t) ==
  /\ pc[t] \notin Critical /\ pc'[t] \in Critical /\ lock[Side(t)] = NoThread
  /\ lock' = [lock EXCEPT ![Side(t)] = t]
Inside(t) == pc[t] \in Critical /\ pc'[t] \in Critical /\ lock' = lock
Exits(t) ==
  /\ pc[t] \in Critical /\ pc'[t] \notin Critical
  /\ lock' = [lock EXCEPT ![Side(t)] = NoThread]
Outside(t) == pc[t] \notin Critical /\ pc'[t] \notin Critical /\ lock' = lock

LEMMA LockMoves ==
  ASSUME TypeOK, ControlInv, NEW t \in Threads, Call(t) \/ SpuriousWake(t) \/ Step(t)
  PROVE  /\ Enters(t) \/ Inside(t) \/ Exits(t) \/ Outside(t)
         /\ op'[t] = op[t] \/ Outside(t)
<1> USE DEF TypeOK, chain, sync, local, Goto, Enters, Inside, Exits, Outside, Critical
<1>1. CASE Call(t) \/ DisposeCas(t) \/ Signal(t) \/ Return(t) \/ Leave(t) \/ Expire(t)
  BY <1>1 DEF Call, DisposeCas, Signal, Return, Leave, Expire
<1>2. CASE Acquire(t) \/ Reacquire(t)
  BY <1>2 DEF Acquire, Reacquire, Awake, TakeLock, Verdict
<1>3. CASE WaitFlag(t)
  BY <1>3 DEF WaitFlag, Verdict
<1>4. CASE WaitCount(t)
  BY <1>4 DEF WaitCount, Finish, Verdict
<1>5. CASE Sleep(t) \/ Link(t) \/ Unlink(t) \/ Add(t) \/ Sub(t)
  BY <1>5 DEF Sleep, Link, Unlink, Add, Sub, Finish
<1>6. CASE VerdictFlag(t)
  BY <1>6 DEF VerdictFlag, Finish
<1>7. CASE VerdictCount(t)
  BY <1>7 DEF VerdictCount, Finish
<1>8. QED
  BY <1>1, <1>2, <1>3, <1>4, <1>5, <1>6, <1>7 DEF Step, TimeoutWake, SpuriousWake

LEMMA LockStep == TypeOK /\ ControlInv /\ [Next]_vars => LockInv'
<1> SUFFICES ASSUME TypeOK, ControlInv, [Next]_vars PROVE LockInv'
  OBVIOUS
<1>1. CASE UNCHANGED vars
  BY <1>1 DEF vars, sync, local, ControlInv, LockInv, Side
<1>2. ASSUME NEW t \in Threads, Call(t) \/ SpuriousWake(t) \/ Step(t) PROVE LockInv'
  <2>1. \A w \in Threads \ {t} : pc'[w] = pc[w] /\ op'[w] = op[w]
    BY <1>2, OthersStand
  <2>2. Enters(t) \/ Inside(t) \/ Exits(t) \/ Outside(t)
    BY <1>2, LockMoves
  <2>3. op'[t] = op[t] \/ Outside(t)
    BY <1>2, LockMoves
  <2>4. LockInv /\ lock \in [Sides -> Threads \cup {NoThread}] /\ Side(t) \in Sides
        /\ NoThread \notin Threads
    BY BQAssumption DEF ControlInv, TypeOK, Side, Sides
  <2>5. CASE Enters(t)
    BY <2>1, <2>3, <2>4, <2>5 DEF LockInv, Enters, Outside, Side
  <2>6. CASE Inside(t)
    BY <2>1, <2>3, <2>4, <2>6 DEF LockInv, Inside, Outside, Side
  <2>7. CASE Exits(t)
    BY <2>1, <2>3, <2>4, <2>7 DEF LockInv, Exits, Outside, Side
  <2>8. CASE Outside(t)
    BY <2>1, <2>4, <2>8 DEF LockInv, Outside, Side
  <2>9. QED
    BY <2>2, <2>5, <2>6, <2>7, <2>8
<1>3. QED
  BY <1>1, <1>2 DEF Next

\* In each of the next four lemmas only the thread that takes the step counts.
LEMMA OpStep == TypeOK /\ ControlInv /\ [Next]_vars => OpInv'
<1> SUFFICES ASSUME TypeOK, ControlInv, [Next]_vars PROVE OpInv'
  OBVIOUS
<1>1. CASE UNCHANGED vars
  BY <1>1 DEF vars, local, ControlInv, OpInv
<1>2. ASSUME NEW t \in Threads, Call(t) \/ SpuriousWake(t) \/ Step(t) PROVE OpInv'
  <2> USE DEF TypeOK, PCs, chain, sync, local, Goto, ControlInv, OpInv, InWait, PushOps, PopOps
  <2>1. \A w \in Threads \ {t} : pc'[w] = pc[w] /\ op'[w] = op[w]
    BY <1>2, OthersStand
  <2>2. CASE Call(t)
    <3>1. PICK o \in Ops : op' = [op EXCEPT ![t] = o]
             /\ pc' = [pc EXCEPT ![t] = IF o = "dispose" THEN "cas" ELSE "lock"]
      BY <2>2, BQAssumption DEF Call
    <3>2. QED
      BY <2>1, <3>1 DEF Ops
  <2>3. CASE Acquire(t)
    BY <2>1, <2>3 DEF Acquire, TakeLock, Verdict, TryOps, Side
  <2>4. CASE WaitFlag(t)
    BY <2>1, <2>4 DEF WaitFlag, Verdict, Side
  <2>5. CASE WaitCount(t)
    BY <2>1, <2>5 DEF WaitCount, Verdict, Side, Finish
  <2>6. CASE Reacquire(t) \/ Leave(t) \/ Expire(t) \/ Sleep(t) \/ Signal(t) \/ DisposeCas(t)
    <3>1. op' = op /\ (pc'[t] = pc[t] \/ pc'[t] = "signal"
                         \/ (pc[t] \in InWait /\ pc'[t] \in InWait))
      BY <2>6 DEF Reacquire, Awake, TakeLock, Leave, Expire, Sleep, Signal, DisposeCas
    <3>2. QED
      BY <2>1, <3>1
  <2>7. CASE VerdictFlag(t)
    BY <2>1, <2>7 DEF VerdictFlag, Finish
  <2>8. CASE VerdictCount(t)
    BY <2>1, <2>8 DEF VerdictCount, Finish, Side
  <2>9. CASE Link(t) \/ Unlink(t) \/ Return(t)
    BY <2>1, <2>9 DEF Link, Unlink, Return
  <2>10. CASE Add(t) \/ Sub(t)
    BY <2>1, <2>10 DEF Add, Sub, Finish
  <2>11. QED
    BY <1>2, <2>2, <2>3, <2>4, <2>5, <2>6, <2>7, <2>8, <2>9, <2>10
       DEF Step, TimeoutWake, SpuriousWake
<1>3. QED
  BY <1>1, <1>2 DEF Next

LEMMA SigStep == TypeOK /\ ControlInv /\ [Next]_vars => SigInv'
<1> SUFFICES ASSUME TypeOK, ControlInv, [Next]_vars PROVE SigInv'
  OBVIOUS
<1>1. CASE UNCHANGED vars
  BY <1>1 DEF vars, local, ControlInv, SigInv
<1>2. ASSUME NEW t \in Threads, Call(t) \/ SpuriousWake(t) \/ Step(t) PROVE SigInv'
  <2> USE DEF TypeOK, PCs, chain, sync, local, Goto, ControlInv, SigInv
  <2>1. \A w \in Threads \ {t} : pc'[w] = pc[w] /\ op'[w] = op[w] /\ sig'[w] = sig[w]
    BY <1>2, OthersStand
  <2>2. CASE Call(t)
    <3>1. pc[t] = "idle" /\ sig' = sig
      BY <2>2 DEF Call
    <3>2. sig'[t] = <<>> /\ <<>> \notin {OnePop, OnePush}
      BY <3>1 DEF OnePop, OnePush
    <3>3. QED
      BY <2>1, <3>2
  <2>3. CASE Acquire(t) \/ WaitFlag(t)
    BY <2>1, <2>3 DEF Acquire, TakeLock, WaitFlag
  <2>4. CASE WaitCount(t)
    BY <2>1, <2>4 DEF WaitCount, Finish
  <2>5. CASE Reacquire(t) \/ Leave(t) \/ Expire(t) \/ Sleep(t) \/ Link(t) \/ Unlink(t)
    BY <2>1, <2>5 DEF Reacquire, Awake, TakeLock, Leave, Expire, Sleep, Link, Unlink
  <2>6. CASE VerdictFlag(t) \/ VerdictCount(t)
    BY <2>1, <2>6 DEF VerdictFlag, VerdictCount, Finish
  <2>7. CASE Return(t)
    BY <2>1, <2>7 DEF Return
  <2>8. CASE Add(t)
    <3>1. op[t] # "dispose" /\ op' = op /\ pc'[t] = "signal"
      BY <2>8 DEF Add, Finish, OpInv, PushOps
    <3>2. sig'[t] \in {<<>>, OnePop}
      BY <2>8 DEF Add, When, OnePop
    <3>3. QED
      BY <2>1, <3>1, <3>2
  <2>9. CASE Sub(t)
    <3>1. op[t] # "dispose" /\ op' = op /\ pc'[t] = "signal"
      BY <2>9 DEF Sub, Finish, OpInv, PopOps
    <3>2. sig'[t] \in {<<>>, AllPush, OnePush}
      BY <2>9 DEF Sub, When, AllPush, OnePush
    <3>3. QED
      BY <2>1, <3>1, <3>2
  <2>10. CASE DisposeCas(t)
    <3>1. sig'[t] \in {<<>>, AllPopPush} /\ pc'[t] = "signal"
      BY <2>10 DEF DisposeCas, AllPopPush
    <3>2. AllPopPush \notin {OnePop, OnePush} /\ <<>> \notin {OnePop, OnePush}
      BY DEF AllPopPush, OnePop, OnePush
    <3>3. QED
      BY <2>1, <3>1, <3>2
  <2>11. CASE Signal(t)
    <3>1. sig'[t] = Tail(sig[t]) /\ pc' = pc /\ op' = op /\ sig[t] # <<>>
      BY <2>11 DEF Signal
    <3>2. sig'[t] \in {<<>>, AllPush}
      BY <3>1, SigCases
    <3>3. AllPush \notin {OnePop, OnePush} /\ <<>> \notin {OnePop, OnePush}
      BY DEF AllPush, OnePop, OnePush
    <3>4. QED
      BY <2>1, <3>1, <3>2, <3>3
  <2>12. QED
    BY <1>2, <2>2, <2>3, <2>4, <2>5, <2>6, <2>7, <2>8, <2>9, <2>10, <2>11
       DEF Step, TimeoutWake, SpuriousWake
<1>3. QED
  BY <1>1, <1>2 DEF Next

LEMMA CarryStep == TypeOK /\ ControlInv /\ [Next]_vars => CarryInv'
<1> SUFFICES ASSUME TypeOK, ControlInv, [Next]_vars PROVE CarryInv'
  OBVIOUS
<1>1. CASE UNCHANGED vars
  BY <1>1 DEF vars, local, ControlInv, CarryInv
<1>2. ASSUME NEW t \in Threads, Call(t) \/ SpuriousWake(t) \/ Step(t) PROVE CarryInv'
  <2> USE DEF TypeOK, PCs, chain, sync, local, Goto, ControlInv, CarryInv
  <2>1. \A w \in Threads \ {t} : pc'[w] = pc[w] /\ op'[w] = op[w] /\ carry'[w] = carry[w]
    BY <1>2, OthersStand
  <2>2. CASE Call(t)
    <3>1. PICK o \in OpsOf[t] : /\ op' = [op EXCEPT ![t] = o]
             /\ pc' = [pc EXCEPT ![t] = IF o = "dispose" THEN "cas" ELSE "lock"]
             /\ \/ o \in PushOps /\ \E i \in hand : carry' = [carry EXCEPT ![t] = <<i>>]
                \/ o \notin PushOps
      BY <2>2 DEF Call
    <3>2. op'[t] = o /\ pc'[t] # "sub" /\ (o \in PushOps => \E i \in Items : carry'[t] = <<i>>)
      BY <3>1, BQAssumption
    <3>3. QED
      BY <2>1, <3>2
  <2>3. CASE Acquire(t) \/ WaitFlag(t)
    BY <2>1, <2>3 DEF Acquire, TakeLock, WaitFlag, Verdict
  <2>4. CASE WaitCount(t)
    BY <2>1, <2>4 DEF WaitCount, Finish, Verdict
  <2>5. CASE Reacquire(t) \/ Leave(t) \/ Expire(t) \/ Sleep(t) \/ Signal(t)
    <3>1. /\ op' = op /\ carry' = carry
          /\ pc'[t] = pc[t] \/ (pc[t] \in InWait /\ pc'[t] \in InWait)
      BY <2>5 DEF Reacquire, Awake, TakeLock, Leave, Expire, Sleep, Signal, InWait
    <3>2. QED
      BY <2>1, <3>1 DEF InWait
  <2>6. CASE VerdictFlag(t) \/ VerdictCount(t)
    BY <2>1, <2>6 DEF VerdictFlag, VerdictCount, Finish
  <2>7. CASE Return(t)
    <3>1. op'[t] = "none" /\ "none" \notin PushOps \cup PopOps
      BY <2>7 DEF Return, PushOps, PopOps
    <3> HIDE DEF TypeOK, chain, sync, local, Goto
    <3>2. ASSUME NEW w \in Threads
          PROVE  /\ op'[w] \in PushOps /\ pc'[w] \notin {"add", "signal"} =>
                      \E i \in Items : carry'[w] = <<i>>
                 /\ op'[w] \in PopOps /\ pc'[w] = "sub" => Len(carry'[w]) = 1
      <4>1. CASE w = t
        BY <3>1, <4>1
      <4>2. CASE w # t
        BY <2>1, <4>2
      <4>3. QED
        BY <4>1, <4>2
    <3>3. QED
      BY <3>2
  <2>8. CASE Add(t) \/ Sub(t) \/ DisposeCas(t)
    <3>1. pc'[t] = "signal"
      BY <2>8 DEF Add, Sub, Finish, DisposeCas
    <3>2. QED
      BY <2>1, <3>1
  <2>9. CASE Link(t)
    BY <2>1, <2>9 DEF Link, OpInv
  <2>10. CASE Unlink(t)
    <3>1. op' = op /\ op[t] \notin PushOps
      BY <2>10 DEF Unlink, OpInv, PushOps, PopOps
    <3>2. ASSUME op[t] \in PopOps PROVE Len(carry'[t]) = 1
      <4>1. 1 <= Len(list) /\ carry'[t] = SubSeq(list, 1, 1)
        BY <2>10, <3>2 DEF Unlink, PopOps
      <4>2. QED
        BY <4>1
    <3>3. QED
      BY <2>1, <3>1, <3>2
  <2>11. QED
    BY <1>2, <2>2, <2>3, <2>4, <2>5, <2>6, <2>7, <2>8, <2>9, <2>10
       DEF Step, TimeoutWake, SpuriousWake
<1>3. QED
  BY <1>1, <1>2 DEF Next

\* Only Sleep puts a thread into a wait set.
LEMMA SleepersShrink ==
  ASSUME TypeOK, ControlInv, NEW t \in Threads,
         Call(t) \/ SpuriousWake(t) \/ Step(t), ~Sleep(t)
  PROVE  \A s \in Sides : sleepers'[s] \subseteq sleepers[s]
<1> USE DEF TypeOK, chain, sync, local, Sides, Side
<1>1. CASE Add(t)
  BY <1>1, CascadeTyped DEF Add
<1>2. CASE Sub(t)
  BY <1>2, CascadeTyped DEF Sub
<1>3. CASE Signal(t)
  <2>1. Head(sig[t])[2] \in Sides
    BY <1>3, HeadTailProperties DEF Signal
  <2>2. QED
    BY <1>3, <2>1, CascadeTyped DEF Signal
<1>4. CASE Leave(t)
  BY <1>4 DEF Leave
<1>5. CASE ~Add(t) /\ ~Sub(t) /\ ~Signal(t) /\ ~Leave(t)
  <2>1. sleepers' = sleepers
    BY <1>5 DEF Step, TimeoutWake, SpuriousWake, Call, Acquire, TakeLock, WaitFlag,
       WaitCount, Reacquire, Expire, VerdictFlag, VerdictCount, Link, Unlink,
       DisposeCas, Return
  <2>2. QED
    BY <2>1
<1>6. QED
  BY <1>1, <1>2, <1>3, <1>4, <1>5

LEMMA WaitSetStep == TypeOK /\ ControlInv /\ [Next]_vars => WaitSetInv'
<1> SUFFICES ASSUME TypeOK, ControlInv, [Next]_vars PROVE WaitSetInv'
  OBVIOUS
<1>1. CASE UNCHANGED vars
  BY <1>1 DEF vars, sync, local, ControlInv, WaitSetInv, Side
<1>2. ASSUME NEW t \in Threads, Call(t) \/ SpuriousWake(t) \/ Step(t) PROVE WaitSetInv'
  <2> USE DEF TypeOK, PCs, chain, sync, local, Goto, ControlInv, WaitSetInv
  <2>1. \A w \in Threads \ {t} : pc'[w] = pc[w] /\ op'[w] = op[w]
    BY <1>2, OthersStand
  <2>2. CASE Sleep(t)
    <3>1. op' = op /\ pc'[t] = "asleep" /\ Side(t) \in Sides
          /\ sleepers' = [sleepers EXCEPT ![Side(t)] = @ \cup {t}]
      BY <2>2 DEF Sleep, Side, Sides
    <3>2. QED
      BY <2>1, <3>1 DEF Side
  <2>3. CASE ~Sleep(t)
    <3>1. \A s \in Sides : sleepers'[s] \subseteq sleepers[s]
      BY <1>2, <2>3, SleepersShrink
    <3>2. ASSUME NEW s \in Sides, t \in sleepers'[s] PROVE pc'[t] = pc[t] /\ op'[t] = op[t]
      <4>1. pc[t] = "asleep" /\ s = Side(t) /\ t \in sleepers[s]
        BY <3>1, <3>2
      <4>2. CASE Leave(t)
        BY <3>2, <4>1, <4>2 DEF Leave
      <4>3. CASE ~Leave(t)
        BY <1>2, <4>1, <4>3, <2>3 DEF Step, TimeoutWake, SpuriousWake, Call, Acquire,
           WaitFlag, WaitCount, Reacquire, Awake, Expire, VerdictFlag, VerdictCount, Link,
           Add, Unlink, Sub, DisposeCas, Signal, Return
      <4>4. QED
        BY <4>2, <4>3
    <3>3. QED
      BY <2>1, <3>1, <3>2 DEF Side
  <2>4. QED
    BY <2>2, <2>3
<1>3. QED
  BY <1>1, <1>2 DEF Next

LEMMA ControlStep == TypeOK /\ ControlInv /\ [Next]_vars => ControlInv'
BY LockStep, OpStep, SigStep, CarryStep, WaitSetStep DEF ControlInv

-----------------------------------------------------------------------------
(* The waiter counters *)

LEMMA WaitingFinite ==
  ASSUME NEW s
  PROVE  IsFiniteSet(WaitingAt(s)) /\ Cardinality(WaitingAt(s)) \in Nat
<1>1. WaitingAt(s) \subseteq Threads
  BY DEF WaitingAt
<1>2. QED
  BY <1>1, BQAssumption, FS_Subset, FS_CardinalityType

StartsWaiting(t) ==
  /\ AddWaiter(t, 1) /\ op'[t] = op[t] /\ pc[t] \notin InWait /\ pc'[t] \in InWait
StopsWaiting(t) ==
  /\ AddWaiter(t, -1) /\ op'[t] = op[t] /\ pc[t] \in InWait /\ pc'[t] \notin InWait
WaitsOn(t) ==
  /\ waiters' = waiters
  /\ \/ op'[t] = op[t] /\ (pc[t] \in InWait <=> pc'[t] \in InWait)
     \/ pc[t] \notin InWait /\ pc'[t] \notin InWait

LEMMA WaiterMoves ==
  ASSUME TypeOK, NEW t \in Threads, Call(t) \/ SpuriousWake(t) \/ Step(t)
  PROVE  StartsWaiting(t) \/ StopsWaiting(t) \/ WaitsOn(t)
<1> USE DEF TypeOK, chain, sync, local, Goto, StartsWaiting, StopsWaiting, WaitsOn, InWait
<1>1. CASE WaitFlag(t)
  BY <1>1 DEF WaitFlag, Verdict
<1>2. CASE WaitCount(t)
  BY <1>2 DEF WaitCount, Verdict, Finish
<1>3. CASE Call(t) \/ Acquire(t) \/ VerdictFlag(t) \/ VerdictCount(t)
  BY <1>3 DEF Call, Acquire, TakeLock, Verdict, VerdictFlag, VerdictCount, Finish
<1>4. CASE Sleep(t) \/ Reacquire(t) \/ Expire(t) \/ Leave(t)
  BY <1>4 DEF Sleep, Reacquire, Awake, TakeLock, Expire, Leave
<1>5. CASE Link(t) \/ Add(t) \/ Unlink(t) \/ Sub(t) \/ DisposeCas(t) \/ Signal(t) \/ Return(t)
  BY <1>5 DEF Link, Add, Unlink, Sub, DisposeCas, Signal, Return, Finish
<1>6. QED
  BY <1>1, <1>2, <1>3, <1>4, <1>5 DEF Step, TimeoutWake, SpuriousWake

LEMMA CounterStep == TypeOK /\ ControlInv /\ CounterInv /\ [Next]_vars => CounterInv'
<1> SUFFICES ASSUME TypeOK, ControlInv, CounterInv, [Next]_vars, NEW s \in Sides
             PROVE  waiters'[s] = Cardinality(WaitingAt(s)')
  BY DEF CounterInv
<1>0. waiters[s] = Cardinality(WaitingAt(s)) /\ waiters \in [Sides -> Nat]
  BY DEF CounterInv, TypeOK
<1>1. CASE UNCHANGED vars
  <2>1. WaitingAt(s)' = WaitingAt(s) /\ waiters' = waiters
    BY <1>1 DEF vars, sync, local, WaitingAt, Side
  <2>2. QED
    BY <1>0, <2>1
<1>2. ASSUME NEW t \in Threads, Call(t) \/ SpuriousWake(t) \/ Step(t)
      PROVE  waiters'[s] = Cardinality(WaitingAt(s)')
  <2>1. \A w \in Threads \ {t} : pc'[w] = pc[w] /\ op'[w] = op[w]
    BY <1>2, OthersStand
  <2>2. CASE WaitsOn(t)
    <3>1. WaitingAt(s)' = WaitingAt(s)
      BY <2>1, <2>2 DEF WaitsOn, WaitingAt, Side
    <3>2. QED
      BY <1>0, <2>2, <3>1 DEF WaitsOn
  <2>3. CASE StartsWaiting(t)
    <3>1. CASE Side(t) = s
      <4>1. WaitingAt(s)' = WaitingAt(s) \cup {t} /\ t \notin WaitingAt(s)
        BY <2>1, <2>3, <3>1 DEF StartsWaiting, WaitingAt, Side
      <4>2. waiters'[s] = waiters[s] + 1
        BY <1>0, <2>3, <3>1 DEF StartsWaiting, AddWaiter
      <4>3. QED
        BY <1>0, <4>1, <4>2, WaitingFinite, FS_AddElement
    <3>2. CASE Side(t) # s
      <4>1. WaitingAt(s)' = WaitingAt(s)
        BY <2>1, <2>3, <3>2 DEF StartsWaiting, WaitingAt, Side
      <4>2. waiters'[s] = waiters[s]
        BY <1>0, <2>3, <3>2 DEF StartsWaiting, AddWaiter
      <4>3. QED
        BY <1>0, <4>1, <4>2
    <3>3. QED
      BY <3>1, <3>2
  <2>4. CASE StopsWaiting(t)
    <3>1. CASE Side(t) = s
      <4>1. WaitingAt(s)' = WaitingAt(s) \ {t} /\ t \in WaitingAt(s)
        BY <2>1, <2>4, <3>1 DEF StopsWaiting, WaitingAt, Side
      <4>2. waiters'[s] = waiters[s] - 1
        BY <1>0, <2>4, <3>1 DEF StopsWaiting, AddWaiter
      <4>3. QED
        BY <1>0, <4>1, <4>2, WaitingFinite, FS_RemoveElement
    <3>2. CASE Side(t) # s
      <4>1. WaitingAt(s)' = WaitingAt(s)
        BY <2>1, <2>4, <3>2 DEF StopsWaiting, WaitingAt, Side
      <4>2. waiters'[s] = waiters[s]
        BY <1>0, <2>4, <3>2 DEF StopsWaiting, AddWaiter
      <4>3. QED
        BY <1>0, <4>1, <4>2
    <3>3. QED
      BY <3>1, <3>2
  <2>5. QED
    BY <1>2, <2>2, <2>3, <2>4, WaiterMoves
<1>3. QED
  BY <1>1, <1>2 DEF Next

LEMMA WaitersNat == TypeOK /\ ControlInv /\ CounterInv /\ [Next]_vars => waiters' \in [Sides -> Nat]
<1> SUFFICES ASSUME TypeOK, ControlInv, CounterInv, [Next]_vars
             PROVE  waiters' \in [Sides -> Nat]
  OBVIOUS
<1>1. ASSUME NEW s \in Sides PROVE waiters'[s] \in Nat
  <2>1. WaitingAt(s)' \subseteq Threads
    BY DEF WaitingAt
  <2>2. Cardinality(WaitingAt(s)') \in Nat
    BY <2>1, BQAssumption, FS_Subset, FS_CardinalityType
  <2>3. QED
    BY <2>2, CounterStep DEF CounterInv
<1>2. waiters' = waiters \/ \E t \in Threads, d \in {1, -1} : AddWaiter(t, d)
  BY WaiterMoves DEF Next, vars, sync, StartsWaiting, StopsWaiting, WaitsOn
<1>3. DOMAIN waiters' = Sides /\ waiters' = [s \in Sides |-> waiters'[s]]
  BY <1>2 DEF AddWaiter, TypeOK
<1>4. QED
  BY <1>1, <1>3

-----------------------------------------------------------------------------
(* The list and the count *)

LEMMA SidesOf ==
  ASSUME ControlInv, NEW t \in Threads
  PROVE  /\ pc[t] \in {"link", "add"} => Side(t) = "push"
         /\ pc[t] \in {"unlink", "sub"} => Side(t) = "pop"
BY DEF ControlInv, OpInv, Side, PushOps, PopOps

\* Two threads of one side are not in a critical section together.
LEMMA Exclusive ==
  ASSUME ControlInv, NEW t \in Threads, NEW u \in Threads, Side(t) = Side(u),
         pc[t] \in Critical, pc[u] \in Critical
  PROVE  t = u
<1>1. Side(t) \in Sides
  BY DEF Side, Sides
<1>2. QED
  BY <1>1 DEF ControlInv, LockInv

\* The four steps that change the list or the count; the others do not come
\* from nor lead to the places between the two.
Commits(t) == Link(t) \/ Add(t) \/ Unlink(t) \/ Sub(t)

LEMMA DataFrame ==
  ASSUME TypeOK, ControlInv, NEW t \in Threads, Call(t) \/ SpuriousWake(t) \/ Step(t)
  PROVE  /\ disposed => disposed'
         /\ disposed' = disposed \/ DisposeCas(t)
         /\ ~Commits(t) => /\ list' = list /\ count' = count
                           /\ pc[t] = "add" <=> pc'[t] = "add"
                           /\ pc[t] = "sub" <=> pc'[t] = "sub"
                           /\ pc[t] = "sub" => carry'[t] = carry[t]
<1> USE DEF TypeOK, chain, sync, local, Goto, Commits
<1>1. CASE Call(t) \/ Acquire(t) \/ WaitFlag(t)
  BY <1>1 DEF Call, Acquire, TakeLock, WaitFlag, Verdict
<1>2. CASE WaitCount(t) \/ VerdictFlag(t) \/ VerdictCount(t)
  BY <1>2 DEF WaitCount, VerdictFlag, VerdictCount, Finish, Verdict
<1>3. CASE Sleep(t) \/ Reacquire(t) \/ Expire(t) \/ Leave(t)
  BY <1>3 DEF Sleep, Reacquire, Awake, TakeLock, Expire, Leave
<1>4. CASE DisposeCas(t) \/ Signal(t) \/ Return(t)
  BY <1>4 DEF DisposeCas, Signal, Return
<1>5. CASE Commits(t)
  BY <1>5 DEF Link, Add, Unlink, Sub
<1>6. QED
  BY <1>1, <1>2, <1>3, <1>4, <1>5 DEF Step, TimeoutWake, SpuriousWake

LEMMA LinkEffect ==
  ASSUME TypeOK, ControlInv, NEW t \in Threads, Link(t)
  PROVE  Len(list') = Len(list) + 1 /\ count' = count /\ pc'[t] = "add"
<1>1. PICK i \in Items : carry[t] = <<i>>
  BY SidesOf DEF Link, ControlInv, CarryInv, OpInv
<1>2. QED
  BY <1>1 DEF Link, TypeOK, Goto

LEMMA UnlinkEffect ==
  ASSUME TypeOK, ControlInv, NEW t \in Threads, Unlink(t),
         op[t] # "drain" => count > 0
  PROVE  \E n \in 0 .. count :
           /\ Len(carry'[t]) = n /\ Len(list') + n = Len(list)
           /\ count' = count /\ pc'[t] = "sub"
<1> DEFINE n == IF op[t] = "drain" THEN count ELSE 1
<1>1. /\ n \in Nat /\ n <= Len(list) /\ n <= count
      /\ carry' = [carry EXCEPT ![t] = SubSeq(list, 1, n)]
      /\ list' = SubSeq(list, n + 1, Len(list))
      /\ count' = count /\ pc'[t] = "sub"
  BY DEF Unlink, TypeOK, Goto, chain
<1>2. list \in Seq(Items) /\ Len(list) \in Nat
  BY LenProperties DEF TypeOK
<1> HIDE DEF n
<1>3. Len(SubSeq(list, 1, n)) = n /\ Len(SubSeq(list, n + 1, Len(list))) = Len(list) - n
  BY <1>1, <1>2, SubSeqProperties
<1>4. carry'[t] = SubSeq(list, 1, n)
  BY <1>1 DEF TypeOK
<1>5. count \in Nat /\ n \in 0 .. count
  BY <1>1 DEF TypeOK
<1>6. Len(carry'[t]) = n /\ Len(list') + n = Len(list)
  BY <1>1, <1>2, <1>3, <1>4
<1>7. QED
  BY <1>1, <1>5, <1>6

LEMMA TrackStep ==
  TypeOK /\ ControlInv /\ DataInv /\ [Next]_vars => TrackInv'
<1> SUFFICES ASSUME TypeOK, ControlInv, DataInv, [Next]_vars PROVE TrackInv'
  OBVIOUS
<1>0. /\ count \in Nat /\ Len(list) \in Nat /\ \A u \in Threads : Len(carry[u]) \in Nat
      /\ Ahead \in {0, 1} /\ TrackInv
  BY LenProperties DEF TypeOK, Ahead, DataInv
<1>1. CASE UNCHANGED vars
  BY <1>0, <1>1 DEF vars, chain, local, TrackInv, Ahead
<1>2. ASSUME NEW t \in Threads, Call(t) \/ SpuriousWake(t) \/ Step(t) PROVE TrackInv'
  <2>1. \A w \in Threads \ {t} : pc'[w] = pc[w] /\ carry'[w] = carry[w]
    BY <1>2, OthersStand
  <2>2. CASE ~Commits(t)
    <3>1. list' = list /\ count' = count /\ (pc[t] = "add" <=> pc'[t] = "add")
          /\ (pc[t] = "sub" <=> pc'[t] = "sub") /\ (pc[t] = "sub" => carry'[t] = carry[t])
      BY <1>2, <2>2, DataFrame
    <3>2. Ahead' = Ahead
      BY <2>1, <3>1 DEF Ahead
    <3>3. QED
      BY <1>0, <2>1, <3>1, <3>2 DEF TrackInv
  <2>3. CASE Link(t)
    <3>1. Len(list') = Len(list) + 1 /\ count' = count /\ pc'[t] = "add" /\ pc[t] = "link"
      BY <2>3, LinkEffect DEF Link
    <3>2. \A u \in Threads : pc[u] # "add"
      BY <3>1, SidesOf, Exclusive DEF Critical
    <3>3. Ahead = 0 /\ Ahead' = 1
      BY <3>1, <3>2 DEF Ahead
    <3>4. ASSUME \A u \in Threads : pc'[u] # "sub" PROVE Len(list') = count' + Ahead'
      <4>1. \A u \in Threads : pc[u] # "sub"
        BY <2>1, <3>1, <3>4
      <4>2. Len(list) = count + Ahead
        BY <1>0, <4>1 DEF TrackInv
      <4>3. QED
        BY <1>0, <3>1, <3>3, <4>2
    <3>5. ASSUME NEW u \in Threads, pc'[u] = "sub"
          PROVE  Len(carry'[u]) <= count' /\ Len(list') + Len(carry'[u]) = count' + Ahead'
      <4>1. pc[u] = "sub" /\ carry'[u] = carry[u]
        BY <2>1, <3>1, <3>5
      <4>2. Len(carry[u]) <= count /\ Len(list) + Len(carry[u]) = count + Ahead
        BY <1>0, <4>1 DEF TrackInv
      <4>3. QED
        <5>1. PICK k \in Nat : k = Len(carry[u])
          BY <1>0
        <5>2. Len(carry'[u]) = k /\ k <= count /\ Len(list) + k = count + Ahead
          BY <4>1, <4>2, <5>1
        <5>3. k <= count' /\ Len(list') + k = count' + Ahead'
          BY <1>0, <3>1, <3>3, <5>2
        <5>4. QED
          BY <5>2, <5>3
    <3>6. QED
      BY <3>4, <3>5 DEF TrackInv
  <2>4. CASE Add(t)
    <3>1. list' = list /\ count' = count + 1 /\ pc'[t] = "signal" /\ pc[t] = "add"
      BY <2>4 DEF Add, Finish, Goto, TypeOK
    <3>2. \A u \in Threads \ {t} : pc[u] # "add"
      BY <3>1, SidesOf, Exclusive DEF Critical
    <3>3. Ahead = 1 /\ Ahead' = 0
      BY <2>1, <3>1, <3>2 DEF Ahead
    <3>4. QED
      BY <1>0, <2>1, <3>1, <3>3 DEF TrackInv
  <2>5. CASE Unlink(t)
    <3>1. pc[t] = "unlink" /\ (op[t] # "drain" => count > 0)
      BY <2>5 DEF Unlink, DataInv, VerdictInv
    <3>2. PICK n \in 0 .. count : /\ Len(carry'[t]) = n /\ Len(list') + n = Len(list)
                                  /\ count' = count /\ pc'[t] = "sub"
      BY <2>5, <3>1, UnlinkEffect
    <3>3. \A u \in Threads : pc[u] # "sub"
      BY <3>1, SidesOf, Exclusive DEF Critical
    <3>4. Ahead' = Ahead
      BY <2>1, <3>1, <3>2 DEF Ahead
    <3>5. QED
      BY <1>0, <2>1, <3>2, <3>3, <3>4 DEF TrackInv
  <2>6. CASE Sub(t)
    <3>1. list' = list /\ count' = count - Len(carry[t]) /\ pc'[t] = "signal" /\ pc[t] = "sub"
      BY <2>6 DEF Sub, Finish, Goto, TypeOK
    <3>2. \A u \in Threads \ {t} : pc[u] # "sub"
      BY <3>1, SidesOf, Exclusive DEF Critical
    <3>3. Ahead' = Ahead
      BY <2>1, <3>1 DEF Ahead
    <3>4. \A u \in Threads : pc'[u] # "sub"
      BY <2>1, <3>1, <3>2
    <3>5. Len(carry[t]) <= count /\ Len(list) + Len(carry[t]) = count + Ahead
      BY <1>0, <3>1 DEF TrackInv
    <3>6. Len(list') = count' + Ahead'
      BY <1>0, <3>1, <3>3, <3>5
    <3>7. QED
      BY <3>4, <3>6 DEF TrackInv
  <2>7. QED
    BY <2>2, <2>3, <2>4, <2>5, <2>6 DEF Commits
<1>3. QED
  BY <1>1, <1>2 DEF Next

\* What the steps of a thread do to the count.
LEMMA CountMoves ==
  ASSUME TypeOK, ControlInv, DataInv, NEW t \in Threads,
         Call(t) \/ SpuriousWake(t) \/ Step(t)
  PROVE  \/ count' = count
         \/ /\ pc[t] = "add" /\ pc'[t] = "signal"
            /\ count' = count + 1 /\ count < Capacity
         \/ pc[t] = "sub" /\ count' \in Nat /\ count' <= count
<1>0. count \in Nat
  BY DEF TypeOK
<1>1. CASE Add(t)
  BY <1>1 DEF Add, Finish, Goto, TypeOK, DataInv, CommitsAreSafe
<1>2. CASE Sub(t)
  <2>1. pc[t] = "sub" /\ Len(carry[t]) <= count /\ count' = count - Len(carry[t])
    BY <1>2 DEF Sub, DataInv, TrackInv
  <2>2. Len(carry[t]) \in Nat
    BY LenProperties DEF TypeOK
  <2>3. QED
    BY <1>0, <2>1, <2>2
<1>3. CASE Link(t) \/ Unlink(t)
  BY <1>3 DEF Link, Unlink
<1>4. CASE ~Commits(t)
  BY <1>4, DataFrame
<1>5. QED
  BY <1>1, <1>2, <1>3, <1>4 DEF Commits

LEMMA TypeOKStep ==
  TypeOK /\ ControlInv /\ CounterInv /\ DataInv /\ [Next]_vars => TypeOK'
<1> SUFFICES ASSUME TypeOK, ControlInv, CounterInv, DataInv, [Next]_vars PROVE TypeOK'
  OBVIOUS
<1>1. Types' /\ waiters' \in [Sides -> Nat]
  BY TypesStep, WaitersNat
<1>2. count' \in Nat
  <2>1. CASE UNCHANGED vars
    BY <2>1 DEF vars, chain, TypeOK
  <2>2. ASSUME NEW t \in Threads, Call(t) \/ SpuriousWake(t) \/ Step(t) PROVE count' \in Nat
    <3>1. count \in Nat
      BY DEF TypeOK
    <3>2. QED
      BY <2>2, <3>1, CountMoves
  <2>3. QED
    BY <2>1, <2>2 DEF Next
<1>3. QED
  BY <1>1, <1>2 DEF Types, TypeOK

\* Who holds the lock of a side keeps the others of that side from committing.
LEMMA CountHeld ==
  ASSUME TypeOK, ControlInv, DataInv, NEW u \in Threads, pc[u] \in Critical \ {"add", "sub"},
         NEW t \in Threads, Call(t) \/ SpuriousWake(t) \/ Step(t)
  PROVE  /\ count \in Nat /\ count' \in Nat
         /\ Side(u) = "push" => count' <= count
         /\ Side(u) = "pop"  => count <= count'
<1>1. count \in Nat
  BY DEF TypeOK
<1>2. CASE count' = count
  BY <1>1, <1>2
<1>3. CASE pc[t] = "add" /\ count' = count + 1
  <2>1. Side(t) = "push" /\ u # t
    BY <1>3, SidesOf
  <2>2. Side(u) # "push"
    BY <1>3, <2>1, Exclusive DEF Critical
  <2>3. QED
    BY <1>1, <1>3, <2>2
<1>4. CASE pc[t] = "sub" /\ count' \in Nat /\ count' <= count
  <2>1. Side(t) = "pop" /\ u # t
    BY <1>4, SidesOf
  <2>2. Side(u) # "pop"
    BY <1>4, <2>1, Exclusive DEF Critical
  <2>3. QED
    BY <1>1, <1>4, <2>2
<1>5. QED
  BY <1>2, <1>3, <1>4, CountMoves

\* Where the steps that decide and commit come from, and what they read.
LEMMA Decisions ==
  ASSUME TypeOK, ControlInv, NEW t \in Threads, Call(t) \/ SpuriousWake(t) \/ Step(t)
  PROVE  /\ pc'[t] = "verdict_flag" /\ op'[t] \in {"push", "push_timeout"} =>
              \/ pc[t] = "verdict_flag" /\ op'[t] = op[t]
              \/ (disposed \/ count < Capacity) /\ count' = count /\ disposed' = disposed
         /\ pc'[t] = "verdict_count" /\ op'[t] \in {"pop", "pop_timeout"} =>
              \/ pc[t] = "verdict_count" /\ op'[t] = op[t]
              \/ (disposed \/ count # 0) /\ count' = count /\ disposed' = disposed
         /\ pc'[t] = "unlink" /\ op'[t] # "drain" =>
              \/ pc[t] = "unlink" /\ op'[t] = op[t]
              \/ count # 0 /\ count' = count
         /\ pc'[t] = "link" =>
              \/ pc[t] = "link"
              \/ pc[t] = "verdict_count" /\ count' = count /\ ~IsFull /\ list' = list
              \/ pc[t] = "verdict_flag" /\ op[t] \in {"push", "push_timeout"} /\ ~disposed
                 /\ count' = count /\ list' = list
         /\ pc'[t] = "add" => pc[t] = "add" \/ (pc[t] = "link" /\ count' = count)
<1> USE DEF TypeOK, PCs, chain, sync, local, Goto, PushOps, PopOps, TryOps, IsFull, IsEmpty
<1>1. CASE Call(t)
  BY <1>1 DEF Call
<1>2. CASE Acquire(t)
  BY <1>2 DEF Acquire, TakeLock, Verdict, Side, ControlInv, OpInv
<1>3. CASE WaitFlag(t)
  BY <1>3 DEF WaitFlag, Verdict, Side
<1>4. CASE WaitCount(t)
  BY <1>4, CapacityNat DEF WaitCount, Verdict, Blocked, Side, Finish
<1>5. CASE Sleep(t) \/ Reacquire(t) \/ Expire(t) \/ Leave(t) \/ DisposeCas(t) \/ Signal(t) \/ Return(t)
  BY <1>5 DEF Sleep, Reacquire, Awake, TakeLock, Expire, Leave, DisposeCas, Signal, Return
<1>6. CASE VerdictFlag(t)
  BY <1>6 DEF VerdictFlag, Finish, ControlInv, OpInv
<1>7. CASE VerdictCount(t)
  BY <1>7 DEF VerdictCount, Side, Finish
<1>8. CASE Link(t) \/ Unlink(t)
  BY <1>8 DEF Link, Unlink
<1>9. CASE Add(t) \/ Sub(t)
  BY <1>9 DEF Add, Sub, Finish
<1>10. QED
  BY <1>1, <1>2, <1>3, <1>4, <1>5, <1>6, <1>7, <1>8, <1>9 DEF Step, TimeoutWake, SpuriousWake

LEMMA VerdictStep == TypeOK /\ ControlInv /\ DataInv /\ [Next]_vars => VerdictInv'
<1> SUFFICES ASSUME TypeOK, ControlInv, DataInv, [Next]_vars, NEW u \in Threads
    PROVE  /\ pc'[u] = "verdict_flag" /\ op'[u] \in {"push", "push_timeout"} =>
                disposed' \/ count' < Capacity
           /\ pc'[u] = "verdict_count" /\ op'[u] \in {"pop", "pop_timeout"} =>
                disposed' \/ count' > 0
           /\ pc'[u] = "unlink" /\ op'[u] # "drain" => count' > 0
  BY DEF VerdictInv
<1>0. count \in Nat /\ Capacity \in Nat /\ VerdictInv
  BY CapacityNat DEF TypeOK, DataInv
<1>1. CASE UNCHANGED vars
  BY <1>0, <1>1 DEF vars, chain, local, VerdictInv
<1>2. ASSUME NEW t \in Threads, Call(t) \/ SpuriousWake(t) \/ Step(t)
    PROVE  /\ pc'[u] = "verdict_flag" /\ op'[u] \in {"push", "push_timeout"} =>
                disposed' \/ count' < Capacity
           /\ pc'[u] = "verdict_count" /\ op'[u] \in {"pop", "pop_timeout"} =>
                disposed' \/ count' > 0
           /\ pc'[u] = "unlink" /\ op'[u] # "drain" => count' > 0
  <2>1. disposed => disposed'
    BY <1>2, DataFrame
  <2>2. CASE pc'[u] = pc[u] /\ op'[u] = op[u]
    <3>1. CASE pc[u] = "verdict_flag" /\ op[u] \in {"push", "push_timeout"}
      <4>1. Side(u) = "push"
        BY <3>1 DEF Side, PushOps
      <4>2. count' \in Nat /\ count' <= count
        BY <1>2, <3>1, <4>1, CountHeld DEF Critical
      <4>3. QED
        BY <1>0, <2>1, <2>2, <3>1, <4>2 DEF VerdictInv
    <3>2. CASE pc[u] = "verdict_count" /\ op[u] \in {"pop", "pop_timeout"}
      <4>1. Side(u) = "pop"
        BY <3>2 DEF Side, PushOps
      <4>2. count' \in Nat /\ count <= count'
        BY <1>2, <3>2, <4>1, CountHeld DEF Critical
      <4>3. QED
        BY <1>0, <2>1, <2>2, <3>2, <4>2 DEF VerdictInv
    <3>3. CASE pc[u] = "unlink" /\ op[u] # "drain"
      <4>1. Side(u) = "pop"
        BY <3>3, SidesOf
      <4>2. count' \in Nat /\ count <= count'
        BY <1>2, <3>3, <4>1, CountHeld DEF Critical
      <4>3. QED
        BY <1>0, <2>2, <3>3, <4>2 DEF VerdictInv
    <3>4. QED
      BY <2>2, <3>1, <3>2, <3>3
  <2>3. CASE u # t
    BY <1>2, <2>2, <2>3, OthersStand
  <2>4. CASE u = t /\ ~(pc'[u] = pc[u] /\ op'[u] = op[u])
    BY <1>0, <1>2, <2>1, <2>4, Decisions
  <2>5. QED
    BY <2>2, <2>3, <2>4
<1>3. QED
  BY <1>1, <1>2 DEF Next

LEMMA CommitStep == TypeOK /\ ControlInv /\ DataInv /\ [Next]_vars => CommitsAreSafe'
<1> SUFFICES ASSUME TypeOK, ControlInv, DataInv, [Next]_vars PROVE CommitsAreSafe'
  OBVIOUS
<1>0. count \in Nat /\ Capacity \in Nat /\ CommitsAreSafe /\ VerdictInv
  BY CapacityNat DEF TypeOK, DataInv
<1>1. CASE UNCHANGED vars
  BY <1>0, <1>1 DEF vars, chain, local, CommitsAreSafe
<1>2. ASSUME NEW t \in Threads, Call(t) \/ SpuriousWake(t) \/ Step(t) PROVE CommitsAreSafe'
  <2>1. count' \in Nat /\ count' <= Capacity
    BY <1>0, <1>2, CountMoves DEF CommitsAreSafe
  <2>2. ASSUME NEW u \in Threads, pc'[u] \in {"link", "add"} PROVE count' < Capacity
    <3>1. CASE pc[u] \in {"link", "add"}
      <4>1. count < Capacity /\ Side(u) = "push"
        BY <1>0, <3>1, SidesOf DEF CommitsAreSafe
      <4>2. CASE pc[t] = "add" /\ pc'[t] = "signal"
        <5>1. u = t
          BY <3>1, <4>1, <4>2, SidesOf, Exclusive DEF Critical
        <5>2. QED
          BY <2>2, <4>2, <5>1
      <4>3. CASE count' <= count
        BY <1>0, <2>1, <4>1, <4>3
      <4>4. QED
        <5>1. count <= count
          BY <1>0
        <5>2. QED
          BY <1>0, <1>2, <4>2, <4>3, <5>1, CountMoves
    <3>2. CASE pc[u] \notin {"link", "add"}
      <4>1. u = t
        BY <1>2, <2>2, <3>2, OthersStand
      <4>2. /\ count' = count
            /\ \/ ~IsFull
               \/ pc[t] = "verdict_flag" /\ op[t] \in {"push", "push_timeout"} /\ ~disposed
        BY <1>2, <2>2, <3>2, <4>1, Decisions
      <4>3. QED
        BY <1>0, <4>2 DEF IsFull, VerdictInv
    <3>3. QED
      BY <3>1, <3>2
  <2>3. ASSUME NEW u \in Threads, pc'[u] = "unlink"
        PROVE  Len(list') >= (IF op'[u] = "drain" THEN count' ELSE 1)
    <3>1. Types' /\ LockInv' /\ OpInv' /\ TrackInv' /\ VerdictInv'
      BY TypesStep, ControlStep, TrackStep, VerdictStep DEF ControlInv
    <3>2. op'[u] \in PopOps \cup {"drain"} /\ lock'["pop"] = u
      BY <2>3, <3>1 DEF OpInv, LockInv, Critical, Side, Sides, PushOps, PopOps
    <3>3. ASSUME NEW v \in Threads, pc'[v] = "sub" PROVE FALSE
      <4>1. op'[v] \in PopOps \cup {"drain"} /\ lock'["pop"] = v
        BY <3>1, <3>3 DEF OpInv, LockInv, Critical, Side, Sides, PushOps, PopOps
      <4>2. QED
        BY <2>3, <3>2, <3>3, <4>1
    <3>4. Len(list') = count' + Ahead' /\ Ahead' \in {0, 1}
      BY <3>1, <3>3 DEF TrackInv, Ahead
    <3>5. PICK k \in Nat : k = Len(list')
      BY <3>1, LenProperties DEF Types
    <3>6. PICK c \in Nat : c = count'
      BY <2>1
    <3>7. k = c \/ k = c + 1
      <4>1. CASE Ahead' = 0
        <5>1. k = c + 0
          BY <3>4, <3>5, <3>6, <4>1
        <5>2. QED
          BY <5>1
      <4>2. CASE Ahead' = 1
        BY <3>4, <3>5, <3>6, <4>2
      <4>3. QED
        BY <3>4, <4>1, <4>2
    <3>8. op'[u] # "drain" => c > 0
      BY <2>3, <3>1, <3>6 DEF VerdictInv
    <3>9. k >= c /\ (op'[u] # "drain" => k >= 1)
      BY <3>7, <3>8
    <3>10. QED
      BY <3>5, <3>6, <3>9
  <2>4. QED
    BY <2>1, <2>2, <2>3 DEF CommitsAreSafe
<1>3. QED
  BY <1>1, <1>2 DEF Next

LEMMA DataStep == TypeOK /\ ControlInv /\ DataInv /\ [Next]_vars => DataInv'
BY TrackStep, VerdictStep, CommitStep DEF DataInv

-----------------------------------------------------------------------------
(* What comes in behind a dispose *)

\* A consumer reports the queue unavailable from its own count, with no node
\* half unlinked and none half linked but by one producer.
LEMMA ExhaustedNow ==
  ASSUME TypeOK, ControlInv, DataInv, NEW t \in Threads, VerdictCount(t),
         op[t] \in {"pop", "pop_timeout"}, IsEmpty
  PROVE  /\ disposed /\ Len(list) <= 1
         /\ \A u \in Threads : Side(u) = "push" /\ pc[u] \in {"verdict_count", "link"} => list = <<>>
<1>1. pc[t] = "verdict_count" /\ Side(t) = "pop" /\ count = 0
  BY DEF VerdictCount, Side, PushOps, IsEmpty
<1>2. disposed
  BY <1>1 DEF DataInv, VerdictInv
<1>3. ASSUME NEW v \in Threads, pc[v] = "sub" PROVE FALSE
  BY <1>1, <1>3, SidesOf, Exclusive DEF Critical
<1>4. Len(list) = Ahead /\ Ahead \in {0, 1}
  BY <1>1, <1>3 DEF DataInv, TrackInv, Ahead
<1>5. ASSUME NEW u \in Threads, Side(u) = "push", pc[u] \in {"verdict_count", "link"}
      PROVE  list = <<>>
  <2>1. \A v \in Threads : pc[v] # "add"
    BY <1>5, SidesOf, Exclusive DEF Critical
  <2>2. Ahead = 0
    BY <2>1 DEF Ahead
  <2>3. QED
    BY <1>4, <2>2, EmptySeq DEF TypeOK
<1>6. QED
  BY <1>2, <1>4, <1>5

\* No push gets past the flag once it is set, and only a push past it links.
LEMMA PastTheFlag ==
  ASSUME TypeOK, ControlInv, disposed, NEW t \in Threads,
         Call(t) \/ SpuriousWake(t) \/ Step(t),
         pc'[t] \in {"verdict_count", "link"}, Side(t)' = "push"
  PROVE  pc[t] \in {"verdict_count", "link"} /\ Side(t) = "push"
<1> USE DEF TypeOK, PCs, chain, sync, local, Goto, Side, PushOps, TryOps
<1>1. CASE Call(t)
  BY <1>1 DEF Call
<1>2. CASE Acquire(t)
  BY <1>2 DEF Acquire, TakeLock, Verdict
<1>3. CASE WaitFlag(t)
  BY <1>3 DEF WaitFlag, Verdict
<1>4. CASE WaitCount(t)
  BY <1>4 DEF WaitCount, Verdict, Finish
<1>5. CASE Sleep(t) \/ Reacquire(t) \/ Expire(t) \/ Leave(t) \/ DisposeCas(t) \/ Signal(t) \/ Return(t)
  BY <1>5 DEF Sleep, Reacquire, Awake, TakeLock, Expire, Leave, DisposeCas, Signal, Return
<1>6. CASE VerdictFlag(t)
  BY <1>6 DEF VerdictFlag, Finish
<1>7. CASE VerdictCount(t)
  BY <1>7 DEF VerdictCount, Finish
<1>8. CASE Link(t) \/ Unlink(t)
  BY <1>8 DEF Link, Unlink
<1>9. CASE Add(t) \/ Sub(t)
  BY <1>9 DEF Add, Sub, Finish
<1>10. QED
  BY <1>1, <1>2, <1>3, <1>4, <1>5, <1>6, <1>7, <1>8, <1>9 DEF Step, TimeoutWake, SpuriousWake

LEMMA SlipStep ==
  TypeOK /\ ControlInv /\ DataInv /\ SlipInv /\ [Next]_vars => SlipInv'
<1> SUFFICES ASSUME TypeOK, ControlInv, DataInv, SlipInv, [Next]_vars,
                    exhausted' \cap {"pop", "pop_timeout"} # {}
             PROVE  /\ disposed' /\ Len(list') <= 1
                    /\ \A u \in Threads :
                         Side(u)' = "push" /\ pc'[u] \in {"verdict_count", "link"} => list' = <<>>
  BY DEF SlipInv
<1>1. CASE UNCHANGED vars
  BY <1>1 DEF vars, chain, local, SlipInv, Side
<1>2. ASSUME NEW t \in Threads, Call(t) \/ SpuriousWake(t) \/ Step(t)
      PROVE  /\ disposed' /\ Len(list') <= 1
             /\ \A u \in Threads :
                  Side(u)' = "push" /\ pc'[u] \in {"verdict_count", "link"} => list' = <<>>
  <2> USE <1>2
  <2>0. disposed => disposed'
    BY DataFrame
  <2>1. \A w \in Threads \ {t} : pc'[w] = pc[w] /\ Side(w)' = Side(w)
    BY OthersStand DEF Side
  <2>2. /\ disposed /\ Len(list) <= 1
        /\ \A u \in Threads : Side(u) = "push" /\ pc[u] \in {"verdict_count", "link"} => list = <<>>
    <3>1. CASE exhausted \cap {"pop", "pop_timeout"} # {}
      BY <3>1 DEF SlipInv
    <3>2. CASE exhausted \cap {"pop", "pop_timeout"} = {}
      <4>1. VerdictCount(t) /\ op[t] \in {"pop", "pop_timeout"} /\ IsEmpty
        <5>1. CASE VerdictCount(t)
          BY <3>2, <5>1 DEF VerdictCount
        <5>2. CASE VerdictFlag(t)
          BY <3>2, <5>2 DEF VerdictFlag
        <5>3. CASE ~VerdictCount(t) /\ ~VerdictFlag(t)
          <6>1. exhausted' = exhausted
            BY <5>3 DEF Step, TimeoutWake, SpuriousWake, Call, Acquire, TakeLock, WaitFlag,
               WaitCount, Sleep, Reacquire, Expire, Leave, Link, Add, Unlink, Sub,
               DisposeCas, Signal, Return
          <6>2. QED
            BY <3>2, <6>1
        <5>4. QED
          BY <5>1, <5>2, <5>3
      <4>2. QED
        BY <4>1, ExhaustedNow
    <3>3. QED
      BY <3>1, <3>2
  <2>3. Len(list) \in Nat
    BY LenProperties DEF TypeOK
  <2>4. CASE Link(t)
    <3>1. pc[t] = "link" /\ Side(t) = "push" /\ pc'[t] = "add" /\ Len(list') = Len(list) + 1
      BY <2>4, LinkEffect, SidesOf DEF Link
    <3>2. Len(list) = 0
      BY <2>2, <3>1, EmptySeq
    <3>3. ASSUME NEW u \in Threads, Side(u)' = "push", pc'[u] \in {"verdict_count", "link"}
          PROVE  FALSE
      <4>1. u # t /\ Side(u) = "push" /\ pc[u] \in {"verdict_count", "link"}
        BY <2>1, <3>1, <3>3
      <4>2. QED
        BY <3>1, <4>1, Exclusive DEF Critical
    <3>4. QED
      BY <2>0, <2>2, <3>1, <3>2, <3>3
  <2>5. CASE ~Link(t)
    <3>1. Len(list') <= 1 /\ (list = <<>> => list' = <<>>)
      <4>1. CASE Unlink(t)
        <5>1. op[t] # "drain" => count > 0
          BY <4>1 DEF Unlink, DataInv, VerdictInv
        <5>2. PICK n \in 0 .. count : Len(list') + n = Len(list)
          BY <4>1, <5>1, UnlinkEffect
        <5>3. count \in Nat /\ list' \in Seq(Items) /\ Len(list') \in Nat
          BY TypesStep, LenProperties DEF TypeOK, Types, Next
        <5>4. Len(list') <= Len(list)
          BY <2>3, <5>2, <5>3
        <5>5. list = <<>> => Len(list') = 0
          BY <5>3, <5>4, EmptySeq
        <5>6. QED
          BY <2>2, <2>3, <5>3, <5>4, <5>5, EmptySeq
      <4>2. CASE ~Unlink(t)
        <5>1. list' = list
          BY <2>5, <4>2, DataFrame DEF Commits, Add, Sub
        <5>2. QED
          BY <2>2, <5>1
      <4>3. QED
        BY <4>1, <4>2
    <3>2. ASSUME NEW u \in Threads, Side(u)' = "push", pc'[u] \in {"verdict_count", "link"}
          PROVE  list' = <<>>
      <4>1. Side(u) = "push" /\ pc[u] \in {"verdict_count", "link"}
        BY <2>1, <2>2, <3>2, PastTheFlag
      <4>2. QED
        BY <2>2, <3>1, <4>1
    <3>3. QED
      BY <2>0, <2>2, <3>1, <3>2
  <2>6. QED
    BY <2>4, <2>5
<1>3. QED
  BY <1>1, <1>2 DEF Next

-----------------------------------------------------------------------------
(* Wake-ups *)

\* Someone in a wait set is counted.
LEMMA Counted ==
  ASSUME TypeOK, ControlInv, CounterInv, NEW s \in Sides, sleepers[s] # {}
  PROVE  waiters[s] > 0
<1>1. sleepers[s] \subseteq WaitingAt(s)
  BY DEF TypeOK, ControlInv, WaitSetInv, WaitingAt, InWait
<1>2. Cardinality(WaitingAt(s)) > 0
  BY <1>1, WaitingFinite, FS_EmptySet
<1>3. QED
  BY <1>2 DEF CounterInv

\* A notify_one that passes its conditions wakes a sleeper of that side.
LEMMA CascadeWakes ==
  ASSUME TypeOK, ControlInv, CounterInv, NEW s \in Sides, sleepers[s] # {},
         Cascade(s, TRUE)
  PROVE  \E w \in Threads : pc[w] = "asleep" /\ Side(w) = s /\ w \notin sleepers'[s]
<1>1. waiters[s] > 0
  BY Counted
<1>2. PICK w \in sleepers[s] : sleepers' = [sleepers EXCEPT ![s] = sleepers[s] \ {w}]
  BY <1>1 DEF Cascade, NotifyOne
<1>3. w \in Threads /\ pc[w] = "asleep" /\ Side(w) = s /\ w \notin sleepers'[s]
  BY <1>2 DEF TypeOK, ControlInv, WaitSetInv
<1>4. QED
  BY <1>3

\* The one who was woken looks.
LEMMA WokenLooks ==
  ASSUME ControlInv, NEW s \in Sides, NEW w \in Threads, pc[w] = "asleep", Side(w) = s,
         w \notin sleepers'[s], pc'[w] = "asleep", op'[w] = op[w]
  PROVE  Looking(w, s)'
<1>1. op[w] # "drain"
  BY DEF ControlInv, OpInv, InWait
<1>2. QED
  BY <1>1 DEF Looking, Awake, Side

\* Whom a pending notification is for.
LEMMA NotesFor ==
  ASSUME NEW notes
  PROVE  /\ notes = <<>> => ~\E n \in Range(notes) : n[2] \in Sides
         /\ notes = AllPush => /\ ~\E n \in Range(notes) : n[2] = "pop"
                               /\ \E n \in Range(notes) : n[2] = "push"
         /\ notes = AllPopPush => /\ \E n \in Range(notes) : n[2] = "pop"
                                  /\ \E n \in Range(notes) : n[2] = "push"
         /\ notes = OnePop => /\ \E n \in Range(notes) : n[2] = "pop"
                              /\ ~\E n \in Range(notes) : n[2] = "push"
         /\ notes = OnePush => /\ ~\E n \in Range(notes) : n[2] = "pop"
                               /\ \E n \in Range(notes) : n[2] = "push"
<1>1. Range(<<>>) = {} /\ Range(AllPush) = {<<"all", "push">>}
      /\ Range(OnePop) = {<<"one", "pop">>} /\ Range(OnePush) = {<<"one", "push">>}
  BY DEF Range, AllPush, OnePop, OnePush
<1>2. Range(AllPopPush) = {<<"all", "pop">>, <<"all", "push">>}
  BY DEF Range, AllPopPush
<1>3. CASE notes = <<>>
  BY <1>1, <1>3 DEF AllPush, AllPopPush, OnePop, OnePush
<1>4. CASE notes = AllPush
  BY <1>1, <1>4 DEF AllPush, AllPopPush, OnePop, OnePush
<1>5. CASE notes = AllPopPush
  BY <1>2, <1>5 DEF AllPush, AllPopPush, OnePop, OnePush
<1>6. CASE notes = OnePop
  BY <1>1, <1>6 DEF AllPush, AllPopPush, OnePop, OnePush
<1>7. CASE notes = OnePush
  BY <1>1, <1>7 DEF AllPush, AllPopPush, OnePop, OnePush
<1>8. QED
  BY <1>3, <1>4, <1>5, <1>6, <1>7

LEMMA SendingCases ==
  ASSUME NEW t \in Threads
  PROVE  /\ sig[t] = <<>> => ~Sending(t, "pop") /\ ~Sending(t, "push")
         /\ sig[t] = AllPush => ~Sending(t, "pop") /\ Sending(t, "push")
         /\ sig[t] = AllPopPush => Sending(t, "pop") /\ Sending(t, "push")
         /\ sig[t] = OnePop => Sending(t, "pop") /\ ~Sending(t, "push")
         /\ sig[t] = OnePush => ~Sending(t, "pop") /\ Sending(t, "push")
BY NotesFor DEF Sending, Sides

\* A notification is sent under the lock of its side, and wakes somebody there.
LEMMA SignalWakes ==
  ASSUME TypeOK, ControlInv, CounterInv, NEW t \in Threads, NEW s \in Sides,
         Signal(t), Sending(t, s), ~Sending(t, s)'
  PROVE  /\ lock[s] = NoThread
         /\ op[t] = "dispose" => sleepers'[s] = {}
         /\ sleepers'[s] # {} => \E w \in Threads : Looking(w, s)'
<1>1. sig[t] \in {AllPush, AllPopPush, OnePop, OnePush} /\ sig'[t] = Tail(sig[t])
      /\ (op[t] = "dispose" => sig[t] \notin {OnePop, OnePush})
  BY DEF Signal, ControlInv, SigInv, TypeOK
<1>2. Head(sig[t])[2] = s
  <2>1. /\ sig'[t] = <<>> => ~Sending(t, "pop")' /\ ~Sending(t, "push")'
        /\ sig'[t] = AllPush => ~Sending(t, "pop")' /\ Sending(t, "push")'
    BY NotesFor DEF Sending, Sides
  <2>2. QED
    BY <1>1, <2>1, SigCases, SendingCases DEF Sides
<1>3. lock[s] = NoThread
  BY <1>2 DEF Signal
<1>4. CASE Head(sig[t])[1] = "all"
  <2>1. sleepers'[s] = {}
    BY <1>2, <1>4 DEF Signal, TypeOK
  <2>2. QED
    BY <1>3, <2>1
<1>5. CASE Head(sig[t])[1] = "one"
  <2>1. op[t] # "dispose"
    BY <1>1, <1>5, SigCases
  <2>2. Cascade(s, TRUE) /\ pc' = pc /\ op' = op
    BY <1>2, <1>5 DEF Signal
  <2>3. ASSUME sleepers'[s] # {} PROVE \E w \in Threads : Looking(w, s)'
    <3>1. sleepers[s] # {}
      BY <2>2, <2>3, CascadeTyped DEF TypeOK
    <3>2. PICK w \in Threads : pc[w] = "asleep" /\ Side(w) = s /\ w \notin sleepers'[s]
      BY <2>2, <3>1, CascadeWakes
    <3>3. QED
      BY <2>2, <3>2, WokenLooks
  <2>4. QED
    BY <1>3, <2>1, <2>3
<1>6. QED
  BY <1>1, <1>4, <1>5, SigCases

\* Only Signal takes a notification off the list, and Sending at all means
\* that the call is over but for that.
LEMMA SendingStays ==
  ASSUME TypeOK, ControlInv, NEW w \in Threads, NEW s \in Sides, Sending(w, s),
         NEW t \in Threads, Call(t) \/ SpuriousWake(t) \/ Step(t)
  PROVE  /\ op'[w] = op[w]
         /\ Sending(w, s)' \/ (w = t /\ Signal(t))
<1>1. pc[w] = "signal" /\ sig[w] # <<>>
  BY SendingCases DEF ControlInv, SigInv, Sides
<1>2. CASE w # t
  BY <1>2, OthersStand DEF Sending
<1>3. CASE w = t /\ Signal(t)
  BY <1>3 DEF Signal
<1>4. CASE w = t /\ ~Signal(t)
  <2>1. sig'[t] = sig[t] /\ op'[t] = op[t]
    BY <1>1, <1>4 DEF Step, TimeoutWake, SpuriousWake, Call, Acquire, WaitFlag, WaitCount,
       Sleep, Reacquire, Awake, Expire, Leave, VerdictFlag, VerdictCount, Link, Add,
       Unlink, Sub, DisposeCas, Return, local
  <2>2. QED
    BY <1>4, <2>1 DEF Sending
<1>5. QED
  BY <1>2, <1>3, <1>4

LEMMA AddEffect ==
  ASSUME TypeOK, NEW t \in Threads, Add(t)
  PROVE  /\ count' = count + 1 /\ op' = op
         /\ \A w \in Threads : pc[w] = "asleep" => pc'[w] = "asleep"
         /\ count = 0 => Sending(t, "pop")'
         /\ count + 1 < Capacity => Cascade("push", TRUE)
<1>1. /\ pc[t] = "add" /\ pc' = [pc EXCEPT ![t] = "signal"]
      /\ sig' = [sig EXCEPT ![t] = When(count = 0, <<"one", "pop">>)]
      /\ Cascade("push", count + 1 < Capacity) /\ count' = count + 1 /\ op' = op
  BY DEF Add, Finish, Goto
<1>2. count = 0 => sig'[t] = OnePop
  BY <1>1 DEF When, OnePop, TypeOK
<1>3. count = 0 => Sending(t, "pop")'
  BY <1>2, NotesFor DEF Sending
<1>4. QED
  BY <1>1, <1>3 DEF TypeOK

LEMMA SubEffect ==
  ASSUME TypeOK, ControlInv, DataInv, NEW t \in Threads, Sub(t)
  PROVE  /\ count' = count - Len(carry[t]) /\ op' = op
         /\ \A w \in Threads : pc[w] = "asleep" => pc'[w] = "asleep"
         /\ op[t] = "drain" /\ carry[t] # <<>> => Sending(t, "push")'
         /\ op[t] # "drain" /\ count = Capacity => Sending(t, "push")'
         /\ op[t] # "drain" => Len(carry[t]) = 1
         /\ op[t] # "drain" /\ count > 1 => Cascade("pop", TRUE)
<1>1. /\ pc[t] = "sub" /\ pc' = [pc EXCEPT ![t] = "signal"]
      /\ sig' = [sig EXCEPT ![t] =
           IF op[t] = "drain" THEN When(carry[t] # <<>>, <<"all", "push">>)
           ELSE When(count = Capacity, <<"one", "push">>)]
      /\ Cascade("pop", op[t] # "drain" /\ count > 1)
      /\ count' = count - Len(carry[t]) /\ op' = op
  BY DEF Sub, Finish, Goto
<1>2. op[t] = "drain" /\ carry[t] # <<>> => sig'[t] = AllPush
  BY <1>1 DEF When, AllPush, TypeOK
<1>3. op[t] # "drain" /\ count = Capacity => sig'[t] = OnePush
  BY <1>1 DEF When, OnePush, TypeOK
<1>4. /\ op[t] = "drain" /\ carry[t] # <<>> => Sending(t, "push")'
      /\ op[t] # "drain" /\ count = Capacity => Sending(t, "push")'
  BY <1>2, <1>3, NotesFor DEF Sending
<1>5. op[t] # "drain" => Len(carry[t]) = 1
  BY <1>1 DEF ControlInv, OpInv, CarryInv
<1>6. QED
  BY <1>1, <1>4, <1>5 DEF TypeOK

LEMMA CasEffect ==
  ASSUME TypeOK, ControlInv, NEW t \in Threads, DisposeCas(t), ~disposed, NEW s \in Sides
  PROVE  op'[t] = "dispose" /\ Sending(t, s)'
<1>1. op'[t] = "dispose" /\ sig'[t] = AllPopPush
  BY DEF DisposeCas, AllPopPush, TypeOK, ControlInv, OpInv
<1>2. QED
  BY <1>1, NotesFor DEF Sending, Sides

\* The count leaves zero by an Add, and Capacity by a Sub.
LEMMA CountCrosses ==
  ASSUME TypeOK, ControlInv, DataInv, NEW t \in Threads,
         Call(t) \/ SpuriousWake(t) \/ Step(t)
  PROVE  /\ count = 0 /\ count' > 0 => Sending(t, "pop")'
         /\ count >= Capacity /\ count' < Capacity => Sending(t, "push")'
<1>0. count \in Nat /\ Capacity \in Nat /\ count <= Capacity
  BY CapacityNat DEF TypeOK, DataInv, CommitsAreSafe
<1>1. CASE Add(t)
  <2>1. count' = count + 1 /\ (count = 0 => Sending(t, "pop")')
    BY <1>1, AddEffect
  <2>2. ~(count >= Capacity /\ count' < Capacity)
    BY <1>0, <2>1
  <2>3. QED
    BY <2>1, <2>2
<1>2. CASE Sub(t)
  <2>1. PICK n \in Nat : n = Len(carry[t])
    BY LenProperties DEF TypeOK
  <2>2. count' = count - n
    BY <1>2, <2>1, SubEffect
  <2>3. ~(count = 0 /\ count' > 0)
    BY <1>0, <2>2
  <2>4. ASSUME count >= Capacity, count' < Capacity PROVE Sending(t, "push")'
    <3>1. count = Capacity /\ n # 0
      BY <1>0, <2>2, <2>4
    <3>2. carry[t] # <<>>
      BY <2>1, <3>1, EmptySeq
    <3>3. QED
      BY <1>2, <3>1, <3>2, SubEffect
  <2>5. QED
    BY <2>3, <2>4
<1>3. CASE ~Add(t) /\ ~Sub(t)
  <2>1. count' = count
    BY <1>3, DataFrame DEF Commits, Link, Unlink
  <2>2. QED
    BY <1>0, <2>1
<1>4. QED
  BY <1>1, <1>2, <1>3

\* A notification for the side whose lock u holds stays pending.
LEMMA LockedSending ==
  ASSUME TypeOK, ControlInv, CounterInv, NEW u \in Threads, pc[u] \in Critical,
         NEW s \in Sides, Side(u) = s, NEW w \in Threads, Sending(w, s),
         NEW t \in Threads, Call(t) \/ SpuriousWake(t) \/ Step(t)
  PROVE  op'[w] = op[w] /\ Sending(w, s)'
<1>1. lock[s] # NoThread
  BY BQAssumption DEF ControlInv, LockInv
<1>2. op'[w] = op[w] /\ (Sending(w, s)' \/ (w = t /\ Signal(t)))
  BY SendingStays
<1>3. Sending(w, s)'
  BY <1>1, <1>2, SignalWakes
<1>4. QED
  BY <1>2, <1>3

\* How a thread comes to the end of the predicate.
LEMMA FallingAsleep ==
  ASSUME TypeOK, NEW t \in Threads, Call(t) \/ SpuriousWake(t) \/ Step(t)
  PROVE  /\ pc'[t] = "sleep" => /\ op'[t] = op[t]
                                /\ \/ pc[t] = "sleep"
                                   \/ /\ pc[t] = "while_count" /\ Blocked(t)
                                      /\ count' = count /\ disposed' = disposed
         /\ pc'[t] = "while_count" => /\ op'[t] = op[t]
                                      /\ \/ pc[t] = "while_count"
                                         \/ ~disposed /\ disposed' = disposed
<1> USE DEF TypeOK, PCs, chain, sync, local, Goto
<1>1. CASE Call(t) \/ Acquire(t) \/ WaitFlag(t)
  BY <1>1 DEF Call, Acquire, TakeLock, WaitFlag, Verdict
<1>2. CASE WaitCount(t) \/ VerdictFlag(t) \/ VerdictCount(t)
  BY <1>2 DEF WaitCount, VerdictFlag, VerdictCount, Finish, Verdict
<1>3. CASE Sleep(t) \/ Reacquire(t) \/ Expire(t) \/ Leave(t)
  BY <1>3 DEF Sleep, Reacquire, Awake, TakeLock, Expire, Leave
<1>4. CASE Link(t) \/ Add(t) \/ Unlink(t) \/ Sub(t) \/ DisposeCas(t) \/ Signal(t) \/ Return(t)
  BY <1>4 DEF Link, Add, Unlink, Sub, DisposeCas, Signal, Return, Finish
<1>5. QED
  BY <1>1, <1>2, <1>3, <1>4 DEF Step, TimeoutWake, SpuriousWake

LEMMA SleepStep == IInv /\ [Next]_vars => SleepInv'
<1> SUFFICES ASSUME IInv, [Next]_vars, NEW u \in Threads
    PROVE  /\ pc'[u] = "sleep" /\ Side(u)' = "pop" /\ count' > 0 =>
                \E w \in Threads : Sending(w, "pop")'
           /\ pc'[u] = "sleep" /\ Side(u)' = "push" /\ count' < Capacity =>
                \E w \in Threads : Sending(w, "push")'
           /\ pc'[u] \in {"while_count", "sleep"} /\ disposed' =>
                \E w \in Threads : op'[w] = "dispose" /\ Sending(w, Side(u))'
  BY DEF SleepInv
<1>0. /\ count \in Nat /\ Capacity \in Nat /\ count <= Capacity
      /\ TypeOK /\ ControlInv /\ CounterInv /\ DataInv /\ SleepInv
  BY CapacityNat DEF IInv, TypeOK, DataInv, CommitsAreSafe
<1>1. CASE UNCHANGED vars
  BY <1>0, <1>1 DEF vars, chain, local, SleepInv, Side, Sending
<1>2. ASSUME NEW t \in Threads, Call(t) \/ SpuriousWake(t) \/ Step(t)
    PROVE  /\ pc'[u] = "sleep" /\ Side(u)' = "pop" /\ count' > 0 =>
                \E w \in Threads : Sending(w, "pop")'
           /\ pc'[u] = "sleep" /\ Side(u)' = "push" /\ count' < Capacity =>
                \E w \in Threads : Sending(w, "push")'
           /\ pc'[u] \in {"while_count", "sleep"} /\ disposed' =>
                \E w \in Threads : op'[w] = "dispose" /\ Sending(w, Side(u))'
  <2>1. /\ pc'[u] = "sleep" => /\ op'[u] = op[u]
                               /\ \/ pc[u] = "sleep"
                                  \/ /\ pc[u] = "while_count" /\ Blocked(u)
                                     /\ count' = count /\ disposed' = disposed
        /\ pc'[u] = "while_count" => /\ op'[u] = op[u]
                                     /\ \/ pc[u] = "while_count"
                                        \/ ~disposed /\ disposed' = disposed
    <3>1. CASE u = t
      BY <1>0, <1>2, <3>1, FallingAsleep
    <3>2. CASE u # t
      BY <1>0, <1>2, <3>2, OthersStand
    <3>3. QED
      BY <3>1, <3>2
  <2>2. ASSUME NEW w \in Threads, pc[u] \in {"while_count", "sleep"},
               NEW s \in Sides, Side(u) = s, Sending(w, s)
        PROVE  op'[w] = op[w] /\ Sending(w, s)'
    BY <1>0, <1>2, <2>2, LockedSending DEF Critical
  <2>3. ASSUME pc'[u] = "sleep", Side(u)' = "pop", count' > 0
        PROVE  \E w \in Threads : Sending(w, "pop")'
    <3>1. Side(u) = "pop"
      BY <2>1, <2>3 DEF Side
    <3>2. pc[u] = "sleep" \/ count = 0
      BY <2>1, <2>3, <3>1 DEF Blocked, IsEmpty
    <3>3. CASE count = 0
      BY <1>0, <1>2, <2>3, <3>3, CountCrosses
    <3>4. CASE pc[u] = "sleep" /\ count > 0
      <4>1. PICK w \in Threads : Sending(w, "pop")
        BY <1>0, <3>1, <3>4 DEF SleepInv
      <4>2. QED
        BY <2>2, <3>1, <3>4, <4>1 DEF Sides
    <3>5. QED
      BY <1>0, <3>2, <3>3, <3>4
  <2>4. ASSUME pc'[u] = "sleep", Side(u)' = "push", count' < Capacity
        PROVE  \E w \in Threads : Sending(w, "push")'
    <3>1. Side(u) = "push"
      BY <2>1, <2>4 DEF Side
    <3>2. pc[u] = "sleep" \/ count >= Capacity
      BY <2>1, <2>4, <3>1 DEF Blocked, IsFull
    <3>3. CASE count >= Capacity
      BY <1>0, <1>2, <2>4, <3>3, CountCrosses
    <3>4. CASE pc[u] = "sleep" /\ count < Capacity
      <4>1. PICK w \in Threads : Sending(w, "push")
        BY <1>0, <3>1, <3>4 DEF SleepInv
      <4>2. QED
        BY <2>2, <3>1, <3>4, <4>1 DEF Sides
    <3>5. QED
      BY <1>0, <3>2, <3>3, <3>4
  <2>5. ASSUME pc'[u] \in {"while_count", "sleep"}, disposed'
        PROVE  \E w \in Threads : op'[w] = "dispose" /\ Sending(w, Side(u))'
    <3>1. CASE ~disposed
      <4>1. DisposeCas(t)
        BY <1>0, <1>2, <2>5, <3>1, DataFrame
      <4>2. Side(u)' \in Sides
        BY DEF Side, Sides
      <4>3. PICK s \in Sides : s = Side(u)'
        BY <4>2
      <4>4. op'[t] = "dispose" /\ Sending(t, s)'
        BY <1>0, <3>1, <4>1, CasEffect
      <4>5. QED
        BY <4>3, <4>4 DEF Sending
    <3>2. CASE disposed
      <4>1. pc[u] \in {"while_count", "sleep"} /\ op'[u] = op[u]
        BY <2>1, <2>5, <3>2
      <4>2. PICK s \in Sides : s = Side(u) /\ s = Side(u)'
        BY <4>1 DEF Side, Sides
      <4>3. PICK w \in Threads : op[w] = "dispose" /\ Sending(w, s)
        BY <1>0, <3>2, <4>1, <4>2 DEF SleepInv
      <4>4. op'[w] = "dispose" /\ Sending(w, s)'
        BY <2>2, <4>1, <4>2, <4>3
      <4>5. QED
        BY <4>2, <4>4 DEF Sending
    <3>3. QED
      BY <3>1, <3>2
  <2>6. QED
    BY <2>3, <2>4, <2>5
<1>3. QED
  BY <1>1, <1>2 DEF Next

\* A step that is not this thread's own leaves it looking.
LEMMA LookingStands ==
  ASSUME TypeOK, ControlInv, NEW w \in Threads, NEW s \in Sides, Looking(w, s),
         NEW t \in Threads, w # t, Call(t) \/ SpuriousWake(t) \/ Step(t)
  PROVE  Looking(w, s)'
<1>1. pc'[w] = pc[w] /\ op'[w] = op[w]
  BY OthersStand
<1>2. ASSUME NEW r \in Sides, w \notin sleepers[r] PROVE w \notin sleepers'[r]
  <2>1. CASE Sleep(t)
    BY <1>2, <2>1 DEF Sleep, TypeOK
  <2>2. CASE ~Sleep(t)
    BY <1>2, <2>2, SleepersShrink
  <2>3. QED
    BY <2>1, <2>2
<1>3. Side(w) \in Sides /\ Side(w)' = Side(w)
  BY <1>1 DEF Side, Sides
<1>4. Awake(w) => Awake(w)'
  BY <1>1, <1>2, <1>3 DEF Awake
<1>5. QED
  BY <1>1, <1>3, <1>4 DEF Looking, At

\* A looking consumer that finds the queue non-empty goes on looking until it
\* has popped; the cascade follows.
LEMMA PopLookingMoves ==
  ASSUME TypeOK, ControlInv, NEW t \in Threads, Looking(t, "pop"), count # 0,
         Call(t) \/ SpuriousWake(t) \/ Step(t), ~Sub(t)
  PROVE  Looking(t, "pop")'
<1> USE DEF Looking, At, Side, TypeOK, PCs, chain, sync, local, Goto
<1>0. op[t] # "drain" /\ op[t] \notin PushOps
  BY DEF PushOps
<1>1. CASE WaitFlag(t)
  BY <1>0, <1>1 DEF WaitFlag, Verdict
<1>2. CASE WaitCount(t)
  <2>1. ~Blocked(t)
    BY <1>0 DEF Blocked, IsEmpty
  <2>2. QED
    BY <1>0, <1>2, <2>1 DEF WaitCount, Verdict
<1>3. CASE VerdictCount(t)
  BY <1>0, <1>3 DEF VerdictCount, IsEmpty
<1>4. CASE Reacquire(t) \/ Expire(t)
  BY <1>0, <1>4 DEF Reacquire, Awake, TakeLock, Expire
<1>5. CASE Link(t) \/ Unlink(t)
  BY <1>0, <1>5, SidesOf DEF Link, Unlink
<1>6. CASE ~WaitFlag(t) /\ ~WaitCount(t) /\ ~VerdictCount(t) /\ ~Reacquire(t) /\ ~Expire(t)
           /\ ~Link(t) /\ ~Unlink(t)
  <2>1. pc[t] = "add" => FALSE
    BY <1>0, SidesOf
  <2>2. QED
    BY <1>0, <1>6, <2>1 DEF Step, TimeoutWake, SpuriousWake, Call, Acquire, Sleep, Awake, Leave,
       VerdictFlag, Add, DisposeCas, Signal, Return
<1>7. QED
  BY <1>1, <1>2, <1>3, <1>4, <1>5, <1>6

LEMMA PushLookingMoves ==
  ASSUME TypeOK, ControlInv, NEW t \in Threads, Looking(t, "push"), ~IsFull, ~disposed,
         Call(t) \/ SpuriousWake(t) \/ Step(t), ~Add(t)
  PROVE  Looking(t, "push")'
<1> USE DEF Looking, At, Side, TypeOK, PCs, chain, sync, local, Goto
<1>0. op[t] # "drain" /\ op[t] \in PushOps
  BY DEF PushOps
<1>1. CASE WaitFlag(t)
  BY <1>0, <1>1 DEF WaitFlag, Verdict
<1>2. CASE WaitCount(t)
  <2>1. ~Blocked(t)
    BY <1>0 DEF Blocked
  <2>2. QED
    BY <1>0, <1>2, <2>1 DEF WaitCount, Verdict
<1>3. CASE VerdictCount(t)
  BY <1>0, <1>3 DEF VerdictCount
<1>4. CASE VerdictFlag(t)
  <2>1. /\ pc[t] = "verdict_flag" /\ op'[t] = op[t]
        /\ pc'[t] \in {"verdict_count", "link"}
    BY <1>0, <1>4 DEF VerdictFlag, PushOps
  <2>2. QED
    BY <1>0, <2>1
<1>5. CASE Reacquire(t) \/ Expire(t)
  BY <1>0, <1>5 DEF Reacquire, Awake, TakeLock, Expire
<1>6. CASE Link(t) \/ Unlink(t)
  BY <1>0, <1>6, SidesOf DEF Link, Unlink
<1>7. CASE ~WaitFlag(t) /\ ~WaitCount(t) /\ ~VerdictCount(t) /\ ~VerdictFlag(t) /\ ~Reacquire(t)
           /\ ~Expire(t) /\ ~Link(t) /\ ~Unlink(t)
  <2>1. pc[t] = "sub" => FALSE
    BY <1>0, SidesOf
  <2>2. QED
    BY <1>0, <1>7, <2>1 DEF Step, TimeoutWake, SpuriousWake, Call, Acquire, Sleep, Awake, Leave,
       Sub, DisposeCas, Signal, Return
<1>8. QED
  BY <1>1, <1>2, <1>3, <1>4, <1>5, <1>6, <1>7

LEMMA PopWakeupStep == IInv /\ [Next]_vars => NoLostPopWakeup'
<1> SUFFICES ASSUME IInv, [Next]_vars, ~IsEmpty', sleepers'["pop"] # {}
             PROVE  \E w \in Threads : Looking(w, "pop")' \/ Sending(w, "pop")'
  BY DEF NoLostPopWakeup
<1>0. /\ count \in Nat /\ count' \in Nat /\ "pop" \in Sides
      /\ TypeOK /\ ControlInv /\ CounterInv /\ DataInv /\ SleepInv
  BY TypeOKStep DEF IInv, TypeOK, Sides
<1>1. CASE UNCHANGED vars
  BY <1>1 DEF vars, chain, sync, local, IInv, NoLostWakeup, NoLostPopWakeup, Looking, At,
     Awake, Side, Sending, IsEmpty
<1>2. ASSUME NEW t \in Threads, Call(t) \/ SpuriousWake(t) \/ Step(t)
      PROVE  \E w \in Threads : Looking(w, "pop")' \/ Sending(w, "pop")'
  <2> USE <1>0, <1>2
  <2>1. CASE Sleep(t) /\ Side(t) = "pop"
    <3>1. pc[t] = "sleep" /\ count' = count
      BY <2>1 DEF Sleep, chain
    <3>2. PICK w \in Threads : Sending(w, "pop")
      BY <2>1, <3>1 DEF SleepInv, IsEmpty
    <3>3. ~(w = t /\ Signal(t))
      BY <3>1 DEF Signal
    <3>4. QED
      BY <3>2, <3>3, SendingStays
  <2>2. CASE ~(Sleep(t) /\ Side(t) = "pop") /\ count = 0
    BY <2>2, CountCrosses DEF IsEmpty
  <2>3. CASE ~(Sleep(t) /\ Side(t) = "pop") /\ count # 0
    <3>1. sleepers["pop"] # {}
      <4>1. CASE Sleep(t)
        BY <2>3, <4>1 DEF Sleep, Side, Sides, TypeOK
      <4>2. CASE ~Sleep(t)
        BY <4>2, SleepersShrink
      <4>3. QED
        BY <4>1, <4>2
    <3>2. PICK w \in Threads : Looking(w, "pop") \/ Sending(w, "pop")
      BY <2>3, <3>1 DEF IInv, NoLostWakeup, NoLostPopWakeup, IsEmpty
    <3>3. CASE Sending(w, "pop")
      BY <3>3, SendingStays, SignalWakes
    <3>4. CASE Looking(w, "pop") /\ w # t
      BY <3>4, LookingStands
    <3>5. CASE Looking(t, "pop") /\ ~Sub(t)
      BY <2>3, <3>5, PopLookingMoves
    <3>6. CASE Looking(t, "pop") /\ Sub(t)
      <4>1. op[t] # "drain"
        BY <3>6 DEF Looking
      <4>2. count' = count - 1
        BY <3>6, <4>1, SubEffect
      <4>3. count > 1
        BY <4>2 DEF IsEmpty
      <4>4. Cascade("pop", TRUE)
        BY <3>6, <4>1, <4>3, SubEffect
      <4>5. PICK v \in Threads : pc[v] = "asleep" /\ Side(v) = "pop" /\ v \notin sleepers'["pop"]
        BY <3>1, <4>4, CascadeWakes
      <4>6. pc'[v] = "asleep" /\ op'[v] = op[v]
        BY <3>6, <4>5, SubEffect
      <4>7. QED
        BY <4>5, <4>6, WokenLooks
    <3>7. QED
      BY <3>2, <3>3, <3>4, <3>5, <3>6
  <2>4. QED
    BY <2>1, <2>2, <2>3
<1>3. QED
  BY <1>1, <1>2 DEF Next

LEMMA PushWakeupStep == IInv /\ [Next]_vars => NoLostPushWakeup'
<1> SUFFICES ASSUME IInv, [Next]_vars, ~disposed', ~IsFull', sleepers'["push"] # {}
             PROVE  \E w \in Threads :
                      Looking(w, "push")' \/ Sending(w, "push")' \/ Draining(w)'
  BY DEF NoLostPushWakeup
<1>0. /\ count \in Nat /\ count' \in Nat /\ Capacity \in Nat /\ "push" \in Sides
      /\ TypeOK /\ ControlInv /\ CounterInv /\ DataInv /\ SleepInv
  BY TypeOKStep, CapacityNat DEF IInv, TypeOK, Sides
<1>1. CASE UNCHANGED vars
  BY <1>1 DEF vars, chain, sync, local, IInv, NoLostWakeup, NoLostPushWakeup, Looking, At,
     Awake, Side, Sending, Draining, IsFull
<1>2. ASSUME NEW t \in Threads, Call(t) \/ SpuriousWake(t) \/ Step(t)
      PROVE  \E w \in Threads : Looking(w, "push")' \/ Sending(w, "push")' \/ Draining(w)'
  <2> USE <1>0, <1>2
  <2>0. ~disposed
    BY DataFrame
  <2>1. CASE Sleep(t) /\ Side(t) = "push"
    <3>1. pc[t] = "sleep" /\ count' = count
      BY <2>1 DEF Sleep, chain
    <3>2. PICK w \in Threads : Sending(w, "push")
      BY <2>1, <3>1 DEF SleepInv, IsFull
    <3>3. ~(w = t /\ Signal(t))
      BY <3>1 DEF Signal
    <3>4. QED
      BY <3>2, <3>3, SendingStays
  <2>2. CASE ~(Sleep(t) /\ Side(t) = "push") /\ IsFull
    BY <2>2, CountCrosses DEF IsFull
  <2>3. CASE ~(Sleep(t) /\ Side(t) = "push") /\ ~IsFull
    <3>1. sleepers["push"] # {}
      <4>1. CASE Sleep(t)
        BY <2>3, <4>1 DEF Sleep, Side, Sides, TypeOK
      <4>2. CASE ~Sleep(t)
        BY <4>2, SleepersShrink
      <4>3. QED
        BY <4>1, <4>2
    <3>2. PICK w \in Threads : Looking(w, "push") \/ Sending(w, "push") \/ Draining(w)
      BY <2>0, <2>3, <3>1 DEF IInv, NoLostWakeup, NoLostPushWakeup
    <3>3. CASE Sending(w, "push")
      BY <3>3, SendingStays, SignalWakes
    <3>4. CASE Looking(w, "push") /\ w # t
      BY <3>4, LookingStands
    <3>5. CASE Looking(t, "push") /\ ~Add(t)
      BY <2>0, <2>3, <3>5, PushLookingMoves
    <3>6. CASE Looking(t, "push") /\ Add(t)
      <4>1. count' = count + 1
        BY <3>6, AddEffect
      <4>2. Cascade("push", TRUE)
        <5>1. count + 1 < Capacity
          BY <4>1 DEF IsFull
        <5>2. QED
          BY <3>6, <5>1, AddEffect
      <4>3. PICK v \in Threads : pc[v] = "asleep" /\ Side(v) = "push" /\ v \notin sleepers'["push"]
        BY <3>1, <4>2, CascadeWakes
      <4>4. pc'[v] = "asleep" /\ op'[v] = op[v]
        BY <3>6, <4>3, AddEffect
      <4>5. QED
        BY <4>3, <4>4, WokenLooks
    <3>7. CASE Draining(w) /\ w # t
      BY <3>7, OthersStand DEF Draining, At
    <3>8. CASE Draining(t) /\ Sub(t)
      BY <3>8, SubEffect DEF Draining, At
    <3>9. CASE Draining(t) /\ ~Sub(t)
      <4>1. pc'[t] = pc[t] /\ op'[t] = op[t] /\ carry'[t] = carry[t]
        BY <3>9 DEF Draining, At, Step, TimeoutWake, SpuriousWake, Call, Acquire, WaitFlag,
           WaitCount, Sleep, Reacquire, Awake, Expire, Leave, VerdictFlag, VerdictCount,
           Link, Add, Unlink, DisposeCas, Signal, Return, local
      <4>2. QED
        BY <3>9, <4>1 DEF Draining, At
    <3>10. QED
      BY <3>2, <3>3, <3>4, <3>5, <3>6, <3>7, <3>8, <3>9
  <2>4. QED
    BY <2>1, <2>2, <2>3
<1>3. QED
  BY <1>1, <1>2 DEF Next

LEMMA DisposeStep == IInv /\ [Next]_vars => DisposeReaches'
<1> SUFFICES ASSUME IInv, [Next]_vars, disposed', NEW s \in Sides, sleepers'[s] # {}
             PROVE  \E w \in Threads : op'[w] = "dispose" /\ Sending(w, s)'
  BY DEF DisposeReaches
<1>0. TypeOK /\ ControlInv /\ CounterInv /\ DataInv /\ SleepInv
  BY DEF IInv
<1>1. CASE UNCHANGED vars
  BY <1>1 DEF vars, sync, local, IInv, NoLostWakeup, DisposeReaches, Sending
<1>2. ASSUME NEW t \in Threads, Call(t) \/ SpuriousWake(t) \/ Step(t)
      PROVE  \E w \in Threads : op'[w] = "dispose" /\ Sending(w, s)'
  <2> USE <1>0, <1>2
  <2>1. CASE ~disposed
    BY <2>1, DataFrame, CasEffect
  <2>2. CASE disposed
    <3>1. PICK w \in Threads : op[w] = "dispose" /\ Sending(w, s)
      <4>1. CASE Sleep(t) /\ Side(t) = s
        <5>1. pc[t] = "sleep"
          BY <4>1 DEF Sleep
        <5>2. QED
          BY <2>2, <4>1, <5>1 DEF SleepInv
      <4>2. CASE Sleep(t) /\ Side(t) # s
        <5>1. sleepers'[s] = sleepers[s]
          BY <4>2 DEF Sleep, TypeOK
        <5>2. QED
          BY <2>2, <5>1 DEF IInv, NoLostWakeup, DisposeReaches
      <4>3. CASE ~Sleep(t)
        <5>1. sleepers[s] # {}
          BY <4>3, SleepersShrink
        <5>2. QED
          BY <2>2, <5>1 DEF IInv, NoLostWakeup, DisposeReaches
      <4>4. QED
        BY <4>1, <4>2, <4>3
    <3>2. op'[w] = "dispose" /\ (Sending(w, s)' \/ (w = t /\ Signal(t)))
      BY <3>1, SendingStays
    <3>3. Sending(w, s)'
      BY <3>1, <3>2, SignalWakes
    <3>4. QED
      BY <3>2, <3>3
  <2>3. QED
    BY <2>1, <2>2
<1>3. QED
  BY <1>1, <1>2 DEF Next

-----------------------------------------------------------------------------
(* The theorems *)

LEMMA InductiveStep == IInv /\ [Next]_vars => IInv'
<1> SUFFICES ASSUME IInv, [Next]_vars PROVE IInv'
  OBVIOUS
<1>1. TypeOK' /\ ControlInv' /\ CounterInv' /\ DataInv'
  BY TypeOKStep, ControlStep, CounterStep, DataStep DEF IInv
<1>2. SlipInv' /\ SleepInv'
  BY SlipStep, SleepStep DEF IInv
<1>3. NoLostWakeup'
  BY PopWakeupStep, PushWakeupStep, DisposeStep DEF NoLostWakeup
<1>4. QED
  BY <1>1, <1>2, <1>3 DEF IInv

LEMMA Inductive == Spec => []IInv
<1>1. Init => IInv
  BY InitIInv
<1>2. IInv /\ [Next]_vars => IInv'
  BY InductiveStep
<1>3. QED
  BY <1>1, <1>2, PTL DEF Spec

\* Every variable keeps its type: in particular fetch_sub never takes the
\* count, nor a WaiterGuard a waiter counter, below zero.
THEOREM TypeCorrect == Spec => []TypeOK
<1>1. IInv => TypeOK
  BY DEF IInv
<1>2. QED
  BY <1>1, Inductive, PTL

\* The assertions of en_q and unlink_head never fail, although each side
\* changes the count while the other one runs.
THEOREM CommitSafety == Spec => []CommitsAreSafe
<1>1. IInv => CommitsAreSafe
  BY DEF IInv, DataInv
<1>2. QED
  BY <1>1, Inductive, PTL

LEMMA TrackCounts == TypeOK /\ ControlInv /\ TrackInv => CountTracksList
<1> SUFFICES ASSUME TypeOK, ControlInv, TrackInv PROVE CountTracksList
  OBVIOUS
<1> DEFINE adding == {t \in Threads : At(t, "add")}
           subs == {u \in Threads : At(u, "sub")}
           unsubbed == UNION {{t} \X DOMAIN carry[t] : t \in subs}
<1>0. count \in Nat /\ Len(list) \in Nat
  BY LenProperties DEF TypeOK
<1>1. Cardinality(adding) = Ahead
  <2>1. CASE adding = {}
    <3>1. Ahead = 0
      BY <2>1 DEF Ahead, At
    <3>2. QED
      BY <2>1, <3>1, FS_EmptySet
  <2>2. CASE adding # {}
    <3>1. PICK t \in Threads : pc[t] = "add"
      BY <2>2 DEF At
    <3>2. \A u \in Threads : pc[u] = "add" => u = t
      BY <3>1, SidesOf, Exclusive DEF Critical
    <3>3. adding = {t} /\ Ahead = 1
      BY <3>1, <3>2 DEF Ahead, At
    <3>4. QED
      BY <3>3, FS_Singleton
  <2>3. QED
    BY <2>1, <2>2
<1>2. CASE subs = {}
  <2>1. Len(list) = count + Ahead
    BY <1>2 DEF TrackInv, At
  <2>2. unsubbed = {} /\ Cardinality(unsubbed) = 0
    BY <1>2, FS_EmptySet
  <2>3. QED
    BY <1>0, <1>1, <2>1, <2>2 DEF CountTracksList
<1>3. CASE subs # {}
  <2>1. PICK t \in Threads : pc[t] = "sub"
    BY <1>3 DEF At
  <2>2. \A u \in Threads : pc[u] = "sub" => u = t
    BY <2>1, SidesOf, Exclusive DEF Critical
  <2>3. subs = {t}
    BY <2>1, <2>2 DEF At
  <2>4. unsubbed = {t} \X DOMAIN carry[t]
    BY <2>3
  <2>5. PICK n \in Nat : n = Len(carry[t]) /\ DOMAIN carry[t] = 1 .. n
    BY <2>1, LenProperties DEF TypeOK
  <2>6. IsFiniteSet({t}) /\ Cardinality({t}) = 1
    BY FS_Singleton
  <2>7. IsFiniteSet(1 .. n) /\ Cardinality(1 .. n) = n
    BY <2>5, FS_Interval
  <2>8. Cardinality({t} \X (1 .. n)) = 1 * n
    BY <2>6, <2>7, FS_Product
  <2>9. Cardinality(unsubbed) = n
    <3>1. Cardinality(unsubbed) = 1 * n
      BY <2>4, <2>5, <2>8
    <3>2. QED
      BY <2>5, <3>1
  <2>10. Len(list) + n = count + Ahead
    BY <2>1, <2>5 DEF TrackInv
  <2>11. QED
    BY <1>1, <2>9, <2>10 DEF CountTracksList
<1>4. QED
  BY <1>2, <1>3

\* The list and the count differ by the operations in progress alone.
THEOREM CountAgreement == Spec => []CountTracksList
<1>1. IInv => CountTracksList
  BY TrackCounts DEF IInv, DataInv
<1>2. QED
  BY <1>1, Inductive, PTL

\* No wake-up is lost between the two locks: what en_q, de_q, drain and
\* dispose notify reaches everybody who sleeps for no reason.
THEOREM WakeupSafety == Spec => []NoLostWakeup
<1>1. IInv => NoLostWakeup
  BY DEF IInv
<1>2. QED
  BY <1>1, Inductive, PTL

LEMMA SlipBound == TypeOK /\ ControlInv /\ SlipInv => AtMostOneSlipsIn
<1> SUFFICES ASSUME TypeOK, ControlInv, SlipInv, exhausted \cap {"pop", "pop_timeout"} # {}
             PROVE  disposed /\ Len(list) + Cardinality({t \in Threads : At(t, "link")}) <= 1
  BY DEF AtMostOneSlipsIn
<1> DEFINE linking == {t \in Threads : At(t, "link")}
<1>0. Len(list) \in Nat /\ Len(list) <= 1 /\ disposed
  BY LenProperties DEF TypeOK, SlipInv
<1>1. CASE linking = {}
  <2>1. Cardinality(linking) = 0
    BY <1>1, FS_EmptySet
  <2>2. QED
    BY <1>0, <2>1
<1>2. CASE linking # {}
  <2>1. PICK t \in Threads : pc[t] = "link"
    BY <1>2 DEF At
  <2>2. \A u \in Threads : pc[u] = "link" => u = t
    BY <2>1, SidesOf, Exclusive DEF Critical
  <2>3. linking = {t}
    BY <2>1, <2>2 DEF At
  <2>4. Cardinality(linking) = 1
    BY <2>3, FS_Singleton
  <2>5. Len(list) = 0
    BY <2>1, SidesOf, EmptySeq DEF SlipInv
  <2>6. QED
    BY <1>0, <2>4, <2>5
<1>3. QED
  BY <1>1, <1>2

\* After a consumer was told that the queue is unavailable, one push at most
\* can still leave an item behind.
THEOREM DisposeSafety == Spec => []AtMostOneSlipsIn
<1>1. IInv => AtMostOneSlipsIn
  BY SlipBound DEF IInv
<1>2. QED
  BY <1>1, Inductive, PTL

-----------------------------------------------------------------------------
(* Items *)

\* A call that did not bring an item has none before it unlinks some.
EmptyInv == \A t \in Threads :
  op[t] \notin PushOps /\ pc[t] \notin {"sub", "signal"} => carry[t] = <<>>

LEMMA EmptyStep == TypeOK /\ ControlInv /\ EmptyInv /\ [Next]_vars => EmptyInv'
<1> SUFFICES ASSUME TypeOK, ControlInv, EmptyInv, [Next]_vars PROVE EmptyInv'
  OBVIOUS
<1>1. CASE UNCHANGED vars
  BY <1>1 DEF vars, local, EmptyInv
<1>2. ASSUME NEW t \in Threads, Call(t) \/ SpuriousWake(t) \/ Step(t) PROVE EmptyInv'
  <2>1. \A w \in Threads \ {t} : pc'[w] = pc[w] /\ op'[w] = op[w] /\ carry'[w] = carry[w]
    BY <1>2, OthersStand
  <2>2. \/ carry'[t] = <<>>
        \/ op'[t] \in PushOps
        \/ pc'[t] \in {"sub", "signal"}
        \/ carry'[t] = carry[t] /\ op'[t] = op[t] /\ pc[t] \notin {"sub", "signal"}
    <3> USE DEF TypeOK, PCs, chain, sync, local, Goto
    <3>1. CASE Call(t)
      <4>1. PICK o \in OpsOf[t] : /\ op' = [op EXCEPT ![t] = o]
                                  /\ o \in PushOps \/ UNCHANGED <<hand, carry>>
        BY <3>1 DEF Call
      <4>2. CASE o \in PushOps
        BY <4>1, <4>2
      <4>3. CASE o \notin PushOps
        <5>1. pc[t] = "idle" /\ op[t] = "none" /\ "none" \notin PushOps /\ carry' = carry
          BY <3>1, <4>1, <4>3 DEF Call, ControlInv, OpInv, PushOps
        <5>2. QED
          BY <5>1 DEF EmptyInv
      <4>4. QED
        BY <4>2, <4>3
    <3>2. CASE Acquire(t) \/ WaitFlag(t)
      BY <3>2 DEF Acquire, TakeLock, WaitFlag
    <3>3. CASE WaitCount(t) \/ VerdictFlag(t) \/ VerdictCount(t)
      BY <3>3 DEF WaitCount, VerdictFlag, VerdictCount, Finish
    <3>4. CASE Sleep(t) \/ Reacquire(t)
      BY <3>4 DEF Sleep, Reacquire, Awake, TakeLock
    <3>5. CASE Link(t) \/ Add(t) \/ Unlink(t) \/ Sub(t) \/ DisposeCas(t) \/ Return(t)
      BY <3>5 DEF Link, Add, Unlink, Sub, DisposeCas, Return, Finish
    <3>6. CASE Expire(t) \/ Leave(t)
      BY <3>6 DEF Expire, Leave, ControlInv, WaitSetInv, Side, Sides
    <3>7. CASE Signal(t)
      BY <3>7 DEF Signal
    <3>8. QED
      BY <1>2, <3>1, <3>2, <3>3, <3>4, <3>5, <3>6, <3>7 DEF Step, TimeoutWake, SpuriousWake
  <2>3. QED
    BY <2>1, <2>2 DEF EmptyInv
<1>3. QED
  BY <1>1, <1>2 DEF Next

\* Items stay conserved when one thread moves them between the list, the hands
\* of callers and what it carries.
LEMMA Regroup ==
  ASSUME TypeOK, ItemsConserved, NEW t \in Threads,
         \A u \in Threads \ {t} : carry'[u] = carry[u],
         IsInjective(list'), IsInjective(carry'[t]),
         Range(list') \cap hand' = {}, Range(list') \cap Range(carry'[t]) = {},
         hand' \cap Range(carry'[t]) = {},
         Range(list') \cup hand' \cup Range(carry'[t])
           = Range(list) \cup hand \cup Range(carry[t])
  PROVE  ItemsConserved'
<1> DEFINE All == Range(list) \cup hand \cup Range(carry[t])
<1>1. ASSUME NEW u \in Threads \ {t} PROVE Range(carry[u]) \cap All = {} /\ carry'[u] = carry[u]
  BY DEF ItemsConserved
<1>2. ASSUME NEW u \in Threads
      PROVE  /\ IsInjective(carry'[u])
             /\ Range(carry'[u]) \cap (Range(list') \cup hand') = {}
             /\ \A v \in Threads \ {u} : Range(carry'[u]) \cap Range(carry'[v]) = {}
  <2>1. CASE u = t
    <3>1. ASSUME NEW v \in Threads \ {t} PROVE Range(carry'[t]) \cap Range(carry'[v]) = {}
      BY <1>1
    <3>2. QED
      BY <2>1, <3>1
  <2>2. CASE u # t
    <3>1. IsInjective(carry'[u])
      BY <1>1, <2>2 DEF ItemsConserved
    <3>2. Range(carry'[u]) \cap (Range(list') \cup hand' \cup Range(carry'[t])) = {}
      BY <1>1, <2>2
    <3>3. ASSUME NEW v \in Threads \ {u} PROVE Range(carry'[u]) \cap Range(carry'[v]) = {}
      <4>1. CASE v = t
        BY <3>2, <4>1
      <4>2. CASE v # t
        BY <1>1, <2>2, <4>2 DEF ItemsConserved
      <4>3. QED
        BY <4>1, <4>2
    <3>4. QED
      BY <3>1, <3>2, <3>3
  <2>3. QED
    BY <2>1, <2>2
<1>3. Items = Range(list') \cup hand' \cup UNION {Range(carry'[u]) : u \in Threads}
  <2>1. UNION {Range(carry[u]) : u \in Threads}
          = Range(carry[t]) \cup UNION {Range(carry[u]) : u \in Threads \ {t}}
    OBVIOUS
  <2>2. UNION {Range(carry'[u]) : u \in Threads}
          = Range(carry'[t]) \cup UNION {Range(carry'[u]) : u \in Threads \ {t}}
    OBVIOUS
  <2>3. UNION {Range(carry'[u]) : u \in Threads \ {t}}
          = UNION {Range(carry[u]) : u \in Threads \ {t}}
    BY <1>1
  <2>4. Items = Range(list) \cup hand \cup UNION {Range(carry[u]) : u \in Threads}
    BY DEF ItemsConserved
  <2>5. QED
    BY <2>1, <2>2, <2>3, <2>4
<1>4. QED
  BY <1>2, <1>3 DEF ItemsConserved

LEMMA ItemsStep ==
  TypeOK /\ ControlInv /\ EmptyInv /\ ItemsConserved /\ [Next]_vars => ItemsConserved'
<1> SUFFICES ASSUME TypeOK, ControlInv, EmptyInv, ItemsConserved, [Next]_vars
             PROVE  ItemsConserved'
  OBVIOUS
<1>1. ASSUME UNCHANGED <<list, hand, carry>> PROVE ItemsConserved'
  BY <1>1 DEF ItemsConserved
<1>2. ASSUME NEW t \in Threads, Call(t) \/ SpuriousWake(t) \/ Step(t) PROVE ItemsConserved'
  <2>1. \A u \in Threads \ {t} : carry'[u] = carry[u]
    BY <1>2, OthersStand
  <2>2. /\ IsInjective(list) /\ IsInjective(carry[t]) /\ Range(list) \cap hand = {}
        /\ Range(list) \cap Range(carry[t]) = {} /\ hand \cap Range(carry[t]) = {}
    BY DEF ItemsConserved
  <2>3. CASE Call(t)
    <3>1. CASE UNCHANGED <<hand, carry>>
      BY <1>1, <2>3, <3>1 DEF Call, chain
    <3>2. CASE \E i \in hand : hand' = hand \ {i} /\ carry' = [carry EXCEPT ![t] = <<i>>]
      <4>1. PICK i \in hand : hand' = hand \ {i} /\ carry' = [carry EXCEPT ![t] = <<i>>]
        BY <3>2
      <4>2. carry[t] = <<>>
        BY <2>3 DEF Call, EmptyInv, ControlInv, OpInv, PushOps
      <4>3. carry'[t] = <<i>> /\ list' = list
        BY <2>3, <4>1 DEF Call, chain, TypeOK
      <4>4. Range(carry'[t]) = {i} /\ IsInjective(carry'[t]) /\ Range(carry[t]) = {}
        BY <4>2, <4>3, EmptyRange, SingleRange
      <4>5. QED
        BY <2>1, <2>2, <4>1, <4>3, <4>4, Regroup
    <3>3. QED
      BY <2>3, <3>1, <3>2 DEF Call
  <2>4. CASE Link(t)
    <3>1. PICK i \in Items : carry[t] = <<i>>
      BY <2>4, SidesOf DEF Link, ControlInv, CarryInv, OpInv
    <3>2. list' = list \o <<i>> /\ carry'[t] = <<>> /\ hand' = hand
      BY <2>4, <3>1 DEF Link, TypeOK
    <3>3. Range(carry[t]) = {i} /\ Range(carry'[t]) = {} /\ IsInjective(carry'[t])
      BY <3>1, <3>2, EmptyRange, SingleRange
    <3>4. i \notin Range(list)
      BY <2>2, <3>3
    <3>5. IsInjective(list') /\ Range(list') = Range(list) \cup {i}
      BY <2>2, <3>2, <3>4, AppendKeepsInjective DEF TypeOK
    <3>6. QED
      BY <2>1, <2>2, <3>2, <3>3, <3>5, Regroup
  <2>5. CASE Unlink(t)
    <3>1. PICK n \in 0 .. Len(list) : /\ carry'[t] = SubSeq(list, 1, n)
                                      /\ list' = SubSeq(list, n + 1, Len(list))
                                      /\ hand' = hand
      <4> DEFINE n == IF op[t] = "drain" THEN count ELSE 1
      <4>1. n \in Nat /\ n <= Len(list) /\ carry' = [carry EXCEPT ![t] = SubSeq(list, 1, n)]
            /\ list' = SubSeq(list, n + 1, Len(list)) /\ hand' = hand
        BY <2>5 DEF Unlink, TypeOK
      <4> HIDE DEF n
      <4>2. carry'[t] = SubSeq(list, 1, n) /\ n \in 0 .. Len(list)
        BY <4>1, LenProperties DEF TypeOK
      <4>3. QED
        BY <4>1, <4>2
    <3>2. pc[t] = "unlink" /\ op[t] \notin PushOps
      BY <2>5 DEF Unlink, ControlInv, OpInv, PushOps, PopOps
    <3>3. carry[t] = <<>>
      BY <3>2 DEF EmptyInv
    <3>4. Range(carry[t]) = {}
      BY <3>3, EmptyRange
    <3>5. /\ IsInjective(carry'[t]) /\ IsInjective(list') /\ Range(carry'[t]) \cap Range(list') = {}
          /\ Range(carry'[t]) \cup Range(list') = Range(list)
      BY <2>2, <3>1, SplitInjective DEF TypeOK
    <3>6. QED
      BY <2>1, <2>2, <3>1, <3>4, <3>5, Regroup
  <2>6. CASE Return(t)
    <3>1. hand' = hand \cup Range(carry[t]) /\ carry'[t] = <<>> /\ list' = list
      BY <2>6 DEF Return, TypeOK, chain
    <3>2. Range(carry'[t]) = {} /\ IsInjective(carry'[t])
      BY <3>1, EmptyRange
    <3>3. QED
      BY <2>1, <2>2, <3>1, <3>2, Regroup
  <2>7. CASE ~Call(t) /\ ~Link(t) /\ ~Unlink(t) /\ ~Return(t)
    <3>1. UNCHANGED <<list, hand, carry>>
      BY <1>2, <2>7 DEF Step, TimeoutWake, SpuriousWake, Acquire, TakeLock, WaitFlag, WaitCount,
         Sleep, Reacquire, Expire, Leave, VerdictFlag, VerdictCount, Add, Sub, DisposeCas,
         Signal, chain, local
    <3>2. QED
      BY <1>1, <3>1
  <2>8. QED
    BY <2>3, <2>4, <2>5, <2>6, <2>7
<1>3. CASE UNCHANGED vars
  BY <1>1, <1>3 DEF vars, chain, local
<1>4. QED
  BY <1>2, <1>3 DEF Next

\* No item is lost, duplicated or handed to two callers.
THEOREM Conservation == Spec => []ItemsConserved
<1>1. Init => EmptyInv /\ ItemsConserved
  <2>1. SUFFICES ASSUME Init PROVE EmptyInv /\ ItemsConserved
    OBVIOUS
  <2>2. list = <<>> /\ hand = Items /\ \A t \in Threads : carry[t] = <<>>
    BY <2>1 DEF Init
  <2>3. EmptyInv
    BY <2>2 DEF EmptyInv
  <2>4. UNION {Range(carry[t]) : t \in Threads} = {}
    BY <2>2, EmptyRange
  <2>5. QED
    BY <2>2, <2>3, <2>4, EmptyRange DEF ItemsConserved
<1>2. IInv /\ EmptyInv /\ ItemsConserved /\ [Next]_vars => (EmptyInv /\ ItemsConserved)'
  BY EmptyStep, ItemsStep DEF IInv
<1>3. QED
  BY <1>1, <1>2, Inductive, PTL DEF Spec

-----------------------------------------------------------------------------
(* Refinement *)

\* A call has a result once it has left the lock, deadlines are for timed
\* calls, and a producer that has linked its item carries none.
ResultInv == \A t \in Threads :
  /\ pc[t] = "signal" <=> ret[t] # "none"
  /\ expired[t] => op[t] \in TimedOps
  /\ pc[t] = "add" => carry[t] = <<>>

RInv == IInv /\ EmptyInv /\ ResultInv

LEMMA ResultStep == IInv /\ ResultInv /\ [Next]_vars => ResultInv'
<1> SUFFICES ASSUME IInv, ResultInv, [Next]_vars PROVE ResultInv'
  OBVIOUS
<1> USE DEF IInv, TypeOK, PCs, Rets, chain, sync, local, Goto
<1>1. CASE UNCHANGED vars
  BY <1>1 DEF vars, ResultInv
<1>2. ASSUME NEW t \in Threads, Call(t) \/ SpuriousWake(t) \/ Step(t) PROVE ResultInv'
  <2>1. \A w \in Threads \ {t} : /\ pc'[w] = pc[w] /\ op'[w] = op[w] /\ carry'[w] = carry[w]
                                 /\ ret'[w] = ret[w] /\ expired'[w] = expired[w]
    <3>1. \A w \in Threads \ {t} : ret'[w] = ret[w] /\ expired'[w] = expired[w]
      BY <1>2 DEF Call, SpuriousWake, Step, Acquire, TakeLock, WaitFlag, WaitCount, Sleep,
         Reacquire, Expire, TimeoutWake, Leave, VerdictFlag, VerdictCount, Finish, Link, Add,
         Unlink, Sub, DisposeCas, Signal, Return
    <3>2. QED
      BY <1>2, <3>1, OthersStand
  <2>2. /\ pc'[t] = "signal" <=> ret'[t] # "none"
        /\ expired'[t] => op'[t] \in TimedOps
        /\ pc'[t] = "add" => carry'[t] = <<>>
    <3>1. CASE Call(t)
      <4>1. op[t] = "none" /\ "none" \notin TimedOps
        BY <3>1 DEF Call, ControlInv, OpInv, TimedOps
      <4>2. ~expired[t] /\ ret[t] = "none"
        BY <3>1, <4>1 DEF Call, ResultInv
      <4>3. QED
        BY <3>1, <4>2 DEF Call
    <3>2. CASE Acquire(t) \/ Sleep(t) \/ Reacquire(t)
      BY <3>2 DEF Acquire, TakeLock, Verdict, Sleep, Reacquire, Awake, ResultInv
    <3>3. CASE WaitFlag(t)
      BY <3>3 DEF WaitFlag, Verdict, ResultInv
    <3>4. CASE WaitCount(t)
      BY <3>4 DEF WaitCount, Verdict, Finish, ResultInv
    <3>5. CASE VerdictFlag(t)
      BY <3>5 DEF VerdictFlag, Finish, ResultInv
    <3>6. CASE VerdictCount(t)
      BY <3>6 DEF VerdictCount, Finish, ResultInv
    <3>7. CASE Link(t) \/ Unlink(t)
      BY <3>7 DEF Link, Unlink, ResultInv
    <3>8. CASE Add(t) \/ Sub(t) \/ DisposeCas(t)
      BY <3>8 DEF Add, Sub, DisposeCas, Finish, ResultInv
    <3>9. CASE Signal(t)
      BY <3>9 DEF Signal, ResultInv
    <3>10. CASE Expire(t)
      BY <3>10 DEF Expire, ResultInv
    <3>11. CASE Leave(t)
      BY <3>11 DEF Leave, ResultInv
    <3>12. CASE Return(t)
      BY <3>12 DEF Return, ResultInv
    <3>13. QED
      BY <1>2, <3>1, <3>2, <3>3, <3>4, <3>5, <3>6, <3>7, <3>8, <3>9, <3>10, <3>11, <3>12
         DEF Step, TimeoutWake, SpuriousWake
  <2>3. QED
    BY <2>1, <2>2 DEF ResultInv
<1>3. QED
  BY <1>1, <1>2 DEF Next

LEMMA RInvStep == RInv /\ [Next]_vars => RInv'
BY InductiveStep, EmptyStep, ResultStep DEF RInv, IInv

\* The words of the abstract queue are those of the list.
LEMMA SameWords ==
  /\ Abstract!PushOps = PushOps /\ Abstract!PopOps = PopOps /\ Abstract!Capacity = Capacity
  /\ Abstract!TryOps = TryOps
BY DEF Abstract!PushOps, PushOps, Abstract!PopOps, PopOps, Abstract!Capacity, Capacity,
       Abstract!TryOps, TryOps

\* The two parts of the abstract queue: what a consumer has unlinked and not
\* yet subtracted, and the nodes a producer has added.
Subbing == {t \in Threads : At(t, "sub")}
Adding  == {t \in Threads : At(t, "add")}
Front   == IF Subbing = {} THEN <<>> ELSE carry[Only(Subbing)]
Back    == SubSeq(list, 1, Len(list) - Cardinality(Adding))

LEMMA QueueIs == AbsQueue = Front \o Back
BY DEF AbsQueue, Front, Back, Subbing, Adding

\* A consumer and a producer at most are between the two halves of a commit.
FrontFacts ==
  /\ Front \in Seq(Items)
  /\ \A t \in Threads : pc[t] = "sub" => Front = carry[t]
  /\ (\A t \in Threads : pc[t] # "sub") => Front = <<>>
BackFacts ==
  /\ \A t \in Threads : pc[t] = "add" => Back = SubSeq(list, 1, Len(list) - 1)
  /\ (\A t \in Threads : pc[t] # "add") => Back = list

LEMMA FrontIs == TypeOK /\ ControlInv => FrontFacts
<1> SUFFICES ASSUME TypeOK, ControlInv PROVE FrontFacts
  OBVIOUS
<1>1. ASSUME NEW t \in Threads, pc[t] = "sub" PROVE Front = carry[t]
  <2>1. \A u \in Threads : pc[u] = "sub" => u = t
    BY <1>1, SidesOf, Exclusive DEF Critical
  <2>2. Subbing = {t}
    BY <1>1, <2>1 DEF Subbing, At
  <2>3. Only(Subbing) = t
    BY <2>2 DEF Only
  <2>4. QED
    BY <2>2, <2>3 DEF Front
<1>2. ASSUME \A t \in Threads : pc[t] # "sub" PROVE Front = <<>>
  BY <1>2 DEF Front, Subbing, At
<1>3. Front \in Seq(Items)
  <2>1. CASE \E t \in Threads : pc[t] = "sub"
    BY <1>1, <2>1 DEF TypeOK
  <2>2. CASE \A t \in Threads : pc[t] # "sub"
    BY <1>2, <2>2, EmptySeq
  <2>3. QED
    BY <2>1, <2>2
<1>4. QED
  BY <1>1, <1>2, <1>3 DEF FrontFacts

LEMMA BackIs == TypeOK /\ ControlInv => BackFacts
<1> SUFFICES ASSUME TypeOK, ControlInv PROVE BackFacts
  OBVIOUS
<1>1. ASSUME NEW t \in Threads, pc[t] = "add" PROVE Back = SubSeq(list, 1, Len(list) - 1)
  <2>1. \A u \in Threads : pc[u] = "add" => u = t
    BY <1>1, SidesOf, Exclusive DEF Critical
  <2>2. Adding = {t}
    BY <1>1, <2>1 DEF Adding, At
  <2>3. Cardinality(Adding) = 1
    BY <2>2, FS_Singleton
  <2>4. QED
    BY <2>3 DEF Back
<1>2. ASSUME \A t \in Threads : pc[t] # "add" PROVE Back = list
  <2>1. Adding = {}
    BY <1>2 DEF Adding, At
  <2>2. Cardinality(Adding) = 0
    BY <2>1, FS_EmptySet
  <2>3. Len(list) \in Nat /\ Len(list) - 0 = Len(list)
    BY LenProperties DEF TypeOK
  <2>4. QED
    BY <2>2, <2>3, SubSeqFull DEF Back, TypeOK
<1>3. QED
  BY <1>1, <1>2 DEF BackFacts

\* The same of the next state.
LEMMA PartsNext == TypeOK' /\ ControlInv' => FrontFacts' /\ BackFacts'
BY FrontIs, BackIs, PTL

\* The consumer's part stands while nobody unlinks or subtracts.
LEMMA FrontStands ==
  ASSUME FrontFacts, FrontFacts',
         \A u \in Threads : /\ pc'[u] = "sub" <=> pc[u] = "sub"
                            /\ pc[u] = "sub" => carry'[u] = carry[u]
  PROVE  Front' = Front
<1>1. CASE \E u \in Threads : pc[u] = "sub"
  BY <1>1 DEF FrontFacts
<1>2. CASE \A u \in Threads : pc[u] # "sub"
  BY <1>2 DEF FrontFacts
<1>3. QED
  BY <1>1, <1>2

\* The count is the length of the abstract queue, so what the code reads of the
\* one it knows of the other.
LEMMA CountIs ==
  ASSUME TypeOK, ControlInv, TrackInv
  PROVE  /\ Front \in Seq(Items) /\ Back \in Seq(Items)
         /\ AbsQueue \in Seq(Items) /\ Len(AbsQueue) = count
         /\ AbsQueue = <<>> <=> count = 0
         /\ Len(Back) = count - Len(Front)
         /\ \A t \in Threads : pc[t] = "add" => Len(list) > 0 /\ Len(list) = Len(Back) + 1
<1>0. FrontFacts /\ BackFacts
  BY FrontIs, BackIs
<1>1. count \in Nat /\ Len(list) \in Nat /\ list \in Seq(Items) /\ Front \in Seq(Items) /\ Len(Front) \in Nat
  BY <1>0, LenProperties DEF TypeOK, FrontFacts
<1>2. Len(Front) <= count /\ Len(list) + Len(Front) = count + Ahead
  <2>1. CASE \A t \in Threads : pc[t] # "sub"
    <3>1. Front = <<>> /\ Len(Front) = 0
      BY <1>0, <2>1, EmptySeq DEF FrontFacts
    <3>2. QED
      BY <1>1, <2>1, <3>1 DEF TrackInv
  <2>2. CASE \E t \in Threads : pc[t] = "sub"
    BY <1>0, <2>2 DEF TrackInv, FrontFacts
  <2>3. QED
    BY <2>1, <2>2
<1>3. Back \in Seq(Items) /\ Len(Back) = Len(list) - Ahead /\ (Ahead = 1 => Len(list) > 0)
  <2>1. CASE \A t \in Threads : pc[t] # "add"
    <3>1. Ahead = 0 /\ Back = list
      BY <1>0, <2>1 DEF Ahead, BackFacts
    <3>2. QED
      BY <1>1, <3>1
  <2>2. CASE \E t \in Threads : pc[t] = "add"
    <3>1. Ahead = 1 /\ Back = SubSeq(list, 1, Len(list) - 1)
      BY <1>0, <2>2 DEF Ahead, BackFacts
    <3>2. Len(list) > 0
      BY <1>1, <1>2, <3>1
    <3>3. PICK n \in Nat : n = Len(list) - 1
      BY <1>1, <3>2
    <3>4. 1 \in Int /\ n \in Int /\ \A i \in 1 .. n : list[i] \in Items
      BY <1>1, <3>3, LenProperties DEF TypeOK
    <3>5. /\ SubSeq(list, 1, n) \in Seq(Items)
          /\ Len(SubSeq(list, 1, n)) = IF 1 <= n THEN n - 1 + 1 ELSE 0
      BY <3>4, SubSeqProperties
    <3>6. QED
      BY <1>1, <3>1, <3>2, <3>3, <3>5
  <2>3. QED
    BY <2>1, <2>2
<1>4. AbsQueue \in Seq(Items) /\ Len(AbsQueue) = Len(Front) + Len(Back)
  BY <1>1, <1>3, QueueIs, ConcatProperties
<1>5. Ahead \in {0, 1} /\ \A t \in Threads : pc[t] = "add" => Ahead = 1
  BY DEF Ahead
<1>6. Len(AbsQueue) = count /\ Len(Back) = count - Len(Front)
  BY <1>1, <1>2, <1>3, <1>4, <1>5
<1>7. AbsQueue = <<>> <=> count = 0
  BY <1>4, <1>6, EmptySeq
<1>8. \A t \in Threads : pc[t] = "add" => Len(list) > 0 /\ Len(list) = Len(Back) + 1
  BY <1>1, <1>3, <1>5
<1>9. QED
  BY <1>1, <1>3, <1>4, <1>6, <1>7, <1>8

\* What a call has looked at, by its method and its place.
SeenAt(o, p) ==
  IF o \in PushOps /\ p \in {"verdict_count", "link", "add"} THEN "open"
  ELSE IF o = "try_pop" /\ p = "verdict_flag" THEN "empty"
  ELSE IF o = "drain" /\ p = "sub" THEN "items" ELSE "nothing"

LEMMA SeenIs ==
  /\ AbsSeen = [t \in Threads |-> SeenAt(op[t], pc[t])]
  /\ AbsSeen' = [t \in Threads |-> SeenAt(op'[t], pc'[t])]
BY DEF AbsSeen, SeenAt, At

\* Only a drain that has unlinked its items has found any.
LEMMA FoundIs ==
  /\ AbsFound = [t \in Threads |-> IF op[t] = "drain" /\ pc[t] = "sub" THEN Len(carry[t]) ELSE 0]
  /\ AbsFound' = [t \in Threads |-> IF op'[t] = "drain" /\ pc'[t] = "sub" THEN Len(carry'[t]) ELSE 0]
<1>1. \A t \in Threads : AbsSeen[t] = "items" <=> op[t] = "drain" /\ pc[t] = "sub"
  BY SeenIs DEF SeenAt, PushOps
<1>2. \A t \in Threads : AbsSeen'[t] = "items" <=> op'[t] = "drain" /\ pc'[t] = "sub"
  BY SeenIs DEF SeenAt, PushOps
<1>3. QED
  BY <1>1, <1>2 DEF AbsFound

LEMMA CarryIs ==
  /\ AbsCarry = [t \in Threads |-> IF pc[t] = "add" THEN <<list[Len(list)]>>
                                   ELSE IF pc[t] = "sub" THEN <<>> ELSE carry[t]]
  /\ AbsCarry' = [t \in Threads |-> IF pc'[t] = "add" THEN <<list'[Len(list')]>>
                                    ELSE IF pc'[t] = "sub" THEN <<>> ELSE carry'[t]]
BY DEF AbsCarry, At

\* The abstract queue stands while nobody commits.
LEMMA QueueStands ==
  ASSUME RInv, NEW t \in Threads, Call(t) \/ SpuriousWake(t) \/ Step(t), ~Commits(t)
  PROVE  AbsQueue' = AbsQueue
<1> USE DEF RInv, IInv
<1>1. /\ list' = list
      /\ \A u \in Threads : /\ pc[u] = "add" <=> pc'[u] = "add"
                            /\ pc[u] = "sub" <=> pc'[u] = "sub"
                            /\ pc[u] = "sub" => carry'[u] = carry[u]
  BY DataFrame, OthersStand
<1>2. Adding' = Adding /\ Subbing' = Subbing
  BY <1>1 DEF Adding, Subbing, At
<1>3. Front' = Front
  <2>1. CASE Subbing = {}
    BY <1>2, <2>1 DEF Front
  <2>2. CASE Subbing # {}
    <3>1. Only(Subbing) \in Subbing
      BY <2>2 DEF Only
    <3>2. carry'[Only(Subbing)] = carry[Only(Subbing)]
      BY <1>1, <3>1 DEF Subbing, At
    <3>3. QED
      BY <1>2, <2>2, <3>2 DEF Front, Only
  <2>3. QED
    BY <2>1, <2>2
<1>4. Back' = Back
  BY <1>1, <1>2 DEF Back
<1>5. QED
  BY <1>3, <1>4, QueueIs DEF AbsQueue, Front, Back, Subbing, Adding

\* A step of a call that commits nothing and keeps what it carries changes no
\* more than what this call has seen.
LEMMA Still ==
  ASSUME RInv, NEW t \in Threads, SpuriousWake(t) \/ Step(t), ~Commits(t),
         carry' = carry, op' = op
  PROVE  /\ AbsQueue' = AbsQueue /\ AbsCarry' = AbsCarry /\ AbsFound' = AbsFound
         /\ AbsSeen' = [AbsSeen EXCEPT ![t] = SeenAt(op[t], pc'[t])]
         /\ AbsFound[t] = 0 \/ SeenAt(op[t], pc'[t]) = "items"
<1> USE DEF RInv, IInv
<1>1. AbsQueue' = AbsQueue
  BY QueueStands
<1>2. /\ list' = list /\ \A u \in Threads \ {t} : pc'[u] = pc[u]
      /\ pc[t] = "add" <=> pc'[t] = "add"
      /\ pc[t] = "sub" <=> pc'[t] = "sub"
  BY DataFrame, OthersStand
<1>3. AbsCarry' = AbsCarry
  BY <1>2, CarryIs
<1>4. AbsFound' = AbsFound
  BY <1>2, FoundIs
<1>5. AbsSeen' = [AbsSeen EXCEPT ![t] = SeenAt(op[t], pc'[t])]
  <2>1. \A u \in Threads \ {t} : SeenAt(op'[u], pc'[u]) = SeenAt(op[u], pc[u])
    BY <1>2
  <2>2. QED
    BY <2>1, SeenIs
<1>6. AbsFound[t] = 0 \/ SeenAt(op[t], pc'[t]) = "items"
  BY <1>2, FoundIs DEF SeenAt, PushOps
<1>7. QED
  BY <1>1, <1>3, <1>4, <1>5, <1>6

\* Such a step is not seen from outside if the call has seen nothing new.
LEMMA HiddenStep ==
  ASSUME RInv, NEW t \in Threads,
         \/ Acquire(t) \/ WaitFlag(t) \/ Sleep(t) \/ Reacquire(t) \/ Expire(t) \/ Leave(t)
         \/ Signal(t)
  PROVE  UNCHANGED Abstract!vars2
<1> USE DEF RInv, IInv
<1>1. /\ disposed' = disposed /\ hand' = hand /\ op' = op /\ carry' = carry /\ ret' = ret
  BY DEF Acquire, TakeLock, WaitFlag, Sleep, Reacquire, Expire, Leave, Signal, local
<1>2. (SpuriousWake(t) \/ Step(t)) /\ ~Commits(t)
  <2>1. SpuriousWake(t) \/ Step(t)
    BY DEF Step, SpuriousWake
  <2>2. pc[t] \notin {"link", "add", "unlink", "sub"}
    BY DEF Acquire, WaitFlag, Sleep, Reacquire, Awake, Expire, Leave, Signal,
           ControlInv, WaitSetInv, Side, Sides
  <2>3. QED
    BY <2>1, <2>2 DEF Commits, Link, Add, Unlink, Sub
<1>3. SeenAt(op[t], pc'[t]) = SeenAt(op[t], pc[t])
  <2> USE DEF TypeOK, Goto
  <2>1. CASE Acquire(t)
    BY <2>1 DEF Acquire, SeenAt, Verdict, Side, TryOps, PushOps
  <2>2. CASE WaitFlag(t)
    <3>1. op[t] # "try_pop" /\ op[t] # "drain"
      BY <2>2 DEF WaitFlag, ControlInv, OpInv, InWait
    <3>2. QED
      BY <2>2, <3>1 DEF WaitFlag, SeenAt, Verdict, Side
  <2>3. CASE Sleep(t) \/ Reacquire(t)
    BY <2>3 DEF Sleep, Reacquire, Awake, TakeLock, SeenAt
  <2>4. CASE Expire(t) \/ Leave(t) \/ Signal(t)
    <3>1. pc' = pc
      BY <2>4 DEF Expire, Leave, Signal, local
    <3>2. QED
      BY <3>1
  <2>5. QED
    BY <2>1, <2>2, <2>3, <2>4
<1>4. AbsQueue' = AbsQueue /\ AbsCarry' = AbsCarry /\ AbsFound' = AbsFound
      /\ AbsSeen' = [AbsSeen EXCEPT ![t] = SeenAt(op[t], pc'[t])]
  BY <1>1, <1>2, Still
<1>5. AbsSeen' = AbsSeen
  BY <1>3, <1>4, SeenIs
<1>6. QED
  BY <1>1, <1>4, <1>5 DEF Abstract!vars, Abstract!vars2

\* A refusal: the call keeps what it carries.
LEMMA Refused ==
  ASSUME RInv, NEW t \in Threads, NEW r, SpuriousWake(t) \/ Step(t), ~Commits(t),
         ret' = [ret EXCEPT ![t] = r], disposed' = disposed, hand' = hand, op' = op, carry' = carry
  PROVE  Abstract!Refuse(t, r)
BY Still DEF Abstract!Refuse, Abstract!Result

\* Nobody else of its side is between look and effect.
LEMMA LooksAlone ==
  ASSUME RInv, NEW t \in Threads, pc[t] \in Critical, AbsSeen[t] = "nothing"
  PROVE  Abstract!Alone(t)
<1> USE DEF RInv, IInv
<1>1. \A u \in Threads : AbsSeen[u] # "nothing" => pc[u] \in Critical
  BY SeenIs DEF SeenAt, Critical
<1>2. ASSUME NEW u \in Threads, Side(u) = Side(t) PROVE AbsSeen[u] = "nothing"
  BY <1>1, <1>2, Exclusive
<1>3. (PopOps \cup {"drain"}) \cap PushOps = {}
  BY DEF PushOps, PopOps
<1>4. ASSUME NEW u \in Threads, op[u] \in Abstract!SideOf(t) PROVE AbsSeen[u] = "nothing"
  <2>1. Side(u) = Side(t)
    BY <1>3, <1>4, SameWords DEF Abstract!SideOf, Side
  <2>2. QED
    BY <1>2, <2>1
<1>5. QED
  BY <1>4 DEF Abstract!Alone

LEMMA WaitCountRefines ==
  ASSUME RInv, NEW t \in Threads, WaitCount(t)
  PROVE  Abstract!AtOnce(t) \/ UNCHANGED Abstract!vars2
<1> USE DEF RInv, IInv
<1>1. /\ disposed' = disposed /\ hand' = hand /\ op' = op /\ carry' = carry
      /\ pc[t] \in {"if_count", "while_count"} /\ Step(t) /\ ~Commits(t)
  BY DEF WaitCount, Step, Commits, Link, Add, Unlink, Sub
<1>2. op[t] \in {"push", "push_timeout", "pop", "pop_timeout"} /\ ret[t] = "none"
  BY <1>1 DEF ControlInv, OpInv, InWait, ResultInv
<1>3. SeenAt(op[t], pc[t]) = "nothing" /\ AbsSeen[t] = "nothing"
  BY <1>1, SeenIs DEF SeenAt
<1>4. SeenAt(op[t], pc'[t]) = "nothing"
  BY <1>1, <1>2 DEF WaitCount, Finish, Goto, TypeOK, SeenAt, Verdict, Side
<1>5. AbsQueue' = AbsQueue /\ AbsCarry' = AbsCarry /\ AbsFound' = AbsFound
      /\ AbsSeen' = [AbsSeen EXCEPT ![t] = "nothing"]
  BY <1>1, <1>4, Still
<1>6. AbsSeen' = AbsSeen
  BY <1>3, <1>5, SeenIs
<1>7. CASE ret' = ret
  BY <1>1, <1>5, <1>6, <1>7 DEF Abstract!vars, Abstract!vars2
<1>8. CASE ret' # ret
  <2>1. Blocked(t) /\ expired[t] /\ ret' = [ret EXCEPT ![t] = "timeout"]
    BY <1>8 DEF WaitCount, Finish
  <2>2. Abstract!Refuse(t, "timeout")
    BY <1>1, <2>1, Refused
  <2>3. op[t] \in {"push_timeout", "pop_timeout"}
    BY <2>1 DEF ResultInv, TimedOps
  <2>4. Len(AbsQueue) = count /\ (AbsQueue = <<>> <=> count = 0)
    BY CountIs DEF DataInv
  <2>5. Abstract!Alone(t)
    BY <1>1, <1>3, LooksAlone DEF Critical
  <2>6. CASE op[t] = "push_timeout"
    <3>1. op[t] \in PushOps /\ count >= Capacity
      BY <2>1, <2>6 DEF Blocked, Side, PushOps, IsFull
    <3>2. Abstract!IsFull
      BY <2>4, <3>1, SameWords DEF Abstract!IsFull
    <3>3. QED
      BY <1>2, <1>5, <1>6, <2>2, <2>6, <2>5, <3>1, <3>2, SameWords
         DEF Abstract!PushRefused, Abstract!LateTimeout, Abstract!AtOnce, Abstract!Pending
  <2>7. CASE op[t] = "pop_timeout"
    <3>1. op[t] \in PopOps /\ AbsQueue = <<>>
      BY <2>1, <2>4, <2>7 DEF Blocked, Side, PushOps, PopOps, IsEmpty
    <3>2. QED
      BY <1>2, <1>5, <1>6, <2>2, <2>7, <2>5, <3>1, SameWords
         DEF Abstract!PopRefused, Abstract!LateTimeout, Abstract!AtOnce, Abstract!Pending
  <2>8. QED
    BY <2>3, <2>6, <2>7
<1>9. QED
  BY <1>7, <1>8

LEMMA VerdictFlagRefines ==
  ASSUME RInv, NEW t \in Threads, VerdictFlag(t)
  PROVE  Abstract!Admit(t) \/ Abstract!AtOnce(t) \/ Abstract!TryPopAnswers(t)
<1> USE DEF RInv, IInv
<1>1. /\ disposed' = disposed /\ hand' = hand /\ op' = op /\ carry' = carry
      /\ pc[t] = "verdict_flag" /\ Step(t) /\ ~Commits(t)
  BY DEF VerdictFlag, Step, Commits, Link, Add, Unlink, Sub
<1>2. ret[t] = "none" /\ op[t] \in PushOps \cup {"try_pop"} /\ "try_pop" \notin PushOps
  BY <1>1 DEF ControlInv, OpInv, ResultInv, PushOps
<1>3. AbsQueue' = AbsQueue /\ AbsCarry' = AbsCarry /\ AbsFound' = AbsFound
      /\ AbsSeen' = [AbsSeen EXCEPT ![t] = SeenAt(op[t], pc'[t])]
  BY <1>1, Still
<1>4. AbsSeen[t] = SeenAt(op[t], "verdict_flag") /\ AbsFound[t] = 0
  BY <1>1, SeenIs, FoundIs
<1>5. CASE op[t] \in PushOps /\ disposed
  <2>1. ret' = [ret EXCEPT ![t] = "unavailable"] /\ pc'[t] = "signal"
    BY <1>2, <1>5 DEF VerdictFlag, Finish, Goto, TypeOK
  <2>2. AbsSeen[t] = "nothing" /\ AbsSeen' = AbsSeen
    BY <1>2, <1>3, <1>4, <1>5, <2>1, SeenIs DEF SeenAt
  <2>3. Abstract!Refuse(t, "unavailable")
    BY <1>1, <2>1, Refused
  <2>4. Abstract!Alone(t)
    BY <1>1, <2>2, LooksAlone DEF Critical
  <2>5. QED
    BY <1>2, <1>3, <1>5, <2>2, <2>3, <2>4, SameWords
       DEF Abstract!PushRefused, Abstract!AtOnce, Abstract!Pending
<1>6. CASE op[t] \in PushOps /\ ~disposed
  <2>1. pc'[t] \in {"verdict_count", "link"} /\ ret' = ret
    BY <1>2, <1>6 DEF VerdictFlag, Goto, TypeOK
  <2>2. AbsSeen[t] = "nothing" /\ AbsSeen' = [AbsSeen EXCEPT ![t] = "open"]
    BY <1>2, <1>3, <1>4, <1>6, <2>1 DEF SeenAt
  <2>3. Abstract!Look(t, "open")
    BY <1>1, <1>3, <2>1, <2>2, LooksAlone DEF Critical, Abstract!Look, Abstract!vars
  <2>4. op[t] = "try_push" \/ ~Abstract!IsFull
    <3>1. op[t] # "try_push" => disposed \/ count < Capacity
      BY <1>1, <1>6 DEF DataInv, VerdictInv, PushOps
    <3>2. Len(AbsQueue) = count /\ count \in Nat /\ Capacity \in Nat
      BY CountIs, CapacityNat DEF DataInv, TypeOK
    <3>3. QED
      BY <1>6, <3>1, <3>2, SameWords DEF Abstract!IsFull
  <2>5. QED
    BY <1>2, <1>3, <1>6, <2>3, <2>4, SameWords DEF Abstract!Admit, Abstract!Pending
<1>7. CASE op[t] = "try_pop"
  <2>1. /\ ret' = [ret EXCEPT ![t] = IF disposed THEN "unavailable" ELSE "would_block"]
        /\ pc'[t] = "signal"
    BY <1>2, <1>7 DEF VerdictFlag, Finish, Goto, TypeOK
  <2>2. AbsSeen[t] = "empty" /\ AbsSeen' = [AbsSeen EXCEPT ![t] = "nothing"]
    BY <1>2, <1>3, <1>4, <1>7, <2>1 DEF SeenAt
  <2>3. Abstract!Refuse(t, IF disposed THEN "unavailable" ELSE "would_block")
    BY <1>1, <2>1, Refused
  <2>4. AbsFound' = [AbsFound EXCEPT ![t] = 0]
    BY <1>3, <1>4, FoundIs
  <2>5. QED
    BY <2>2, <2>3, <2>4 DEF Abstract!TryPopAnswers, Abstract!Settle
<1>8. QED
  BY <1>2, <1>5, <1>6, <1>7

LEMMA VerdictCountRefines ==
  ASSUME RInv, NEW t \in Threads, VerdictCount(t)
  PROVE  \/ Abstract!PushAdmitted(t) \/ Abstract!FindNothing(t) \/ Abstract!AtOnce(t)
         \/ UNCHANGED Abstract!vars2
<1> USE DEF RInv, IInv
<1>1. /\ disposed' = disposed /\ hand' = hand /\ op' = op /\ carry' = carry
      /\ pc[t] = "verdict_count" /\ Step(t) /\ ~Commits(t)
  BY DEF VerdictCount, Step, Commits, Link, Add, Unlink, Sub
<1>2. ret[t] = "none" /\ op[t] \in PopOps \cup {"try_push"} /\ PopOps \cap PushOps = {}
      /\ "try_push" \in PushOps /\ "try_pop" \in PopOps
  BY <1>1 DEF ControlInv, OpInv, ResultInv, PushOps, PopOps
<1>3. AbsQueue' = AbsQueue /\ AbsCarry' = AbsCarry /\ AbsFound' = AbsFound
      /\ AbsSeen' = [AbsSeen EXCEPT ![t] = SeenAt(op[t], pc'[t])]
  BY <1>1, Still
<1>4. AbsSeen[t] = SeenAt(op[t], "verdict_count") /\ AbsFound[t] = 0
  BY <1>1, SeenIs, FoundIs
<1>5. Len(AbsQueue) = count /\ (AbsQueue = <<>> <=> count = 0)
  BY CountIs DEF DataInv
<1>6. CASE op[t] = "try_push" /\ IsFull
  <2>1. ret' = [ret EXCEPT ![t] = "would_block"] /\ pc'[t] = "signal"
    BY <1>2, <1>6 DEF VerdictCount, Finish, Goto, TypeOK, Side
  <2>2. AbsSeen[t] = "open" /\ AbsSeen' = [AbsSeen EXCEPT ![t] = "nothing"]
    BY <1>2, <1>3, <1>4, <1>6, <2>1 DEF SeenAt
  <2>3. Abstract!Refuse(t, "would_block")
    BY <1>1, <2>1, Refused
  <2>4. AbsFound' = [AbsFound EXCEPT ![t] = 0]
    BY <1>3, <1>4, FoundIs
  <2>5. Abstract!IsFull
    BY <1>5, <1>6, SameWords DEF Abstract!IsFull, IsFull
  <2>6. QED
    BY <1>6, <2>2, <2>3, <2>4, <2>5 DEF Abstract!PushAdmitted, Abstract!Settle
<1>7. CASE \/ op[t] = "try_push" /\ ~IsFull
           \/ op[t] \in PopOps /\ ~IsEmpty
  <2>1. ret' = ret /\ pc'[t] = IF op[t] = "try_push" THEN "link" ELSE "unlink"
    BY <1>2, <1>7 DEF VerdictCount, Goto, TypeOK, Side
  <2>2. SeenAt(op[t], pc'[t]) = SeenAt(op[t], "verdict_count")
    BY <1>2, <1>7, <2>1 DEF SeenAt
  <2>3. AbsSeen' = AbsSeen
    BY <1>3, <1>4, <2>2, SeenIs
  <2>4. QED
    BY <1>1, <1>3, <2>1, <2>3 DEF Abstract!vars, Abstract!vars2
<1>8. CASE op[t] = "try_pop" /\ IsEmpty
  <2>1. ret' = ret /\ pc'[t] = "verdict_flag"
    BY <1>2, <1>8 DEF VerdictCount, Goto, TypeOK, Side
  <2>2. AbsSeen[t] = "nothing" /\ AbsSeen' = [AbsSeen EXCEPT ![t] = "empty"]
    BY <1>2, <1>3, <1>4, <1>8, <2>1 DEF SeenAt
  <2>3. Abstract!Look(t, "empty")
    BY <1>1, <1>3, <2>1, <2>2, LooksAlone DEF Critical, Abstract!Look, Abstract!vars
  <2>4. QED
    BY <1>2, <1>3, <1>5, <1>8, <2>3, SameWords DEF Abstract!FindNothing, Abstract!Pending, IsEmpty
<1>9. CASE op[t] \in PopOps \ {"try_pop"} /\ IsEmpty
  <2>1. ret' = [ret EXCEPT ![t] = "unavailable"] /\ pc'[t] = "signal"
    BY <1>2, <1>9 DEF VerdictCount, Finish, Goto, TypeOK, Side
  <2>2. AbsSeen' = AbsSeen /\ AbsSeen[t] = "nothing"
    <3>1. SeenAt(op[t], "signal") = "nothing" /\ SeenAt(op[t], "verdict_count") = "nothing"
      BY <1>2, <1>9 DEF SeenAt
    <3>2. QED
      BY <1>3, <1>4, <2>1, <3>1, SeenIs
  <2>3. Abstract!Refuse(t, "unavailable")
    BY <1>1, <2>1, Refused
  <2>4. disposed
    <3>1. op[t] \in {"pop", "pop_timeout"}
      BY <1>9 DEF PopOps
    <3>2. QED
      BY <1>1, <1>9, <3>1 DEF DataInv, VerdictInv, IsEmpty, TypeOK
  <2>5. Abstract!Alone(t)
    BY <1>1, <2>2, LooksAlone DEF Critical
  <2>6. QED
    BY <1>2, <1>3, <1>5, <1>9, <2>2, <2>3, <2>4, <2>5, SameWords
       DEF Abstract!PopRefused, Abstract!AtOnce, Abstract!Pending, IsEmpty
<1>10. QED
  BY <1>2, <1>6, <1>7, <1>8, <1>9

\* What the other calls have looked at, and found, stands in any step; so does
\* what they carry, unless a commit moves the node another one has linked.
LEMMA OthersSeen ==
  ASSUME TypeOK, NEW t \in Threads, Call(t) \/ SpuriousWake(t) \/ Step(t),
         NEW u \in Threads, u # t
  PROVE  /\ AbsSeen'[u] = AbsSeen[u] /\ AbsFound'[u] = AbsFound[u]
         /\ (pc[u] = "add" => list'[Len(list')] = list[Len(list)]) => AbsCarry'[u] = AbsCarry[u]
<1>1. pc'[u] = pc[u] /\ op'[u] = op[u] /\ carry'[u] = carry[u]
  BY OthersStand
<1>2. AbsSeen'[u] = AbsSeen[u] /\ AbsFound'[u] = AbsFound[u]
  BY <1>1, SeenIs, FoundIs
<1>3. (pc[u] = "add" => list'[Len(list')] = list[Len(list)]) => AbsCarry'[u] = AbsCarry[u]
  BY <1>1, CarryIs
<1>4. QED
  BY <1>2, <1>3

\* What one call sees changes for it alone.
LEMMA SeenUpdate ==
  ASSUME NEW t \in Threads, NEW s, NEW n, AbsSeen'[t] = s, AbsFound'[t] = n,
         \A u \in Threads \ {t} : AbsSeen'[u] = AbsSeen[u] /\ AbsFound'[u] = AbsFound[u]
  PROVE  AbsSeen' = [AbsSeen EXCEPT ![t] = s] /\ AbsFound' = [AbsFound EXCEPT ![t] = n]
<1>1. AbsSeen' = [AbsSeen EXCEPT ![t] = s]
  BY SeenIs
<1>2. AbsFound' = [AbsFound EXCEPT ![t] = n]
  BY FoundIs
<1>3. QED
  BY <1>1, <1>2

\* A producer has linked its node, and it is not seen before the fetch_add.
LEMMA LinkRefines ==
  ASSUME RInv, RInv', NEW t \in Threads, Link(t)
  PROVE  UNCHANGED Abstract!vars2
<1> USE DEF RInv, IInv
<1>1. /\ pc[t] = "link" /\ pc' = [pc EXCEPT ![t] = "add"] /\ list' = list \o carry[t]
      /\ carry' = [carry EXCEPT ![t] = <<>>]
      /\ op' = op /\ ret' = ret /\ hand' = hand /\ disposed' = disposed /\ Step(t)
  BY DEF Link, Goto, Step
<1>2. op[t] \in PushOps
  BY <1>1 DEF ControlInv, OpInv
<1>3. PICK i \in Items : carry[t] = <<i>>
  BY <1>1, <1>2 DEF ControlInv, CarryInv
<1>4. \A u \in Threads : pc[u] # "add"
  BY <1>1, SidesOf, Exclusive DEF Critical
<1>5. /\ Front \in Seq(Items) /\ FrontFacts /\ BackFacts /\ FrontFacts' /\ BackFacts'
  BY FrontIs, BackIs, PartsNext DEF FrontFacts
<1>6. Back = list
  BY <1>4, <1>5 DEF BackFacts
<1>7. /\ list \in Seq(Items) /\ <<i>> \in Seq(Items) /\ Len(<<i>>) = 1 /\ Len(list) \in Nat
      /\ list' = list \o <<i>>
  BY <1>1, <1>3, LenProperties DEF TypeOK
<1>8. Len(list') = Len(list) + 1 /\ list'[Len(list')] = i /\ SubSeq(list', 1, Len(list)) = list
  BY <1>7, ConcatProperties, Unconcat
<1>9. Back' = list
  <2>1. pc'[t] = "add" /\ Len(list') - 1 = Len(list)
    BY <1>1, <1>7, <1>8 DEF TypeOK
  <2>2. QED
    BY <1>5, <1>8, <2>1 DEF BackFacts
<1>10. Front' = Front
  <2>1. \A u \in Threads : /\ pc'[u] = "sub" <=> pc[u] = "sub"
                           /\ pc[u] = "sub" => carry'[u] = carry[u]
    BY <1>1 DEF TypeOK
  <2>2. QED
    BY <1>5, <2>1, FrontStands
<1>11. AbsQueue' = AbsQueue
  BY <1>6, <1>9, <1>10, QueueIs DEF AbsQueue, Front, Back, Subbing, Adding
<1>12. AbsCarry' = AbsCarry
  <2>1. AbsCarry'[t] = <<i>> /\ AbsCarry[t] = <<i>>
    BY <1>1, <1>3, <1>8, CarryIs DEF TypeOK
  <2>2. \A u \in Threads \ {t} : AbsCarry'[u] = AbsCarry[u]
    BY <1>1, <1>4, OthersSeen
  <2>3. QED
    BY <2>1, <2>2, CarryIs
<1>13. AbsSeen' = AbsSeen /\ AbsFound' = AbsFound
  <2>1. \A u \in Threads \ {t} : AbsSeen'[u] = AbsSeen[u] /\ AbsFound'[u] = AbsFound[u]
    BY <1>1, OthersSeen
  <2>2. SeenAt(op'[t], pc'[t]) = "open" /\ SeenAt(op[t], pc[t]) = "open"
    BY <1>1, <1>2 DEF SeenAt, TypeOK
  <2>3. AbsSeen'[t] = AbsSeen[t] /\ AbsFound'[t] = AbsFound[t]
    BY <1>1, <2>2, SeenIs, FoundIs DEF TypeOK
  <2>4. QED
    BY <2>1, <2>3, SeenIs, FoundIs
<1>14. QED
  BY <1>1, <1>11, <1>12, <1>13 DEF Abstract!vars, Abstract!vars2

\* With the fetch_add the item is in the abstract queue.
LEMMA AddRefines ==
  ASSUME RInv, RInv', NEW t \in Threads, Add(t)
  PROVE  Abstract!PushAdmitted(t)
<1> USE DEF RInv, IInv
<1>1. /\ pc[t] = "add" /\ pc' = [pc EXCEPT ![t] = "signal"] /\ ret' = [ret EXCEPT ![t] = "ok"]
      /\ list' = list /\ op' = op /\ carry' = carry /\ hand' = hand /\ disposed' = disposed
      /\ Step(t)
  BY DEF Add, Finish, Goto, Step
<1>2. op[t] \in PushOps /\ ret[t] = "none" /\ carry[t] = <<>>
  BY <1>1 DEF ControlInv, OpInv, ResultInv
<1>3. \A u \in Threads \ {t} : pc[u] # "add"
  BY <1>1, SidesOf, Exclusive DEF Critical
<1>4. FrontFacts /\ BackFacts /\ FrontFacts' /\ BackFacts'
  BY FrontIs, BackIs, PartsNext
<1>5. /\ Front \in Seq(Items) /\ Back \in Seq(Items) /\ Len(AbsQueue) = count /\ Len(list) > 0
      /\ list \in Seq(Items)
  BY <1>1, CountIs DEF DataInv, TypeOK
<1>6. Back = SubSeq(list, 1, Len(list) - 1)
  BY <1>1, <1>4 DEF BackFacts
<1>7. list[Len(list)] \in Items /\ Back \o <<list[Len(list)]>> = list
  BY <1>5, <1>6, LastItem
<1>8. Back' = list
  <2>1. \A u \in Threads : pc'[u] # "add"
    BY <1>1, <1>3 DEF TypeOK
  <2>2. QED
    BY <1>1, <1>4, <2>1 DEF BackFacts
<1>9. Front' = Front
  <2>1. \A u \in Threads : /\ pc'[u] = "sub" <=> pc[u] = "sub"
                           /\ pc[u] = "sub" => carry'[u] = carry[u]
    BY <1>1 DEF TypeOK
  <2>2. QED
    BY <1>4, <2>1, FrontStands
<1>10. AbsCarry[t] = <<list[Len(list)]>>
  BY <1>1, CarryIs
<1>11. AbsQueue' = AbsQueue \o AbsCarry[t]
  <2>1. AbsQueue' = Front' \o Back'
    BY DEF AbsQueue, Front, Back, Subbing, Adding
  <2>2. <<list[Len(list)]>> \in Seq(Items)
    BY <1>7
  <2>3. (Front \o Back) \o <<list[Len(list)]>> = Front \o (Back \o <<list[Len(list)]>>)
    BY <1>5, <2>2, ConcatAssociative
  <2>4. QED
    BY <1>7, <1>8, <1>9, <1>10, <2>1, <2>3, QueueIs
<1>12. AbsCarry' = [AbsCarry EXCEPT ![t] = <<>>]
  <2>1. AbsCarry'[t] = <<>>
    BY <1>1, <1>2, CarryIs DEF TypeOK
  <2>2. \A u \in Threads \ {t} : AbsCarry'[u] = AbsCarry[u]
    BY <1>1, OthersSeen
  <2>3. QED
    BY <2>1, <2>2, CarryIs
<1>13. ~Abstract!IsFull
  <2>1. count < Capacity /\ count \in Nat /\ Capacity \in Nat
    BY <1>1, CapacityNat DEF DataInv, CommitsAreSafe, TypeOK
  <2>2. QED
    BY <1>5, <2>1, SameWords DEF Abstract!IsFull
<1>14. Abstract!Enqueue(t)
  BY <1>1, <1>11, <1>12, <1>13 DEF Abstract!Enqueue, Abstract!Result
<1>15. AbsSeen[t] = "open" /\ Abstract!Settle(t)
  <2>1. \A u \in Threads \ {t} : AbsSeen'[u] = AbsSeen[u] /\ AbsFound'[u] = AbsFound[u]
    BY <1>1, OthersSeen
  <2>2. SeenAt(op'[t], pc'[t]) = "nothing" /\ SeenAt(op[t], pc[t]) = "open"
    BY <1>1, <1>2 DEF SeenAt, TypeOK
  <2>3. AbsSeen'[t] = "nothing" /\ AbsFound'[t] = 0 /\ AbsSeen[t] = "open"
    BY <1>1, <2>2, SeenIs, FoundIs DEF TypeOK
  <2>4. AbsSeen' = [AbsSeen EXCEPT ![t] = "nothing"] /\ AbsFound' = [AbsFound EXCEPT ![t] = 0]
    BY <2>1, <2>3, SeenUpdate
  <2>5. QED
    BY <2>3, <2>4 DEF Abstract!Settle
<1>16. QED
  BY <1>14, <1>15 DEF Abstract!PushAdmitted

\* A consumer moves nodes from the list to its hands, and the abstract queue
\* holds them until the fetch_sub; a drain has found what there is.
LEMMA UnlinkRefines ==
  ASSUME RInv, RInv', NEW t \in Threads, Unlink(t)
  PROVE  Abstract!FindItems(t) \/ UNCHANGED Abstract!vars2
<1> USE DEF RInv, IInv
<1> DEFINE n == IF op[t] = "drain" THEN count ELSE 1
<1>1. /\ pc[t] = "unlink" /\ pc' = [pc EXCEPT ![t] = "sub"] /\ n <= Len(list)
      /\ carry' = [carry EXCEPT ![t] = SubSeq(list, 1, n)] /\ list' = SubSeq(list, n + 1, Len(list))
      /\ op' = op /\ ret' = ret /\ hand' = hand /\ disposed' = disposed /\ Step(t)
  BY DEF Unlink, Goto, Step
<1>2. op[t] \in PopOps \cup {"drain"} /\ op[t] \notin PushOps /\ ret[t] = "none" /\ carry[t] = <<>>
  BY <1>1 DEF ControlInv, OpInv, ResultInv, EmptyInv, PopOps, PushOps
<1>3. n \in Nat /\ n <= count /\ count \in Nat /\ list \in Seq(Items) /\ Len(list) \in Nat
  BY <1>1, LenProperties DEF TypeOK, DataInv, VerdictInv
<1> HIDE DEF n
<1>4. FrontFacts /\ BackFacts /\ FrontFacts' /\ BackFacts'
  BY FrontIs, BackIs, PartsNext
<1>5. \A u \in Threads : pc[u] # "sub"
  BY <1>1, SidesOf, Exclusive DEF Critical
<1>6. Front = <<>> /\ Front' = SubSeq(list, 1, n) /\ carry'[t] = SubSeq(list, 1, n)
  BY <1>1, <1>4, <1>5 DEF FrontFacts, TypeOK
<1>7. /\ Back \in Seq(Items) /\ Len(AbsQueue) = count /\ Len(Back) = count
      /\ \A u \in Threads : pc[u] = "add" => Len(list) = Len(Back) + 1
  BY <1>3, <1>6, CountIs, EmptySeq DEF DataInv
<1>8. Front' \o Back' = Back /\ \A u \in Threads : pc[u] = "add" => list'[Len(list')] = list[Len(list)]
  <2>1. CASE \E u \in Threads : pc[u] = "add"
    <3>1. PICK u \in Threads : pc[u] = "add" /\ pc'[u] = "add"
      BY <1>1, <2>1 DEF TypeOK
    <3>2. n < Len(list) /\ Back = SubSeq(list, 1, Len(list) - 1)
          /\ Back' = SubSeq(list', 1, Len(list') - 1)
      BY <1>3, <1>4, <1>7, <3>1 DEF BackFacts
    <3>3. /\ list'[Len(list')] = list[Len(list)]
          /\ SubSeq(list, 1, n) \o SubSeq(list', 1, Len(list') - 1) = SubSeq(list, 1, Len(list) - 1)
      BY <1>1, <1>3, <3>2, CutBeforeLast
    <3>4. QED
      BY <1>6, <3>2, <3>3
  <2>2. CASE \A u \in Threads : pc[u] # "add"
    <3>1. \A u \in Threads : pc'[u] # "add"
      BY <1>1, <2>2 DEF TypeOK
    <3>2. Back = list /\ Back' = SubSeq(list, n + 1, Len(list))
      BY <1>1, <1>4, <2>2, <3>1 DEF BackFacts
    <3>3. 1 \in 1 .. Len(list) + 1 /\ n \in 1 - 1 .. Len(list) /\ Len(list) \in n .. Len(list)
      BY <1>1, <1>3
    <3>4. SubSeq(list, 1, n) \o SubSeq(list, n + 1, Len(list)) = SubSeq(list, 1, Len(list))
      BY <1>3, <3>3, ConcatAdjacentSubSeq
    <3>5. QED
      BY <1>3, <1>6, <2>2, <3>2, <3>4, SubSeqFull
  <2>3. QED
    BY <2>1, <2>2
<1>9. AbsQueue' = AbsQueue
  <2>1. AbsQueue' = Front' \o Back' /\ AbsQueue = <<>> \o Back
    BY <1>6, QueueIs DEF AbsQueue, Front, Back, Subbing, Adding
  <2>2. <<>> \o Back = Back
    BY <1>7, ConcatEmptySeq
  <2>3. QED
    BY <1>8, <2>1, <2>2
<1>10. AbsCarry' = AbsCarry
  <2>1. AbsCarry'[t] = <<>> /\ AbsCarry[t] = <<>>
    BY <1>1, <1>2, CarryIs DEF TypeOK
  <2>2. \A u \in Threads \ {t} : AbsCarry'[u] = AbsCarry[u]
    BY <1>1, <1>8, OthersSeen
  <2>3. QED
    BY <2>1, <2>2, CarryIs
<1>11. \A u \in Threads \ {t} : AbsSeen'[u] = AbsSeen[u] /\ AbsFound'[u] = AbsFound[u]
  BY <1>1, OthersSeen
<1>12. AbsSeen[t] = "nothing" /\ AbsFound[t] = 0
  BY <1>1, SeenIs, FoundIs DEF SeenAt
<1>13. pc'[t] = "sub" /\ op'[t] = op[t]
  BY <1>1 DEF TypeOK
<1>14. CASE op[t] = "drain"
  <2>1. Len(carry'[t]) = count
    <3>1. n = count
      BY <1>14 DEF n
    <3>2. 1 \in Int /\ n \in Int /\ \A i \in 1 .. n : list[i] \in Items
      BY <1>1, <1>3, LenProperties
    <3>3. Len(SubSeq(list, 1, n)) = IF 1 <= n THEN n - 1 + 1 ELSE 0
      BY <3>2, SubSeqProperties
    <3>4. QED
      BY <1>3, <1>6, <3>1, <3>3
  <2>2. AbsSeen'[t] = "items" /\ AbsFound'[t] = count
    BY <1>13, <1>14, <2>1, SeenIs, FoundIs DEF SeenAt, PushOps
  <2>3. AbsSeen' = [AbsSeen EXCEPT ![t] = "items"] /\ AbsFound' = [AbsFound EXCEPT ![t] = count]
    BY <1>11, <2>2, SeenUpdate
  <2>4. Abstract!Look(t, "items")
    BY <1>1, <1>9, <1>10, <1>12, <2>3, LooksAlone DEF Critical, Abstract!Look, Abstract!vars
  <2>5. QED
    BY <1>2, <1>7, <1>14, <2>3, <2>4, SameWords DEF Abstract!FindItems, Abstract!Pending
<1>15. CASE op[t] # "drain"
  <2>1. AbsSeen'[t] = "nothing" /\ AbsFound'[t] = 0
    BY <1>2, <1>13, <1>15, SeenIs, FoundIs DEF SeenAt
  <2>2. AbsSeen' = AbsSeen /\ AbsFound' = AbsFound
    BY <1>11, <1>12, <2>1, SeenIs, FoundIs
  <2>3. QED
    BY <1>1, <1>9, <1>10, <2>2 DEF Abstract!vars, Abstract!vars2
<1>16. QED
  BY <1>14, <1>15

\* With the fetch_sub the call has taken its items out of the abstract queue.
LEMMA SubRefines ==
  ASSUME RInv, RInv', NEW t \in Threads, Sub(t)
  PROVE  Abstract!AtOnce(t) \/ Abstract!DrainFound(t)
<1> USE DEF RInv, IInv
<1>1. /\ pc[t] = "sub" /\ pc' = [pc EXCEPT ![t] = "signal"] /\ ret' = [ret EXCEPT ![t] = "ok"]
      /\ list' = list /\ op' = op /\ carry' = carry /\ hand' = hand /\ disposed' = disposed
      /\ Step(t)
  BY DEF Sub, Finish, Goto, Step
<1>2. op[t] \in PopOps \cup {"drain"} /\ op[t] \notin PushOps /\ ret[t] = "none"
  BY <1>1 DEF ControlInv, OpInv, ResultInv, PopOps, PushOps
<1>3. FrontFacts /\ BackFacts /\ FrontFacts' /\ BackFacts'
  BY FrontIs, BackIs, PartsNext
<1>4. \A u \in Threads \ {t} : pc[u] # "sub"
  BY <1>1, SidesOf, Exclusive DEF Critical
<1>5. Front = carry[t] /\ Front' = <<>>
  <2>1. \A u \in Threads : pc'[u] # "sub"
    BY <1>1, <1>4 DEF TypeOK
  <2>2. QED
    BY <1>1, <1>3, <2>1 DEF FrontFacts
<1>6. Back' = Back
  <2>1. \A u \in Threads : pc'[u] = "add" <=> pc[u] = "add"
    BY <1>1 DEF TypeOK
  <2>2. CASE \E u \in Threads : pc[u] = "add"
    BY <1>1, <1>3, <2>1, <2>2 DEF BackFacts
  <2>3. CASE \A u \in Threads : pc[u] # "add"
    BY <1>1, <1>3, <2>1, <2>3 DEF BackFacts
  <2>4. QED
    BY <2>2, <2>3
<1>7. carry[t] \in Seq(Items) /\ Back \in Seq(Items)
  BY CountIs DEF DataInv, TypeOK
<1>8. AbsQueue = carry[t] \o Back /\ AbsQueue' = Back
  <2>1. AbsQueue' = Front' \o Back'
    BY DEF AbsQueue, Front, Back, Subbing, Adding
  <2>2. <<>> \o Back = Back
    BY <1>7, ConcatEmptySeq
  <2>3. QED
    BY <1>5, <1>6, <2>1, <2>2, QueueIs
<1>9. /\ SubSeq(AbsQueue, 1, Len(carry[t])) = carry[t]
      /\ SubSeq(AbsQueue, Len(carry[t]) + 1, Len(AbsQueue)) = Back
  BY <1>7, <1>8, Unconcat
<1>10. AbsCarry' = [AbsCarry EXCEPT ![t] = carry[t]]
  <2>1. AbsCarry'[t] = carry[t]
    BY <1>1, CarryIs DEF TypeOK
  <2>2. \A u \in Threads \ {t} : AbsCarry'[u] = AbsCarry[u]
    BY <1>1, OthersSeen
  <2>3. QED
    BY <2>1, <2>2, CarryIs
<1>11. \A u \in Threads \ {t} : AbsSeen'[u] = AbsSeen[u] /\ AbsFound'[u] = AbsFound[u]
  BY <1>1, OthersSeen
<1>12. AbsSeen'[t] = "nothing" /\ AbsFound'[t] = 0
  BY <1>1, <1>2, SeenIs, FoundIs DEF SeenAt, TypeOK
<1>13. CASE op[t] = "drain"
  <2>1. AbsSeen[t] = "items" /\ AbsFound[t] = Len(carry[t])
    BY <1>1, <1>13, SeenIs, FoundIs DEF SeenAt, PushOps
  <2>2. Abstract!Settle(t)
    BY <1>11, <1>12, SeenUpdate DEF Abstract!Settle
  <2>3. Abstract!DrainTo(t, AbsFound[t])
    BY <1>1, <1>8, <1>9, <1>10, <2>1 DEF Abstract!DrainTo, Abstract!Result
  <2>4. QED
    BY <2>1, <2>2, <2>3 DEF Abstract!DrainFound
<1>14. CASE op[t] # "drain"
  <2>1. AbsSeen[t] = "nothing" /\ AbsFound[t] = 0
    BY <1>1, <1>2, <1>14, SeenIs, FoundIs DEF SeenAt
  <2>2. AbsSeen' = AbsSeen /\ AbsFound' = AbsFound
    BY <1>11, <1>12, <2>1, SeenIs, FoundIs
  <2>3. Len(carry[t]) = 1
    BY <1>1, <1>2, <1>14 DEF ControlInv, CarryInv
  <2>4. PICK x \in Items : carry[t] = <<x>>
    <3>1. PICK s \in Seq(Items) : s = carry[t]
      BY <1>7
    <3>2. s[1] \in Items /\ s = <<s[1]>>
      BY <2>3, <3>1
    <3>3. QED
      BY <3>1, <3>2
  <2>5. AbsQueue \in Seq(Items) /\ AbsQueue # <<>> /\ Head(AbsQueue) = x
    <3>1. <<x>> \in Seq(Items) /\ Len(<<x>>) = 1 /\ <<x>>[1] = x
      OBVIOUS
    <3>2. /\ AbsQueue \in Seq(Items) /\ Len(AbsQueue) = 1 + Len(Back) /\ Len(Back) \in Nat
          /\ AbsQueue[1] = x
      BY <1>7, <1>8, <2>4, <3>1, ConcatProperties, LenProperties
    <3>3. QED
      BY <3>2, EmptySeq
  <2>6. Tail(AbsQueue) = Back
    <3>1. SubSeq(AbsQueue, 2, Len(AbsQueue)) = Back
      BY <1>9, <2>3
    <3>2. QED
      BY <2>5, <3>1, TailIsSubSeq
  <2>7. Abstract!PopOk(t)
    BY <1>1, <1>2, <1>8, <1>10, <1>14, <2>4, <2>5, <2>6, SameWords
       DEF Abstract!PopOk, Abstract!Pending, Abstract!Result
  <2>8. QED
    BY <1>1, <2>1, <2>2, <2>7, LooksAlone DEF Critical, Abstract!AtOnce
<1>15. QED
  BY <1>13, <1>14

LEMMA DisposeRefines ==
  ASSUME RInv, NEW t \in Threads, DisposeCas(t)
  PROVE  Abstract!AtOnce(t)
<1> USE DEF RInv, IInv
<1>1. /\ pc[t] = "cas" /\ pc' = [pc EXCEPT ![t] = "signal"] /\ ret' = [ret EXCEPT ![t] = "ok"]
      /\ disposed' = TRUE /\ hand' = hand /\ op' = op /\ carry' = carry /\ Step(t) /\ ~Commits(t)
  BY DEF DisposeCas, Goto, Step, Commits, Link, Add, Unlink, Sub
<1>2. op[t] = "dispose" /\ ret[t] = "none"
  BY <1>1 DEF ControlInv, OpInv, ResultInv
<1>3. AbsQueue' = AbsQueue /\ AbsCarry' = AbsCarry /\ AbsFound' = AbsFound
      /\ AbsSeen' = [AbsSeen EXCEPT ![t] = SeenAt(op[t], pc'[t])]
  BY <1>1, Still
<1>4. AbsSeen' = AbsSeen
  <2>1. SeenAt(op[t], pc'[t]) = "nothing" /\ SeenAt(op[t], pc[t]) = "nothing"
    BY <1>1, <1>2 DEF SeenAt, TypeOK
  <2>2. QED
    BY <1>3, <2>1, SeenIs
<1>5. QED
  BY <1>1, <1>2, <1>3, <1>4 DEF Abstract!AtOnce, Abstract!Dispose, Abstract!Pending, Abstract!Result

\* A call begins or ends: it has seen nothing, and carries what the abstract
\* call carries.
LEMMA OutsideSeen ==
  ASSUME RInv, NEW t \in Threads, Call(t) \/ Return(t)
  PROVE  /\ AbsQueue' = AbsQueue /\ AbsSeen' = AbsSeen /\ AbsFound' = AbsFound
         /\ AbsCarry[t] = carry[t] /\ AbsCarry' = [AbsCarry EXCEPT ![t] = carry'[t]]
<1> USE DEF RInv, IInv
<1>1. /\ pc[t] \in {"idle", "signal"} /\ pc'[t] \in {"idle", "lock", "cas"} /\ list' = list
      /\ Call(t) \/ Step(t)
  BY DEF Call, Return, Goto, TypeOK, chain, Step
<1>2. ~Commits(t)
  BY <1>1 DEF Commits, Link, Add, Unlink, Sub
<1>3. AbsQueue' = AbsQueue
  BY <1>1, <1>2, QueueStands
<1>4. AbsCarry[t] = carry[t] /\ AbsCarry' = [AbsCarry EXCEPT ![t] = carry'[t]]
  <2>1. AbsCarry[t] = carry[t] /\ AbsCarry'[t] = carry'[t]
    BY <1>1, CarryIs
  <2>2. \A u \in Threads \ {t} : AbsCarry'[u] = AbsCarry[u]
    BY <1>1, OthersSeen
  <2>3. QED
    BY <2>1, <2>2, CarryIs
<1>5. AbsSeen' = AbsSeen /\ AbsFound' = AbsFound
  <2>1. \A u \in Threads \ {t} : AbsSeen'[u] = AbsSeen[u] /\ AbsFound'[u] = AbsFound[u]
    BY <1>1, OthersSeen
  <2>2. AbsSeen'[t] = "nothing" /\ AbsSeen[t] = "nothing" /\ AbsFound'[t] = 0 /\ AbsFound[t] = 0
    BY <1>1, SeenIs, FoundIs DEF SeenAt
  <2>3. QED
    BY <2>1, <2>2, SeenIs, FoundIs
<1>6. QED
  BY <1>3, <1>4, <1>5

LEMMA CallRefines ==
  ASSUME RInv, NEW t \in Threads, Call(t)
  PROVE  Abstract!Call2(t)
<1> USE DEF RInv, IInv
<1>1. PICK o \in OpsOf[t] :
        /\ op' = [op EXCEPT ![t] = o]
        /\ \/ o \in PushOps /\ \E i \in hand : hand' = hand \ {i} /\ carry' = [carry EXCEPT ![t] = <<i>>]
           \/ o \notin PushOps /\ hand' = hand /\ carry' = carry
        /\ disposed' = disposed /\ ret' = ret
  BY DEF Call
<1>2. op[t] = "none"
  BY DEF Call, ControlInv, OpInv
<1>3. /\ AbsQueue' = AbsQueue /\ AbsSeen' = AbsSeen /\ AbsFound' = AbsFound
      /\ AbsCarry[t] = carry[t] /\ AbsCarry' = [AbsCarry EXCEPT ![t] = carry'[t]]
  BY OutsideSeen
<1>4. CASE o \in PushOps /\ \E i \in hand : hand' = hand \ {i} /\ carry' = [carry EXCEPT ![t] = <<i>>]
  <2>1. PICK i \in hand : hand' = hand \ {i} /\ carry' = [carry EXCEPT ![t] = <<i>>]
    BY <1>4
  <2>2. AbsCarry' = [AbsCarry EXCEPT ![t] = <<i>>]
    BY <1>3, <2>1 DEF TypeOK
  <2>3. QED
    BY <1>1, <1>2, <1>3, <1>4, <2>1, <2>2, SameWords DEF Abstract!Call2, Abstract!Call
<1>5. CASE o \notin PushOps /\ hand' = hand /\ carry' = carry
  <2>1. AbsCarry' = AbsCarry
    BY <1>3, <1>5, CarryIs
  <2>2. QED
    BY <1>1, <1>2, <1>3, <1>5, <2>1, SameWords DEF Abstract!Call2, Abstract!Call
<1>6. QED
  BY <1>1, <1>4, <1>5

LEMMA ReturnRefines ==
  ASSUME RInv, NEW t \in Threads, Return(t)
  PROVE  Abstract!Return2(t)
<1> USE DEF RInv, IInv
<1>1. /\ pc[t] = "signal" /\ disposed' = disposed
      /\ hand' = hand \cup Range(carry[t]) /\ op' = [op EXCEPT ![t] = "none"]
      /\ carry'[t] = <<>> /\ ret' = [ret EXCEPT ![t] = "none"]
  BY DEF Return, TypeOK
<1>2. /\ AbsQueue' = AbsQueue /\ AbsSeen' = AbsSeen /\ AbsFound' = AbsFound
      /\ AbsCarry[t] = carry[t] /\ AbsCarry' = [AbsCarry EXCEPT ![t] = carry'[t]]
  BY OutsideSeen
<1>3. ret[t] # "none"
  BY <1>1 DEF ResultInv
<1>4. Abstract!Range(carry[t]) = Range(carry[t])
  BY DEF Abstract!Range, Range
<1>5. QED
  BY <1>1, <1>2, <1>3, <1>4 DEF Abstract!Return2, Abstract!Return, Abstract!Result

\* LinkedBQ implements the two-sided queue: every call looks and takes effect
\* at instants between its invocation and its return, in the order of the list.
THEOREM Implementation == Spec => ImplementsTwoSidedQueue
<1>1. Init => Abstract!Init2 /\ EmptyInv /\ ResultInv
  <2>1. SUFFICES ASSUME Init PROVE Abstract!Init2 /\ EmptyInv /\ ResultInv
    OBVIOUS
  <2>2. \A t \in Threads : pc[t] = "idle" /\ op[t] = "none" /\ carry[t] = <<>> /\ ret[t] = "none"
    BY <2>1 DEF Init
  <2>3. AbsCarry = [t \in Threads |-> <<>>]
    BY <2>2, CarryIs
  <2>4. AbsSeen = [t \in Threads |-> "nothing"] /\ AbsFound = [t \in Threads |-> 0]
    BY <2>2, SeenIs, FoundIs DEF SeenAt
  <2>5. AbsQueue = <<>>
    <3>1. TypeOK /\ ControlInv /\ TrackInv
      BY <2>1, InitIInv DEF IInv, DataInv
    <3>2. QED
      BY <2>1, <3>1, CountIs DEF Init
  <2>6. EmptyInv /\ ResultInv
    BY <2>1, <2>2 DEF EmptyInv, ResultInv, Init
  <2>7. QED
    BY <2>1, <2>3, <2>4, <2>5, <2>6 DEF Init, Abstract!Init2, Abstract!Init
<1>2. RInv /\ RInv' /\ [Next]_vars => [Abstract!Next2]_(Abstract!vars2)
  <2>1. SUFFICES ASSUME RInv, RInv', [Next]_vars PROVE Abstract!Next2 \/ UNCHANGED Abstract!vars2
    OBVIOUS
  <2>2. CASE UNCHANGED vars
    BY <2>2 DEF vars, chain, local, AbsQueue, AbsCarry, AbsSeen, AbsFound, At,
                Abstract!vars, Abstract!vars2
  <2>3. ASSUME NEW t \in Threads, Call(t) \/ SpuriousWake(t) \/ Step(t)
        PROVE  Abstract!Next2 \/ UNCHANGED Abstract!vars2
    <3> USE DEF Abstract!Next2, Abstract!Effect
    <3>1. CASE Call(t) \/ Return(t) \/ DisposeCas(t)
      BY <2>1, <3>1, CallRefines, ReturnRefines, DisposeRefines
    <3>2. CASE SpuriousWake(t) \/ TimeoutWake(t)
      BY <2>1, <3>2, HiddenStep DEF SpuriousWake, TimeoutWake
    <3>3. CASE \/ Acquire(t) \/ WaitFlag(t) \/ Sleep(t) \/ Reacquire(t) \/ Expire(t)
               \/ Signal(t)
      BY <2>1, <3>3, HiddenStep
    <3>4. CASE WaitCount(t)
      BY <2>1, <3>4, WaitCountRefines
    <3>5. CASE VerdictFlag(t) \/ VerdictCount(t)
      BY <2>1, <3>5, VerdictFlagRefines, VerdictCountRefines
    <3>6. CASE Link(t) \/ Add(t)
      BY <2>1, <3>6, LinkRefines, AddRefines
    <3>7. CASE Unlink(t) \/ Sub(t)
      BY <2>1, <3>7, UnlinkRefines, SubRefines
    <3>8. QED
      BY <2>3, <3>1, <3>2, <3>3, <3>4, <3>5, <3>6, <3>7 DEF Step
  <2>4. QED
    BY <2>1, <2>2, <2>3 DEF Next
<1>3. RInv /\ [Next]_vars => RInv'
  BY RInvStep
<1>4. Init => RInv
  BY <1>1, InitIInv DEF RInv
<1>5. QED
  BY <1>1, <1>2, <1>3, <1>4, PTL DEF Spec, ImplementsTwoSidedQueue, Abstract!Spec2

-----------------------------------------------------------------------------
(* Standstill *)

\* A deadline that has yet to pass.
Ticking(t) == op[t] \in TimedOps /\ ~expired[t]

\* Where Step has nothing for the thread to do: outside a call, waiting for
\* the mutex of its side or, to notify, of the other side while somebody
\* holds it, or asleep without a deadline.
Stuck(t) ==
  \/ pc[t] = "idle"
  \/ pc[t] = "lock" /\ lock[Side(t)] # NoThread
  \/ Awake(t) /\ lock[Side(t)] # NoThread /\ ~Ticking(t)
  \/ t \in sleepers[Side(t)] /\ op[t] \notin TimedOps
  \/ pc[t] = "signal" /\ sig[t] # <<>> /\ lock[Head(sig[t])[2]] # NoThread

\* If no thread can go on by itself, every thread is outside a call or in an
\* untimed wait that only another call can end.
StandstillIsSettled == (\A t \in Threads : Stuck(t)) => \A t \in Threads : Settled(t)

\* A stuck thread takes no step.
LEMMA StuckTakesNoStep ==
  ASSUME RInv, NEW t \in Threads, Stuck(t)
  PROVE  ~Step(t)
<1>0. /\ WaitSetInv /\ (expired[t] => op[t] \in TimedOps)
      /\ Side(t) \in Sides
  BY DEF RInv, IInv, ControlInv, ResultInv, Side, Sides
<1>1. t \in sleepers[Side(t)] => pc[t] = "asleep"
  BY <1>0 DEF WaitSetInv
<1>2. \/ pc[t] = "idle"
      \/ pc[t] = "lock" /\ lock[Side(t)] # NoThread
      \/ pc[t] = "asleep" /\ t \notin sleepers[Side(t)] /\ lock[Side(t)] # NoThread /\ ~Ticking(t)
      \/ pc[t] = "asleep" /\ t \in sleepers[Side(t)] /\ op[t] \notin TimedOps
      \/ pc[t] = "signal" /\ sig[t] # <<>> /\ lock[Head(sig[t])[2]] # NoThread
  BY <1>1 DEF Stuck, Awake
<1>3. QED
  BY <1>0, <1>1, <1>2 DEF Ticking, Awake, Step, Acquire, TakeLock, WaitFlag, WaitCount, Sleep,
     Reacquire, Expire, TimeoutWake, Leave, VerdictFlag, VerdictCount, Link, Add, Unlink,
     Sub, DisposeCas, Signal, Return

\* Neither mutex is left locked: whoever holds one can go on, since nobody
\* waits for the other mutex with one in his hands.
LEMMA HoldersGoOn ==
  ASSUME IInv, \A t \in Threads : Stuck(t)
  PROVE  \A s \in Sides : lock[s] = NoThread
<1>1. ASSUME NEW s \in Sides, lock[s] # NoThread PROVE FALSE
  <2>1. PICK u \in Threads : lock[s] = u
    BY <1>1 DEF IInv, TypeOK
  <2>2. pc[u] \in Critical /\ Side(u) \in Sides
    BY <2>1 DEF IInv, ControlInv, LockInv
  <2>3. u \notin sleepers[Side(u)]
    BY <2>2 DEF IInv, ControlInv, WaitSetInv, Critical
  <2>4. QED
    BY <2>2, <2>3 DEF Stuck, Awake, Critical
<1>2. QED
  BY <1>1

\* What is left of CallsSettle when nobody moves, for any number of threads
\* and any capacity: the two mutexes and the notifications that cross from
\* one to the other cannot end in a circle, nor with anybody asleep beside
\* an item, free capacity, or a dispose.
THEOREM NoDeadlock == Spec => []StandstillIsSettled
<1>1. IInv => StandstillIsSettled
  <2>1. SUFFICES ASSUME IInv, \A u \in Threads : Stuck(u), NEW t \in Threads, pc[t] # "idle"
                 PROVE  Settled(t)
    BY DEF StandstillIsSettled, Settled
  <2>2. /\ TypeOK /\ OpInv /\ WaitSetInv /\ NoLostWakeup
        /\ \A u \in Threads : pc[u] # "signal" => sig[u] = <<>>
        /\ \A u \in Threads : Side(u) \in Sides
        /\ \A u \in Threads : sig[u] \in {<<>>, AllPush, AllPopPush, OnePop, OnePush}
    BY <2>1 DEF IInv, ControlInv, SigInv, Side, Sides
  <2>3. \A u \in Threads : ~(pc[u] = "signal" /\ sig[u] # <<>> /\ lock[Head(sig[u])[2]] # NoThread)
    <3>1. SUFFICES ASSUME NEW u \in Threads, sig[u] # <<>> PROVE Head(sig[u])[2] \in Sides
      BY <2>1, HoldersGoOn
    <3>2. QED
      BY <2>2, <3>1 DEF AllPush, AllPopPush, OnePop, OnePush, Sides
  <2>4. \A u \in Threads :
          \/ pc[u] = "idle"
          \/ pc[u] = "asleep" /\ u \in sleepers[Side(u)] /\ op[u] \notin TimedOps
    BY <2>1, <2>2, <2>3, HoldersGoOn DEF Stuck, WaitSetInv
  <2>5. \A u \in Threads, s \in Sides : ~Looking(u, s) /\ ~Sending(u, s) /\ ~Draining(u)
    <3>1. TAKE u \in Threads, s \in Sides
    <3>2. /\ ~Awake(u)
          /\ pc[u] = "idle" \/ pc[u] = "asleep"
      BY <2>4 DEF Awake
    <3>3. sig[u] = <<>>
      BY <2>2, <2>4
    <3>4. ~Sending(u, s)
      BY <3>3, EmptyRange DEF Sending
    <3>5. QED
      BY <3>2, <3>4 DEF Looking, Draining, At
  <2>6. pc[t] = "asleep" /\ t \in sleepers[Side(t)] /\ op[t] \in {"push", "pop"}
    BY <2>1, <2>2, <2>4 DEF OpInv, InWait, TimedOps
  <2>7. ~disposed
    BY <2>2, <2>5, <2>6 DEF NoLostWakeup, DisposeReaches
  <2>8. CASE Side(t) = "push"
    <3>1. IsFull
      BY <2>2, <2>5, <2>6, <2>7, <2>8 DEF NoLostWakeup, NoLostPushWakeup
    <3>2. QED
      BY <2>6, <2>7, <2>8, <3>1 DEF Settled, Blocked
  <2>9. CASE Side(t) = "pop"
    <3>1. IsEmpty
      BY <2>2, <2>5, <2>6, <2>9 DEF NoLostWakeup, NoLostPopWakeup
    <3>2. QED
      BY <2>6, <2>7, <2>9, <3>1 DEF Settled, Blocked
  <2>10. QED
    BY <2>2, <2>8, <2>9 DEF Sides
<1>2. QED
  BY <1>1, Inductive, PTL
=============================================================================

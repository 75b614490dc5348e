------------------------------ MODULE LinkedBQ ------------------------------
(***************************************************************************)
(* LinkedBQ (crates/hio-concurrent/src/bq/linked_bq.rs): a linked list with *)
(* one mutex at each end.  Producers and consumers meet only in the atomic  *)
(* count and in the atomic disposed flag, which each side reads while the   *)
(* other side runs; every such read is an action of its own.                *)
(***************************************************************************)
EXTENDS BQOps

VARIABLES
  list,      \* the items linked behind the dummy node, oldest first
  count,     \* the AtomicUsize; the list is changed before it is
  disposed,  \* the AtomicBool
  lock,      \* the owner of the mutex of each side, or NoThread
  waiters,   \* CondWaiters of each side
  sleepers,  \* the threads asleep on the Condvar of each side
  pc,        \* where each thread is, "idle" outside a call
  op, carry, ret,  \* its method, the items it owns, its result
  sig,       \* the notifications it still has to send
  expired,   \* the deadline of its timed wait has passed
  hand,      \* the items callers own outside any call
  exhausted  \* history: the methods that reported ResourceUnavailable to a consumer

chain == <<list, count>>
sync  == <<lock, waiters, sleepers>>
local == <<pc, op, carry, ret, sig, expired>>
vars  == <<chain, disposed, sync, local, hand, exhausted>>

Sides == {"push", "pop"}

\* push_side (tail, not_full) or pop_side (head, not_empty); drain works on
\* the pop side.
Side(t) == IF op[t] \in PushOps THEN "push" ELSE "pop"

Init ==
  /\ list = <<>> /\ count = 0 /\ disposed = FALSE
  /\ lock = [s \in Sides |-> NoThread]
  /\ waiters = [s \in Sides |-> 0]
  /\ sleepers = [s \in Sides |-> {}]
  /\ pc = [t \in Threads |-> "idle"]
  /\ op = [t \in Threads |-> "none"]
  /\ carry = [t \in Threads |-> <<>>]
  /\ ret = [t \in Threads |-> "none"]
  /\ sig = [t \in Threads |-> <<>>]
  /\ expired = [t \in Threads |-> FALSE]
  /\ hand = Items
  /\ exhausted = {}

Goto(t, l) == pc' = [pc EXCEPT ![t] = l]

IsEmpty == count = 0
\* Mutant: the bound off by one.
IsFullTooLate == count > Capacity

IsFull  == count >= Capacity

\* What the predicate of wait_while reads after the flag.
Blocked(t) == IF Side(t) = "push" THEN IsFull ELSE IsEmpty

\* A return under the lock: the guard is dropped.
Finish(t, r) ==
  /\ ret' = [ret EXCEPT ![t] = r]
  /\ lock' = [lock EXCEPT ![Side(t)] = NoThread]
  /\ Goto(t, "signal")

-----------------------------------------------------------------------------
(* Calling and locking *)

Call(t) ==
  /\ pc[t] = "idle"
  /\ \E o \in OpsOf[t] :
       /\ op' = [op EXCEPT ![t] = o]
       /\ Goto(t, IF o = "dispose" THEN "cas" ELSE "lock")
       /\ \/ /\ o \in PushOps
             /\ \E i \in hand : /\ hand' = hand \ {i}
                                /\ carry' = [carry EXCEPT ![t] = <<i>>]
          \/ /\ o \notin PushOps
             /\ UNCHANGED <<hand, carry>>
  /\ UNCHANGED <<chain, disposed, sync, ret, sig, expired, exhausted>>

TakeLock(t) ==
  /\ lock[Side(t)] = NoThread
  /\ lock' = [lock EXCEPT ![Side(t)] = t]
  /\ UNCHANGED <<chain, disposed, waiters, sleepers>>
  /\ UNCHANGED <<op, carry, ret, sig, expired, hand, exhausted>>

\* A push asks the flag first, a pop the count.
Verdict(t) == IF Side(t) = "push" THEN "verdict_flag" ELSE "verdict_count"

\* lock_push or lock_pop at the head of every method but dispose.
Acquire(t) ==
  /\ pc[t] = "lock"
  /\ TakeLock(t)
  /\ Goto(t, IF op[t] = "drain" THEN "unlink"
             ELSE IF op[t] \in TryOps THEN Verdict(t) ELSE "if_flag")

-----------------------------------------------------------------------------
(* Waiting *)

\* Mutant: CondWaiters::enter forgotten.
AddWaiterNever(t, d) ==
  waiters' = [waiters EXCEPT ![Side(t)] = IF d > 0 THEN @ ELSE @ + d]

\* CondWaiters::enter and the drop of its WaiterGuard.
AddWaiter(t, d) == waiters' = [waiters EXCEPT ![Side(t)] = @ + d]

\* !self.is_disposed(), in the if and in the predicate of the wait.
WaitFlag(t) ==
  /\ \/ /\ pc[t] = "if_flag"
        /\ Goto(t, IF disposed THEN Verdict(t) ELSE "if_count")
        /\ UNCHANGED waiters
     \/ /\ pc[t] = "while_flag" /\ disposed
        /\ AddWaiter(t, -1) /\ Goto(t, Verdict(t))
     \/ /\ pc[t] = "while_flag" /\ ~disposed
        /\ Goto(t, "while_count") /\ UNCHANGED waiters
  /\ UNCHANGED <<chain, disposed, lock, sleepers>>
  /\ UNCHANGED <<op, carry, ret, sig, expired, hand, exhausted>>

\* && self.is_full() or self.is_empty(); a timed wait then looks at its
\* deadline and returns Timeout.
WaitCount(t) ==
  /\ \/ /\ pc[t] = "if_count" /\ ~Blocked(t)
        /\ Goto(t, Verdict(t)) /\ UNCHANGED <<waiters, ret, lock>>
     \/ /\ pc[t] = "if_count" /\ Blocked(t)
        /\ AddWaiter(t, 1) /\ Goto(t, "while_flag") /\ UNCHANGED <<ret, lock>>
     \/ /\ pc[t] = "while_count" /\ ~Blocked(t)
        /\ AddWaiter(t, -1) /\ Goto(t, Verdict(t)) /\ UNCHANGED <<ret, lock>>
     \/ /\ pc[t] = "while_count" /\ Blocked(t) /\ expired[t]
        /\ AddWaiter(t, -1) /\ Finish(t, "timeout")
     \/ /\ pc[t] = "while_count" /\ Blocked(t) /\ ~expired[t]
        /\ Goto(t, "sleep") /\ UNCHANGED <<waiters, ret, lock>>
  /\ UNCHANGED <<chain, disposed, sleepers>>
  /\ UNCHANGED <<op, carry, sig, expired, hand, exhausted>>

\* Condvar::wait: joins the wait set and releases the mutex in one step.
Sleep(t) ==
  /\ pc[t] = "sleep"
  /\ sleepers' = [sleepers EXCEPT ![Side(t)] = @ \cup {t}]
  /\ lock' = [lock EXCEPT ![Side(t)] = NoThread]
  /\ Goto(t, "asleep")
  /\ UNCHANGED <<chain, disposed, waiters>>
  /\ UNCHANGED <<op, carry, ret, sig, expired, hand, exhausted>>

Awake(t) == pc[t] = "asleep" /\ t \notin sleepers[Side(t)]

Reacquire(t) == Awake(t) /\ TakeLock(t) /\ Goto(t, "while_flag")

\* The deadline of a timed wait passes.
Expire(t) ==
  /\ op[t] \in TimedOps
  /\ pc[t] \in {"while_flag", "while_count", "sleep", "asleep"}
  /\ ~expired[t]
  /\ expired' = [expired EXCEPT ![t] = TRUE]
  /\ UNCHANGED <<chain, disposed, sync, pc, op, carry, ret, sig, hand, exhausted>>

Leave(t) ==
  /\ t \in sleepers[Side(t)]
  /\ sleepers' = [sleepers EXCEPT ![Side(t)] = @ \ {t}]
  /\ UNCHANGED <<chain, disposed, lock, waiters, local, hand, exhausted>>

TimeoutWake(t) == expired[t] /\ Leave(t)
SpuriousWake(t) == Leave(t)

-----------------------------------------------------------------------------
(* Deciding *)

\* Mutant: a producer does not ask the flag after its wait.
VerdictFlagUnasked(t) ==
  /\ pc[t] = "verdict_flag"
  /\ \/ /\ op[t] \in PushOps
        /\ Goto(t, IF op[t] = "try_push" THEN "verdict_count" ELSE "link")
        /\ UNCHANGED <<ret, lock, exhausted>>
     \/ /\ op[t] = "try_pop"
        /\ Finish(t, IF disposed THEN "unavailable" ELSE "would_block")
        /\ exhausted' = exhausted \cup (IF disposed THEN {op[t]} ELSE {})
  /\ UNCHANGED <<chain, disposed, waiters, sleepers>>
  /\ UNCHANGED <<op, carry, sig, expired, hand>>

\* is_disposed() between the wait and the commit.
VerdictFlag(t) ==
  /\ pc[t] = "verdict_flag"
  /\ \/ /\ op[t] \in PushOps
        /\ \/ disposed /\ Finish(t, "unavailable")
           \/ /\ ~disposed
              /\ Goto(t, IF op[t] = "try_push" THEN "verdict_count" ELSE "link")
              /\ UNCHANGED <<ret, lock>>
        /\ UNCHANGED exhausted
     \/ /\ op[t] = "try_pop"
        /\ Finish(t, IF disposed THEN "unavailable" ELSE "would_block")
        /\ exhausted' = exhausted \cup (IF disposed THEN {op[t]} ELSE {})
  /\ UNCHANGED <<chain, disposed, waiters, sleepers>>
  /\ UNCHANGED <<op, carry, sig, expired, hand>>

\* is_full() of try_push; is_empty() of the pops.
VerdictCount(t) ==
  /\ pc[t] = "verdict_count"
  /\ \/ /\ Side(t) = "push" /\ IsFull
        /\ Finish(t, "would_block") /\ UNCHANGED exhausted
     \/ /\ Side(t) = "push" /\ ~IsFull
        /\ Goto(t, "link") /\ UNCHANGED <<ret, lock, exhausted>>
     \/ /\ Side(t) = "pop" /\ ~IsEmpty
        /\ Goto(t, "unlink") /\ UNCHANGED <<ret, lock, exhausted>>
     \/ /\ Side(t) = "pop" /\ IsEmpty /\ op[t] = "try_pop"
        /\ Goto(t, "verdict_flag") /\ UNCHANGED <<ret, lock, exhausted>>
     \/ /\ Side(t) = "pop" /\ IsEmpty /\ op[t] # "try_pop"
        /\ Finish(t, "unavailable") /\ exhausted' = exhausted \cup {op[t]}
  /\ UNCHANGED <<chain, disposed, waiters, sleepers>>
  /\ UNCHANGED <<op, carry, sig, expired, hand>>

-----------------------------------------------------------------------------
(* Committing: en_q, de_q, drain *)

When(cond, s) == IF cond THEN <<s>> ELSE <<>>

\* notify_one wakes some sleeper, if there is one.
NotifyOne(S) == IF S = {} THEN {S} ELSE {S \ {w} : w \in S}

\* The cascade to the next thread of the same side, under its lock.
Cascade(s, cond) ==
  IF cond /\ waiters[s] > 0
  THEN \E rest \in NotifyOne(sleepers[s]) : sleepers' = [sleepers EXCEPT ![s] = rest]
  ELSE UNCHANGED sleepers

\* Mutant: the node is linked at the head.
LinkFront(t) ==
  /\ pc[t] = "link"
  /\ list' = carry[t] \o list
  /\ carry' = [carry EXCEPT ![t] = <<>>]
  /\ Goto(t, "add")
  /\ UNCHANGED <<count, disposed, sync, op, ret, sig, expired, hand, exhausted>>

\* en_q links the node at the tail ...
Link(t) ==
  /\ pc[t] = "link"
  /\ list' = list \o carry[t]
  /\ carry' = [carry EXCEPT ![t] = <<>>]
  /\ Goto(t, "add")
  /\ UNCHANGED <<count, disposed, sync, op, ret, sig, expired, hand, exhausted>>

\* ... and publishes it with fetch_add.
Add(t) ==
  /\ pc[t] = "add"
  /\ count' = count + 1
  /\ Cascade("push", count + 1 < Capacity)
  /\ sig' = [sig EXCEPT ![t] = When(count = 0, <<"one", "pop">>)]
  /\ Finish(t, "ok")
  /\ UNCHANGED <<list, disposed, waiters, op, carry, expired, hand, exhausted>>

\* unlink_head, once in a pop and count times in a drain.
Unlink(t) ==
  /\ pc[t] = "unlink"
  /\ LET n == IF op[t] = "drain" THEN count ELSE 1 IN
       /\ n <= Len(list)
       /\ carry' = [carry EXCEPT ![t] = SubSeq(list, 1, n)]
       /\ list' = SubSeq(list, n + 1, Len(list))
  /\ Goto(t, "sub")
  /\ UNCHANGED <<count, disposed, sync, op, ret, sig, expired, hand, exhausted>>

\* Mutant: drain stores zero for fetch_sub(n).
SubStoring(t) ==
  /\ pc[t] = "sub"
  /\ count' = IF op[t] = "drain" THEN 0 ELSE count - Len(carry[t])
  /\ Cascade("pop", op[t] # "drain" /\ count > 1)
  /\ sig' = [sig EXCEPT ![t] =
       IF op[t] = "drain" THEN When(carry[t] # <<>>, <<"all", "push">>)
       ELSE When(count = Capacity, <<"one", "push">>)]
  /\ Finish(t, "ok")
  /\ UNCHANGED <<list, disposed, waiters, op, carry, expired, hand, exhausted>>

\* Mutant: no cascade to the next consumer.
SubNoCascade(t) ==
  /\ pc[t] = "sub"
  /\ count' = count - Len(carry[t])
  /\ sig' = [sig EXCEPT ![t] =
       IF op[t] = "drain" THEN When(carry[t] # <<>>, <<"all", "push">>)
       ELSE When(count = Capacity, <<"one", "push">>)]
  /\ Finish(t, "ok")
  /\ UNCHANGED <<list, disposed, waiters, sleepers, op, carry, expired, hand, exhausted>>

\* fetch_sub; de_q signals the first producer, drain signals all of them.
Sub(t) ==
  /\ pc[t] = "sub"
  /\ count' = count - Len(carry[t])
  /\ Cascade("pop", op[t] # "drain" /\ count > 1)
  /\ sig' = [sig EXCEPT ![t] =
       IF op[t] = "drain" THEN When(carry[t] # <<>>, <<"all", "push">>)
       ELSE When(count = Capacity, <<"one", "push">>)]
  /\ Finish(t, "ok")
  /\ UNCHANGED <<list, disposed, waiters, op, carry, expired, hand, exhausted>>

-----------------------------------------------------------------------------
(* Disposing, signalling, returning *)

\* The compare_exchange of dispose; its winner notifies both sides.
DisposeCas(t) ==
  /\ pc[t] = "cas"
  /\ disposed' = TRUE
  /\ sig' = [sig EXCEPT ![t] =
       IF disposed THEN <<>> ELSE <<<<"all", "pop">>, <<"all", "push">>>>]
  /\ ret' = [ret EXCEPT ![t] = "ok"]
  /\ Goto(t, "signal")
  /\ UNCHANGED <<chain, sync, op, carry, expired, hand, exhausted>>

\* Mutant: the other side is notified without its lock.
SignalUnlocked(t) ==
  /\ pc[t] = "signal" /\ sig[t] # <<>>
  /\ LET kind == Head(sig[t])[1]
         s == Head(sig[t])[2] IN
       \/ kind = "one" /\ Cascade(s, TRUE)
       \/ kind = "all" /\ sleepers' = [sleepers EXCEPT ![s] = {}]
  /\ sig' = [sig EXCEPT ![t] = Tail(@)]
  /\ UNCHANGED <<chain, disposed, lock, waiters>>
  /\ UNCHANGED <<pc, op, carry, ret, expired, hand, exhausted>>

\* signal_not_empty, signal_not_full and the notify_all of drain and dispose
\* take the lock of the other side, notify, and release it.
Signal(t) ==
  /\ pc[t] = "signal" /\ sig[t] # <<>>
  /\ LET kind == Head(sig[t])[1]
         s == Head(sig[t])[2] IN
       /\ lock[s] = NoThread
       /\ \/ kind = "one" /\ Cascade(s, TRUE)
          \/ kind = "all" /\ sleepers' = [sleepers EXCEPT ![s] = {}]
  /\ sig' = [sig EXCEPT ![t] = Tail(@)]
  /\ UNCHANGED <<chain, disposed, lock, waiters>>
  /\ UNCHANGED <<pc, op, carry, ret, expired, hand, exhausted>>

\* Mutant: a refused push drops its item.
ReturnDropping(t) ==
  /\ pc[t] = "signal" /\ sig[t] = <<>>
  /\ hand' = IF op[t] \in PushOps THEN hand ELSE hand \cup Range(carry[t])
  /\ Goto(t, "idle")
  /\ op' = [op EXCEPT ![t] = "none"]
  /\ carry' = [carry EXCEPT ![t] = <<>>]
  /\ ret' = [ret EXCEPT ![t] = "none"]
  /\ expired' = [expired EXCEPT ![t] = FALSE]
  /\ UNCHANGED <<chain, disposed, sync, sig, exhausted>>

\* The call returns and the caller owns what it carries.
Return(t) ==
  /\ pc[t] = "signal" /\ sig[t] = <<>>
  /\ hand' = hand \cup Range(carry[t])
  /\ Goto(t, "idle")
  /\ op' = [op EXCEPT ![t] = "none"]
  /\ carry' = [carry EXCEPT ![t] = <<>>]
  /\ ret' = [ret EXCEPT ![t] = "none"]
  /\ expired' = [expired EXCEPT ![t] = FALSE]
  /\ UNCHANGED <<chain, disposed, sync, sig, exhausted>>

-----------------------------------------------------------------------------

\* What a thread does on its own once it is in a call.
Step(t) ==
  \/ Acquire(t) \/ WaitFlag(t) \/ WaitCount(t) \/ Sleep(t) \/ Reacquire(t)
  \/ Expire(t) \/ TimeoutWake(t) \/ VerdictFlag(t) \/ VerdictCount(t)
  \/ Link(t) \/ Add(t) \/ Unlink(t) \/ Sub(t)
  \/ DisposeCas(t) \/ Signal(t) \/ Return(t)

Next == \E t \in Threads : Call(t) \/ SpuriousWake(t) \/ Step(t)

Spec == Init /\ [][Next]_vars

\* Every thread inside a call keeps running.
FairSpec == Spec /\ \A t \in Threads : WF_vars(Step(t))

-----------------------------------------------------------------------------
(* Properties *)

PCs == {"idle", "lock", "if_flag", "if_count", "while_flag", "while_count",
        "sleep", "asleep", "verdict_flag", "verdict_count", "link", "add",
        "unlink", "sub", "cas", "signal"}

\* Every variable has its type; count and the waiter counters never wrap.
TypeOK ==
  /\ list \in Seq(Items) /\ count \in Nat /\ disposed \in BOOLEAN
  /\ lock \in [Sides -> Threads \cup {NoThread}]
  /\ waiters \in [Sides -> Nat]
  /\ sleepers \in [Sides -> SUBSET Threads]
  /\ pc \in [Threads -> PCs]
  /\ op \in [Threads -> Ops \cup {"none"}]
  /\ carry \in [Threads -> Seq(Items)]
  /\ ret \in [Threads -> Rets]
  /\ sig \in [Threads -> Seq({"one", "all"} \X Sides)]
  /\ expired \in [Threads -> BOOLEAN]
  /\ hand \in SUBSET Items
  /\ exhausted \in SUBSET PopOps

\* No item is lost or duplicated: each is in exactly one of the list, the
\* hands of callers, and the calls in progress (en_q, unlink_head, drain and
\* the error returns that give the item back).
ItemsConserved ==
  /\ IsInjective(list)
  /\ Range(list) \cap hand = {}
  /\ \A t \in Threads :
       /\ IsInjective(carry[t])
       /\ Range(carry[t]) \cap (Range(list) \cup hand) = {}
       /\ \A u \in Threads \ {t} : Range(carry[t]) \cap Range(carry[u]) = {}
  /\ Items = Range(list) \cup hand \cup UNION {Range(carry[t]) : t \in Threads}

\* The assertions of en_q and unlink_head, although the count they rest on
\* was read earlier and the other side has run since: a linking producer has
\* room, and there is a node behind the head for every unlink.
CommitsAreSafe ==
  /\ count <= Capacity
  /\ \A t \in Threads :
       /\ pc[t] \in {"link", "add"} => count < Capacity
       /\ pc[t] = "unlink" => Len(list) >= (IF op[t] = "drain" THEN count ELSE 1)

At(t, l) == pc[t] = l

\* The list and the count differ exactly by the nodes linked and not yet
\* added and by those unlinked and not yet subtracted: the count is never
\* ahead of the list for a consumer, nor behind it for a producer.
CountTracksList ==
  LET adding == {t \in Threads : At(t, "add")}
      unsubbed == UNION {{t} \X DOMAIN carry[t] : t \in {u \in Threads : At(u, "sub")}}
  IN Len(list) + Cardinality(unsubbed) = count + Cardinality(adding)

\* t is about to look at the count with the lock of its side, and will
\* commit or pass the wake-up on.
Looking(t, s) ==
  /\ op[t] # "drain" /\ Side(t) = s
  /\ \/ pc[t] \in {"if_flag", "if_count", "while_flag", "while_count", "link",
                   "add", "unlink", "sub", "verdict_count"}
     \/ s = "push" /\ At(t, "verdict_flag")
     \/ Awake(t)

Sending(t, s) == \E n \in Range(sig[t]) : n[2] = s

\* A drain is going to notify every producer.
Draining(t) == op[t] = "drain" /\ At(t, "sub") /\ carry[t] # <<>>

\* A consumer sleeps on a non-empty queue only while somebody is about to
\* pop or about to notify it: the producer that saw the count go from zero
\* still has to take the lock of the consumers to say so.
NoLostPopWakeup ==
  ~IsEmpty /\ sleepers["pop"] # {} =>
    \E t \in Threads : Looking(t, "pop") \/ Sending(t, "pop")

\* The same for producers and free capacity.
NoLostPushWakeup ==
  ~disposed /\ ~IsFull /\ sleepers["push"] # {} =>
    \E t \in Threads : Looking(t, "push") \/ Sending(t, "push") \/ Draining(t)

\* Once the flag is set, whoever sleeps is going to be notified by dispose.
DisposeReaches ==
  disposed => \A s \in Sides : sleepers[s] # {} =>
    \E t \in Threads : op[t] = "dispose" /\ Sending(t, s)

\* No wake-up is lost between the two locks.
NoLostWakeup == NoLostPopWakeup /\ NoLostPushWakeup /\ DisposeReaches

\* What dispose guarantees here: when a waiting pop reports the queue
\* unavailable it is disposed (the debug_assert), and at most one push that
\* read the flag before can still get in.
AtMostOneSlipsIn ==
  exhausted \cap {"pop", "pop_timeout"} # {} =>
    disposed /\ Len(list) + Cardinality({t \in Threads : At(t, "link")}) <= 1

\* Draining semantics: once a consumer has been told that the queue is
\* unavailable, no accepted item is left in it.
NothingStranded == exhausted # {} => list = <<>>

\* Refinement: a push takes effect at fetch_add, a pop at fetch_sub.  A push
\* is admitted from its last read of the flag, and try_pop and drain have
\* looked when they have read the count.
Only(S) == CHOOSE t \in S : TRUE
AbsQueue ==
  LET adding == {t \in Threads : At(t, "add")}
      subbing == {t \in Threads : At(t, "sub")}
  IN (IF subbing = {} THEN <<>> ELSE carry[Only(subbing)])
     \o SubSeq(list, 1, Len(list) - Cardinality(adding))
AbsCarry == [t \in Threads |->
  IF At(t, "add") THEN <<list[Len(list)]>>
  ELSE IF At(t, "sub") THEN <<>> ELSE carry[t]]
AbsSeen == [t \in Threads |->
  IF op[t] \in PushOps /\ pc[t] \in {"verdict_count", "link", "add"} THEN "open"
  ELSE IF op[t] = "try_pop" /\ At(t, "verdict_flag") THEN "empty"
  ELSE IF op[t] = "drain" /\ At(t, "sub") THEN "items" ELSE "nothing"]
AbsFound == [t \in Threads |-> IF AbsSeen[t] = "items" THEN Len(carry[t]) ELSE 0]

Abstract == INSTANCE TwoSidedQueue
              WITH queue <- AbsQueue, carry <- AbsCarry, seen <- AbsSeen, found <- AbsFound

\* Whatever its callers do, the two-lock queue is a linearizable bounded FIFO
\* in which a call may decide by what it saw a moment ago: at most one push
\* gets in behind a dispose, at most one try_pop misses it.
ImplementsTwoSidedQueue == Abstract!Spec2

\* A call may stay blocked only in an untimed wait on a queue that is
\* neither disposed nor ready for it.
Settled(t) ==
  \/ pc[t] = "idle"
  \/ /\ pc[t] \in {"while_flag", "while_count", "sleep", "asleep"}
     /\ op[t] \in {"push", "pop"}
     /\ ~disposed /\ Blocked(t)

\* Nobody calls any more and no wake-up is spurious.
Quiet == <>[][~\E t \in Threads : Call(t) \/ SpuriousWake(t)]_vars

\* When the callers fall silent, every call returns except the untimed ones
\* that have nothing to wait for but another call.
CallsSettle == Quiet => <>[](\A t \in Threads : Settled(t))
=============================================================================

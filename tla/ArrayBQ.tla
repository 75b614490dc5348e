------------------------------ MODULE ArrayBQ ------------------------------
(***************************************************************************)
(* ArrayBQ (crates/hio-concurrent/src/bq/array_bq.rs): a ring buffer under  *)
(* one mutex, two condition variables, and an atomic disposed flag that is  *)
(* read and written outside the mutex.  One action is what a thread does    *)
(* between two points where another thread can interfere: a lock            *)
(* operation, a read of the flag, or a notification sent after unlocking.   *)
(***************************************************************************)
EXTENDS BQOps

VARIABLES
  buf,          \* the VecDeque
  lock,         \* the owner of the Mutex around it, or NoThread
  disposed,     \* the AtomicBool
  pushWaiters,  \* push_waiters, a counter
  popWaiters,   \* pop_waiters, a counter
  notFull,      \* the threads asleep on the Condvar not_full
  notEmpty,     \* the threads asleep on the Condvar not_empty
  pc,           \* where each thread is, "idle" outside a call
  op, carry, ret,  \* its method, the items it owns, its result
  sig,          \* the notifications it still has to send
  expired,      \* the deadline of its timed wait has passed
  hand,         \* the items callers own outside any call
  exhausted     \* history: some pop has been told ResourceUnavailable

sync  == <<lock, disposed, pushWaiters, popWaiters, notFull, notEmpty>>
local == <<pc, op, carry, ret, sig, expired>>
vars  == <<buf, sync, local, hand, exhausted>>

Init ==
  /\ buf = <<>> /\ lock = NoThread /\ disposed = FALSE
  /\ pushWaiters = 0 /\ popWaiters = 0
  /\ notFull = {} /\ notEmpty = {}
  /\ pc = [t \in Threads |-> "idle"]
  /\ op = [t \in Threads |-> "none"]
  /\ carry = [t \in Threads |-> <<>>]
  /\ ret = [t \in Threads |-> "none"]
  /\ sig = [t \in Threads |-> <<>>]
  /\ expired = [t \in Threads |-> FALSE]
  /\ hand = Items
  /\ exhausted = FALSE

Goto(t, l) == pc' = [pc EXCEPT ![t] = l]

\* Mutant: the bound off by one.
IsFullTooLate == Len(buf) > Capacity

IsFull == Len(buf) >= Capacity

\* What the predicate of wait_while looks at, next to the flag.
Blocked(t) == IF op[t] \in PushOps THEN IsFull ELSE buf = <<>>

-----------------------------------------------------------------------------
(* Calling and locking *)

\* A thread calls a method of the trait.
Call(t) ==
  /\ pc[t] = "idle"
  /\ \E o \in OpsOf[t] :
       /\ op' = [op EXCEPT ![t] = o]
       /\ Goto(t, IF o = "dispose" THEN "cas" ELSE "lock")
       /\ \/ /\ o \in PushOps
             /\ \E i \in hand : /\ hand' = hand \ {i}
                                /\ carry' = [carry EXCEPT ![t] = <<i>>]
          \/ /\ o \notin PushOps
             /\ UNCHANGED <<hand, carry>>
  /\ UNCHANGED <<buf, sync, ret, sig, expired, exhausted>>

\* self.lock() at the head of every method but dispose.
Acquire(t) ==
  /\ pc[t] = "lock" /\ op[t] # "dispose"
  /\ lock = NoThread
  /\ lock' = t
  /\ Goto(t, IF op[t] = "drain" THEN "commit"
             ELSE IF op[t] \in TryOps THEN "verdict" ELSE "check")
  /\ UNCHANGED <<buf, disposed, pushWaiters, popWaiters, notFull, notEmpty>>
  /\ UNCHANGED <<op, carry, ret, sig, expired, hand, exhausted>>

-----------------------------------------------------------------------------
(* Waiting *)

\* CondWaiters::enter and the drop of its WaiterGuard, both under the lock.
AddWaiter(t, d) ==
  IF op[t] \in PushOps
  THEN pushWaiters' = pushWaiters + d /\ UNCHANGED popWaiters
  ELSE popWaiters' = popWaiters + d /\ UNCHANGED pushWaiters

\* Mutant: the wait is entered without CondWaiters::enter.
CheckUncounted(t) ==
  /\ pc[t] = "check"
  /\ Goto(t, IF ~disposed /\ Blocked(t) THEN "cond" ELSE "verdict")
  /\ UNCHANGED <<buf, sync, op, carry, ret, sig, expired, hand, exhausted>>

\* The if in front of the wait.
Check(t) ==
  /\ pc[t] = "check"
  /\ \/ /\ ~disposed /\ Blocked(t)
        /\ AddWaiter(t, 1)
        /\ Goto(t, "cond")
     \/ /\ disposed \/ ~Blocked(t)
        /\ Goto(t, "verdict")
        /\ UNCHANGED <<pushWaiters, popWaiters>>
  /\ UNCHANGED <<buf, lock, disposed, notFull, notEmpty>>
  /\ UNCHANGED <<op, carry, ret, sig, expired, hand, exhausted>>

\* One turn of wait_while or wait_timeout_while: the predicate, then the
\* deadline.  Leaving the loop drops the WaiterGuard.
Predicate(t) ==
  /\ pc[t] = "cond"
  /\ \/ /\ disposed \/ ~Blocked(t)
        /\ AddWaiter(t, -1)
        /\ Goto(t, "verdict")
        /\ UNCHANGED ret
     \/ /\ ~disposed /\ Blocked(t) /\ expired[t]
        /\ AddWaiter(t, -1)
        /\ ret' = [ret EXCEPT ![t] = "timeout"]
        /\ Goto(t, "verdict")
     \/ /\ ~disposed /\ Blocked(t) /\ ~expired[t]
        /\ Goto(t, "sleep")
        /\ UNCHANGED <<pushWaiters, popWaiters, ret>>
  /\ UNCHANGED <<buf, lock, disposed, notFull, notEmpty>>
  /\ UNCHANGED <<op, carry, sig, expired, hand, exhausted>>

\* Condvar::wait: joins the wait set and releases the mutex in one step.
Sleep(t) ==
  /\ pc[t] = "sleep"
  /\ \/ op[t] \in PushOps /\ notFull' = notFull \cup {t} /\ UNCHANGED notEmpty
     \/ op[t] \in PopOps /\ notEmpty' = notEmpty \cup {t} /\ UNCHANGED notFull
  /\ lock' = NoThread
  /\ Goto(t, "asleep")
  /\ UNCHANGED <<buf, disposed, pushWaiters, popWaiters>>
  /\ UNCHANGED <<op, carry, ret, sig, expired, hand, exhausted>>

\* A woken thread takes the mutex back before wait returns.
Reacquire(t) ==
  /\ pc[t] = "asleep" /\ t \notin notFull \cup notEmpty
  /\ lock = NoThread
  /\ lock' = t
  /\ Goto(t, "cond")
  /\ UNCHANGED <<buf, disposed, pushWaiters, popWaiters, notFull, notEmpty>>
  /\ UNCHANGED <<op, carry, ret, sig, expired, hand, exhausted>>

\* The deadline of a timed wait passes.
Expire(t) ==
  /\ op[t] \in TimedOps /\ pc[t] \in {"cond", "sleep", "asleep"}
  /\ ~expired[t]
  /\ expired' = [expired EXCEPT ![t] = TRUE]
  /\ UNCHANGED <<buf, sync, pc, op, carry, ret, sig, hand, exhausted>>

Leave(t) ==
  /\ t \in notFull \cup notEmpty
  /\ notFull' = notFull \ {t}
  /\ notEmpty' = notEmpty \ {t}
  /\ UNCHANGED <<buf, lock, disposed, pushWaiters, popWaiters, local>>
  /\ UNCHANGED <<hand, exhausted>>

\* A timed wait returns by itself once its deadline has passed.
TimeoutWake(t) == expired[t] /\ Leave(t)

\* A Condvar may wake a thread for no reason.
SpuriousWake(t) == Leave(t)

-----------------------------------------------------------------------------
(* Deciding and committing *)

\* A return under the lock: the guard is dropped, nothing is signalled.
Finish(t, r) ==
  /\ ret' = [ret EXCEPT ![t] = r]
  /\ lock' = NoThread
  /\ Goto(t, "signal")

Proceed(t) == Goto(t, "commit") /\ UNCHANGED <<ret, lock>>

\* Mutant: the flag is not asked again after the wait.
PushVerdictUnasked(t) ==
  \/ ret[t] = "timeout" /\ Finish(t, "timeout")
  \/ /\ ret[t] = "none"
     /\ IF op[t] = "try_push" /\ IsFull THEN Finish(t, "would_block")
        ELSE Proceed(t)

PushVerdict(t) ==
  \/ ret[t] = "timeout" /\ Finish(t, "timeout")
  \/ ret[t] = "none" /\ disposed /\ Finish(t, "unavailable")
  \/ /\ ret[t] = "none" /\ ~disposed
     /\ IF op[t] = "try_push" /\ IsFull THEN Finish(t, "would_block")
        ELSE Proceed(t)

\* pop takes an empty queue for a disposed one, pop_timeout asks the flag.
PopUnavailable(t) ==
  /\ buf = <<>>
  /\ op[t] = "pop" \/ disposed

PopVerdict(t) ==
  \/ ret[t] = "timeout" /\ Finish(t, "timeout")
  \/ /\ ret[t] = "none"
     /\ IF PopUnavailable(t) THEN Finish(t, "unavailable")
        ELSE IF op[t] = "try_pop" /\ buf = <<>> THEN Finish(t, "would_block")
        ELSE Proceed(t)

\* The checks between the wait and the commit.
Verdict(t) ==
  /\ pc[t] = "verdict"
  /\ \/ op[t] \in PushOps /\ PushVerdict(t) /\ UNCHANGED exhausted
     \/ op[t] \in PopOps /\ PopVerdict(t)
        /\ exhausted' = (exhausted \/ ret'[t] = "unavailable")
  /\ UNCHANGED <<buf, disposed, pushWaiters, popWaiters, notFull, notEmpty>>
  /\ UNCHANGED <<op, carry, sig, expired, hand>>

When(cond, s) == IF cond THEN <<s>> ELSE <<>>

\* en_q_commit
EnQCommit(t) ==
  LET prev == Len(buf) IN
  /\ pc[t] = "commit" /\ op[t] \in PushOps
  /\ buf' = buf \o carry[t]
  /\ carry' = [carry EXCEPT ![t] = <<>>]
  /\ sig' = [sig EXCEPT ![t] =
       When(prev = 0 /\ popWaiters > 0, "one_not_empty")
       \o When(prev + 1 < Capacity /\ pushWaiters > 0, "one_not_full")]
  /\ Finish(t, "ok")
  /\ UNCHANGED <<disposed, pushWaiters, popWaiters, notFull, notEmpty>>
  /\ UNCHANGED <<op, expired, hand, exhausted>>

\* Mutant: pop_back for pop_front.
DeQCommitBack(t) ==
  /\ pc[t] = "commit" /\ op[t] \in PopOps
  /\ buf # <<>>
  /\ carry' = [carry EXCEPT ![t] = <<buf[Len(buf)]>>]
  /\ buf' = SubSeq(buf, 1, Len(buf) - 1)
  /\ sig' = [sig EXCEPT ![t] =
       When(Len(buf) > 1 /\ popWaiters > 0, "one_not_empty")
       \o When(Len(buf) = Capacity /\ pushWaiters > 0, "one_not_full")]
  /\ Finish(t, "ok")
  /\ UNCHANGED <<disposed, pushWaiters, popWaiters, notFull, notEmpty>>
  /\ UNCHANGED <<op, expired, hand, exhausted>>

\* Mutant: no cascade to the next consumer.
DeQCommitNoCascade(t) ==
  /\ pc[t] = "commit" /\ op[t] \in PopOps
  /\ buf # <<>>
  /\ carry' = [carry EXCEPT ![t] = <<Head(buf)>>]
  /\ buf' = Tail(buf)
  /\ sig' = [sig EXCEPT ![t] =
       When(Len(buf) = Capacity /\ pushWaiters > 0, "one_not_full")]
  /\ Finish(t, "ok")
  /\ UNCHANGED <<disposed, pushWaiters, popWaiters, notFull, notEmpty>>
  /\ UNCHANGED <<op, expired, hand, exhausted>>

\* de_q_commit; it panics on an empty buffer.
DeQCommit(t) ==
  LET prev == Len(buf) IN
  /\ pc[t] = "commit" /\ op[t] \in PopOps
  /\ buf # <<>>
  /\ carry' = [carry EXCEPT ![t] = <<Head(buf)>>]
  /\ buf' = Tail(buf)
  /\ sig' = [sig EXCEPT ![t] =
       When(prev > 1 /\ popWaiters > 0, "one_not_empty")
       \o When(prev = Capacity /\ pushWaiters > 0, "one_not_full")]
  /\ Finish(t, "ok")
  /\ UNCHANGED <<disposed, pushWaiters, popWaiters, notFull, notEmpty>>
  /\ UNCHANGED <<op, expired, hand, exhausted>>

\* drain
Drain(t) ==
  /\ pc[t] = "commit" /\ op[t] = "drain"
  /\ carry' = [carry EXCEPT ![t] = buf]
  /\ buf' = <<>>
  /\ sig' = [sig EXCEPT ![t] =
       When(buf # <<>> /\ pushWaiters > 0, "all_not_full")]
  /\ Finish(t, "ok")
  /\ UNCHANGED <<disposed, pushWaiters, popWaiters, notFull, notEmpty>>
  /\ UNCHANGED <<op, expired, hand, exhausted>>

-----------------------------------------------------------------------------
(* Disposing, signalling, returning *)

\* The compare_exchange of dispose; only its winner goes on.
DisposeCas(t) ==
  /\ pc[t] = "cas"
  /\ disposed' = TRUE
  /\ Goto(t, IF disposed THEN "signal" ELSE "lock")
  /\ ret' = [ret EXCEPT ![t] = "ok"]
  /\ UNCHANGED <<buf, lock, pushWaiters, popWaiters, notFull, notEmpty>>
  /\ UNCHANGED <<op, carry, sig, expired, hand, exhausted>>

\* Mutant: dispose notifies without passing through the lock.
DisposeUnlocked(t) ==
  /\ pc[t] = "lock" /\ op[t] = "dispose"
  /\ sig' = [sig EXCEPT ![t] = <<"all_not_empty", "all_not_full">>]
  /\ Goto(t, "signal")
  /\ UNCHANGED <<buf, sync, op, carry, ret, expired, hand, exhausted>>

\* dispose locks and unlocks, so that no thread is between its predicate
\* and its wait when the notifications are sent.
DisposeBarrier(t) ==
  /\ pc[t] = "lock" /\ op[t] = "dispose"
  /\ lock = NoThread
  /\ sig' = [sig EXCEPT ![t] = <<"all_not_empty", "all_not_full">>]
  /\ Goto(t, "signal")
  /\ UNCHANGED <<buf, sync, op, carry, ret, expired, hand, exhausted>>

\* notify_one wakes some sleeper, if there is one.
NotifyOne(S) == IF S = {} THEN {S} ELSE {S \ {w} : w \in S}

\* signal, and the notify_all of drain and dispose: sent without the lock.
Signal(t) ==
  /\ pc[t] = "signal" /\ sig[t] # <<>>
  /\ LET s == Head(sig[t]) IN
     \/ s = "one_not_empty" /\ notEmpty' \in NotifyOne(notEmpty) /\ UNCHANGED notFull
     \/ s = "all_not_empty" /\ notEmpty' = {} /\ UNCHANGED notFull
     \/ s = "one_not_full" /\ notFull' \in NotifyOne(notFull) /\ UNCHANGED notEmpty
     \/ s = "all_not_full" /\ notFull' = {} /\ UNCHANGED notEmpty
  /\ sig' = [sig EXCEPT ![t] = Tail(@)]
  /\ UNCHANGED <<buf, lock, disposed, pushWaiters, popWaiters>>
  /\ UNCHANGED <<pc, op, carry, ret, expired, hand, exhausted>>

\* Mutant: a refused push drops its item.
ReturnDropping(t) ==
  /\ pc[t] = "signal" /\ sig[t] = <<>>
  /\ hand' = IF op[t] \in PushOps THEN hand ELSE hand \cup Range(carry[t])
  /\ Goto(t, "idle")
  /\ op' = [op EXCEPT ![t] = "none"]
  /\ carry' = [carry EXCEPT ![t] = <<>>]
  /\ ret' = [ret EXCEPT ![t] = "none"]
  /\ expired' = [expired EXCEPT ![t] = FALSE]
  /\ UNCHANGED <<buf, sync, sig, exhausted>>

\* The call returns and the caller owns what it carries.
Return(t) ==
  /\ pc[t] = "signal" /\ sig[t] = <<>>
  /\ hand' = hand \cup Range(carry[t])
  /\ Goto(t, "idle")
  /\ op' = [op EXCEPT ![t] = "none"]
  /\ carry' = [carry EXCEPT ![t] = <<>>]
  /\ ret' = [ret EXCEPT ![t] = "none"]
  /\ expired' = [expired EXCEPT ![t] = FALSE]
  /\ UNCHANGED <<buf, sync, sig, exhausted>>

-----------------------------------------------------------------------------

\* What a thread does on its own once it is in a call.
Step(t) ==
  \/ Acquire(t) \/ Check(t) \/ Predicate(t) \/ Sleep(t) \/ Reacquire(t)
  \/ Expire(t) \/ TimeoutWake(t)
  \/ Verdict(t) \/ EnQCommit(t) \/ DeQCommit(t) \/ Drain(t)
  \/ DisposeCas(t) \/ DisposeBarrier(t) \/ Signal(t) \/ Return(t)

Next == \E t \in Threads : Call(t) \/ SpuriousWake(t) \/ Step(t)

Spec == Init /\ [][Next]_vars

\* Every thread inside a call keeps running.  Nothing makes a caller call,
\* and the mutex is not fair.
FairSpec == Spec /\ \A t \in Threads : WF_vars(Step(t))

-----------------------------------------------------------------------------
(* Properties *)

PCs == {"idle", "lock", "check", "cond", "sleep", "asleep", "verdict",
        "commit", "cas", "signal"}
Sigs == {"one_not_empty", "one_not_full", "all_not_empty", "all_not_full"}

\* Every variable has its type; the counters never drop below zero, where
\* the usize of CondWaiters would wrap around.
TypeOK ==
  /\ buf \in Seq(Items)
  /\ lock \in Threads \cup {NoThread}
  /\ disposed \in BOOLEAN
  /\ pushWaiters \in Nat /\ popWaiters \in Nat
  /\ notFull \in SUBSET Threads /\ notEmpty \in SUBSET Threads
  /\ pc \in [Threads -> PCs]
  /\ op \in [Threads -> Ops \cup {"none"}]
  /\ carry \in [Threads -> Seq(Items)]
  /\ ret \in [Threads -> Rets]
  /\ sig \in [Threads -> Seq(Sigs)]
  /\ expired \in [Threads -> BOOLEAN]
  /\ hand \in SUBSET Items
  /\ exhausted \in BOOLEAN

\* No item is lost or duplicated: each is in exactly one of the queue, the
\* hands of callers, and the calls in progress.  A refused push still owns
\* its item, a drain owns what it took (en_q_commit, de_q_commit, drain and
\* the error returns that hand the item back).
ItemsConserved ==
  /\ IsInjective(buf)
  /\ Range(buf) \cap hand = {}
  /\ \A t \in Threads :
       /\ IsInjective(carry[t])
       /\ Range(carry[t]) \cap (Range(buf) \cup hand) = {}
       /\ \A u \in Threads \ {t} : Range(carry[t]) \cap Range(carry[u]) = {}
  /\ Items = Range(buf) \cup hand \cup UNION {Range(carry[t]) : t \in Threads}

\* A thread that decided to commit still may: there is room for its push and
\* an item for its pop, although the flag was read several times on the way
\* and each read may have given another answer.  The first is the capacity
\* contract, the second the expect() of de_q_commit.
CommitsAreSafe ==
  /\ Len(buf) <= Capacity
  /\ \A t \in Threads : pc[t] = "commit" =>
       /\ op[t] \in PushOps => Len(buf) < Capacity
       /\ op[t] \in PopOps => buf # <<>>

Committing(t) == pc[t] = "commit" /\ op[t] \in PushOps

\* Draining semantics of dispose: once any pop has been told the queue is
\* unavailable, the queue is disposed (the debug_assert of pop), empty, and
\* no push is on its way in, so no accepted item is left behind by consumers
\* that stopped.
ExhaustedIsFinal ==
  exhausted => disposed /\ buf = <<>> /\ \A t \in Threads : ~Committing(t)

Awake(t) == pc[t] = "asleep" /\ t \notin notFull \cup notEmpty

\* t is about to look at the queue, and will commit or pass the wake-up on.
Looking(t, ops) ==
  op[t] \in ops /\ (pc[t] \in {"check", "cond", "verdict", "commit"} \/ Awake(t))

Sending(t, names) == Range(sig[t]) \cap names # {}

\* notify_one is sent on the empty/non-empty edge only and then cascades, so
\* a consumer may sleep on a non-empty queue only while somebody is about to
\* pop or about to notify it.
NoLostPopWakeup ==
  buf # <<>> /\ notEmpty # {} =>
    \E t \in Threads : \/ Looking(t, PopOps)
                       \/ Sending(t, {"one_not_empty", "all_not_empty"})

\* The same for producers and free capacity.
NoLostPushWakeup ==
  ~disposed /\ ~IsFull /\ notFull # {} =>
    \E t \in Threads : \/ Looking(t, PushOps)
                       \/ Sending(t, {"one_not_full", "all_not_full"})

Disposing(t, name) == op[t] = "dispose" /\ (pc[t] = "lock" \/ Sending(t, {name}))

\* Once the flag is set, whoever sleeps is going to be notified by dispose.
DisposeReaches ==
  disposed =>
    /\ notFull # {} => \E t \in Threads : Disposing(t, "all_not_full")
    /\ notEmpty # {} => \E t \in Threads : Disposing(t, "all_not_empty")

\* No wake-up is lost (signal, de_q_commit, en_q_commit, drain, dispose).
NoLostWakeup == NoLostPopWakeup /\ NoLostPushWakeup /\ DisposeReaches

\* Refinement: a push takes effect when it reads the flag as not disposed,
\* though the item reaches the buffer later; everything else takes effect
\* where its result is decided.
Entering == {t \in Threads : Committing(t)}
AbsQueue == IF Entering = {} THEN buf
            ELSE buf \o carry[CHOOSE t \in Entering : TRUE]
AbsCarry == [t \in Threads |-> IF Committing(t) THEN <<>> ELSE carry[t]]
AbsRet == [t \in Threads |-> IF Committing(t) THEN "ok" ELSE ret[t]]

Abstract == INSTANCE BlockingQueue
              WITH queue <- AbsQueue, carry <- AbsCarry, ret <- AbsRet

\* The implementation is a linearizable bounded FIFO with draining dispose:
\* every call of push, try_push, push_timeout, pop, try_pop, pop_timeout,
\* drain and dispose takes effect at one instant during the call.
ImplementsBlockingQueue == Abstract!Spec

\* A call may stay blocked only in an untimed wait on a queue that is
\* neither disposed nor ready for it.
Settled(t) ==
  \/ pc[t] = "idle"
  \/ /\ pc[t] \in {"cond", "sleep", "asleep"}
     /\ op[t] \in {"push", "pop"}
     /\ ~disposed /\ Blocked(t)

\* Nobody calls any more and no wake-up is spurious.
Quiet == <>[][~\E t \in Threads : Call(t) \/ SpuriousWake(t)]_vars

\* When the callers fall silent, every call returns except the untimed ones
\* that have nothing to wait for but another call.  This is the liveness of
\* the whole signalling scheme: edge-triggered notify_one, the cascade, the
\* deadlines and the notify_all of drain and dispose.
CallsSettle == Quiet => <>[](\A t \in Threads : Settled(t))
=============================================================================

-------------------------- MODULE CondvarSemaphore --------------------------
(***************************************************************************)
(* CondvarSemaphore (crates/hio-concurrent/src/semaphore/                   *)
(* condvar_semaphore.rs): permits are taken and given without the mutex; a  *)
(* thread that finds none counts itself in waiters and sleeps under the     *)
(* mutex, and a release passes through the mutex before it notifies.  A     *)
(* loop around compare_exchange_weak takes effect when the exchange         *)
(* succeeds or when it has read zero, so each such loop is one step.        *)
(***************************************************************************)
EXTENDS Integers, FiniteSets

CONSTANTS
  Threads,
  NoThread,   \* the owner of a mutex that nobody holds
  Initial,    \* the permits given to new()
  PermitMax,  \* u32::MAX
  Amounts,    \* the numbers a caller may release at once
  OpsOf       \* the methods each thread may call

Ops == {"acquire", "try_acquire", "release"}

ASSUME SemAssumption ==
  /\ IsFiniteSet(Threads) /\ NoThread \notin Threads
  /\ PermitMax \in Nat /\ Initial \in 0 .. PermitMax
  /\ Amounts \subseteq 0 .. PermitMax
  /\ OpsOf \in [Threads -> SUBSET Ops]

VARIABLES
  permits,  \* an AtomicU32
  waiters,  \* an AtomicU32: the threads that hold a WaiterGuard
  lock,     \* the owner of the mutex
  asleep,   \* the threads asleep on the Condvar
  pc,       \* where each thread is, "idle" outside a call
  op,       \* acquire, try_acquire or release
  amount,   \* the permits a release adds
  ret       \* the result of an acquire or try_acquire

vars == <<permits, waiters, lock, asleep, pc, op, amount, ret>>

Init ==
  /\ permits = Initial /\ waiters = 0
  /\ lock = NoThread /\ asleep = {}
  /\ pc = [t \in Threads |-> "idle"]
  /\ op = [t \in Threads |-> "none"]
  /\ amount = [t \in Threads |-> 0]
  /\ ret = [t \in Threads |-> "none"]

At(t, l) == pc[t] = l
Goto(t, l) == pc' = [pc EXCEPT ![t] = l]
Result(t, r) == ret' = [ret EXCEPT ![t] = r]

\* Callers may release what nobody acquired; release asks no questions.
Call(t) ==
  /\ At(t, "idle")
  /\ \/ \E o \in OpsOf[t] \ {"release"} :
          op' = [op EXCEPT ![t] = o] /\ Goto(t, "try") /\ UNCHANGED amount
     \/ \E o \in OpsOf[t] \cap {"release"}, n \in Amounts :
          /\ op' = [op EXCEPT ![t] = o]
          /\ amount' = [amount EXCEPT ![t] = n]
          /\ Goto(t, IF n = 0 THEN "return" ELSE "add")
  /\ UNCHANGED <<permits, waiters, lock, asleep, ret>>

-----------------------------------------------------------------------------
(* acquire and try_acquire *)

\* try_get_permit outside the mutex: acquire goes on to acquire_slow.
Try(t) ==
  /\ At(t, "try")
  /\ \/ /\ permits > 0 /\ permits' = permits - 1
        /\ Goto(t, "return") /\ Result(t, "ok")
     \/ /\ permits = 0 /\ op[t] = "acquire"
        /\ Goto(t, "enlist") /\ UNCHANGED <<permits, ret>>
     \/ /\ permits = 0 /\ op[t] = "try_acquire"
        /\ Goto(t, "return") /\ Result(t, "failed") /\ UNCHANGED permits
  /\ UNCHANGED <<waiters, lock, asleep, op, amount>>

\* Mutant: the waiter is not counted.
EnlistUncounted(t) ==
  /\ At(t, "enlist") /\ Goto(t, "lock")
  /\ UNCHANGED <<permits, waiters, lock, asleep, op, amount, ret>>

\* WaiterGuard::enter
Enlist(t) ==
  /\ At(t, "enlist") /\ Goto(t, "lock")
  /\ waiters' = waiters + 1
  /\ UNCHANGED <<permits, lock, asleep, op, amount, ret>>

Woken(t) == At(t, "asleep") /\ t \notin asleep

\* The mutex is taken at the head of acquire_slow, after a spin, and by a
\* woken thread before Condvar::wait returns.
Lock(t) ==
  /\ At(t, "lock") \/ Woken(t)
  /\ lock = NoThread /\ lock' = t
  /\ Goto(t, "slow_try")
  /\ UNCHANGED <<permits, waiters, asleep, op, amount, ret>>

\* try_get_permit under the mutex; a success unlocks on its way out.
SlowTry(t) ==
  /\ At(t, "slow_try")
  /\ \/ /\ permits > 0 /\ permits' = permits - 1
        /\ lock' = NoThread /\ Goto(t, "delist") /\ Result(t, "ok")
     \/ permits = 0 /\ Goto(t, "recheck") /\ UNCHANGED <<permits, lock, ret>>
  /\ UNCHANGED <<waiters, asleep, op, amount>>

\* The second look: a permit that came meanwhile sends the thread round
\* again, without the mutex while it spins.
Recheck(t) ==
  /\ At(t, "recheck")
  /\ \/ permits = 0 /\ Goto(t, "sleep") /\ UNCHANGED lock
     \/ permits > 0 /\ Goto(t, "lock") /\ lock' = NoThread
  /\ UNCHANGED <<permits, waiters, asleep, op, amount, ret>>

\* Condvar::wait joins the wait set and unlocks in one step.
Sleep(t) ==
  /\ At(t, "sleep") /\ Goto(t, "asleep")
  /\ asleep' = asleep \cup {t} /\ lock' = NoThread
  /\ UNCHANGED <<permits, waiters, op, amount, ret>>

SpuriousWake(t) ==
  /\ t \in asleep /\ asleep' = asleep \ {t}
  /\ UNCHANGED <<permits, waiters, lock, pc, op, amount, ret>>

\* The WaiterGuard is dropped, after the mutex.
Delist(t) ==
  /\ At(t, "delist") /\ Goto(t, "return")
  /\ waiters' = waiters - 1
  /\ UNCHANGED <<permits, lock, asleep, op, amount, ret>>

-----------------------------------------------------------------------------
(* release *)

\* Mutant: a wrapping addition.
SaturateWrapping(n) == n % (PermitMax + 1)

\* saturating_add
Saturate(n) == IF n > PermitMax THEN PermitMax ELSE n

Add(t) ==
  /\ At(t, "add") /\ Goto(t, "load_waiters")
  /\ permits' = Saturate(permits + amount[t])
  /\ UNCHANGED <<waiters, lock, asleep, op, amount, ret>>

LoadWaiters(t) ==
  /\ At(t, "load_waiters")
  /\ Goto(t, IF waiters = 0 THEN "return" ELSE "pass")
  /\ UNCHANGED <<permits, waiters, lock, asleep, op, amount, ret>>

\* Mutant: release notifies without passing through the mutex.
PassUnlocked(t) ==
  /\ At(t, "pass") /\ Goto(t, "notify")
  /\ UNCHANGED <<permits, waiters, lock, asleep, op, amount, ret>>

\* drop(lock()): nobody is left between its second look and its sleep.
Pass(t) ==
  /\ At(t, "pass") /\ lock = NoThread /\ Goto(t, "notify")
  /\ UNCHANGED <<permits, waiters, lock, asleep, op, amount, ret>>

\* Mutant: one thread is notified whatever the amount.
NotifyAlwaysOne(t) ==
  /\ At(t, "notify") /\ Goto(t, "return")
  /\ asleep' \in IF asleep = {} THEN {{}} ELSE {asleep \ {w} : w \in asleep}
  /\ UNCHANGED <<permits, waiters, lock, op, amount, ret>>

\* notify_one for one permit, notify_all for more.
Notify(t) ==
  /\ At(t, "notify") /\ Goto(t, "return")
  /\ asleep' \in IF amount[t] > 1 \/ asleep = {} THEN {{}}
                 ELSE {asleep \ {w} : w \in asleep}
  /\ UNCHANGED <<permits, waiters, lock, op, amount, ret>>

Return(t) ==
  /\ At(t, "return") /\ Goto(t, "idle")
  /\ op' = [op EXCEPT ![t] = "none"]
  /\ amount' = [amount EXCEPT ![t] = 0] /\ Result(t, "none")
  /\ UNCHANGED <<permits, waiters, lock, asleep>>

-----------------------------------------------------------------------------

\* What a thread does on its own once it is in a call.
Step(t) ==
  \/ Try(t) \/ Enlist(t) \/ Lock(t) \/ SlowTry(t) \/ Recheck(t) \/ Sleep(t)
  \/ Delist(t) \/ Add(t) \/ LoadWaiters(t) \/ Pass(t) \/ Notify(t) \/ Return(t)

Next == \E t \in Threads : Call(t) \/ SpuriousWake(t) \/ Step(t)

Spec == Init /\ [][Next]_vars

\* Every thread inside a call keeps running.
FairSpec == Spec /\ \A t \in Threads : WF_vars(Step(t))

-----------------------------------------------------------------------------
(* Properties *)

PCs == {"idle", "try", "enlist", "lock", "slow_try", "recheck", "sleep",
        "asleep", "delist", "add", "load_waiters", "pass", "notify", "return"}

\* Every variable has its type; waiters never wraps below zero, and the
\* permits stay within a u32.
TypeOK ==
  /\ permits \in 0 .. PermitMax /\ waiters \in Nat
  /\ lock \in Threads \cup {NoThread} /\ asleep \subseteq Threads
  /\ pc \in [Threads -> PCs]
  /\ op \in [Threads -> Ops \cup {"none"}]
  /\ amount \in [Threads -> Amounts \cup {0}]
  /\ ret \in [Threads -> {"none", "ok", "failed"}]

\* The places of acquire_slow where a thread will look at permits before it
\* sleeps.  A thread at "sleep" has looked.
AwakeWaiter(t) == pc[t] \in {"lock", "slow_try", "recheck"} \/ Woken(t)

\* The permits of releases that have yet to notify.
Announced == {a \in Threads \X (1 .. PermitMax) :
                /\ pc[a[1]] \in {"load_waiters", "pass", "notify"}
                /\ a[2] <= amount[a[1]]}

\* No wake-up is lost: while somebody sleeps, every free permit has a thread
\* that will look at it or a release that is going to notify.  acquire_slow
\* counts itself, then looks; release adds, then loads waiters; its passage
\* through the mutex covers the gap between the last look and the sleep.
PermitsHaveTakers ==
  asleep # {} =>
    permits <= Cardinality({t \in Threads : AwakeWaiter(t)}) + Cardinality(Announced)

AbsAmount == [t \in Threads |-> IF At(t, "add") THEN amount[t] ELSE 0]
Abstract == INSTANCE Semaphore
              WITH Start <- Initial, Most <- PermitMax, Hasty <- FALSE,
                   amount <- AbsAmount, jostled <- {}

\* Every call takes effect in one step, although permits change without the
\* mutex: no permit is granted twice or lost below the maximum, and a
\* try_acquire fails only when there is none.
ImplementsSemaphore == Abstract!Spec

\* Nobody calls any more and no wake-up is spurious.
Quiet == <>[][~\E t \in Threads : Call(t) \/ SpuriousWake(t)]_vars

\* When the callers fall silent, every call returns, except an acquire for
\* which there is no permit.
CallsSettle ==
  Quiet => <>[](\A t \in Threads :
                  At(t, "idle") \/ (At(t, "asleep") /\ permits = 0))
=============================================================================

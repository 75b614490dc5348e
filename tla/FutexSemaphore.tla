--------------------------- MODULE FutexSemaphore ---------------------------
(***************************************************************************)
(* FutexSemaphore (crates/hio-concurrent/src/semaphore/futex_semaphore.rs)  *)
(* on FutexWord: the permits are the futex word, and a counter tells         *)
(* releasers whether anybody may sleep.  Every atomic access and every      *)
(* system call is an action of its own.                                     *)
(***************************************************************************)
EXTENDS Futex

CONSTANTS
  Threads,
  Initial,     \* the permits given to new()
  MaxPermits,  \* MAX_PERMITS, above which a release is a caller's error
  Amounts,     \* the numbers a caller may release at once
  OpsOf,       \* the methods each thread may call
  Builds       \* the platforms the code is compiled for

Ops == {"acquire", "try_acquire", "release"}

ASSUME SemAssumption ==
  /\ IsFiniteSet(Threads)
  /\ MaxPermits \in Nat
  /\ Initial \in 0 .. MaxPermits
  /\ Amounts \subseteq Nat
  /\ OpsOf \in [Threads -> SUBSET Ops]
  /\ Builds \subseteq Platforms

VARIABLES
  platform, \* the platform of this build
  permits,  \* the futex word
  waiters,  \* the threads in acquire_slow
  asleep,   \* the futex wait queue of the kernel
  pc,       \* where each thread is, "idle" outside a call
  op,       \* acquire, try_acquire or release
  cur,      \* the value of permits its compare_exchange expects
  amount,   \* the permits a release adds, then the wake-ups it still sends
  ret,      \* the result of a call that has one
  spare,    \* permits acquired or never granted, which somebody may release
  jostled   \* history: the try_acquire calls that have seen permits change

word == <<permits, waiters, asleep>>
vars == <<platform, word, pc, op, cur, amount, ret, spare, jostled>>

Init ==
  /\ permits = Initial /\ waiters = 0 /\ asleep = {}
  /\ pc = [t \in Threads |-> "idle"]
  /\ op = [t \in Threads |-> "none"]
  /\ cur = [t \in Threads |-> 0]
  /\ amount = [t \in Threads |-> 0]
  /\ ret = [t \in Threads |-> "none"]
  /\ spare = MaxPermits - Initial
  /\ platform \in Builds
  /\ jostled = {}

Goto(t, l) == pc' = [pc EXCEPT ![t] = l]

\* Callers release no more than was granted, so the assertion of release on
\* MAX_PERMITS holds.
Call(t) ==
  /\ pc[t] = "idle"
  /\ \E o \in OpsOf[t] :
       /\ op' = [op EXCEPT ![t] = o]
       /\ \/ /\ o # "release" /\ Goto(t, "load")
             /\ UNCHANGED <<amount, spare>>
          \/ /\ o = "release"
             /\ \E n \in Amounts :
                  /\ n <= spare
                  /\ spare' = spare - n
                  /\ amount' = [amount EXCEPT ![t] = n]
                  /\ Goto(t, IF n = 0 THEN "return" ELSE "add")
  /\ UNCHANGED <<platform, word, cur, ret, jostled>>

-----------------------------------------------------------------------------
(* acquire and try_acquire *)

\* A failed try_decrement sends acquire to its slow path, and the slow path
\* to the second look at permits; try_acquire gives up.
Fail(t) ==
  IF op[t] = "try_acquire"
  THEN /\ Goto(t, "return") /\ ret' = [ret EXCEPT ![t] = "failed"]
       /\ jostled' = jostled \ {t}
  ELSE /\ Goto(t, IF pc[t] \in {"load", "cas"} THEN "enlist" ELSE "recheck")
       /\ UNCHANGED <<ret, jostled>>

\* Whoever is in try_acquire may see that the permits change.
Jostle(t) ==
  jostled' = (jostled \cup {u \in Threads : op[u] = "try_acquire" /\ ret[u] = "none"}) \ {t}

\* Mutant: zero is not looked for.
LoadUnchecked(t) ==
  /\ pc[t] \in {"load", "slow_load"}
  /\ cur' = [cur EXCEPT ![t] = permits]
  /\ Goto(t, IF pc[t] = "load" THEN "cas" ELSE "slow_cas")
  /\ UNCHANGED <<word, op, amount, ret, spare, platform, jostled>>

\* permits.load of try_decrement and try_acquire.
Load(t) ==
  /\ pc[t] \in {"load", "slow_load"}
  /\ cur' = [cur EXCEPT ![t] = permits]
  /\ IF permits = 0 THEN Fail(t)
     ELSE /\ Goto(t, IF pc[t] = "load" THEN "cas" ELSE "slow_cas")
          /\ UNCHANGED <<ret, jostled>>
  /\ UNCHANGED <<word, op, amount, spare, platform>>

\* Mutant: a store of the value read before for the compare_exchange.
CasBlind(t) ==
  /\ pc[t] \in {"cas", "slow_cas"}
  /\ permits' = cur[t] - 1
  /\ Goto(t, IF pc[t] = "cas" THEN "return" ELSE "delist")
  /\ ret' = [ret EXCEPT ![t] = "ok"]
  /\ Jostle(t)
  /\ UNCHANGED <<waiters, asleep, op, cur, amount, spare, platform>>

\* The compare_exchange; try_decrement goes round again with the value it
\* found, try_acquire does not.
Cas(t) ==
  /\ pc[t] \in {"cas", "slow_cas"}
  /\ \/ /\ permits = cur[t]
        /\ permits' = permits - 1
        /\ Goto(t, IF pc[t] = "cas" THEN "return" ELSE "delist")
        /\ ret' = [ret EXCEPT ![t] = "ok"]
        /\ Jostle(t) /\ UNCHANGED cur
     \/ /\ permits # cur[t]
        /\ cur' = [cur EXCEPT ![t] = permits]
        /\ IF permits = 0 \/ op[t] = "try_acquire" THEN Fail(t)
           ELSE UNCHANGED <<pc, ret, jostled>>
        /\ UNCHANGED permits
  /\ UNCHANGED <<waiters, asleep, op, amount, spare, platform>>

\* Mutant: the waiter is not counted before it looks again.
EnlistUncounted(t) ==
  /\ pc[t] = "enlist"
  /\ Goto(t, "slow_load")
  /\ UNCHANGED <<word, op, cur, amount, ret, spare, platform, jostled>>

\* waiters.fetch_add at the head of acquire_slow, fetch_sub at its end.
Enlist(t) ==
  /\ pc[t] = "enlist"
  /\ waiters' = waiters + 1
  /\ Goto(t, "slow_load")
  /\ UNCHANGED <<permits, asleep, op, cur, amount, ret, spare, platform, jostled>>

Delist(t) ==
  /\ pc[t] = "delist"
  /\ waiters' = waiters - 1
  /\ Goto(t, "return")
  /\ UNCHANGED <<permits, asleep, op, cur, amount, ret, spare, platform, jostled>>

\* The second look at permits, after the thread is counted in waiters.
Recheck(t) ==
  /\ pc[t] = "recheck"
  /\ Goto(t, IF permits = 0 THEN "wait" ELSE "slow_load")
  /\ UNCHANGED <<word, op, cur, amount, ret, spare, platform, jostled>>

\* Mutant: the thread sleeps whatever the word is.
WaitBlind(t) ==
  /\ pc[t] = "wait"
  /\ asleep' = asleep \cup {t} /\ Goto(t, "asleep")
  /\ UNCHANGED <<permits, waiters, op, cur, amount, ret, spare, platform, jostled>>

\* permits.wait(0)
Wait(t) ==
  /\ pc[t] = "wait"
  /\ asleep' = WaitOf(platform, permits, 0, asleep, t)
  /\ Goto(t, IF t \in asleep' THEN "asleep" ELSE "slow_load")
  /\ UNCHANGED <<permits, waiters, op, cur, amount, ret, spare, platform, jostled>>

Resume(t) ==
  /\ pc[t] = "asleep" /\ t \notin asleep
  /\ Goto(t, "slow_load")
  /\ UNCHANGED <<word, op, cur, amount, ret, spare, platform, jostled>>

\* A futex wait may return for no reason or because of a signal.
SpuriousWake(t) ==
  /\ t \in asleep
  /\ asleep' = asleep \ {t}
  /\ UNCHANGED <<permits, waiters, pc, op, cur, amount, ret, spare, platform, jostled>>

-----------------------------------------------------------------------------
(* release *)

Add(t) ==
  /\ pc[t] = "add"
  /\ permits' = permits + amount[t] /\ Jostle(t)
  /\ Goto(t, "load_waiters")
  /\ UNCHANGED <<waiters, asleep, op, cur, amount, ret, spare, platform>>

\* The second half of the handshake with Enlist and Recheck.
LoadWaiters(t) ==
  /\ pc[t] = "load_waiters"
  /\ Goto(t, IF waiters = 0 THEN "return"
             ELSE IF waiters <= amount[t] THEN "wake_all" ELSE "wake_one")
  /\ UNCHANGED <<word, op, cur, amount, ret, spare, platform, jostled>>

WakeAll(t) ==
  /\ pc[t] = "wake_all"
  /\ asleep' \in WakeAllOf(platform, asleep)
  /\ Goto(t, "return")
  /\ UNCHANGED <<permits, waiters, op, cur, amount, ret, spare, platform, jostled>>

WakeOne(t) ==
  /\ pc[t] = "wake_one"
  /\ asleep' \in WakeOneOf(platform, asleep)
  /\ amount' = [amount EXCEPT ![t] = @ - 1]
  /\ Goto(t, IF amount[t] = 1 THEN "return" ELSE "wake_one")
  /\ UNCHANGED <<permits, waiters, op, cur, ret, spare, platform, jostled>>

-----------------------------------------------------------------------------

\* The call returns; a permit it acquired may be released by anybody.
Return(t) ==
  /\ pc[t] = "return"
  /\ Goto(t, "idle")
  /\ op' = [op EXCEPT ![t] = "none"]
  /\ ret' = [ret EXCEPT ![t] = "none"]
  /\ amount' = [amount EXCEPT ![t] = 0]
  /\ cur' = [cur EXCEPT ![t] = 0]
  /\ spare' = spare + (IF ret[t] = "ok" THEN 1 ELSE 0)
  /\ UNCHANGED <<word, platform, jostled>>

\* What a thread does on its own once it is in a call.
Step(t) ==
  \/ Load(t) \/ Cas(t) \/ Enlist(t) \/ Recheck(t) \/ Wait(t) \/ Resume(t)
  \/ Delist(t) \/ Add(t) \/ LoadWaiters(t) \/ WakeAll(t) \/ WakeOne(t) \/ Return(t)

Next == \E t \in Threads : Call(t) \/ SpuriousWake(t) \/ Step(t)

Spec == Init /\ [][Next]_vars

\* Every thread inside a call keeps running.
FairSpec == Spec /\ \A t \in Threads : WF_vars(Step(t))

-----------------------------------------------------------------------------
(* Properties *)

PCs == {"idle", "load", "cas", "enlist", "slow_load", "slow_cas", "recheck",
        "wait", "asleep", "delist", "add", "load_waiters", "wake_all",
        "wake_one", "return"}

\* Every variable has its type: permits and waiters never wrap around.
TypeOK ==
  /\ permits \in 0 .. MaxPermits
  /\ waiters \in Nat
  /\ asleep \subseteq Threads
  /\ pc \in [Threads -> PCs]
  /\ op \in [Threads -> Ops \cup {"none"}]
  /\ cur \in [Threads -> 0 .. MaxPermits]
  /\ amount \in [Threads -> Nat]
  /\ ret \in [Threads -> {"none", "ok", "failed"}]
  /\ spare \in 0 .. MaxPermits /\ jostled \subseteq Threads

\* The places of acquire_slow where a thread is awake and will look at
\* permits before it can sleep.
AwakeWaiter(t) ==
  \/ pc[t] \in {"slow_load", "slow_cas", "recheck", "wait"}
  \/ pc[t] = "asleep" /\ t \notin asleep

\* The permits a release has announced, or is about to, by waking threads.
Announced == {a \in Threads \X (1 .. MaxPermits) :
                /\ pc[a[1]] \in {"load_waiters", "wake_all", "wake_one"}
                /\ a[2] <= amount[a[1]]}

\* No wake-up is lost: while somebody sleeps, every free permit has a thread
\* that is awake to take it or a wake-up on its way (acquire_slow counts
\* itself before it looks again, release adds before it looks at waiters,
\* and wake_waiters chooses between one wake-up per permit and all of them).
PermitsHaveTakers ==
  asleep # {} =>
    permits <= Cardinality({t \in Threads : AwakeWaiter(t)}) + Cardinality(Announced)

\* wake_all wakes all: nobody sleeps on a free permit while nobody else is
\* awake to take it or to wake him.
NobodyForgotten ==
  asleep # {} /\ permits > 0 =>
    \E t \in Threads :
      AwakeWaiter(t) \/ pc[t] \in {"load_waiters", "wake_all", "wake_one"}

AbsAmount == [t \in Threads |-> IF pc[t] = "add" THEN amount[t] ELSE 0]
Abstract == INSTANCE Semaphore
              WITH Start <- Initial, Most <- MaxPermits, Hasty <- TRUE, amount <- AbsAmount

\* Every call takes effect in one step: no permit is granted twice or lost,
\* although each is taken by a compare_exchange on a value read before, and
\* a try_acquire fails only when it finds none or the permits have changed
\* while it ran.
ImplementsSemaphore == Abstract!Spec

\* Nobody calls any more and no wake-up is spurious.
Quiet == <>[][~\E t \in Threads : Call(t) \/ SpuriousWake(t)]_vars

\* When the callers fall silent, every call returns, except an acquire for
\* which there is no permit.
CallsSettle ==
  Quiet => <>[](\A t \in Threads :
                  pc[t] = "idle" \/ (pc[t] = "asleep" /\ permits = 0))
=============================================================================

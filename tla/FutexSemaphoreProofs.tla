------------------------ MODULE FutexSemaphoreProofs ------------------------
(***************************************************************************)
(* Theorems about FutexSemaphore for any number of threads, any MAX_PERMITS *)
(* and any amounts, on both platforms: types, that permits are conserved,   *)
(* the wake-ups, and that it implements Semaphore; and what the Windows shim *)
(* makes of a timeout.                                                       *)
(***************************************************************************)
EXTENDS FutexSemaphore, FiniteSetTheorems, TLAPS

\* The places of acquire_slow, where the thread is counted in waiters.
Slow == {"slow_load", "slow_cas", "recheck", "wait", "asleep", "delist"}
Announcing == {"load_waiters", "wake_all", "wake_one"}
Releasing == {"add"} \cup Announcing

\* What a place says of the method, its argument and its result.
CallInv == \A t \in Threads :
  /\ pc[t] = "idle" => op[t] = "none"
  /\ pc[t] \in {"load", "cas"} => op[t] \in {"acquire", "try_acquire"}
  /\ pc[t] \in Slow \cup {"enlist"} => op[t] = "acquire"
  /\ pc[t] \in Releasing => op[t] = "release" /\ amount[t] > 0
  /\ pc[t] \in {"cas", "slow_cas"} => cur[t] > 0
  /\ pc[t] = "return" => op[t] = "release" \/ ret[t] # "none"
  /\ pc[t] \notin {"delist", "return"} => ret[t] = "none"
  /\ pc[t] = "delist" => ret[t] # "none"
  /\ amount[t] \in 0 .. MaxPermits

SleepInv == (\A t \in asleep : pc[t] = "asleep") /\ platform \in Platforms

\* waiters is exact.
Counted == {t \in Threads : pc[t] \in Slow}
CountInv == waiters = Cardinality(Counted)

\* Each permit is in the word, with a caller that has acquired it and not
\* returned yet, in a release that has not added it yet, or outside.
Held == {t \in Threads : ret[t] = "ok"}
Pairs(L) == {a \in Threads \X (1 .. MaxPermits) : pc[a[1]] \in L /\ a[2] <= amount[a[1]]}
Adding == Pairs({"add"})
Conserved == permits + spare + Cardinality(Held) + Cardinality(Adding) = MaxPermits

\* A try_acquire whose exchange is going to fail has seen the permits change.
SeenInv == \A t \in Threads :
  pc[t] = "cas" /\ op[t] = "try_acquire" /\ permits # cur[t] => t \in jostled

IInv == /\ TypeOK /\ CallInv /\ SleepInv /\ CountInv /\ Conserved /\ SeenInv

\* The free permits are covered by threads that will look at them and by
\* releases that are going to wake one thread for each.
Awake == {t \in Threads : AwakeWaiter(t)}
Covered == permits <= Cardinality(Awake) + Cardinality(Pairs(Announcing))

-----------------------------------------------------------------------------
(* Control *)

\* What the wake operations of either platform may leave asleep.
LEMMA WakeLeaves ==
  ASSUME NEW p \in Platforms, NEW S, IsFiniteSet(S), NEW left
  PROVE  /\ left \in WakeAllOf(p, S) => left \subseteq S
         /\ left \in WakeOneOf(p, S) => left \subseteq S
         /\ left \in WakeOneOf(p, S) /\ left # {} => \E w \in S : left = S \ {w}
<1> USE DEF WakeAllOf, WakeOneOf, LinuxWakeAll, LinuxWakeOne, WindowsWakeAll,
            WindowsWakeOne, AfterWakeSingle, AfterFutexWake, Platforms
<1>1. left \in WakeAllOf(p, S) => left \subseteq S OBVIOUS
<1>2. left \in WakeOneOf(p, S) => left \subseteq S OBVIOUS
<1>3. ASSUME left \in WakeOneOf(p, S), left # {} PROVE \E w \in S : left = S \ {w}
  <2>1. CASE p = "windows" BY <1>3, <2>1
  <2>2. CASE p = "linux"
    <3>1. left \subseteq S /\ Cardinality(S \ left) = 1 BY <1>3, <2>2
    <3>2. IsFiniteSet(S \ left) BY FS_Difference
    <3>3. PICK w : S \ left = {w} BY <3>1, <3>2, FS_Singleton
    <3> QED BY <3>1, <3>3
  <2> QED BY <2>1, <2>2
<1> QED BY <1>1, <1>2, <1>3

LEMMA SleepersFinite ==
  ASSUME TypeOK
  PROVE  IsFiniteSet(asleep) /\ Cardinality(asleep) <= Cardinality(Threads)
BY SemAssumption, FS_Subset DEF TypeOK, SemAssumption

\* The places keep their meaning.
LEMMA ControlStep ==
  ASSUME IInv, Next
  PROVE  CallInv' /\ SleepInv'
<1> USE SemAssumption DEF Goto, Ops, Slow, Releasing, Announcing, word
<1>0. TypeOK /\ CallInv /\ SleepInv BY DEF IInv
<1>1. ASSUME NEW t \in Threads, Call(t) PROVE CallInv' /\ SleepInv'
  <2>1. ASSUME NEW o \in {"acquire", "try_acquire"}, op' = [op EXCEPT ![t] = o],
               pc' = [pc EXCEPT ![t] = "load"], amount' = amount
        PROVE  CallInv' /\ SleepInv'
    BY <1>0, <1>1, <2>1 DEF Call, TypeOK, CallInv, SleepInv
  <2>2. ASSUME NEW n \in Amounts, n <= spare, op' = [op EXCEPT ![t] = "release"],
               amount' = [amount EXCEPT ![t] = n],
               pc' = [pc EXCEPT ![t] = IF n = 0 THEN "return" ELSE "add"]
        PROVE  CallInv' /\ SleepInv'
    <3>1. n \in Nat /\ n \in 0 .. MaxPermits BY <1>0, <2>2 DEF SemAssumption, TypeOK
    <3>2. CASE n = 0 BY <1>0, <1>1, <2>2, <3>1, <3>2 DEF Call, TypeOK, CallInv, SleepInv
    <3>3. CASE n # 0 BY <1>0, <1>1, <2>2, <3>1, <3>3 DEF Call, TypeOK, CallInv, SleepInv
    <3> QED BY <3>2, <3>3
  <2>3. OpsOf[t] \subseteq Ops BY DEF SemAssumption
  <2> QED BY <1>1, <2>1, <2>2, <2>3 DEF Call
<1>2. ASSUME NEW t \in Threads, Load(t) PROVE CallInv' /\ SleepInv'
  <2>1. CASE permits = 0
    BY <1>0, <1>2, <2>1 DEF Load, Fail, TypeOK, CallInv, SleepInv
  <2>2. CASE permits # 0
    BY <1>0, <1>2, <2>2 DEF Load, TypeOK, CallInv, SleepInv
  <2> QED BY <2>1, <2>2
<1>3. ASSUME NEW t \in Threads, Cas(t) PROVE CallInv' /\ SleepInv'
  <2>1. CASE permits = cur[t]
    BY <1>0, <1>3, <2>1 DEF Cas, TypeOK, CallInv, SleepInv
  <2>2. CASE permits # cur[t] /\ (permits = 0 \/ op[t] = "try_acquire")
    BY <1>0, <1>3, <2>2 DEF Cas, Fail, TypeOK, CallInv, SleepInv
  <2>3. CASE permits # cur[t] /\ ~(permits = 0 \/ op[t] = "try_acquire")
    BY <1>0, <1>3, <2>3 DEF Cas, TypeOK, CallInv, SleepInv
  <2> QED BY <2>1, <2>2, <2>3
<1>4. ASSUME NEW t \in Threads, Enlist(t) \/ Delist(t) \/ Recheck(t) \/ Resume(t) \/ SpuriousWake(t)
      PROVE  CallInv' /\ SleepInv'
  BY <1>0, <1>4 DEF Enlist, Delist, Recheck, Resume, SpuriousWake, TypeOK, CallInv, SleepInv
<1>5. ASSUME NEW t \in Threads, Wait(t) PROVE CallInv' /\ SleepInv'
  <2>1. asleep' \in {asleep, asleep \cup {t}}
    BY <1>5 DEF Wait, WaitOf, LinuxWait, WindowsWait, AfterCompare
  <2>2. t \notin asleep BY <1>0, <1>5 DEF Wait, SleepInv
  <2>3. CASE asleep' = asleep BY <1>0, <1>5, <2>2, <2>3 DEF Wait, TypeOK, CallInv, SleepInv
  <2>4. CASE asleep' = asleep \cup {t} BY <1>0, <1>5, <2>4 DEF Wait, TypeOK, CallInv, SleepInv
  <2> QED BY <2>1, <2>3, <2>4
<1>6. ASSUME NEW t \in Threads, Add(t) \/ LoadWaiters(t) PROVE CallInv' /\ SleepInv'
  BY <1>0, <1>6 DEF Add, LoadWaiters, TypeOK, CallInv, SleepInv
<1>7. ASSUME NEW t \in Threads, WakeAll(t) PROVE CallInv' /\ SleepInv'
  <2>1. asleep' \subseteq asleep BY <1>0, <1>7, SleepersFinite, WakeLeaves DEF WakeAll, SleepInv
  <2> QED BY <1>0, <1>7, <2>1 DEF WakeAll, TypeOK, CallInv, SleepInv
<1>8. ASSUME NEW t \in Threads, WakeOne(t) PROVE CallInv' /\ SleepInv'
  <2>1. asleep' \subseteq asleep BY <1>0, <1>8, SleepersFinite, WakeLeaves DEF WakeOne, SleepInv
  <2> QED BY <1>0, <1>8, <2>1 DEF WakeOne, TypeOK, CallInv, SleepInv
<1>9. ASSUME NEW t \in Threads, Return(t) PROVE CallInv' /\ SleepInv'
  BY <1>0, <1>9 DEF Return, TypeOK, CallInv, SleepInv
<1> QED BY <1>1, <1>2, <1>3, <1>4, <1>5, <1>6, <1>7, <1>8, <1>9 DEF Next, Step

\* waiters stays exact: it is changed where a thread enters or leaves the
\* places it counts.
LEMMA CountStep ==
  ASSUME IInv, Next
  PROVE  CountInv' /\ waiters' \in Nat
<1> USE SemAssumption DEF Goto, Slow, word
<1>0. TypeOK /\ CallInv /\ CountInv /\ SleepInv BY DEF IInv
<1>1. IsFiniteSet(Counted) /\ Counted' \subseteq Threads
  <2>1. Counted \subseteq Threads BY DEF Counted
  <2> QED BY <2>1, FS_Subset DEF Counted, SemAssumption
<1>2. IsFiniteSet(Counted') /\ Cardinality(Counted') \in Nat
  BY <1>1, FS_Subset, FS_CardinalityType DEF SemAssumption
<1>3. ASSUME waiters' = waiters, Counted' = Counted PROVE CountInv' /\ waiters' \in Nat
  BY <1>0, <1>2, <1>3 DEF CountInv
<1>4. ASSUME NEW t \in Threads, Enlist(t) PROVE CountInv' /\ waiters' \in Nat
  <2>1. Counted' = Counted \cup {t} /\ t \notin Counted BY <1>0, <1>4 DEF Enlist, Counted, TypeOK
  <2>2. Cardinality(Counted') = Cardinality(Counted) + 1 BY <1>1, <2>1, FS_AddElement
  <2> QED BY <1>0, <1>2, <1>4, <2>2 DEF Enlist, CountInv
<1>5. ASSUME NEW t \in Threads, Delist(t) PROVE CountInv' /\ waiters' \in Nat
  <2>1. Counted' = Counted \ {t} /\ t \in Counted BY <1>0, <1>5 DEF Delist, Counted, TypeOK
  <2>2. Cardinality(Counted') = Cardinality(Counted) - 1 BY <1>1, <2>1, FS_RemoveElement
  <2> QED BY <1>0, <1>2, <1>5, <2>2 DEF Delist, CountInv
<1>6. ASSUME NEW t \in Threads, Call(t) PROVE CountInv' /\ waiters' \in Nat
  <2>1. /\ pc[t] = "idle" /\ pc'[t] \in {"load", "add", "return"} /\ waiters' = waiters
        /\ \A u \in Threads \ {t} : pc'[u] = pc[u]
    BY <1>0, <1>6 DEF Call, TypeOK
  <2>2. Counted' = Counted BY <2>1 DEF Counted
  <2> QED BY <1>3, <2>1, <2>2
<1>7. ASSUME NEW t \in Threads, Load(t) \/ Cas(t) PROVE CountInv' /\ waiters' \in Nat
  <2>1. Counted' = Counted /\ waiters' = waiters
    BY <1>0, <1>7 DEF Load, Cas, Fail, CallInv, Counted, TypeOK
  <2> QED BY <1>3, <2>1
<1>8. ASSUME NEW t \in Threads, SpuriousWake(t) \/ Recheck(t) \/ Wait(t) \/ Resume(t)
      PROVE  CountInv' /\ waiters' \in Nat
  <2>1. Counted' = Counted /\ waiters' = waiters
    BY <1>0, <1>8 DEF SpuriousWake, Recheck, Wait, Resume, Counted, TypeOK
  <2> QED BY <1>3, <2>1
<1>9. ASSUME NEW t \in Threads,
             Add(t) \/ LoadWaiters(t) \/ WakeAll(t) \/ WakeOne(t) \/ Return(t)
      PROVE  CountInv' /\ waiters' \in Nat
  <2>1. Counted' = Counted /\ waiters' = waiters
    BY <1>0, <1>9 DEF Add, LoadWaiters, WakeAll, WakeOne, Return, Counted, TypeOK
  <2> QED BY <1>3, <2>1
<1> QED BY <1>4, <1>5, <1>6, <1>7, <1>8, <1>9 DEF Next, Step

-----------------------------------------------------------------------------
(* Permits are conserved *)

\* What is counted is finite, before a step and after.
LEMMA Finite ==
  ASSUME NEW L
  PROVE  /\ IsFiniteSet(Awake) /\ Cardinality(Awake) \in Nat
         /\ IsFiniteSet(Awake') /\ Cardinality(Awake') \in Nat
         /\ IsFiniteSet(Held) /\ Cardinality(Held) \in Nat
         /\ IsFiniteSet(Held') /\ Cardinality(Held') \in Nat
         /\ IsFiniteSet(Pairs(L)) /\ Cardinality(Pairs(L)) \in Nat
         /\ IsFiniteSet(Pairs(L)') /\ Cardinality(Pairs(L)') \in Nat
<1>0. IsFiniteSet(Threads) BY SemAssumption DEF SemAssumption
<1>1. IsFiniteSet(Threads \X (1 .. MaxPermits))
  <2>1. MaxPermits \in Int BY SemAssumption DEF SemAssumption
  <2>2. IsFiniteSet(1 .. MaxPermits) BY <2>1, FS_Interval
  <2> QED BY <1>0, <2>2, FS_Product
<1>2. /\ Awake \subseteq Threads /\ Awake' \subseteq Threads
      /\ Held \subseteq Threads /\ Held' \subseteq Threads
  BY DEF Awake, Held
<1>3. /\ Pairs(L) \subseteq Threads \X (1 .. MaxPermits)
      /\ Pairs(L)' \subseteq Threads \X (1 .. MaxPermits)
  BY DEF Pairs
<1> QED BY <1>0, <1>1, <1>2, <1>3, FS_Subset, FS_CardinalityType

\* The pairs of one release are as many as its permits.
LEMMA Block ==
  ASSUME NEW t, NEW n \in Nat
  PROVE  IsFiniteSet({t} \X (1 .. n)) /\ Cardinality({t} \X (1 .. n)) = n
<1>1. IsFiniteSet(1 .. n) /\ Cardinality(1 .. n) = n
  <2>1. 1 \in Int /\ n \in Int OBVIOUS
  <2>2. /\ IsFiniteSet(1 .. n)
        /\ Cardinality(1 .. n) = IF 1 > n THEN 0 ELSE n - 1 + 1
    BY <2>1, FS_Interval
  <2> QED BY <2>2
<1>2. IsFiniteSet({t}) /\ Cardinality({t}) = 1 BY FS_Singleton
<1>3. /\ IsFiniteSet({t} \X (1 .. n))
      /\ Cardinality({t} \X (1 .. n)) = Cardinality({t}) * Cardinality(1 .. n)
  BY <1>1, <1>2, FS_Product
<1>4. Cardinality({t} \X (1 .. n)) = 1 * n BY <1>1, <1>2, <1>3
<1> QED BY <1>3, <1>4

LEMMA Disjoint ==
  ASSUME NEW A, NEW B, IsFiniteSet(A), IsFiniteSet(B), A \cap B = {}
  PROVE  Cardinality(A \cup B) = Cardinality(A) + Cardinality(B)
<1>1. Cardinality(A \cup B) = Cardinality(A) + Cardinality(B) - Cardinality(A \cap B)
  BY FS_Union
<1>2. Cardinality(A \cap B) = 0 BY FS_EmptySet
<1>3. Cardinality(A) \in Nat /\ Cardinality(B) \in Nat BY FS_CardinalityType
<1> QED BY <1>1, <1>2, <1>3

\* An acquire moves a permit to its caller, a release brings some back.
LEMMA ConserveStep ==
  ASSUME IInv, Next
  PROVE  Conserved' /\ permits' \in 0 .. MaxPermits /\ spare' \in 0 .. MaxPermits
<1> USE DEF Goto, word
<1> DEFINE Goal == Conserved' /\ permits' \in 0 .. MaxPermits /\ spare' \in 0 .. MaxPermits
<1>0. /\ TypeOK /\ CallInv /\ Conserved /\ MaxPermits \in Nat
      /\ permits \in Nat /\ spare \in Nat
      /\ Cardinality(Held) \in Nat /\ Cardinality(Adding) \in Nat
      /\ Cardinality(Held') \in Nat /\ Cardinality(Adding') \in Nat
      /\ IsFiniteSet(Adding) /\ IsFiniteSet(Adding')
  BY Finite, SemAssumption DEF IInv, TypeOK, SemAssumption, Adding
<1>1. ASSUME permits' \in Nat, spare' \in Nat,
             permits' + spare' + Cardinality(Held') + Cardinality(Adding') =
               permits + spare + Cardinality(Held) + Cardinality(Adding)
      PROVE  Goal
  BY <1>0, <1>1 DEF Conserved
<1>2. ASSUME permits' = permits, spare' = spare, Held' = Held, Adding' = Adding PROVE Goal
  BY <1>0, <1>1, <1>2
<1>3. ASSUME NEW t \in Threads, Call(t) PROVE Goal
  <2>1. permits' = permits /\ Held' = Held BY <1>3 DEF Call, Held
  <2>2. ASSUME NEW o \in Ops \ {"release"}, op' = [op EXCEPT ![t] = o],
               pc' = [pc EXCEPT ![t] = "load"], amount' = amount, spare' = spare
        PROVE  Goal
    <3>1. Adding' = Adding BY <1>0, <1>3, <2>2 DEF Call, TypeOK, Adding, Pairs
    <3> QED BY <1>2, <2>1, <2>2, <3>1
  <2>3. ASSUME NEW n \in Nat, n \in Amounts, n <= spare, spare' = spare - n,
               amount' = [amount EXCEPT ![t] = n],
               pc' = [pc EXCEPT ![t] = IF n = 0 THEN "return" ELSE "add"]
        PROVE  Goal
    <3>0. n \in Nat /\ n <= MaxPermits /\ pc[t] = "idle"
      BY <1>0, <1>3, <2>3, SemAssumption DEF Call, SemAssumption, TypeOK
    <3>1. CASE n = 0
      <4>1. Adding' = Adding BY <1>0, <2>3, <3>0, <3>1 DEF TypeOK, Adding, Pairs
      <4>2. spare' = spare BY <1>0, <2>3, <3>1
      <4> QED BY <1>2, <2>1, <4>1, <4>2
    <3>2. CASE n # 0
      <4>1. /\ pc'[t] = "add" /\ amount'[t] = n
            /\ \A u \in Threads \ {t} : pc'[u] = pc[u] /\ amount'[u] = amount[u]
        BY <1>0, <2>3, <3>2 DEF TypeOK
      <4>2. Adding' = ({t} \X (1 .. n)) \cup Adding
        <5>1. ASSUME NEW a \in Threads \X (1 .. MaxPermits)
              PROVE  a \in Adding' <=> a \in ({t} \X (1 .. n)) \cup Adding
          <6>1. CASE a[1] = t BY <3>0, <4>1, <5>1, <6>1 DEF Adding, Pairs
          <6>2. CASE a[1] # t BY <3>0, <4>1, <5>1, <6>2 DEF Adding, Pairs
          <6> QED BY <6>1, <6>2
        <5>2. Adding' \subseteq Threads \X (1 .. MaxPermits) BY DEF Adding, Pairs
        <5>3. ({t} \X (1 .. n)) \cup Adding \subseteq Threads \X (1 .. MaxPermits)
          BY <1>0, <3>0 DEF Adding, Pairs
        <5> QED BY <5>1, <5>2, <5>3
      <4>3. ({t} \X (1 .. n)) \cap Adding = {} BY <3>0 DEF Adding, Pairs
      <4>4. Cardinality(Adding') = n + Cardinality(Adding)
        <5>1. PICK own : own = {t} \X (1 .. n) /\ IsFiniteSet(own) /\ Cardinality(own) = n
          BY Block
        <5>2. own \cap Adding = {} /\ Adding' = own \cup Adding BY <4>2, <4>3, <5>1
        <5>3. Cardinality(own \cup Adding) = Cardinality(own) + Cardinality(Adding)
          BY <1>0, <5>1, <5>2, Disjoint
        <5> QED BY <5>1, <5>2, <5>3
      <4>5. spare' \in Nat /\ spare' = spare - n BY <1>0, <2>3, <3>0
      <4>6. permits' + spare' + Cardinality(Held') + Cardinality(Adding') =
              permits + spare + Cardinality(Held) + Cardinality(Adding)
        <5>1. Cardinality(Held') = Cardinality(Held) /\ permits' = permits BY <2>1
        <5>2. /\ permits \in Nat /\ spare \in Nat /\ spare' \in Nat /\ n \in Nat
              /\ Cardinality(Held) \in Nat /\ Cardinality(Adding) \in Nat
          BY <1>0, <3>0, <4>5
        <5> QED BY <4>4, <4>5, <5>1, <5>2
      <4> QED BY <1>0, <1>1, <2>1, <4>5, <4>6
    <3> QED BY <3>1, <3>2
  <2>4. OpsOf[t] \subseteq Ops BY SemAssumption DEF SemAssumption
  <2>5. Amounts \subseteq Nat BY SemAssumption DEF SemAssumption
  <2> QED BY <1>3, <2>2, <2>3, <2>4, <2>5 DEF Call
<1>4. ASSUME NEW t \in Threads, Load(t) PROVE Goal
  <2>1. permits' = permits /\ spare' = spare BY <1>4 DEF Load
  <2>2. Held' = Held BY <1>0, <1>4 DEF Load, Fail, CallInv, TypeOK, Held
  <2>3. Adding' = Adding BY <1>0, <1>4 DEF Load, Fail, TypeOK, Adding, Pairs
  <2> QED BY <1>2, <2>1, <2>2, <2>3
<1>5. ASSUME NEW t \in Threads, Cas(t) PROVE Goal
  <2>1. spare' = spare BY <1>5 DEF Cas
  <2>2. Adding' = Adding BY <1>0, <1>5 DEF Cas, Fail, TypeOK, Adding, Pairs
  <2>3. CASE permits = cur[t]
    <3>1. permits > 0 /\ permits' = permits - 1 /\ ret' = [ret EXCEPT ![t] = "ok"] /\ ret[t] = "none"
      BY <1>0, <1>5, <2>3 DEF Cas, CallInv
    <3>2. Held' = Held \cup {t} /\ t \notin Held BY <1>0, <3>1 DEF Held, TypeOK
    <3>3. Cardinality(Held') = Cardinality(Held) + 1 BY <3>2, Finite, FS_AddElement
    <3> QED BY <1>0, <1>1, <2>1, <2>2, <3>1, <3>3
  <2>4. CASE permits # cur[t]
    <3>1. permits' = permits BY <1>5, <2>4 DEF Cas
    <3>2. Held' = Held BY <1>0, <1>5, <2>4 DEF Cas, Fail, CallInv, TypeOK, Held
    <3> QED BY <1>2, <2>1, <2>2, <3>1, <3>2
  <2> QED BY <2>3, <2>4
<1>6. ASSUME NEW t \in Threads, Add(t) PROVE Goal
  <2>0. PICK n \in Nat : n = amount[t] /\ n <= MaxPermits /\ pc[t] = "add"
    BY <1>0, <1>6 DEF Add, CallInv
  <2>1. spare' = spare /\ Held' = Held /\ permits' = permits + n
    BY <1>6, <2>0 DEF Add, Held
  <2>2. /\ pc'[t] = "load_waiters" /\ amount' = amount
        /\ \A u \in Threads \ {t} : pc'[u] = pc[u]
    BY <1>0, <1>6 DEF Add, TypeOK
  <2>3. Adding = ({t} \X (1 .. n)) \cup Adding'
    <3>1. ASSUME NEW a \in Threads \X (1 .. MaxPermits)
          PROVE  a \in Adding <=> a \in ({t} \X (1 .. n)) \cup Adding'
      <4>1. CASE a[1] = t BY <2>0, <2>2, <3>1, <4>1 DEF Adding, Pairs
      <4>2. CASE a[1] # t BY <2>0, <2>2, <3>1, <4>2 DEF Adding, Pairs
      <4> QED BY <4>1, <4>2
    <3>2. Adding \subseteq Threads \X (1 .. MaxPermits) BY DEF Adding, Pairs
    <3>3. ({t} \X (1 .. n)) \cup Adding' \subseteq Threads \X (1 .. MaxPermits)
      BY <1>0, <2>0 DEF Adding, Pairs
    <3> QED BY <3>1, <3>2, <3>3
  <2>4. ({t} \X (1 .. n)) \cap Adding' = {} BY <2>2 DEF Adding, Pairs
  <2>5. Cardinality(Adding) = n + Cardinality(Adding')
    <3>1. PICK own : own = {t} \X (1 .. n) /\ IsFiniteSet(own) /\ Cardinality(own) = n
      BY Block
    <3>2. own \cap Adding' = {} /\ Adding = own \cup Adding' BY <2>3, <2>4, <3>1
    <3>3. Cardinality(own \cup Adding') = Cardinality(own) + Cardinality(Adding')
      BY <1>0, <3>1, <3>2, Disjoint
    <3> QED BY <3>1, <3>2, <3>3
  <2> QED BY <1>0, <1>1, <2>1, <2>5
<1>7. ASSUME NEW t \in Threads, Return(t) PROVE Goal
  <2>1. permits' = permits BY <1>7 DEF Return
  <2>2. Adding' = Adding BY <1>0, <1>7 DEF Return, TypeOK, Adding, Pairs
  <2>3. CASE ret[t] = "ok"
    <3>1. spare' = spare + 1 BY <1>0, <1>7, <2>3 DEF Return
    <3>2. Held' = Held \ {t} /\ t \in Held BY <1>0, <1>7, <2>3 DEF Return, TypeOK, Held
    <3>3. Cardinality(Held') = Cardinality(Held) - 1 BY <3>2, Finite, FS_RemoveElement
    <3> QED BY <1>0, <1>1, <2>1, <2>2, <3>1, <3>3
  <2>4. CASE ret[t] # "ok"
    <3>1. spare' = spare BY <1>0, <1>7, <2>4 DEF Return
    <3>2. Held' = Held BY <1>0, <1>7, <2>4 DEF Return, TypeOK, Held
    <3> QED BY <1>2, <2>1, <2>2, <3>1, <3>2
  <2> QED BY <2>3, <2>4
<1>8. ASSUME NEW t \in Threads,
             SpuriousWake(t) \/ Enlist(t) \/ Recheck(t) \/ Wait(t) \/ Resume(t) \/ Delist(t)
      PROVE  Goal
  <2>1. permits' = permits /\ spare' = spare /\ Held' = Held
    BY <1>8 DEF SpuriousWake, Enlist, Recheck, Wait, Resume, Delist, Held
  <2>2. Adding' = Adding
    BY <1>0, <1>8 DEF SpuriousWake, Enlist, Recheck, Wait, Resume, Delist, TypeOK, Adding, Pairs
  <2> QED BY <1>2, <2>1, <2>2
<1>9. ASSUME NEW t \in Threads, LoadWaiters(t) \/ WakeAll(t) \/ WakeOne(t) PROVE Goal
  <2>1. permits' = permits /\ spare' = spare /\ Held' = Held
    BY <1>9 DEF LoadWaiters, WakeAll, WakeOne, Held
  <2>2. Adding' = Adding
    BY <1>0, <1>9 DEF LoadWaiters, WakeAll, WakeOne, TypeOK, Adding, Pairs
  <2> QED BY <1>2, <2>1, <2>2
<1> QED BY <1>3, <1>4, <1>5, <1>6, <1>7, <1>8, <1>9 DEF Next, Step

-----------------------------------------------------------------------------
(* Types *)

LEMMA TypeStep ==
  ASSUME IInv, Next
  PROVE  TypeOK'
<1> USE DEF Goto, PCs, Ops, word
<1>0. TypeOK /\ CallInv BY DEF IInv
<1>1. permits' \in 0 .. MaxPermits /\ spare' \in 0 .. MaxPermits /\ waiters' \in Nat
  BY ConserveStep, CountStep
<1>2. ASSUME NEW t \in Threads, Call(t) PROVE TypeOK'
  <2>1. OpsOf[t] \subseteq Ops /\ Amounts \subseteq Nat BY SemAssumption DEF SemAssumption
  <2>2. /\ op' \in [Threads -> Ops \cup {"none"}] /\ pc' \in [Threads -> PCs]
        /\ amount' \in [Threads -> Nat]
    BY <1>0, <1>2, <2>1 DEF Call, TypeOK
  <2> QED BY <1>0, <1>1, <1>2, <2>2 DEF Call, TypeOK
<1>3. ASSUME NEW t \in Threads, Load(t) PROVE TypeOK'
  BY <1>0, <1>1, <1>3 DEF Load, Fail, TypeOK
<1>4. ASSUME NEW t \in Threads, Cas(t) PROVE TypeOK'
  BY <1>0, <1>1, <1>4 DEF Cas, Fail, Jostle, TypeOK
<1>5. ASSUME NEW t \in Threads,
             SpuriousWake(t) \/ Enlist(t) \/ Recheck(t) \/ Resume(t) \/ Delist(t)
      PROVE  TypeOK'
  BY <1>0, <1>1, <1>5 DEF SpuriousWake, Enlist, Recheck, Resume, Delist, TypeOK
<1>6. ASSUME NEW t \in Threads, Wait(t) PROVE TypeOK'
  <2>1. asleep' \subseteq Threads
    BY <1>0, <1>6 DEF Wait, WaitOf, LinuxWait, WindowsWait, AfterCompare, TypeOK
  <2> QED BY <1>0, <1>1, <1>6, <2>1 DEF Wait, TypeOK
<1>7. ASSUME NEW t \in Threads, Add(t) \/ LoadWaiters(t) \/ Return(t) PROVE TypeOK'
  <2>1. CASE Add(t) BY <1>0, <1>1, <2>1 DEF Add, Jostle, TypeOK
  <2>2. CASE LoadWaiters(t) BY <1>0, <1>1, <2>2 DEF LoadWaiters, TypeOK
  <2>3. CASE Return(t)
    <3>1. cur' \in [Threads -> 0 .. MaxPermits]
      <4>1. 0 \in 0 .. MaxPermits BY SemAssumption DEF SemAssumption
      <4> QED BY <1>0, <2>3, <4>1 DEF Return, TypeOK
    <3> QED BY <1>0, <1>1, <2>3, <3>1 DEF Return, TypeOK
  <2> QED BY <1>7, <2>1, <2>2, <2>3
<1>8. ASSUME NEW t \in Threads, WakeAll(t) PROVE TypeOK'
  <2>1. asleep' \subseteq asleep
    BY <1>0, <1>8, SleepersFinite, WakeLeaves DEF IInv, SleepInv, WakeAll
  <2> QED BY <1>0, <1>1, <1>8, <2>1 DEF WakeAll, TypeOK
<1>9. ASSUME NEW t \in Threads, WakeOne(t) PROVE TypeOK'
  <2>1. asleep' \subseteq asleep
    BY <1>0, <1>9, SleepersFinite, WakeLeaves DEF IInv, SleepInv, WakeOne
  <2>2. amount' \in [Threads -> Nat]
    <3>1. amount[t] \in Nat /\ amount[t] > 0
      BY <1>0, <1>9 DEF WakeOne, CallInv, Releasing, Announcing, TypeOK
    <3> QED BY <1>0, <1>9, <3>1 DEF WakeOne, TypeOK
  <2> QED BY <1>0, <1>1, <1>9, <2>1, <2>2 DEF WakeOne, TypeOK
<1> QED BY <1>2, <1>3, <1>4, <1>5, <1>6, <1>7, <1>8, <1>9 DEF Next, Step

\* Whoever changes the permits is seen by every try_acquire that expects
\* another value.
LEMMA SeenStep ==
  ASSUME IInv, Next
  PROVE  SeenInv'
<1> USE DEF Goto, word
<1>0. TypeOK /\ CallInv /\ SeenInv BY DEF IInv
<1>1. ASSUME NEW t \in Threads, Call(t) PROVE SeenInv'
  <2>1. /\ pc'[t] # "cas" /\ permits' = permits /\ cur' = cur /\ jostled' = jostled
        /\ \A u \in Threads \ {t} : pc'[u] = pc[u] /\ op'[u] = op[u]
    BY <1>0, <1>1 DEF Call, TypeOK
  <2> QED BY <1>0, <2>1 DEF SeenInv
<1>2. ASSUME NEW t \in Threads, Load(t) PROVE SeenInv'
  <2>1. /\ permits' = permits /\ op' = op
        /\ pc'[t] = "cas" => cur'[t] = permits
        /\ \A u \in Threads \ {t} :
             /\ pc'[u] = pc[u] /\ cur'[u] = cur[u]
             /\ u \in jostled => u \in jostled'
    BY <1>0, <1>2 DEF Load, Fail, TypeOK
  <2> QED BY <1>0, <2>1 DEF SeenInv
<1>3. ASSUME NEW t \in Threads, Cas(t) PROVE SeenInv'
  <2>1. CASE permits = cur[t]
    <3>1. /\ op' = op /\ cur' = cur /\ pc'[t] # "cas"
          /\ \A u \in Threads \ {t} :
               /\ pc'[u] = pc[u]
               /\ op[u] = "try_acquire" /\ ret[u] = "none" => u \in jostled'
      BY <1>0, <1>3, <2>1 DEF Cas, Jostle, TypeOK
    <3>2. \A u \in Threads : pc[u] = "cas" => ret[u] = "none" BY <1>0 DEF CallInv
    <3> QED BY <3>1, <3>2 DEF SeenInv
  <2>2. CASE permits # cur[t]
    <3>1. /\ permits' = permits /\ op' = op /\ cur'[t] = permits
          /\ \A u \in Threads \ {t} :
               /\ pc'[u] = pc[u] /\ cur'[u] = cur[u]
               /\ u \in jostled => u \in jostled'
      BY <1>0, <1>3, <2>2 DEF Cas, Fail, TypeOK
    <3> QED BY <1>0, <3>1 DEF SeenInv
  <2> QED BY <2>1, <2>2
<1>4. ASSUME NEW t \in Threads, Add(t) PROVE SeenInv'
  <2>1. /\ op' = op /\ cur' = cur /\ pc'[t] # "cas"
        /\ \A u \in Threads \ {t} :
             /\ pc'[u] = pc[u]
             /\ op[u] = "try_acquire" /\ ret[u] = "none" => u \in jostled'
    BY <1>0, <1>4 DEF Add, Jostle, TypeOK
  <2>2. \A u \in Threads : pc[u] = "cas" => ret[u] = "none" BY <1>0 DEF CallInv
  <2> QED BY <2>1, <2>2 DEF SeenInv
<1>5. ASSUME NEW t \in Threads,
             \/ SpuriousWake(t) \/ Enlist(t) \/ Recheck(t) \/ Wait(t) \/ Resume(t) \/ Delist(t)
             \/ LoadWaiters(t) \/ WakeAll(t) \/ WakeOne(t)
      PROVE  SeenInv'
  <2>1. permits' = permits /\ op' = op /\ cur' = cur /\ jostled' = jostled
    BY <1>5 DEF SpuriousWake, Enlist, Recheck, Wait, Resume, Delist, LoadWaiters, WakeAll, WakeOne
  <2>2. \A u \in Threads : pc'[u] = "cas" => pc[u] = "cas"
    BY <1>0, <1>5 DEF SpuriousWake, Enlist, Recheck, Wait, Resume, Delist, LoadWaiters,
       WakeAll, WakeOne, TypeOK
  <2> QED BY <1>0, <2>1, <2>2 DEF SeenInv
<1>6. ASSUME NEW t \in Threads, Return(t) PROVE SeenInv'
  <2>1. /\ permits' = permits /\ jostled' = jostled /\ pc'[t] # "cas"
        /\ \A u \in Threads \ {t} : pc'[u] = pc[u] /\ op'[u] = op[u] /\ cur'[u] = cur[u]
    BY <1>0, <1>6 DEF Return, TypeOK
  <2> QED BY <1>0, <2>1 DEF SeenInv
<1> QED BY <1>1, <1>2, <1>3, <1>4, <1>5, <1>6 DEF Next, Step

-----------------------------------------------------------------------------
(* The invariant *)

LEMMA InitIInv == Init => IInv
<1> SUFFICES ASSUME Init PROVE IInv OBVIOUS
<1> USE SemAssumption DEF SemAssumption, Init
<1>1. TypeOK BY DEF TypeOK, PCs
<1>2. CallInv /\ SleepInv /\ SeenInv
  BY DEF CallInv, Slow, Releasing, Announcing, SleepInv, SeenInv
<1>3. CountInv
  <2>1. Counted = {} BY DEF Counted, Slow
  <2> QED BY <2>1, FS_EmptySet DEF CountInv
<1>4. Conserved
  <2>1. Held = {} /\ Adding = {} BY DEF Held, Adding, Pairs
  <2>2. Cardinality(Held) = 0 /\ Cardinality(Adding) = 0 BY <2>1, FS_EmptySet
  <2> QED BY <2>2 DEF Conserved
<1> QED BY <1>1, <1>2, <1>3, <1>4 DEF IInv

\* The invariant holds throughout.
THEOREM Invariance == Spec => []IInv
<1>1. IInv /\ [Next]_vars => IInv'
  <2> SUFFICES ASSUME IInv, [Next]_vars PROVE IInv' OBVIOUS
  <2>1. CASE Next
    BY <2>1, ControlStep, CountStep, ConserveStep, TypeStep, SeenStep DEF IInv
  <2>2. CASE UNCHANGED vars
    BY <2>2 DEF vars, word, IInv, TypeOK, CallInv, SleepInv, CountInv, Counted, Conserved,
       Held, Adding, Pairs, SeenInv
  <2> QED BY <2>1, <2>2
<1> QED BY InitIInv, <1>1, PTL DEF Spec

\* waiters never wraps below zero and the word never exceeds MAX_PERMITS, so
\* the assertion of release holds, as long as callers release only what was
\* granted.
THEOREM TypeCorrect == Spec => []TypeOK
<1>1. IInv => TypeOK BY DEF IInv
<1> QED BY Invariance, <1>1, PTL

-----------------------------------------------------------------------------
(* Wake-ups *)

\* Permits stay covered when they do not grow and their cover does not shrink.
LEMMA Grow ==
  ASSUME Covered, TypeOK, TypeOK', permits' <= permits,
         Awake \subseteq Awake', Pairs(Announcing) \subseteq Pairs(Announcing)'
  PROVE  Covered'
<1>1. /\ Cardinality(Awake) <= Cardinality(Awake')
      /\ Cardinality(Pairs(Announcing)) <= Cardinality(Pairs(Announcing)')
  BY Finite, FS_Subset
<1> QED BY <1>1, Finite, SemAssumption DEF Covered, TypeOK, SemAssumption

\* A release brings its own cover.
LEMMA AddStep ==
  ASSUME IInv, TypeOK', Covered, NEW t \in Threads, Add(t)
  PROVE  Covered'
<1> USE DEF Goto
<1>0. TypeOK /\ CallInv BY DEF IInv
<1>1. PICK n \in Nat : n = amount[t] /\ n <= MaxPermits /\ pc[t] = "add"
  BY <1>0 DEF Add, CallInv
<1>2. /\ pc'[t] = "load_waiters" /\ amount' = amount /\ permits' = permits + n
      /\ asleep' = asleep
      /\ \A u \in Threads \ {t} : pc'[u] = pc[u]
  BY <1>0, <1>1 DEF Add, TypeOK
<1>3. Awake \subseteq Awake' BY <1>1, <1>2 DEF Awake, AwakeWaiter
<1>4. PICK own : own = {t} \X (1 .. n) /\ IsFiniteSet(own) /\ Cardinality(own) = n
  BY Block
<1>5. own \cap Pairs(Announcing) = {} BY <1>1, <1>4 DEF Pairs, Announcing
<1>6. own \cup Pairs(Announcing) \subseteq Pairs(Announcing)'
  <2>1. own \subseteq Pairs(Announcing)'
    BY <1>1, <1>2, <1>4, SemAssumption DEF Pairs, Announcing, SemAssumption
  <2>2. Pairs(Announcing) \subseteq Pairs(Announcing)' BY <1>1, <1>2 DEF Pairs, Announcing
  <2> QED BY <2>1, <2>2
<1>7. Cardinality(own \cup Pairs(Announcing)) = Cardinality(own) + Cardinality(Pairs(Announcing))
  BY <1>4, <1>5, Finite, Disjoint
<1>8. Cardinality(own \cup Pairs(Announcing)) <= Cardinality(Pairs(Announcing)')
  BY <1>6, Finite, FS_Subset
<1>9. Cardinality(Awake) <= Cardinality(Awake') BY <1>3, Finite, FS_Subset
<1> QED BY <1>0, <1>2, <1>4, <1>7, <1>8, <1>9, Finite, SemAssumption
        DEF Covered, TypeOK, SemAssumption

\* A wake-up that finds a sleeper makes it one that will look.
LEMMA WakeOneStep ==
  ASSUME IInv, TypeOK', Covered, NEW t \in Threads, WakeOne(t), asleep' # {}
  PROVE  Covered'
<1> USE DEF Goto
<1> DEFINE P == Pairs(Announcing)
<1> DEFINE last == <<t, amount[t]>>
<1>0. TypeOK /\ CallInv /\ SleepInv /\ pc[t] = "wake_one" BY DEF IInv, WakeOne
<1>1. PICK w \in asleep : asleep' = asleep \ {w}
  BY <1>0, SleepersFinite, WakeLeaves DEF WakeOne, SleepInv
<1>2. w \in Threads /\ pc[w] = "asleep" /\ w # t BY <1>0 DEF SleepInv, TypeOK
<1>3. /\ permits' = permits /\ amount'[t] = amount[t] - 1
      /\ pc'[t] = IF amount[t] = 1 THEN "return" ELSE "wake_one"
      /\ \A u \in Threads \ {t} : pc'[u] = pc[u] /\ amount'[u] = amount[u]
  BY <1>0 DEF WakeOne, TypeOK
<1>4. w \notin Awake /\ Awake \cup {w} \subseteq Awake'
  BY <1>0, <1>1, <1>2, <1>3 DEF Awake, AwakeWaiter
<1>5. Cardinality(Awake) + 1 <= Cardinality(Awake')
  <2>1. IsFiniteSet(Awake \cup {w}) /\ Cardinality(Awake \cup {w}) = Cardinality(Awake) + 1
    BY <1>4, Finite, FS_AddElement
  <2> QED BY <1>4, <2>1, Finite, FS_Subset
<1>6. P \subseteq P' \cup {last}
  <2>1. ASSUME NEW a \in P PROVE a \in P' \/ a = last
    <3>0. a \in Threads \X (1 .. MaxPermits) /\ a[2] <= amount[a[1]] /\ pc[a[1]] \in Announcing
      BY <2>1 DEF Pairs
    <3>1. CASE a[1] # t BY <1>3, <3>0, <3>1 DEF Pairs
    <3>2. CASE a[1] = t /\ a[2] # amount[t]
      <4>0. amount[t] \in Nat /\ a[2] \in Nat /\ a[2] > 0 BY <1>0, <3>0 DEF TypeOK
      <4>1. a[2] <= amount[t] - 1 /\ amount[t] # 1 BY <3>0, <3>2, <4>0
      <4> QED BY <1>3, <3>0, <3>2, <4>1 DEF Pairs, Announcing
    <3>3. CASE a[1] = t /\ a[2] = amount[t] BY <3>0, <3>3
    <3> QED BY <3>1, <3>2, <3>3
  <2> QED BY <2>1
<1>7. Cardinality(P) <= Cardinality(P') + 1
  <2>1. /\ IsFiniteSet(P) /\ IsFiniteSet(P')
        /\ Cardinality(P) \in Nat /\ Cardinality(P') \in Nat
    BY Finite
  <2> HIDE DEF P, last
  <2>2. /\ IsFiniteSet(P' \cup {last})
        /\ Cardinality(P' \cup {last}) =
             IF last \in P' THEN Cardinality(P') ELSE Cardinality(P') + 1
    BY <2>1, FS_AddElement
  <2>3. Cardinality(P' \cup {last}) <= Cardinality(P') + 1 BY <2>1, <2>2
  <2>4. Cardinality(P) <= Cardinality(P' \cup {last}) BY <1>6, <2>2, FS_Subset
  <2>5. Cardinality(P' \cup {last}) \in Nat BY <2>2, FS_CardinalityType
  <2> QED BY <2>1, <2>3, <2>4, <2>5
<1> QED BY <1>0, <1>3, <1>5, <1>7, Finite, SemAssumption DEF Covered, TypeOK, SemAssumption

\* A release that finds no waiter is not needed: nobody is counted, so nobody
\* sleeps.
LEMMA NobodyWaits ==
  ASSUME IInv, waiters = 0
  PROVE  asleep = {}
<1>1. Counted \subseteq Threads BY DEF Counted
<1>2. IsFiniteSet(Counted) BY <1>1, SemAssumption, FS_Subset DEF SemAssumption
<1>3. Counted = {} BY <1>2, FS_EmptySet DEF IInv, CountInv
<1> QED BY <1>3 DEF IInv, SleepInv, TypeOK, Counted, Slow

\* wake_all wakes all if it asks the kernel for enough.
LEMMA WakeAllStep ==
  ASSUME NrWake >= Cardinality(Threads), IInv, NEW t \in Threads, WakeAll(t)
  PROVE  asleep' = {}
<1>1. /\ IsFiniteSet(asleep) /\ Cardinality(asleep) <= Cardinality(Threads)
      /\ platform \in Platforms
  BY SleepersFinite DEF IInv, SleepInv
<1>2. Cardinality(asleep) \in Nat /\ Cardinality(Threads) \in Nat
  BY <1>1, FS_CardinalityType, SemAssumption DEF SemAssumption
<1>3. Cardinality(asleep) <= NrWake BY <1>1, <1>2, FutexAssumption DEF FutexAssumption
<1>4. CASE NrWake < 1
  <2>1. Cardinality(asleep) <= 1 BY <1>2, <1>3, <1>4, FutexAssumption DEF FutexAssumption
  <2> QED BY <1>1, <1>4, <2>1 DEF WakeAll, WakeAllOf, LinuxWakeAll, WindowsWakeAll,
             AfterFutexWake, Platforms
<1>5. CASE ~(NrWake < 1)
  BY <1>1, <1>3, <1>5 DEF WakeAll, WakeAllOf, LinuxWakeAll, WindowsWakeAll,
     AfterFutexWake, Platforms
<1> QED BY <1>4, <1>5

\* Permits stay covered while somebody sleeps.
LEMMA WakeStep ==
  ASSUME NrWake >= Cardinality(Threads), IInv, TypeOK', asleep # {} => Covered, Next,
         asleep' # {}
  PROVE  Covered'
<1> USE DEF Goto, word
<1>0. TypeOK /\ CallInv /\ SleepInv BY DEF IInv
<1>1. ASSUME NEW t \in Threads, Call(t) PROVE Covered'
  <2>1. /\ pc[t] = "idle" /\ permits' = permits /\ asleep' = asleep
        /\ \A u \in Threads \ {t} : pc'[u] = pc[u] /\ amount'[u] = amount[u]
    BY <1>0, <1>1 DEF Call, TypeOK
  <2>2. Awake \subseteq Awake' BY <2>1 DEF Awake, AwakeWaiter
  <2>3. Pairs(Announcing) \subseteq Pairs(Announcing)' BY <2>1 DEF Pairs, Announcing
  <2>4. permits' <= permits BY <1>0, <2>1 DEF TypeOK
  <2> QED BY <1>0, <2>1, <2>2, <2>3, <2>4, Grow
<1>2. ASSUME NEW t \in Threads, Load(t) PROVE Covered'
  <2>1. asleep' = asleep /\ permits' <= permits BY <1>0, <1>2 DEF Load, TypeOK
  <2>2. Awake \subseteq Awake'
    BY <1>0, <1>2 DEF Load, Fail, CallInv, Slow, Awake, AwakeWaiter, TypeOK
  <2>3. Pairs(Announcing) \subseteq Pairs(Announcing)'
    BY <1>0, <1>2 DEF Load, Fail, Pairs, Announcing, TypeOK
  <2> QED BY <1>0, <2>1, <2>2, <2>3, Grow
<1>3. ASSUME NEW t \in Threads, Cas(t) PROVE Covered'
  <2>0. asleep' = asleep BY <1>3 DEF Cas
  <2>1. Pairs(Announcing)' = Pairs(Announcing)
    BY <1>0, <1>3 DEF Cas, Fail, Pairs, Announcing, TypeOK
  <2>2. CASE permits = cur[t]
    <3>1. permits' = permits - 1 /\ Awake \ {t} \subseteq Awake'
      BY <1>0, <1>3, <2>2 DEF Cas, Awake, AwakeWaiter, TypeOK
    <3>2. Cardinality(Awake) - 1 <= Cardinality(Awake')
      <4>1. /\ IsFiniteSet(Awake \ {t})
            /\ Cardinality(Awake \ {t}) = IF t \in Awake THEN Cardinality(Awake) - 1
                                          ELSE Cardinality(Awake)
        BY Finite, FS_RemoveElement
      <4>2. Cardinality(Awake \ {t}) <= Cardinality(Awake') BY <3>1, Finite, FS_Subset
      <4> QED BY <4>1, <4>2, Finite
    <3> QED BY <1>0, <2>0, <2>1, <3>1, <3>2, Finite DEF Covered, TypeOK
  <2>3. CASE permits # cur[t]
    <3>1. permits' <= permits BY <1>0, <1>3, <2>3 DEF Cas, TypeOK
    <3>2. Awake \subseteq Awake'
      BY <1>0, <1>3, <2>3 DEF Cas, Fail, CallInv, Slow, Awake, AwakeWaiter, TypeOK
    <3> QED BY <1>0, <2>0, <2>1, <3>1, <3>2, Grow
  <2> QED BY <2>2, <2>3
<1>4. ASSUME NEW t \in Threads, Enlist(t) \/ Delist(t) \/ Recheck(t) \/ Resume(t) \/ Return(t)
      PROVE  Covered'
  <2>1. asleep' = asleep /\ permits' <= permits
    BY <1>0, <1>4 DEF Enlist, Delist, Recheck, Resume, Return, TypeOK
  <2>2. Awake \subseteq Awake'
    BY <1>0, <1>4 DEF Enlist, Delist, Recheck, Resume, Return, Awake, AwakeWaiter, TypeOK
  <2>3. Pairs(Announcing) \subseteq Pairs(Announcing)'
    BY <1>0, <1>4 DEF Enlist, Delist, Recheck, Resume, Return, Pairs, Announcing, TypeOK
  <2> QED BY <1>0, <2>1, <2>2, <2>3, Grow
<1>5. ASSUME NEW t \in Threads, SpuriousWake(t) PROVE Covered'
  <2>1. asleep # {} /\ permits' <= permits BY <1>0, <1>5 DEF SpuriousWake, TypeOK
  <2>2. Awake \subseteq Awake' BY <1>0, <1>5 DEF SpuriousWake, Awake, AwakeWaiter, TypeOK
  <2>3. Pairs(Announcing) \subseteq Pairs(Announcing)' BY <1>5 DEF SpuriousWake, Pairs
  <2> QED BY <1>0, <2>1, <2>2, <2>3, Grow
<1>6. ASSUME NEW t \in Threads, Wait(t) PROVE Covered'
  <2>1. CASE permits = 0 BY <1>0, <1>6, <2>1, Finite DEF Wait, Covered
  <2>2. CASE permits # 0
    <3>1. asleep' = asleep /\ permits' <= permits /\ pc' = [pc EXCEPT ![t] = "slow_load"]
      <4>1. asleep' = asleep
        BY <1>6, <2>2 DEF Wait, WaitOf, LinuxWait, WindowsWait, AfterCompare
      <4>2. t \notin asleep BY <1>0, <1>6 DEF Wait, SleepInv
      <4>3. pc' = [pc EXCEPT ![t] = "slow_load"] BY <1>6, <4>1, <4>2 DEF Wait
      <4>4. permits' <= permits BY <1>0, <1>6 DEF Wait, TypeOK
      <4> QED BY <4>1, <4>3, <4>4
    <3>2. Awake \subseteq Awake' BY <1>0, <1>6, <3>1 DEF Wait, Awake, AwakeWaiter, TypeOK
    <3>3. Pairs(Announcing) \subseteq Pairs(Announcing)'
      BY <1>0, <1>6, <3>1 DEF Wait, Pairs, Announcing, TypeOK
    <3> QED BY <1>0, <3>1, <3>2, <3>3, Grow
  <2> QED BY <2>1, <2>2
<1>7. ASSUME NEW t \in Threads, Add(t) PROVE Covered'
  BY <1>7, AddStep DEF Add
<1>8. ASSUME NEW t \in Threads, LoadWaiters(t) PROVE Covered'
  <2>1. asleep' = asleep /\ permits' <= permits BY <1>0, <1>8 DEF LoadWaiters, TypeOK
  <2>2. waiters # 0 BY <2>1, NobodyWaits
  <2>3. Awake \subseteq Awake' BY <1>0, <1>8 DEF LoadWaiters, Awake, AwakeWaiter, TypeOK
  <2>4. Pairs(Announcing) \subseteq Pairs(Announcing)'
    BY <1>0, <1>8, <2>2 DEF LoadWaiters, Pairs, Announcing, TypeOK
  <2> QED BY <1>0, <2>1, <2>3, <2>4, Grow
<1>9. ASSUME NEW t \in Threads, WakeAll(t) PROVE Covered' BY <1>9, WakeAllStep
<1>10. ASSUME NEW t \in Threads, WakeOne(t) PROVE Covered'
  <2>1. asleep' \subseteq asleep
    BY <1>0, <1>10, SleepersFinite, WakeLeaves DEF WakeOne, SleepInv
  <2> QED BY <1>10, <2>1, WakeOneStep
<1> QED BY <1>1, <1>2, <1>3, <1>4, <1>5, <1>6, <1>7, <1>8, <1>9, <1>10 DEF Next, Step

\* No wake-up is lost: while somebody sleeps, every free permit has a thread
\* that will look at it or a wake-up on its way, provided that wake_all asks
\* the kernel for as many threads as there are.
THEOREM WakeupSafety ==
  ASSUME NrWake >= Cardinality(Threads)
  PROVE  Spec => []PermitsHaveTakers
<1> DEFINE Inv == IInv /\ (asleep # {} => Covered)
<1>1. Init => Inv BY InitIInv DEF Init
<1>2. IInv /\ IInv' /\ Inv /\ [Next]_vars => Inv'
  <2> SUFFICES ASSUME IInv, IInv', Inv, [Next]_vars, asleep' # {} PROVE Covered' OBVIOUS
  <2>1. CASE Next BY <2>1, WakeStep DEF IInv
  <2>2. CASE UNCHANGED vars
    BY <2>2 DEF vars, word, Covered, Awake, AwakeWaiter, Pairs
  <2> QED BY <2>1, <2>2
<1>3. Inv => PermitsHaveTakers
  <2>1. Announced = Pairs(Announcing) BY DEF Announced, Pairs, Announcing
  <2> QED BY <2>1 DEF Covered, PermitsHaveTakers, Awake
<1> QED BY Invariance, <1>1, <1>2, <1>3, PTL DEF Spec

-----------------------------------------------------------------------------
(* Standstill *)

\* Where Step has nothing for the thread to do: outside a call, or in the
\* futex wait queue.  Everywhere else a disjunct of Step has its guard true.
Stuck(t) == pc[t] = "idle" \/ t \in asleep

\* If no thread can go on by itself, none is left in a call but an acquire
\* for which there is no permit.
StandstillIsSettled ==
  (\A t \in Threads : Stuck(t)) =>
    \A t \in Threads : pc[t] = "idle" \/ (pc[t] = "asleep" /\ permits = 0)

\* A stuck thread takes no step.
LEMMA StuckTakesNoStep ==
  ASSUME IInv, NEW t \in Threads, Stuck(t)
  PROVE  ~Step(t)
<1>1. pc[t] = "idle" \/ (pc[t] = "asleep" /\ t \in asleep) BY DEF IInv, SleepInv, Stuck
<1> QED
  BY <1>1 DEF Step, Load, Cas, Enlist, Recheck, Wait, Resume, Delist, Add, LoadWaiters,
     WakeAll, WakeOne, Return

\* What is left of CallsSettle when nobody moves, for any number of threads:
\* acquire_slow and release cannot bring each other to a state where a permit
\* is free, an acquire sleeps and nobody will wake it.
THEOREM NoDeadlock ==
  ASSUME NrWake >= Cardinality(Threads)
  PROVE  Spec => []StandstillIsSettled
<1>1. IInv /\ PermitsHaveTakers => StandstillIsSettled
  <2> SUFFICES ASSUME IInv, PermitsHaveTakers, \A t \in Threads : Stuck(t),
                      NEW s \in Threads, pc[s] # "idle"
               PROVE  pc[s] = "asleep" /\ permits = 0
    BY DEF StandstillIsSettled
  <2>0. TypeOK /\ SleepInv BY DEF IInv
  <2>1. s \in asleep BY DEF Stuck
  <2>2. \A t \in Threads : pc[t] = "idle" \/ (pc[t] = "asleep" /\ t \in asleep)
    BY <2>0 DEF SleepInv, Stuck
  <2>3. {t \in Threads : AwakeWaiter(t)} = {}
    <3>1. \A t \in Threads : ~AwakeWaiter(t) BY <2>2 DEF AwakeWaiter
    <3> QED BY <3>1
  <2>4. Announced = {}
    <3> SUFFICES ASSUME NEW a \in Announced PROVE FALSE OBVIOUS
    <3>1. a[1] \in Threads /\ pc[a[1]] \in {"load_waiters", "wake_all", "wake_one"}
      BY DEF Announced
    <3> QED BY <2>2, <3>1
  <2>5. permits <= 0 BY <2>1, <2>3, <2>4, FS_EmptySet DEF PermitsHaveTakers
  <2> QED BY <2>0, <2>1, <2>2, <2>5, SemAssumption DEF TypeOK, SemAssumption
<1> QED BY <1>1, Invariance, WakeupSafety, PTL

-----------------------------------------------------------------------------
(* Refinement *)

\* Every step is a step of the abstract semaphore, or leaves it as it is.
LEMMA AbstractStep ==
  ASSUME IInv, [Next]_vars
  PROVE  [Abstract!Next]_(Abstract!vars)
<1> USE DEF Goto, word
<1>0. /\ TypeOK /\ CallInv /\ SeenInv /\ Conserved
      /\ \A t \in Threads : amount[t] \in 0 .. MaxPermits
      /\ MaxPermits \in Nat /\ permits \in Nat
  BY SemAssumption DEF IInv, CallInv, TypeOK, SemAssumption
<1>1. AbsAmount \in [Threads -> 0 .. MaxPermits] BY <1>0 DEF AbsAmount
<1>2. ASSUME permits' = permits, op' = op, ret' = ret, AbsAmount' = AbsAmount, jostled' = jostled
      PROVE  UNCHANGED Abstract!vars
  BY <1>2 DEF Abstract!vars
<1>3. ASSUME NEW t \in Threads, Call(t) PROVE Abstract!Call(t)
  <2>0. op[t] = "none" /\ permits' = permits /\ ret' = ret /\ jostled' = jostled
    BY <1>0, <1>3 DEF Call, CallInv
  <2>1. ASSUME NEW o \in {"acquire", "try_acquire"}, op' = [op EXCEPT ![t] = o],
               pc' = [pc EXCEPT ![t] = "load"], amount' = amount
        PROVE  Abstract!Call(t)
    <3>1. AbsAmount' = [AbsAmount EXCEPT ![t] = 0]
      BY <1>0, <2>1 DEF AbsAmount, TypeOK
    <3>2. 0 \in 0 .. MaxPermits BY <1>0
    <3> QED BY <2>0, <2>1, <3>1, <3>2 DEF Abstract!Call
  <2>2. ASSUME NEW n \in Amounts, n <= spare, op' = [op EXCEPT ![t] = "release"],
               amount' = [amount EXCEPT ![t] = n],
               pc' = [pc EXCEPT ![t] = IF n = 0 THEN "return" ELSE "add"]
        PROVE  Abstract!Call(t)
    <3>1. n \in 0 .. MaxPermits BY <1>0, <2>2, SemAssumption DEF SemAssumption, TypeOK
    <3>2. AbsAmount' = [AbsAmount EXCEPT ![t] = n]
      <4>1. CASE n = 0 BY <1>0, <2>2, <4>1 DEF AbsAmount, TypeOK
      <4>2. CASE n # 0 BY <1>0, <2>2, <4>2 DEF AbsAmount, TypeOK
      <4> QED BY <4>1, <4>2
    <3> QED BY <2>0, <2>2, <3>1, <3>2 DEF Abstract!Call
  <2>3. OpsOf[t] \subseteq {"acquire", "try_acquire", "release"}
    BY SemAssumption DEF SemAssumption, Ops
  <2> QED BY <1>3, <2>1, <2>2, <2>3 DEF Call
<1>4. ASSUME NEW t \in Threads, Load(t)
      PROVE  Abstract!TryFails(t) \/ UNCHANGED Abstract!vars
  <2>1. AbsAmount' = AbsAmount BY <1>0, <1>4 DEF Load, Fail, AbsAmount, TypeOK
  <2>2. permits' = permits /\ op' = op BY <1>4 DEF Load
  <2>3. CASE permits = 0 /\ op[t] = "try_acquire"
    <3>1. ret[t] = "none" BY <1>0, <1>4 DEF Load, CallInv
    <3>2. ret' = [ret EXCEPT ![t] = "failed"] /\ jostled' = jostled \ {t}
      BY <1>4, <2>3 DEF Load, Fail
    <3> QED BY <2>1, <2>2, <2>3, <3>1, <3>2 DEF Abstract!TryFails, Abstract!Pending
  <2>4. CASE ~(permits = 0 /\ op[t] = "try_acquire")
    BY <1>2, <1>4, <2>1, <2>2, <2>4 DEF Load, Fail
  <2> QED BY <2>3, <2>4
<1>5. ASSUME NEW t \in Threads, Cas(t), permits = cur[t] PROVE Abstract!Acquire(t)
  <2>1. AbsAmount' = AbsAmount BY <1>0, <1>5 DEF Cas, AbsAmount, TypeOK
  <2>2. op[t] \in {"acquire", "try_acquire"} /\ ret[t] = "none" /\ permits > 0
    BY <1>0, <1>5 DEF Cas, CallInv, Slow
  <2>3. /\ permits' = permits - 1 /\ ret' = [ret EXCEPT ![t] = "ok"] /\ op' = op
        /\ Jostle(t)
    BY <1>5 DEF Cas
  <2> QED BY <2>1, <2>2, <2>3
          DEF Jostle, Abstract!Acquire, Abstract!Pending, Abstract!Change
<1>6. ASSUME NEW t \in Threads, Cas(t), permits # cur[t]
      PROVE  Abstract!TryFails(t) \/ UNCHANGED Abstract!vars
  <2>1. AbsAmount' = AbsAmount BY <1>0, <1>6 DEF Cas, Fail, AbsAmount, TypeOK
  <2>2. permits' = permits /\ op' = op BY <1>6 DEF Cas
  <2>3. CASE op[t] = "try_acquire"
    <3>1. pc[t] = "cas" /\ ret[t] = "none" /\ t \in jostled
      BY <1>0, <1>6, <2>3 DEF Cas, CallInv, Slow, SeenInv
    <3>2. ret' = [ret EXCEPT ![t] = "failed"] /\ jostled' = jostled \ {t}
      BY <1>6, <2>3 DEF Cas, Fail
    <3> QED BY <2>1, <2>2, <2>3, <3>1, <3>2 DEF Abstract!TryFails, Abstract!Pending
  <2>4. CASE op[t] # "try_acquire" BY <1>2, <1>6, <2>1, <2>2, <2>4 DEF Cas, Fail
  <2> QED BY <2>3, <2>4
<1>7. ASSUME NEW t \in Threads, Add(t) PROVE Abstract!Release(t)
  <2>0. PICK n \in Nat : n = amount[t] /\ n > 0 /\ n <= MaxPermits /\ pc[t] = "add"
    BY <1>0, <1>7 DEF Add, CallInv, Releasing
  <2>1. AbsAmount[t] = n BY <2>0 DEF AbsAmount
  <2>2. AbsAmount' = [AbsAmount EXCEPT ![t] = 0] BY <1>0, <1>7 DEF Add, AbsAmount, TypeOK
  <2>3. permits' = permits + n /\ op' = op /\ ret' = ret /\ Jostle(t)
    BY <1>7, <2>0 DEF Add
  <2>4. permits + n <= MaxPermits
    <3>1. permits' \in 0 .. MaxPermits BY <1>7, ConserveStep DEF Next, Step
    <3> QED BY <1>0, <2>3, <3>1
  <2>5. ~(permits + n > MaxPermits) BY <1>0, <2>0, <2>4
  <2> QED BY <2>0, <2>1, <2>2, <2>3, <2>5
          DEF Jostle, Abstract!Release, Abstract!Pending, Abstract!Change
<1>8. ASSUME NEW t \in Threads, Return(t) PROVE Abstract!Return(t)
  <2>1. AbsAmount[t] = 0 /\ AbsAmount' = AbsAmount BY <1>0, <1>8 DEF Return, AbsAmount, TypeOK
  <2>2. permits' = permits /\ jostled' = jostled BY <1>8 DEF Return
  <2> QED BY <1>0, <1>8, <2>1, <2>2 DEF Return, CallInv, Abstract!Return
<1>9. ASSUME NEW t \in Threads,
             \/ SpuriousWake(t) \/ Enlist(t) \/ Recheck(t) \/ Wait(t) \/ Resume(t)
             \/ Delist(t) \/ LoadWaiters(t) \/ WakeAll(t) \/ WakeOne(t)
      PROVE  UNCHANGED Abstract!vars
  <2>1. AbsAmount' = AbsAmount
    <3>1. CASE WakeOne(t)
      BY <1>0, <3>1 DEF WakeOne, AbsAmount, TypeOK
    <3>2. CASE ~WakeOne(t)
      BY <1>0, <1>9, <3>2 DEF SpuriousWake, Enlist, Recheck, Wait, Resume, Delist,
         LoadWaiters, WakeAll, AbsAmount, TypeOK
    <3> QED BY <3>1, <3>2
  <2>2. permits' = permits /\ op' = op /\ ret' = ret /\ jostled' = jostled
    BY <1>9 DEF SpuriousWake, Enlist, Recheck, Wait, Resume, Delist, LoadWaiters,
       WakeAll, WakeOne
  <2> QED BY <1>2, <2>1, <2>2
<1>10. ASSUME UNCHANGED vars PROVE UNCHANGED Abstract!vars
  BY <1>10 DEF vars, AbsAmount, Abstract!vars
<1>11. ASSUME NEW t \in Threads, Cas(t)
       PROVE  Abstract!Acquire(t) \/ Abstract!TryFails(t) \/ UNCHANGED Abstract!vars
  BY <1>5, <1>6, <1>11
<1> QED BY <1>3, <1>4, <1>7, <1>8, <1>9, <1>10, <1>11 DEF Next, Step, Abstract!Next

\* FutexSemaphore implements the abstract semaphore: no permit is granted
\* twice or lost, and a try_acquire that fails found no permit or saw the
\* permits change while it ran.
THEOREM Implementation == Spec => ImplementsSemaphore
<1>1. Init => Abstract!Init BY DEF Init, Abstract!Init, AbsAmount
<1>2. IInv /\ [Next]_vars => [Abstract!Next]_(Abstract!vars) BY AbstractStep
<1> QED BY <1>1, <1>2, Invariance, PTL DEF Spec, ImplementsSemaphore, Abstract!Spec

-----------------------------------------------------------------------------
(* The timeouts of the Windows shim *)

\* Division rounds up: the quotient covers n, and one less would not.
LEMMA DivCeilCovers ==
  ASSUME NEW n \in Nat, NEW d \in Nat \ {0}
  PROVE  /\ DivCeil(n, d) \in Nat
         /\ n <= DivCeil(n, d) * d
         /\ n > 0 => (DivCeil(n, d) - 1) * d < n /\ DivCeil(n, d) > 0
<1> DEFINE q == n \div d
           r == n % d
<1>1. q \in Nat /\ r \in 0 .. d - 1 /\ n = q * d + r
  BY SMT
<1>2. DivCeil(n, d) = IF r = 0 THEN q ELSE q + 1
  BY DEF DivCeil
<1> HIDE DEF q, r
<1>3. (q - 1) * d = q * d - d /\ (q + 1) * d = q * d + d /\ (q = 0 => q * d = 0)
  BY <1>1, SMT
<1>4. q * d \in Nat
  BY <1>1, SMT
<1>5. CASE r = 0
  BY <1>1, <1>2, <1>3, <1>4, <1>5, SMT
<1>6. CASE r # 0
  <2>1. DivCeil(n, d) = q + 1 /\ DivCeil(n, d) - 1 = q
    BY <1>1, <1>2, <1>6, SMT
  <2> QED BY <1>1, <1>3, <1>4, <1>6, <2>1, SMT
<1> QED BY <1>5, <1>6

\* wait_timeout of the Windows shim: a timed wait never polls and never
\* becomes an endless one; it is never shorter than it was asked to be, unless
\* that is beyond what a u32 of milliseconds holds, and never longer by a
\* millisecond unless it was asked for nothing.
THEOREM WindowsTimeoutSafe ==
  ASSUME NEW ns \in Nat
  PROVE  /\ WindowsTimeout(ns) \in 1 .. INFINITE - 1
         /\ \/ ns <= WindowsTimeout(ns) * NanosPerMilli
            \/ WindowsTimeout(ns) = INFINITE - 1
         /\ ns > 0 => (WindowsTimeout(ns) - 1) * NanosPerMilli < ns
<1> DEFINE m == NanosPerMilli
           ms == DivCeil(ns, m)
           w == WindowsTimeout(ns)
<1>1. m \in Nat \ {0}
  BY SMT DEF NanosPerMilli
<1>2. ms \in Nat /\ ns <= ms * m /\ (ns > 0 => (ms - 1) * m < ns /\ ms > 0)
  BY <1>1, DivCeilCovers
<1>3. w = IF ms < 1 THEN 1 ELSE IF ms > INFINITE - 1 THEN INFINITE - 1 ELSE ms
  BY DEF WindowsTimeout, Clamp
<1> HIDE DEF m, ms, w
<1>4. w \in 1 .. INFINITE - 1
  BY <1>2, <1>3, FutexAssumption, SMT
<1>5. ns <= w * m \/ w = INFINITE - 1
  <2>1. CASE ms < 1
    <3>1. ms = 0 /\ ms * m = 0
      BY <1>1, <1>2, <2>1, SMT
    <3>2. w = 1 /\ w * m = m
      BY <1>1, <1>3, <2>1, SMT
    <3> QED BY <1>1, <1>2, <3>1, <3>2, SMT
  <2>2. CASE ms > INFINITE - 1
    BY <1>2, <1>3, <2>2, FutexAssumption, SMT
  <2>3. CASE ~(ms < 1) /\ ~(ms > INFINITE - 1)
    BY <1>2, <1>3, <2>3
  <2> QED BY <2>1, <2>2, <2>3
<1>6. ASSUME ns > 0 PROVE (w - 1) * m < ns
  <2>1. ms \in Nat /\ ms > 0 /\ (ms - 1) * m < ns
    BY <1>2, <1>6
  <2>2. w \in Nat /\ w - 1 <= ms - 1
    BY <1>3, <2>1, FutexAssumption, SMT
  <2>3. (w - 1) * m <= (ms - 1) * m
    BY <1>1, <1>4, <2>1, <2>2, FutexAssumption, SMT
  <2>4. (w - 1) * m \in Int /\ (ms - 1) * m \in Int
    BY <1>1, <2>1, <2>2, SMT
  <2> QED BY <2>1, <2>3, <2>4, SMT
<1> QED BY <1>4, <1>5, <1>6 DEF m, w
=============================================================================

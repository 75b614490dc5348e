----------------------- MODULE CondvarSemaphoreProofs -----------------------
(***************************************************************************)
(* Theorems about CondvarSemaphore for any number of threads, any maximum    *)
(* and any amounts: types, the wake-ups, and that it implements Semaphore.  *)
(***************************************************************************)
EXTENDS CondvarSemaphore, FiniteSetTheorems, TLAPS

\* The places of acquire_slow, where the thread is counted in waiters.
Slow == {"lock", "slow_try", "recheck", "sleep", "asleep", "delist"}
Releasing == {"add", "load_waiters", "pass", "notify"}

\* What a place says of the method, its argument and its result.
CallInv == \A t \in Threads :
  /\ pc[t] = "idle" => op[t] = "none"
  /\ pc[t] = "try" => op[t] \in {"acquire", "try_acquire"}
  /\ pc[t] \in Slow \cup {"enlist"} => op[t] = "acquire"
  /\ pc[t] \in Releasing => op[t] = "release" /\ amount[t] > 0
  /\ pc[t] = "return" => op[t] = "release" \/ ret[t] # "none"
  /\ pc[t] \notin {"delist", "return"} => ret[t] = "none"
  /\ pc[t] = "delist" => ret[t] # "none"

\* The mutex excludes, and the wait set holds sleeping threads.
LockInv == \A t \in Threads : pc[t] \in {"slow_try", "recheck", "sleep"} => lock = t
SleepInv == \A t \in asleep : pc[t] = "asleep"

\* waiters is exact.
Counted == {t \in Threads : pc[t] \in Slow}
CountInv == waiters = Cardinality(Counted)

\* The free permits are covered by threads that will look and by releases at
\* the places in L.
Awake == {t \in Threads : AwakeWaiter(t)}
Pairs(L) == {a \in Threads \X (1 .. PermitMax) : pc[a[1]] \in L /\ a[2] <= amount[a[1]]}
Covered(L) == permits <= Cardinality(Awake) + Cardinality(Pairs(L))

ToNotify == {"load_waiters", "pass", "notify"}
ToPass == {"load_waiters", "pass"}

\* While somebody is between the second look and the sleep, the releases that
\* have passed the mutex do not count: they may notify before he sleeps.
NapInv == (\E t \in Threads : pc[t] = "sleep") => Covered(ToPass)
WakeInv == asleep # {} => Covered(ToNotify)

IInv == /\ TypeOK /\ CallInv /\ LockInv /\ SleepInv /\ CountInv
        /\ NapInv /\ WakeInv

\* What a release adds is a number of permits.
LEMMA AmountType ==
  ASSUME TypeOK, NEW t \in Threads
  PROVE  amount[t] \in 0 .. PermitMax /\ amount[t] \in Nat /\ PermitMax \in Nat
<1>1. amount[t] \in Amounts \cup {0} BY DEF TypeOK
<1>2. Amounts \subseteq 0 .. PermitMax /\ PermitMax \in Nat BY SemAssumption DEF SemAssumption
<1>3. amount[t] \in 0 .. PermitMax
  <2>1. CASE amount[t] = 0 BY <1>2, <2>1
  <2>2. CASE amount[t] \in Amounts BY <1>2, <2>2
  <2> QED BY <1>1, <2>1, <2>2
<1> QED BY <1>2, <1>3

-----------------------------------------------------------------------------
(* Control and types *)

\* The places keep their meaning, the mutex its owner, and the wait set its
\* members.
LEMMA ControlStep ==
  ASSUME IInv, Next
  PROVE  CallInv' /\ LockInv' /\ SleepInv'
<1> USE SemAssumption DEF At, Goto, Result, Ops, Slow, Releasing
<1>0. TypeOK /\ CallInv /\ LockInv /\ SleepInv BY DEF IInv
<1>1. ASSUME NEW t \in Threads, Call(t) PROVE CallInv' /\ LockInv' /\ SleepInv'
  <2>1. CASE \E o \in OpsOf[t] \ {"release"} :
               op' = [op EXCEPT ![t] = o] /\ pc' = [pc EXCEPT ![t] = "try"] /\ amount' = amount
    BY <1>0, <1>1, <2>1 DEF Call, TypeOK, CallInv, LockInv, SleepInv
  <2>2. ASSUME NEW n \in Amounts, op' = [op EXCEPT ![t] = "release"],
               amount' = [amount EXCEPT ![t] = n],
               pc' = [pc EXCEPT ![t] = IF n = 0 THEN "return" ELSE "add"]
        PROVE  CallInv' /\ LockInv' /\ SleepInv'
    <3>1. n \in Nat BY DEF SemAssumption
    <3>2. CASE n = 0
      BY <1>0, <1>1, <2>2, <3>1, <3>2 DEF Call, TypeOK, CallInv, LockInv, SleepInv
    <3>3. CASE n # 0
      BY <1>0, <1>1, <2>2, <3>1, <3>3 DEF Call, TypeOK, CallInv, LockInv, SleepInv
    <3> QED BY <3>2, <3>3
  <2> QED BY <1>1, <2>1, <2>2 DEF Call
<1>2. ASSUME NEW t \in Threads, Try(t) PROVE CallInv' /\ LockInv' /\ SleepInv'
  BY <1>0, <1>2 DEF Try, TypeOK, CallInv, LockInv, SleepInv
<1>3. ASSUME NEW t \in Threads, Enlist(t) \/ Delist(t) \/ Add(t) \/ SpuriousWake(t)
      PROVE  CallInv' /\ LockInv' /\ SleepInv'
  BY <1>0, <1>3 DEF Enlist, Delist, Add, SpuriousWake, TypeOK, CallInv, LockInv, SleepInv
<1>4. ASSUME NEW t \in Threads, Lock(t) PROVE CallInv' /\ LockInv' /\ SleepInv'
  BY <1>0, <1>4 DEF Lock, Woken, TypeOK, CallInv, LockInv, SleepInv
<1>5. ASSUME NEW t \in Threads, SlowTry(t) PROVE CallInv' /\ LockInv' /\ SleepInv'
  BY <1>0, <1>5 DEF SlowTry, TypeOK, CallInv, LockInv, SleepInv
<1>6. ASSUME NEW t \in Threads, Recheck(t) PROVE CallInv' /\ LockInv' /\ SleepInv'
  BY <1>0, <1>6 DEF Recheck, TypeOK, CallInv, LockInv, SleepInv
<1>7. ASSUME NEW t \in Threads, Sleep(t) PROVE CallInv' /\ LockInv' /\ SleepInv'
  BY <1>0, <1>7 DEF Sleep, TypeOK, CallInv, LockInv, SleepInv
<1>8. ASSUME NEW t \in Threads, LoadWaiters(t) \/ Pass(t) PROVE CallInv' /\ LockInv' /\ SleepInv'
  BY <1>0, <1>8 DEF LoadWaiters, Pass, TypeOK, CallInv, LockInv, SleepInv
<1>9. ASSUME NEW t \in Threads, Notify(t) PROVE CallInv' /\ LockInv' /\ SleepInv'
  <2>1. asleep' \subseteq asleep BY <1>9 DEF Notify
  <2> QED BY <1>0, <1>9, <2>1 DEF Notify, TypeOK, CallInv, LockInv, SleepInv
<1>10. ASSUME NEW t \in Threads, Return(t) PROVE CallInv' /\ LockInv' /\ SleepInv'
  BY <1>0, <1>10 DEF Return, TypeOK, CallInv, LockInv, SleepInv
<1> QED BY <1>1, <1>2, <1>3, <1>4, <1>5, <1>6, <1>7, <1>8, <1>9, <1>10 DEF Next, Step

\* waiters stays exact: it is changed where a thread enters or leaves the
\* places it counts.
LEMMA CountStep ==
  ASSUME IInv, Next
  PROVE  CountInv' /\ waiters' \in Nat
<1> USE SemAssumption DEF At, Goto, Slow
<1>0. TypeOK /\ CallInv /\ CountInv /\ SleepInv BY DEF IInv
<1>1. IsFiniteSet(Counted) /\ Counted' \subseteq Threads
  <2>1. Counted \subseteq Threads BY DEF Counted
  <2> QED BY <2>1, FS_Subset DEF Counted
<1>2. IsFiniteSet(Counted') /\ Cardinality(Counted') \in Nat BY <1>1, FS_Subset, FS_CardinalityType
<1>3. ASSUME waiters' = waiters, Counted' = Counted PROVE CountInv' /\ waiters' \in Nat
  BY <1>0, <1>2, <1>3 DEF CountInv
<1>4. ASSUME NEW t \in Threads, Enlist(t) PROVE CountInv' /\ waiters' \in Nat
  <2>1. Counted' = Counted \cup {t} /\ t \notin Counted BY <1>0, <1>4 DEF Enlist, Counted, TypeOK
  <2>2. Cardinality(Counted') = Cardinality(Counted) + 1 BY <1>1, <2>1, FS_AddElement
  <2> QED BY <1>0, <1>2, <1>4, <2>2 DEF Enlist, CountInv
<1>5. ASSUME NEW t \in Threads, Delist(t) PROVE CountInv' /\ waiters' \in Nat
  <2>1. Counted' = Counted \ {t} /\ t \in Counted BY <1>0, <1>5 DEF Delist, Counted, TypeOK
  <2>2. Cardinality(Counted') = Cardinality(Counted) - 1 BY <1>1, <2>1, FS_RemoveElement
  <2> QED BY <1>0, <1>2, <1>5, <2>2 DEF Delist, CountInv
<1>6. ASSUME NEW t \in Threads, Call(t) PROVE CountInv' /\ waiters' \in Nat
  <2>1. Counted' = Counted /\ waiters' = waiters BY <1>0, <1>6 DEF Call, Counted, TypeOK
  <2> QED BY <1>3, <2>1
<1>7. ASSUME NEW t \in Threads,
             SpuriousWake(t) \/ Try(t) \/ Lock(t) \/ SlowTry(t) \/ Recheck(t) \/ Sleep(t)
      PROVE  CountInv' /\ waiters' \in Nat
  <2>1. Counted' = Counted /\ waiters' = waiters
    BY <1>0, <1>7 DEF SpuriousWake, Try, Lock, Woken, SlowTry, Recheck, Sleep, Counted, TypeOK
  <2> QED BY <1>3, <2>1
<1>8. ASSUME NEW t \in Threads, Add(t) \/ LoadWaiters(t) \/ Pass(t) \/ Notify(t) \/ Return(t)
      PROVE  CountInv' /\ waiters' \in Nat
  <2>1. Counted' = Counted /\ waiters' = waiters
    BY <1>0, <1>8 DEF Add, LoadWaiters, Pass, Notify, Return, Counted, TypeOK
  <2> QED BY <1>3, <2>1
<1> QED BY <1>4, <1>5, <1>6, <1>7, <1>8 DEF Next, Step

\* Every variable keeps its type.
LEMMA TypeStep ==
  ASSUME IInv, Next
  PROVE  TypeOK'
<1> USE SemAssumption DEF At, Goto, Result, PCs, Ops
<1>0. TypeOK BY DEF IInv
<1>1. waiters' \in Nat BY CountStep
<1>2. ASSUME NEW t \in Threads, Call(t) PROVE TypeOK'
  <2>1. ASSUME NEW o \in Ops \ {"release"}, op' = [op EXCEPT ![t] = o],
               pc' = [pc EXCEPT ![t] = "try"], amount' = amount
        PROVE  TypeOK'
    BY <1>0, <1>1, <1>2, <2>1 DEF Call, TypeOK
  <2>2. ASSUME NEW n \in Amounts, op' = [op EXCEPT ![t] = "release"],
               amount' = [amount EXCEPT ![t] = n],
               pc' = [pc EXCEPT ![t] = IF n = 0 THEN "return" ELSE "add"]
        PROVE  TypeOK'
    BY <1>0, <1>1, <1>2, <2>2 DEF Call, TypeOK
  <2> QED BY <1>2, <2>1, <2>2 DEF Call
<1>3. ASSUME NEW t \in Threads, Try(t) \/ SlowTry(t) PROVE TypeOK'
  <2>1. permits' \in 0 .. PermitMax BY <1>0, <1>3 DEF TypeOK, Try, SlowTry
  <2> QED BY <1>0, <1>1, <1>3, <2>1 DEF TypeOK, Try, SlowTry
<1>4. ASSUME NEW t \in Threads, Add(t) PROVE TypeOK'
  <2>0. amount[t] \in Nat BY <1>0, AmountType
  <2>1. permits + amount[t] \in Nat BY <1>0, <2>0 DEF TypeOK
  <2>2. permits' \in 0 .. PermitMax BY <1>4, <2>1 DEF Add, Saturate, SemAssumption
  <2> QED BY <1>0, <1>1, <1>4, <2>2 DEF TypeOK, Add
<1>5. ASSUME NEW t \in Threads, SpuriousWake(t) \/ Enlist(t) \/ Lock(t) \/ Recheck(t) \/ Sleep(t) \/ Delist(t)
      PROVE  TypeOK'
  BY <1>0, <1>1, <1>5 DEF TypeOK, SpuriousWake, Enlist, Lock, Recheck, Sleep, Delist
<1>6. ASSUME NEW t \in Threads, LoadWaiters(t) \/ Pass(t) \/ Return(t) PROVE TypeOK'
  BY <1>0, <1>1, <1>6 DEF TypeOK, LoadWaiters, Pass, Return
<1>7. ASSUME NEW t \in Threads, Notify(t) PROVE TypeOK'
  <2>1. asleep' \subseteq asleep BY <1>7 DEF Notify
  <2> QED BY <1>0, <1>1, <1>7, <2>1 DEF TypeOK, Notify
<1> QED BY <1>2, <1>3, <1>4, <1>5, <1>6, <1>7 DEF Next, Step

-----------------------------------------------------------------------------
(* Wake-ups *)

\* What is counted is finite, before a step and after.
LEMMA Finite ==
  ASSUME NEW L
  PROVE  /\ IsFiniteSet(Awake) /\ Cardinality(Awake) \in Nat
         /\ IsFiniteSet(Pairs(L)) /\ Cardinality(Pairs(L)) \in Nat
         /\ IsFiniteSet(Awake') /\ Cardinality(Awake') \in Nat
         /\ IsFiniteSet(Pairs(L)') /\ Cardinality(Pairs(L)') \in Nat
<1>1. IsFiniteSet(Threads \X (1 .. PermitMax))
  <2>1. PermitMax \in Int BY SemAssumption
  <2>2. IsFiniteSet(1 .. PermitMax) BY <2>1, FS_Interval
  <2> QED BY <2>2, SemAssumption, FS_Product
<1>2. Awake \subseteq Threads /\ Awake' \subseteq Threads BY DEF Awake
<1>3. /\ Pairs(L) \subseteq Threads \X (1 .. PermitMax)
      /\ Pairs(L)' \subseteq Threads \X (1 .. PermitMax)
  BY DEF Pairs
<1> QED BY <1>1, <1>2, <1>3, SemAssumption, FS_Subset, FS_CardinalityType

\* Permits stay covered when they do not grow and their cover does not shrink.
LEMMA Grow ==
  ASSUME NEW L, Covered(L), TypeOK, TypeOK',
         permits' <= permits, Awake \subseteq Awake', Pairs(L) \subseteq Pairs(L)'
  PROVE  Covered(L)'
<1>1. /\ Cardinality(Awake) <= Cardinality(Awake')
      /\ Cardinality(Pairs(L)) <= Cardinality(Pairs(L)')
  BY Finite, FS_Subset
<1> QED BY <1>1, Finite, SemAssumption DEF Covered, TypeOK

\* Steps that neither add permits nor take a thread or a release out of the
\* cover.
LEMMA QuietStep ==
  ASSUME IInv, TypeOK', NEW t \in Threads, NEW L \in {ToNotify, ToPass}, Covered(L),
         \/ Call(t) \/ SpuriousWake(t) \/ Try(t) \/ Enlist(t) \/ Lock(t)
         \/ Sleep(t) \/ Delist(t) \/ Return(t)
  PROVE  Covered(L)'
<1> USE DEF At, Goto, Result
<1>0. TypeOK /\ CallInv /\ SleepInv /\ Covered(L) BY DEF IInv
<1>1. CASE Call(t)
  <2>1. /\ pc[t] = "idle" /\ pc' \in [Threads -> PCs] /\ permits' = permits /\ asleep' = asleep
        /\ \A u \in Threads \ {t} : pc'[u] = pc[u] /\ amount'[u] = amount[u]
    BY <1>0, <1>1 DEF Call, TypeOK
  <2>2. Awake \subseteq Awake' BY <2>1 DEF Awake, AwakeWaiter, Woken
  <2>3. Pairs(L) \subseteq Pairs(L)' BY <2>1 DEF Pairs, ToNotify, ToPass
  <2>4. permits' <= permits BY <1>0, <2>1 DEF TypeOK, SemAssumption
  <2> QED BY <1>0, <2>2, <2>3, <2>4, Grow
<1>2. CASE SpuriousWake(t) \/ Try(t) \/ Enlist(t) \/ Lock(t) \/ Sleep(t) \/ Delist(t) \/ Return(t)
  <2>1. Awake \subseteq Awake'
    BY <1>0, <1>2 DEF SpuriousWake, Try, Enlist, Lock, Sleep, Delist, Return,
       Awake, AwakeWaiter, Woken, TypeOK, SleepInv
  <2>2. Pairs(L) \subseteq Pairs(L)'
    BY <1>0, <1>2 DEF SpuriousWake, Try, Enlist, Lock, Woken, Sleep, Delist, Return,
       Pairs, ToNotify, ToPass, TypeOK
  <2>3. permits' <= permits
    BY <1>0, <1>2 DEF SpuriousWake, Try, Enlist, Lock, Sleep, Delist, Return, TypeOK, SemAssumption
  <2> QED BY <1>0, <2>1, <2>2, <2>3, Grow
<1> QED BY <1>1, <1>2

\* A thread that takes a permit under the mutex, or finds none, or looks
\* again: a cover that loses a thread loses a permit with it.
LEMMA LookStep ==
  ASSUME IInv, TypeOK', NEW t \in Threads, NEW L \in {ToNotify, ToPass}, Covered(L),
         SlowTry(t)
  PROVE  Covered(L)'
<1> USE DEF At, Goto, Result
<1>0. TypeOK /\ Covered(L) BY DEF IInv
<1>1. Pairs(L)' = Pairs(L) BY <1>0 DEF SlowTry, Pairs, ToNotify, ToPass, TypeOK
<1>2. CASE permits > 0 /\ permits' = permits - 1 /\ pc' = [pc EXCEPT ![t] = "delist"]
  <2>1. Awake' = Awake \ {t} /\ t \in Awake
    BY <1>0, <1>2 DEF SlowTry, Awake, AwakeWaiter, Woken, TypeOK
  <2>2. Cardinality(Awake') = Cardinality(Awake) - 1 BY <2>1, Finite, FS_RemoveElement
  <2> QED BY <1>0, <1>1, <1>2, <2>2, Finite, SemAssumption DEF Covered, TypeOK
<1>3. CASE pc' = [pc EXCEPT ![t] = "recheck"] /\ permits' = permits
  <2>1. Awake \subseteq Awake' BY <1>0, <1>3 DEF SlowTry, Awake, AwakeWaiter, Woken, TypeOK
  <2>2. permits' <= permits BY <1>0, <1>3 DEF TypeOK, SemAssumption
  <2> QED BY <1>0, <1>1, <2>1, <2>2, Grow
<1> QED BY <1>2, <1>3 DEF SlowTry

\* The second look: whoever goes to sleep has seen no permit.
LEMMA RecheckStep ==
  ASSUME IInv, TypeOK', NEW t \in Threads, NEW L \in {ToNotify, ToPass}, Recheck(t)
  PROVE  /\ Covered(L) => Covered(L)'
         /\ pc'[t] = "sleep" => Covered(L)'
<1> USE DEF At, Goto
<1>0. TypeOK BY DEF IInv
<1>1. CASE permits = 0
  BY <1>0, <1>1, Finite DEF Recheck, Covered
<1>2. CASE permits > 0
  <2>1. pc' = [pc EXCEPT ![t] = "lock"] BY <1>0, <1>2 DEF Recheck, TypeOK, SemAssumption
  <2>2. Awake \subseteq Awake' BY <1>0, <2>1 DEF Recheck, Awake, AwakeWaiter, Woken, TypeOK
  <2>3. Pairs(L) \subseteq Pairs(L)' BY <1>0, <2>1 DEF Recheck, Pairs, ToNotify, ToPass, TypeOK
  <2>4. permits' <= permits BY <1>0 DEF Recheck, TypeOK, SemAssumption
  <2>5. Covered(L) => Covered(L)' BY <1>0, <2>2, <2>3, <2>4, Grow
  <2> QED BY <1>0, <2>1, <2>5 DEF TypeOK
<1> QED BY <1>0, <1>1, <1>2 DEF TypeOK, SemAssumption

\* A release brings its own cover.
LEMMA AddStep ==
  ASSUME IInv, TypeOK', NEW t \in Threads, NEW L \in {ToNotify, ToPass}, Covered(L), Add(t)
  PROVE  Covered(L)'
<1> USE DEF At, Goto
<1> DEFINE own == {t} \X (1 .. amount[t])
<1>0. /\ TypeOK /\ Covered(L) /\ pc[t] = "add"
      /\ amount[t] \in 0 .. PermitMax /\ amount[t] \in Nat /\ PermitMax \in Nat
  BY AmountType DEF IInv, Add
<1>1. Awake' = Awake BY <1>0 DEF Add, Awake, AwakeWaiter, Woken, TypeOK
<1>2. own \subseteq Pairs(L)' /\ Pairs(L) \subseteq Pairs(L)' /\ own \cap Pairs(L) = {}
  <2>1. /\ \A u \in Threads : amount'[u] = amount[u] /\ (u # t => pc'[u] = pc[u])
        /\ pc'[t] = "load_waiters"
    BY <1>0 DEF Add, TypeOK
  <2>2. Pairs(L) \subseteq Pairs(L)'
    BY <1>0, <2>1 DEF Pairs, ToNotify, ToPass
  <2>3. own \cap Pairs(L) = {} BY <1>0 DEF Pairs, ToNotify, ToPass
  <2>4. own \subseteq Pairs(L)'
    BY <1>0, <2>1, SemAssumption DEF Pairs, ToNotify, ToPass
  <2> QED BY <2>2, <2>3, <2>4
<1>3. IsFiniteSet(own) /\ Cardinality(own) = amount[t]
  <2>1. IsFiniteSet(1 .. amount[t]) /\ Cardinality(1 .. amount[t]) = amount[t]
    <3>1. 1 \in Int /\ amount[t] \in Int BY <1>0
    <3>2. /\ IsFiniteSet(1 .. amount[t])
          /\ Cardinality(1 .. amount[t]) = IF 1 > amount[t] THEN 0 ELSE amount[t] - 1 + 1
      BY <3>1, FS_Interval
    <3> QED BY <1>0, <3>2
  <2>2. IsFiniteSet({t}) /\ Cardinality({t}) = 1 BY FS_Singleton
  <2>3. /\ IsFiniteSet(own)
        /\ Cardinality(own) = Cardinality({t}) * Cardinality(1 .. amount[t])
    <3> HIDE DEF Goto
    <3>1. QED BY <2>1, <2>2, FS_Product
  <2> QED BY <1>0, <2>1, <2>2, <2>3
<1>4. Cardinality(own \cup Pairs(L)) = amount[t] + Cardinality(Pairs(L))
  <2>1. IsFiniteSet(Pairs(L)) /\ Cardinality(Pairs(L)) \in Nat BY Finite
  <2>2. Cardinality(own \cup Pairs(L)) =
          Cardinality(own) + Cardinality(Pairs(L)) - Cardinality(own \cap Pairs(L))
    BY <1>3, <2>1, FS_Union
  <2>3. Cardinality(own \cap Pairs(L)) = 0 BY <1>2, FS_EmptySet
  <2> HIDE DEF own
  <2> QED BY <1>0, <1>3, <2>1, <2>2, <2>3
<1>5. Cardinality(own \cup Pairs(L)) <= Cardinality(Pairs(L)')
  BY <1>2, Finite, FS_Subset
<1>6. permits' <= permits + amount[t] BY <1>0, SemAssumption DEF Add, Saturate, TypeOK
<1> QED BY <1>0, <1>1, <1>4, <1>5, <1>6, Finite, SemAssumption DEF Covered, TypeOK

\* A release that finds no waiter is not needed: nobody is counted, so nobody
\* sleeps or is about to.
LEMMA NobodyWaits ==
  ASSUME IInv, waiters = 0
  PROVE  asleep = {} /\ \A t \in Threads : pc[t] # "sleep"
<1>1. Counted \subseteq Threads BY DEF Counted
<1>2. IsFiniteSet(Counted) BY <1>1, SemAssumption, FS_Subset
<1>3. Counted = {} BY <1>2, FS_EmptySet DEF IInv, CountInv
<1> QED BY <1>3 DEF IInv, SleepInv, TypeOK, Counted, Slow

\* A notification makes a sleeper one that will look.
LEMMA NotifyStep ==
  ASSUME IInv, TypeOK', NEW t \in Threads, Notify(t)
  PROVE  /\ Covered(ToPass) => Covered(ToPass)'
         /\ asleep' # {} => Covered(ToNotify)'
<1> USE DEF At, Goto
<1>0. TypeOK /\ SleepInv /\ CallInv /\ WakeInv /\ pc[t] = "notify" /\ permits' = permits
      /\ amount[t] \in 1 .. PermitMax
  BY SemAssumption DEF IInv, Notify, CallInv, Releasing, TypeOK
<1>1. asleep' \subseteq asleep BY DEF Notify
<1>2. Awake \subseteq Awake' BY <1>0, <1>1 DEF Notify, Awake, AwakeWaiter, Woken, TypeOK
<1>3. Pairs(ToPass) \subseteq Pairs(ToPass)' BY <1>0 DEF Notify, Pairs, ToPass, TypeOK
<1>4. permits' <= permits BY <1>0, SemAssumption DEF TypeOK
<1>5. Covered(ToPass) => Covered(ToPass)' BY <1>0, <1>2, <1>3, <1>4, Grow
<1>6. ASSUME asleep' # {} PROVE Covered(ToNotify)'
  <2>1. PICK w \in asleep : asleep' = asleep \ {w} /\ amount[t] = 1
    BY <1>0, <1>6, SemAssumption DEF Notify
  <2>2. Covered(ToNotify) BY <1>0, <2>1 DEF WakeInv
  <2>3. w \in Threads /\ pc[w] = "asleep" /\ w # t BY <1>0, <2>1 DEF SleepInv, TypeOK
  <2>4. w \notin Awake /\ Awake \cup {w} \subseteq Awake'
    BY <1>0, <1>2, <2>1, <2>3 DEF Notify, Awake, AwakeWaiter, Woken, TypeOK
  <2>5. Cardinality(Awake) + 1 <= Cardinality(Awake')
    <3>1. IsFiniteSet(Awake \cup {w}) /\ Cardinality(Awake \cup {w}) = Cardinality(Awake) + 1
      BY <2>4, Finite, FS_AddElement
    <3> QED BY <2>4, <3>1, Finite, FS_Subset
  <2>6. Pairs(ToNotify) \subseteq Pairs(ToNotify)' \cup {<<t, 1>>}
    <3>1. /\ \A u \in Threads : amount'[u] = amount[u] /\ (u # t => pc'[u] = pc[u])
      BY <1>0 DEF Notify, TypeOK
    <3>2. ASSUME NEW a \in Pairs(ToNotify) PROVE a \in Pairs(ToNotify)' \/ a = <<t, 1>>
      <4>1. a \in Threads \X (1 .. PermitMax) /\ a[2] <= amount[a[1]] /\ pc[a[1]] \in ToNotify
        BY <3>2 DEF Pairs
      <4>2. CASE a[1] = t BY <2>1, <4>1, <4>2, SemAssumption
      <4>3. CASE a[1] # t BY <3>1, <4>1, <4>3 DEF Pairs
      <4> QED BY <4>2, <4>3
    <3> QED BY <3>2
  <2>7. Cardinality(Pairs(ToNotify)) <= Cardinality(Pairs(ToNotify)') + 1
    <3>1. /\ IsFiniteSet(Pairs(ToNotify)' \cup {<<t, 1>>})
          /\ Cardinality(Pairs(ToNotify)' \cup {<<t, 1>>}) <= Cardinality(Pairs(ToNotify)') + 1
      <4>1. IsFiniteSet(Pairs(ToNotify)') /\ Cardinality(Pairs(ToNotify)') \in Nat BY Finite
      <4>2. /\ IsFiniteSet(Pairs(ToNotify)' \cup {<<t, 1>>})
            /\ Cardinality(Pairs(ToNotify)' \cup {<<t, 1>>}) =
                 IF <<t, 1>> \in Pairs(ToNotify)' THEN Cardinality(Pairs(ToNotify)')
                 ELSE Cardinality(Pairs(ToNotify)') + 1
        BY <4>1, FS_AddElement
      <4> QED BY <4>1, <4>2
    <3>2. Cardinality(Pairs(ToNotify)) <= Cardinality(Pairs(ToNotify)' \cup {<<t, 1>>})
      BY <2>6, <3>1, FS_Subset
    <3>3. Cardinality(Pairs(ToNotify)' \cup {<<t, 1>>}) \in Nat BY <3>1, FS_CardinalityType
    <3> QED BY <3>1, <3>2, <3>3, Finite
  <2> QED BY <1>0, <2>2, <2>5, <2>7, Finite, SemAssumption DEF Covered, TypeOK
<1> QED BY <1>5, <1>6

\* Covered stays true of whoever sleeps, or is about to.
LEMMA WakeStep ==
  ASSUME IInv, TypeOK', Next
  PROVE  NapInv' /\ WakeInv'
<1> USE DEF At, Goto
<1>0. TypeOK /\ LockInv /\ NapInv /\ WakeInv /\ TypeOK' BY DEF IInv
<1>1. ASSUME asleep' \subseteq asleep,
             \A t \in Threads : pc'[t] = "sleep" => pc[t] = "sleep",
             \A L \in {ToNotify, ToPass} : Covered(L) => Covered(L)'
      PROVE  NapInv' /\ WakeInv'
  BY <1>0, <1>1 DEF NapInv, WakeInv
<1>2. ASSUME NEW t \in Threads,
             \/ Call(t) \/ SpuriousWake(t) \/ Try(t) \/ Enlist(t) \/ Lock(t)
             \/ Delist(t) \/ Return(t)
      PROVE  NapInv' /\ WakeInv'
  <2>1. \A L \in {ToNotify, ToPass} : Covered(L) => Covered(L)' BY <1>0, <1>2, QuietStep
  <2>2. asleep' \subseteq asleep
    BY <1>2 DEF Call, SpuriousWake, Try, Enlist, Lock, Delist, Return
  <2>3. \A u \in Threads : pc'[u] = "sleep" => pc[u] = "sleep"
    <3>1. CASE Call(t)
      <4>1. pc'[t] # "sleep" /\ \A u \in Threads \ {t} : pc'[u] = pc[u]
        BY <1>0, <3>1 DEF Call, TypeOK
      <4> QED BY <4>1
    <3>2. CASE ~Call(t)
      BY <1>0, <1>2, <3>2 DEF SpuriousWake, Try, Enlist, Lock, Delist, Return, TypeOK
    <3> QED BY <3>1, <3>2
  <2> QED BY <1>1, <2>1, <2>2, <2>3
<1>3. ASSUME NEW t \in Threads, SlowTry(t) \/ Add(t) PROVE NapInv' /\ WakeInv'
  <2>1. \A L \in {ToNotify, ToPass} : Covered(L) => Covered(L)' BY <1>0, <1>3, LookStep, AddStep
  <2>2. asleep' = asleep /\ \A u \in Threads : pc'[u] = "sleep" => pc[u] = "sleep"
    BY <1>0, <1>3 DEF SlowTry, Add, TypeOK
  <2> QED BY <1>1, <2>1, <2>2
<1>4. ASSUME NEW t \in Threads, Recheck(t) PROVE NapInv' /\ WakeInv'
  <2>1. /\ \A L \in {ToNotify, ToPass} : Covered(L) => Covered(L)'
        /\ \A L \in {ToNotify, ToPass} : pc'[t] = "sleep" => Covered(L)'
    BY <1>0, <1>4, RecheckStep
  <2>2. asleep' = asleep /\ \A u \in Threads \ {t} : pc'[u] = pc[u]
    BY <1>0, <1>4 DEF Recheck, TypeOK
  <2> QED BY <1>0, <2>1, <2>2 DEF NapInv, WakeInv
<1>5. ASSUME NEW t \in Threads, Sleep(t) PROVE NapInv' /\ WakeInv'
  <2>1. \A L \in {ToNotify, ToPass} : Covered(L) => Covered(L)' BY <1>0, <1>5, QuietStep
  <2>2. Covered(ToPass) BY <1>0, <1>5 DEF Sleep, NapInv
  <2>3. Covered(ToNotify)
    <3>1. Pairs(ToPass) \subseteq Pairs(ToNotify) BY DEF Pairs, ToPass, ToNotify
    <3>2. Cardinality(Pairs(ToPass)) <= Cardinality(Pairs(ToNotify)) BY <3>1, Finite, FS_Subset
    <3> QED BY <1>0, <2>2, <3>2, Finite, SemAssumption DEF Covered, TypeOK
  <2> QED BY <2>1, <2>2, <2>3 DEF NapInv, WakeInv
<1>6. ASSUME NEW t \in Threads, LoadWaiters(t) PROVE NapInv' /\ WakeInv'
  <2>1. asleep' = asleep /\ \A u \in Threads : pc'[u] = "sleep" => pc[u] = "sleep"
    BY <1>0, <1>6 DEF LoadWaiters, TypeOK
  <2>2. CASE waiters = 0 BY <2>1, <2>2, NobodyWaits DEF NapInv, WakeInv
  <2>3. CASE waiters # 0
    <3>1. pc' = [pc EXCEPT ![t] = "pass"] BY <1>6, <2>3 DEF LoadWaiters
    <3>2. ASSUME NEW L \in {ToNotify, ToPass}, Covered(L) PROVE Covered(L)'
      <4>1. Awake \subseteq Awake' BY <1>0, <1>6, <3>1 DEF LoadWaiters, Awake, AwakeWaiter, Woken, TypeOK
      <4>2. Pairs(L) \subseteq Pairs(L)'
        BY <1>0, <1>6, <3>1 DEF LoadWaiters, Pairs, ToNotify, ToPass, TypeOK
      <4>3. permits' <= permits BY <1>0, <1>6, SemAssumption DEF LoadWaiters, TypeOK
      <4> QED BY <1>0, <3>2, <4>1, <4>2, <4>3, Grow
    <3> QED BY <1>1, <2>1, <3>2
  <2> QED BY <2>2, <2>3
<1>7. ASSUME NEW t \in Threads, Pass(t) PROVE NapInv' /\ WakeInv'
  <2>1. asleep' = asleep /\ \A u \in Threads : pc'[u] # "sleep"
    <3>1. \A u \in Threads : pc[u] # "sleep"
      BY <1>0, <1>7, SemAssumption DEF Pass, LockInv, SemAssumption
    <3> QED BY <1>0, <1>7, <3>1 DEF Pass, TypeOK
  <2>2. ASSUME Covered(ToNotify) PROVE Covered(ToNotify)'
    <3>1. Awake \subseteq Awake' BY <1>0, <1>7 DEF Pass, Awake, AwakeWaiter, Woken, TypeOK
    <3>2. Pairs(ToNotify) \subseteq Pairs(ToNotify)'
      BY <1>0, <1>7 DEF Pass, Pairs, ToNotify, TypeOK
    <3>3. permits' <= permits BY <1>0, <1>7, SemAssumption DEF Pass, TypeOK
    <3> QED BY <1>0, <2>2, <3>1, <3>2, <3>3, Grow
  <2> QED BY <1>0, <2>1, <2>2 DEF NapInv, WakeInv
<1>8. ASSUME NEW t \in Threads, Notify(t) PROVE NapInv' /\ WakeInv'
  <2>1. /\ Covered(ToPass) => Covered(ToPass)'
        /\ asleep' # {} => Covered(ToNotify)'
    BY <1>0, <1>8, NotifyStep
  <2>2. \A u \in Threads : pc'[u] = "sleep" => pc[u] = "sleep"
    BY <1>0, <1>8 DEF Notify, TypeOK
  <2> QED BY <1>0, <2>1, <2>2 DEF NapInv, WakeInv
<1> QED BY <1>2, <1>3, <1>4, <1>5, <1>6, <1>7, <1>8 DEF Next, Step

-----------------------------------------------------------------------------
(* The invariant *)

\* The initial state satisfies the invariant.
LEMMA InitIInv == Init => IInv
<1> SUFFICES ASSUME Init PROVE IInv OBVIOUS
<1> USE SemAssumption DEF SemAssumption
<1>1. TypeOK BY DEF Init, TypeOK, PCs
<1>2. CallInv /\ LockInv /\ SleepInv BY DEF Init, CallInv, LockInv, SleepInv, Slow, Releasing
<1>3. CountInv
  <2>1. Counted = {} BY DEF Init, Counted, Slow
  <2> QED BY <2>1, FS_EmptySet DEF Init, CountInv
<1>4. NapInv /\ WakeInv BY DEF Init, NapInv, WakeInv
<1> QED BY <1>1, <1>2, <1>3, <1>4 DEF IInv

\* Every step keeps the invariant.
LEMMA InductiveStep ==
  ASSUME IInv, [Next]_vars
  PROVE  IInv'
<1>1. CASE Next BY <1>1, ControlStep, CountStep, TypeStep, WakeStep DEF IInv
<1>2. CASE UNCHANGED vars
  BY <1>2 DEF IInv, vars, TypeOK, CallInv, LockInv, SleepInv, CountInv, Counted, NapInv, WakeInv,
     Covered, Awake, AwakeWaiter, Woken, At, Pairs
<1> QED BY <1>1, <1>2

\* The invariant holds throughout.
THEOREM Invariance == Spec => []IInv
<1>1. IInv /\ [Next]_vars => IInv' BY InductiveStep
<1> QED BY InitIInv, <1>1, PTL DEF Spec

\* waiters never wraps below zero and the permits never exceed their maximum.
THEOREM TypeCorrect == Spec => []TypeOK
<1>1. IInv => TypeOK BY DEF IInv
<1> QED BY Invariance, <1>1, PTL

\* No wake-up is lost: while somebody sleeps, every free permit has a thread
\* that will look at it or a release that is going to notify.
THEOREM WakeupSafety == Spec => []PermitsHaveTakers
<1>1. IInv => PermitsHaveTakers
  <2>1. Announced = Pairs(ToNotify) BY DEF Announced, Pairs, ToNotify
  <2> QED BY <2>1 DEF IInv, WakeInv, Covered, PermitsHaveTakers, Awake
<1> QED BY Invariance, <1>1, PTL

-----------------------------------------------------------------------------
(* Standstill *)

\* Where Step has nothing for the thread to do: outside a call, waiting for
\* the mutex while somebody holds it, or asleep.  Everywhere else a disjunct
\* of Step has its guard true.
Stuck(t) ==
  \/ At(t, "idle")
  \/ (pc[t] \in {"lock", "pass"} \/ Woken(t)) /\ lock # NoThread
  \/ t \in asleep

\* If no thread can go on by itself, none is left in a call but an acquire
\* for which there is no permit.
StandstillIsSettled ==
  (\A t \in Threads : Stuck(t)) =>
    \A t \in Threads : At(t, "idle") \/ (At(t, "asleep") /\ permits = 0)

\* A stuck thread takes no step.
LEMMA StuckTakesNoStep ==
  ASSUME IInv, NEW t \in Threads, Stuck(t)
  PROVE  ~Step(t)
<1>1. \/ At(t, "idle")
      \/ (pc[t] \in {"lock", "pass"} \/ Woken(t)) /\ lock # NoThread
      \/ pc[t] = "asleep" /\ t \in asleep
  BY DEF IInv, SleepInv, Stuck
<1> QED
  BY <1>1 DEF Step, At, Woken, Try, Enlist, Lock, SlowTry, Recheck, Sleep, Delist, Add,
     LoadWaiters, Pass, Notify, Return

\* Who holds the mutex is on his way to release it.
HolderInv == lock # NoThread => lock \in Threads /\ pc[lock] \in {"slow_try", "recheck", "sleep"}

\* Every step keeps that.
LEMMA HolderStep ==
  ASSUME IInv, HolderInv, [Next]_vars
  PROVE  HolderInv'
<1> USE SemAssumption DEF At, Goto, Result, HolderInv
<1>0. TypeOK /\ LockInv BY DEF IInv
<1>1. ASSUME NEW t \in Threads, Call(t) PROVE HolderInv'
  <2>1. lock' = lock /\ pc[t] = "idle" /\ \A u \in Threads \ {t} : pc'[u] = pc[u]
    BY <1>0, <1>1 DEF Call, TypeOK
  <2> QED BY <2>1
<1>2. ASSUME NEW t \in Threads,
             \/ Try(t) \/ Enlist(t) \/ Delist(t) \/ Add(t) \/ LoadWaiters(t) \/ Pass(t)
             \/ Notify(t) \/ Return(t) \/ SpuriousWake(t)
      PROVE  HolderInv'
  BY <1>0, <1>2 DEF Try, Enlist, Delist, Add, LoadWaiters, Pass, Notify, Return,
     SpuriousWake, TypeOK
<1>3. ASSUME NEW t \in Threads, Lock(t) PROVE HolderInv'
  BY <1>0, <1>3 DEF Lock, TypeOK
<1>4. ASSUME NEW t \in Threads, SlowTry(t) \/ Recheck(t) \/ Sleep(t) PROVE HolderInv'
  <2>1. lock = t BY <1>0, <1>4 DEF SlowTry, Recheck, Sleep, LockInv
  <2> QED BY <1>0, <1>4, <2>1 DEF SlowTry, Recheck, Sleep, TypeOK
<1>5. CASE UNCHANGED vars BY <1>5 DEF vars
<1> QED BY <1>1, <1>2, <1>3, <1>4, <1>5 DEF Next, Step

\* What is left of CallsSettle when nobody moves, for any number of threads:
\* the mutex is free, and no permit is free while an acquire sleeps and
\* nobody is going to wake it.
THEOREM NoDeadlock == Spec => []StandstillIsSettled
<1>1. IInv /\ HolderInv /\ PermitsHaveTakers => StandstillIsSettled
  <2> SUFFICES ASSUME IInv, HolderInv, PermitsHaveTakers, \A t \in Threads : Stuck(t),
                      NEW s \in Threads, pc[s] # "idle"
               PROVE  pc[s] = "asleep" /\ permits = 0
    BY DEF StandstillIsSettled, At
  <2>0. TypeOK /\ SleepInv BY DEF IInv
  <2>1. lock = NoThread
    <3> SUFFICES ASSUME lock # NoThread PROVE FALSE OBVIOUS
    <3>1. lock \in Threads /\ pc[lock] \in {"slow_try", "recheck", "sleep"} BY DEF HolderInv
    <3>2. lock \notin asleep BY <2>0, <3>1 DEF SleepInv
    <3> QED BY <3>1, <3>2 DEF Stuck, At, Woken
  <2>2. \A t \in Threads : pc[t] = "idle" \/ (pc[t] = "asleep" /\ t \in asleep)
    BY <2>0, <2>1 DEF SleepInv, Stuck, At
  <2>3. {t \in Threads : AwakeWaiter(t)} = {}
    <3>1. \A t \in Threads : ~AwakeWaiter(t) BY <2>2 DEF AwakeWaiter, Woken, At
    <3> QED BY <3>1
  <2>4. Announced = {}
    <3> SUFFICES ASSUME NEW a \in Announced PROVE FALSE OBVIOUS
    <3>1. a[1] \in Threads /\ pc[a[1]] \in {"load_waiters", "pass", "notify"}
      BY DEF Announced
    <3> QED BY <2>2, <3>1
  <2>5. s \in asleep /\ permits <= 0
    BY <2>2, <2>3, <2>4, FS_EmptySet DEF PermitsHaveTakers
  <2> QED BY <2>0, <2>2, <2>5, SemAssumption DEF TypeOK, SemAssumption
<1>2. Init => HolderInv BY DEF Init, HolderInv
<1>3. IInv /\ HolderInv /\ [Next]_vars => HolderInv' BY HolderStep
<1> QED BY <1>1, <1>2, <1>3, Invariance, WakeupSafety, PTL DEF Spec

-----------------------------------------------------------------------------
(* Refinement *)

\* Every step is a step of the abstract semaphore, or leaves it as it is.
LEMMA AbstractStep ==
  ASSUME IInv, IInv', [Next]_vars
  PROVE  [Abstract!Next]_(Abstract!vars)
<1> USE DEF At, Goto, Result
<1>0. /\ TypeOK /\ CallInv /\ TypeOK'
      /\ \A t \in Threads : amount[t] \in 0 .. PermitMax /\ PermitMax \in Nat
  BY AmountType DEF IInv
<1>1. AbsAmount \in [Threads -> 0 .. PermitMax] BY <1>0 DEF AbsAmount
<1>2. ASSUME permits' = permits, op' = op, ret' = ret, AbsAmount' = AbsAmount
      PROVE  UNCHANGED Abstract!vars
  BY <1>2 DEF Abstract!vars
<1>3. ASSUME NEW t \in Threads, Call(t) PROVE Abstract!Call(t)
  <2>1. CASE \E o \in OpsOf[t] \ {"release"} :
               op' = [op EXCEPT ![t] = o] /\ pc' = [pc EXCEPT ![t] = "try"] /\ amount' = amount
    <3>1. PICK o \in {"acquire", "try_acquire"} : op' = [op EXCEPT ![t] = o]
      BY <2>1, SemAssumption DEF SemAssumption, Ops
    <3>2. AbsAmount' = [AbsAmount EXCEPT ![t] = 0]
      BY <1>0, <1>3, <2>1 DEF Call, AbsAmount, TypeOK
    <3>3. 0 \in 0 .. PermitMax BY <1>0
    <3>4. op[t] = "none" /\ permits' = permits /\ ret' = ret
      BY <1>0, <1>3 DEF Call, CallInv
    <3> QED BY <3>1, <3>2, <3>3, <3>4 DEF Abstract!Call
  <2>2. ASSUME NEW n \in Amounts, op' = [op EXCEPT ![t] = "release"],
               amount' = [amount EXCEPT ![t] = n],
               pc' = [pc EXCEPT ![t] = IF n = 0 THEN "return" ELSE "add"]
        PROVE  Abstract!Call(t)
    <3>1. n \in 0 .. PermitMax BY SemAssumption DEF SemAssumption
    <3>2. AbsAmount' = [AbsAmount EXCEPT ![t] = n]
      <4>1. CASE n = 0 BY <1>0, <1>3, <2>2, <4>1 DEF Call, AbsAmount, TypeOK
      <4>2. CASE n # 0 BY <1>0, <1>3, <2>2, <4>2 DEF Call, AbsAmount, TypeOK
      <4> QED BY <4>1, <4>2
    <3> QED BY <1>0, <1>3, <2>2, <3>1, <3>2 DEF Call, Abstract!Call, CallInv
  <2> QED BY <1>3, <2>1, <2>2 DEF Call
<1>4. ASSUME NEW t \in Threads, Try(t) \/ SlowTry(t), permits > 0
      PROVE  Abstract!Acquire(t)
  <2>1. AbsAmount' = AbsAmount BY <1>0, <1>4 DEF Try, SlowTry, AbsAmount, TypeOK
  <2>2. op[t] \in {"acquire", "try_acquire"} /\ ret[t] = "none"
    BY <1>0, <1>4 DEF Try, SlowTry, CallInv, Slow
  <2>3. permits' = permits - 1 /\ ret' = [ret EXCEPT ![t] = "ok"] /\ op' = op
    BY <1>0, <1>4, SemAssumption DEF Try, SlowTry, TypeOK
  <2> QED BY <1>4, <2>1, <2>2, <2>3 DEF Abstract!Acquire, Abstract!Pending, Abstract!Change
<1>5. ASSUME NEW t \in Threads, Try(t) \/ SlowTry(t), permits = 0
      PROVE  Abstract!TryFails(t) \/ UNCHANGED Abstract!vars
  <2>1. AbsAmount' = AbsAmount BY <1>0, <1>5 DEF Try, SlowTry, AbsAmount, TypeOK
  <2>2. CASE Try(t) /\ op[t] = "try_acquire"
    BY <1>0, <1>5, <2>1, <2>2 DEF Try, CallInv, Abstract!TryFails, Abstract!Pending
  <2>3. CASE ~(Try(t) /\ op[t] = "try_acquire")
    BY <1>2, <1>5, <2>1, <2>3 DEF Try, SlowTry
  <2> QED BY <2>2, <2>3
<1>6. ASSUME NEW t \in Threads, Add(t) PROVE Abstract!Release(t)
  <2>1. AbsAmount[t] = amount[t] /\ amount[t] > 0 BY <1>0, <1>6 DEF Add, AbsAmount, CallInv, Releasing
  <2>2. AbsAmount' = [AbsAmount EXCEPT ![t] = 0] BY <1>0, <1>6 DEF Add, AbsAmount, TypeOK
  <2> QED BY <1>6, <2>1, <2>2 DEF Add, Saturate, Abstract!Release, Abstract!Change
<1>7. ASSUME NEW t \in Threads, Return(t) PROVE Abstract!Return(t)
  <2>1. AbsAmount[t] = 0 /\ AbsAmount' = AbsAmount BY <1>0, <1>7 DEF Return, AbsAmount, TypeOK
  <2> QED BY <1>0, <1>7, <2>1 DEF Return, CallInv, Abstract!Return
<1>8. ASSUME NEW t \in Threads,
             \/ SpuriousWake(t) \/ Enlist(t) \/ Lock(t) \/ Recheck(t) \/ Sleep(t) \/ Delist(t)
             \/ LoadWaiters(t) \/ Pass(t) \/ Notify(t)
      PROVE  UNCHANGED Abstract!vars
  <2>1. AbsAmount' = AbsAmount
    BY <1>0, <1>8 DEF SpuriousWake, Enlist, Lock, Woken, Recheck, Sleep, Delist,
       LoadWaiters, Pass, Notify, AbsAmount, TypeOK
  <2>2. permits' = permits /\ op' = op /\ ret' = ret
    BY <1>8 DEF SpuriousWake, Enlist, Lock, Recheck, Sleep, Delist, LoadWaiters, Pass, Notify
  <2> QED BY <1>2, <2>1, <2>2
<1>9. ASSUME UNCHANGED vars PROVE UNCHANGED Abstract!vars
  BY <1>9 DEF vars, AbsAmount, Abstract!vars
<1>10. ASSUME NEW t \in Threads, Try(t) \/ SlowTry(t)
       PROVE  Abstract!Acquire(t) \/ Abstract!TryFails(t) \/ UNCHANGED Abstract!vars
  BY <1>0, <1>4, <1>5, <1>10, SemAssumption DEF TypeOK
<1> QED BY <1>3, <1>6, <1>7, <1>8, <1>9, <1>10 DEF Next, Step, Abstract!Next

\* CondvarSemaphore implements the abstract semaphore: each call takes effect
\* in one step, and try_acquire fails only when there is no permit.
THEOREM Implementation == Spec => ImplementsSemaphore
<1>1. Init => Abstract!Init
  BY DEF Init, Abstract!Init, AbsAmount, At
<1>2. IInv /\ IInv' /\ [Next]_vars => [Abstract!Next]_(Abstract!vars) BY AbstractStep
<1> QED BY <1>1, <1>2, Invariance, PTL DEF Spec, ImplementsSemaphore, Abstract!Spec
=============================================================================

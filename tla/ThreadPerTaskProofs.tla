------------------------- MODULE ThreadPerTaskProofs -------------------------
(***************************************************************************)
(* Theorems about ThreadPerTask for any number of clients and threads and   *)
(* any limit.  One inductive invariant, IInv, carries them all.             *)
(***************************************************************************)
EXTENDS ThreadPerTask, FiniteSetTheorems, TLAPS

\* submit and dispose exclude each other: once dispose has begun the only
\* submits are the ones that are refused at the door, and the Vec is empty.
OwnerInv ==
  /\ disposed <=> owner # "open"
  /\ owner # "open" => handles = {} /\ \A c \in Clients : pc[c] \in {"idle", "return"}
  /\ owner # "joining" => joining = {}

\* A submitter holds a handle exactly until it stores it.
StoreInv == \A c \in Clients : spawned[c] # NoWorker <=> pc[c] = "store"

\* The wait set holds sleeping submitters.
WaitInv == \A c \in waiting : pc[c] = "asleep"

\* Until it is joined, a thread's handle is somewhere.
Tracked ==
  \A w \in Workers : worker[w] # "none" =>
    w \in handles \cup joining \cup {spawned[c] : c \in Clients}

Limit == MaxThreads > 0 => count <= MaxThreads

IInv == /\ TypeOK /\ OwnerInv /\ StoreInv /\ WaitInv
        /\ Tracked /\ CountExact /\ Limit /\ PlacesHaveTakers

-----------------------------------------------------------------------------
(* The sets that the invariant counts *)

\* Running, the submitters at a place and the takers are finite.
LEMMA Finite ==
  /\ IsFiniteSet(Running) /\ Cardinality(Running) \in Nat
  /\ \A l : IsFiniteSet(At(l)) /\ Cardinality(At(l)) \in Nat
  /\ IsFiniteSet(Takers) /\ Cardinality(Takers) \in Nat
<1>1. Running \subseteq Workers /\ Takers \subseteq Clients /\ \A l : At(l) \subseteq Clients
  BY DEF Running, Takers, At
<1> QED BY <1>1, PoolAssumption, FS_Subset, FS_CardinalityType

\* The same for the state after a step.
LEMMA FinitePrime ==
  /\ IsFiniteSet(Running') /\ Cardinality(Running') \in Nat
  /\ \A l : IsFiniteSet(At(l)') /\ Cardinality(At(l)') \in Nat
  /\ IsFiniteSet(Takers') /\ Cardinality(Takers') \in Nat
<1>1. Running' \subseteq Workers /\ Takers' \subseteq Clients /\ \A l : At(l)' \subseteq Clients
  BY DEF Running, Takers, At
<1> QED BY <1>1, PoolAssumption, FS_Subset, FS_CardinalityType

\* An element joins, or leaves, a finite set.
LEMMA OneMore ==
  ASSUME NEW S, IsFiniteSet(S), NEW x, x \notin S
  PROVE  Cardinality(S \cup {x}) = Cardinality(S) + 1
BY FS_AddElement

LEMMA OneLess ==
  ASSUME NEW S, IsFiniteSet(S), NEW x \in S
  PROVE  Cardinality(S \ {x}) = Cardinality(S) - 1
BY FS_RemoveElement

-----------------------------------------------------------------------------
(* The initial state *)

\* The initial state satisfies the invariant.
LEMMA InitIInv == Init => IInv
<1> SUFFICES ASSUME Init PROVE IInv OBVIOUS
<1>1. Running = {} /\ At("spawn") = {} BY DEF Init, Running, At
<1>2. CountExact BY <1>1, FS_EmptySet DEF Init, CountExact
<1>3. TypeOK BY PoolAssumption DEF Init, TypeOK
<1>4. OwnerInv /\ StoreInv /\ WaitInv /\ Tracked BY DEF Init, OwnerInv, StoreInv, WaitInv, Tracked
<1>5. Limit /\ PlacesHaveTakers BY PoolAssumption DEF Init, Limit, PlacesHaveTakers
<1> QED BY <1>2, <1>3, <1>4, <1>5 DEF IInv

-----------------------------------------------------------------------------
(* The count *)

\* The count stays equal to what it counts.
LEMMA CountStep ==
  ASSUME IInv, Next
  PROVE  CountExact'
<1> USE DEF IInv, Goto
<1>0. TypeOK /\ CountExact OBVIOUS
<1>1. ASSUME count' = count, Running' = Running, At("spawn")' = At("spawn")
      PROVE  CountExact'
  BY <1>0, <1>1 DEF CountExact
<1>2. ASSUME NEW c \in Clients, Submit(c) PROVE CountExact'
  <2>1. At("spawn")' = At("spawn") BY <1>0, <1>2 DEF Submit, At, TypeOK
  <2> QED BY <1>1, <1>2, <2>1 DEF Submit, pool, Running
<1>3. ASSUME NEW c \in Clients, SpuriousWake(c) PROVE CountExact'
  BY <1>1, <1>3 DEF SpuriousWake, Running, At
<1>4. ASSUME NEW c \in Clients, Reap(c) PROVE CountExact'
  <2>1. At("spawn")' = At("spawn") BY <1>0, <1>4 DEF Reap, At, TypeOK
  <2>2. Running' = Running BY <1>0, <1>4 DEF Reap, Running, Finished, TypeOK
  <2> QED BY <1>1, <1>4, <2>1, <2>2 DEF Reap, pool
<1>5. ASSUME NEW c \in Clients, Acquire(c) PROVE CountExact'
  <2>1. Running' = Running BY <1>5 DEF Acquire, Running
  <2>2. CASE count' = count /\ pc' = [pc EXCEPT ![c] = "asleep"]
    <3>1. At("spawn")' = At("spawn") BY <1>0, <1>5, <2>2 DEF Acquire, At, TypeOK, Woken
    <3> QED BY <1>1, <2>1, <2>2, <3>1
  <2>3. CASE count' = count + 1 /\ pc' = [pc EXCEPT ![c] = "spawn"]
    <3>1. At("spawn")' = At("spawn") \cup {c} BY <1>0, <2>3 DEF At, TypeOK
    <3>2. c \notin At("spawn") BY <1>0, <1>5 DEF Acquire, At, Woken, TypeOK
    <3>3. Cardinality(At("spawn")') = Cardinality(At("spawn")) + 1 BY <3>1, <3>2, OneMore, Finite
    <3> QED BY <1>0, <2>1, <2>3, <3>3, Finite DEF CountExact
  <2> QED BY <1>5, <2>2, <2>3 DEF Acquire
<1>6. ASSUME NEW c \in Clients, Spawn(c) PROVE CountExact'
  <2>1. PICK w \in Workers : worker[w] = "none" /\ worker' = [worker EXCEPT ![w] = "job"]
    BY <1>6 DEF Spawn
  <2>2. Running' = Running \cup {w} /\ w \notin Running BY <1>0, <2>1 DEF Running, TypeOK
  <2>3. At("spawn")' = At("spawn") \ {c} /\ c \in At("spawn") BY <1>0, <1>6 DEF Spawn, At, TypeOK
  <2>4. Cardinality(Running') = Cardinality(Running) + 1 BY <2>2, OneMore, Finite
  <2>5. Cardinality(At("spawn")') = Cardinality(At("spawn")) - 1 BY <2>3, OneLess, Finite
  <2> QED BY <1>0, <1>6, <2>4, <2>5, Finite DEF CountExact, Spawn, pool
<1>7. ASSUME NEW c \in Clients, SpawnFails(c) PROVE CountExact'
  <2>1. Running' = Running BY <1>7 DEF SpawnFails, Running
  <2>2. At("spawn")' = At("spawn") \ {c} /\ c \in At("spawn") BY <1>0, <1>7 DEF SpawnFails, At, TypeOK
  <2>3. Cardinality(At("spawn")') = Cardinality(At("spawn")) - 1 BY <2>2, OneLess, Finite
  <2> QED BY <1>0, <1>7, <2>1, <2>3, Finite DEF CountExact, SpawnFails, Release
<1>8. ASSUME NEW c \in Clients, Store(c) PROVE CountExact'
  <2>1. At("spawn")' = At("spawn") BY <1>0, <1>8 DEF Store, At, TypeOK
  <2> QED BY <1>1, <1>8, <2>1 DEF Store, pool, Running
<1>9. ASSUME NEW c \in Clients, Return(c) PROVE CountExact'
  <2>1. At("spawn")' = At("spawn") BY <1>0, <1>9 DEF Return, At, TypeOK
  <2> QED BY <1>1, <1>9, <2>1 DEF Return, pool, Running
<1>10. ASSUME NEW w \in Workers, JobEnds(w) PROVE CountExact'
  <2>1. Running' = Running \ {w} /\ w \in Running BY <1>0, <1>10 DEF JobEnds, Running, TypeOK
  <2>2. Cardinality(Running') = Cardinality(Running) - 1 BY <2>1, OneLess, Finite
  <2>3. At("spawn")' = At("spawn") BY <1>10 DEF JobEnds, At
  <2> QED BY <1>0, <1>10, <2>2, <2>3, Finite DEF CountExact, JobEnds, Release
<1>11. ASSUME NEW w \in Workers, ThreadEnds(w) PROVE CountExact'
  <2>1. Running' = Running BY <1>0, <1>11 DEF ThreadEnds, Running, TypeOK
  <2> QED BY <1>1, <1>11, <2>1 DEF ThreadEnds, pool, At
<1>12. ASSUME NEW w \in Workers, Join(w) PROVE CountExact'
  <2>1. Running' = Running BY <1>0, <1>12 DEF Join, Running, TypeOK
  <2> QED BY <1>1, <1>12, <2>1 DEF Join, pool, At
<1>13. ASSUME Dispose PROVE CountExact' BY <1>1, <1>13 DEF Dispose, Running, At
<1>14. ASSUME Closed PROVE CountExact' BY <1>1, <1>14 DEF Closed, pool, Running, At
<1> QED BY <1>2, <1>3, <1>4, <1>5, <1>6, <1>7, <1>8, <1>9, <1>10, <1>11, <1>12, <1>13, <1>14
        DEF Next, Step, WorkerStep

-----------------------------------------------------------------------------
(* Types, and the owner *)

\* Every type is preserved.  The count is positive where a place is given
\* back, because it counts that place.
LEMMA TypeStep ==
  ASSUME IInv, Next
  PROVE  TypeOK'
<1> USE DEF IInv, TypeOK, Goto
<1>1. ASSUME NEW w \in Running PROVE count - 1 \in Nat
  <2>1. Cardinality(Running) # 0 BY <1>1, Finite, FS_EmptySet
  <2> QED BY <2>1, Finite DEF CountExact
<1>2. ASSUME NEW c \in At("spawn") PROVE count - 1 \in Nat
  <2>1. Cardinality(At("spawn")) # 0 BY <1>2, Finite, FS_EmptySet
  <2> QED BY <2>1, Finite DEF CountExact
<1>3. ASSUME NEW S \in NotifyOne(waiting) PROVE S \subseteq Clients
  BY <1>3 DEF NotifyOne
<1>4. ASSUME NEW c \in Clients, Submit(c) PROVE TypeOK' BY <1>4 DEF Submit, pool
<1>5. ASSUME NEW c \in Clients, SpuriousWake(c) PROVE TypeOK' BY <1>5 DEF SpuriousWake
<1>6. ASSUME NEW c \in Clients, Reap(c) PROVE TypeOK' BY <1>6 DEF Reap, pool
<1>7. ASSUME NEW c \in Clients, Acquire(c) PROVE TypeOK' BY <1>7 DEF Acquire
<1>8. ASSUME NEW c \in Clients, Spawn(c) PROVE TypeOK' BY <1>8 DEF Spawn, pool
<1>9. ASSUME NEW c \in Clients, SpawnFails(c) PROVE TypeOK'
  <2>1. count' \in Nat BY <1>2, <1>9 DEF SpawnFails, Release, At
  <2>2. waiting' \subseteq Clients BY <1>3, <1>9 DEF SpawnFails, Release
  <2> QED BY <1>9, <2>1, <2>2 DEF SpawnFails
<1>10. ASSUME NEW c \in Clients, Store(c) PROVE TypeOK'
  <2>1. handles' \subseteq Workers
    <3>1. spawned[c] \in Workers BY <1>10 DEF Store, StoreInv
    <3> QED BY <1>10, <3>1 DEF Store
  <2> QED BY <1>10, <2>1 DEF Store, pool
<1>11. ASSUME NEW c \in Clients, Return(c) PROVE TypeOK' BY <1>11 DEF Return, pool
<1>12. ASSUME NEW w \in Workers, JobEnds(w) PROVE TypeOK'
  <2>1. count' \in Nat BY <1>1, <1>12 DEF JobEnds, Release, Running
  <2>2. waiting' \subseteq Clients BY <1>3, <1>12 DEF JobEnds, Release
  <2> QED BY <1>12, <2>1, <2>2 DEF JobEnds
<1>13. ASSUME NEW w \in Workers, ThreadEnds(w) PROVE TypeOK' BY <1>13 DEF ThreadEnds, pool
<1>14. ASSUME NEW w \in Workers, Join(w) PROVE TypeOK' BY <1>14 DEF Join, pool
<1>15. ASSUME Dispose PROVE TypeOK' BY <1>15 DEF Dispose
<1>16. ASSUME Closed PROVE TypeOK' BY <1>16 DEF Closed, pool
<1> QED BY <1>4, <1>5, <1>6, <1>7, <1>8, <1>9, <1>10, <1>11, <1>12, <1>13, <1>14, <1>15, <1>16
        DEF Next, Step, WorkerStep

\* Submitters, owner and wait set stay where they may be.
LEMMA ControlStep ==
  ASSUME IInv, Next
  PROVE  OwnerInv' /\ StoreInv' /\ WaitInv'
<1> DEFINE C == OwnerInv /\ StoreInv /\ WaitInv
<1> USE DEF IInv, OwnerInv, StoreInv, WaitInv, Goto
<1>0. TypeOK /\ C OBVIOUS
<1>1. ASSUME NEW c \in Clients, Submit(c) PROVE C' BY <1>0, <1>1 DEF Submit, pool, TypeOK
<1>2. ASSUME NEW c \in Clients, SpuriousWake(c) PROVE C' BY <1>0, <1>2 DEF SpuriousWake, TypeOK
<1>3. ASSUME NEW c \in Clients, Reap(c) PROVE C' BY <1>0, <1>3 DEF Reap, pool, TypeOK
<1>4. ASSUME NEW c \in Clients, Acquire(c) PROVE C'
  <2>1. pc[c] \in {"acquire", "asleep"} BY <1>4 DEF Acquire, Woken
  <2>2. owner = "open" BY <1>0, <2>1 DEF TypeOK
  <2>3. OwnerInv' BY <1>0, <1>4, <2>2 DEF Acquire, TypeOK
  <2>4. StoreInv' BY <1>0, <1>4, <2>1 DEF Acquire, TypeOK
  <2>5. WaitInv' BY <1>0, <1>4 DEF Acquire, Woken, TypeOK
  <2> QED BY <2>3, <2>4, <2>5
<1>5. ASSUME NEW c \in Clients, Spawn(c) PROVE C' BY <1>0, <1>5, PoolAssumption DEF Spawn, pool, TypeOK
<1>6. ASSUME NEW S \in NotifyOne(waiting) PROVE S \subseteq waiting BY <1>6 DEF NotifyOne
<1>7. ASSUME NEW c \in Clients, SpawnFails(c) PROVE C'
  <2>1. waiting' \subseteq waiting BY <1>6, <1>7 DEF SpawnFails, Release
  <2> QED BY <1>0, <1>7, <2>1 DEF SpawnFails, TypeOK
<1>8. ASSUME NEW c \in Clients, Store(c) PROVE C' BY <1>0, <1>8 DEF Store, pool, TypeOK
<1>9. ASSUME NEW c \in Clients, Return(c) PROVE C' BY <1>0, <1>9 DEF Return, pool, TypeOK
<1>10. ASSUME NEW w \in Workers, JobEnds(w) PROVE C'
  <2>1. waiting' \subseteq waiting BY <1>6, <1>10 DEF JobEnds, Release
  <2> QED BY <1>0, <1>10, <2>1 DEF JobEnds
<1>11. ASSUME NEW w \in Workers, ThreadEnds(w) PROVE C' BY <1>0, <1>11 DEF ThreadEnds, pool
<1>12. ASSUME NEW w \in Workers, Join(w) PROVE C' BY <1>0, <1>12 DEF Join, pool
<1>13. ASSUME Dispose PROVE C' BY <1>0, <1>13 DEF Dispose, TypeOK
<1>14. ASSUME Closed PROVE C' BY <1>0, <1>14 DEF Closed, pool, TypeOK
<1> QED BY <1>1, <1>2, <1>3, <1>4, <1>5, <1>7, <1>8, <1>9, <1>10, <1>11, <1>12, <1>13, <1>14
        DEF Next, Step, WorkerStep

\* No handle is lost.
LEMMA TrackedStep ==
  ASSUME IInv, Next
  PROVE  Tracked'
<1> USE DEF IInv, Tracked, Goto
<1>0. TypeOK /\ Tracked /\ OwnerInv /\ StoreInv OBVIOUS
<1>1. ASSUME NEW c \in Clients, Submit(c) PROVE Tracked' BY <1>0, <1>1 DEF Submit, pool
<1>2. ASSUME NEW c \in Clients, SpuriousWake(c) PROVE Tracked' BY <1>0, <1>2 DEF SpuriousWake
<1>3. ASSUME NEW c \in Clients, Reap(c) PROVE Tracked'
  BY <1>0, <1>3 DEF Reap, Finished, pool, TypeOK
<1>4. ASSUME NEW c \in Clients, Acquire(c) PROVE Tracked' BY <1>0, <1>4 DEF Acquire
<1>5. ASSUME NEW c \in Clients, Spawn(c) PROVE Tracked'
  <2>1. spawned[c] = NoWorker BY <1>0, <1>5 DEF Spawn, StoreInv
  <2>2. PICK v \in Workers : /\ worker' = [worker EXCEPT ![v] = "job"]
                             /\ spawned' = [spawned EXCEPT ![c] = v]
    BY <1>5 DEF Spawn
  <2> SUFFICES ASSUME NEW w \in Workers, worker'[w] # "none"
               PROVE  w \in handles' \cup joining' \cup {spawned'[d] : d \in Clients}
    OBVIOUS
  <2>3. CASE w = v BY <1>0, <2>2, <2>3 DEF TypeOK
  <2>4. CASE w # v
    <3>1. worker[w] # "none" BY <1>0, <2>2, <2>4 DEF TypeOK
    <3>2. ASSUME NEW d \in Clients, w = spawned[d] PROVE w = spawned'[d]
      BY <1>0, <2>1, <2>2, <3>2, PoolAssumption DEF TypeOK
    <3> QED BY <1>0, <1>5, <3>1, <3>2 DEF Spawn
  <2> QED BY <2>3, <2>4
<1>6. ASSUME NEW c \in Clients, SpawnFails(c) PROVE Tracked' BY <1>0, <1>6 DEF SpawnFails
<1>7. ASSUME NEW c \in Clients, Store(c) PROVE Tracked'
  <2> SUFFICES ASSUME NEW w \in Workers, worker'[w] # "none"
               PROVE  w \in handles' \cup joining' \cup {spawned'[d] : d \in Clients}
    OBVIOUS
  <2>1. w \in handles \cup joining \cup {spawned[d] : d \in Clients} BY <1>0, <1>7 DEF Store
  <2>2. ASSUME NEW d \in Clients, w = spawned[d] PROVE w \in handles' \/ w = spawned'[d]
    BY <1>0, <1>7, <2>2 DEF Store, TypeOK
  <2> QED BY <1>7, <2>1, <2>2 DEF Store
<1>8. ASSUME NEW c \in Clients, Return(c) PROVE Tracked' BY <1>0, <1>8 DEF Return
<1>9. ASSUME NEW w \in Workers, JobEnds(w) PROVE Tracked' BY <1>0, <1>9 DEF JobEnds, TypeOK
<1>10. ASSUME NEW w \in Workers, ThreadEnds(w) PROVE Tracked' BY <1>0, <1>10 DEF ThreadEnds, TypeOK
<1>11. ASSUME NEW w \in Workers, Join(w) PROVE Tracked' BY <1>0, <1>11 DEF Join, TypeOK
<1>12. ASSUME Dispose PROVE Tracked' BY <1>0, <1>12 DEF Dispose, OwnerInv
<1>13. ASSUME Closed PROVE Tracked' BY <1>0, <1>13 DEF Closed
<1> QED BY <1>1, <1>2, <1>3, <1>4, <1>5, <1>6, <1>7, <1>8, <1>9, <1>10, <1>11, <1>12, <1>13
        DEF Next, Step, WorkerStep

-----------------------------------------------------------------------------
(* The limit and its waiters *)

\* The count does not pass the limit: only Acquire raises it, and it looks.
LEMMA LimitStep ==
  ASSUME IInv, Next
  PROVE  Limit'
<1> USE DEF IInv, Limit
<1>0. TypeOK /\ Limit OBVIOUS
<1>1. ASSUME NEW c \in Clients, Acquire(c) PROVE Limit'
  BY <1>0, <1>1, PoolAssumption DEF Acquire, Crowded, TypeOK
<1>2. ASSUME count' <= count, count' \in Nat PROVE Limit' BY <1>0, <1>2, PoolAssumption DEF TypeOK
<1>3. count' \in Nat BY TypeStep DEF TypeOK
<1>4. ASSUME ~\E c \in Clients : Acquire(c) PROVE count' <= count
  BY <1>0, <1>4 DEF Next, Step, WorkerStep, Submit, SpuriousWake, Reap, Spawn, SpawnFails, Store,
     Return, JobEnds, ThreadEnds, Join, Dispose, Closed, Release, pool, TypeOK
<1> QED BY <1>1, <1>2, <1>3, <1>4

\* While a submitter sleeps, every free place keeps a taker.
LEMMA TakersStep ==
  ASSUME IInv, Next
  PROVE  PlacesHaveTakers'
<1> USE DEF IInv, Goto
<1>0. TypeOK /\ WaitInv /\ PlacesHaveTakers OBVIOUS
<1>1. Cardinality(Takers) \in Nat /\ Cardinality(Takers') \in Nat BY Finite, FinitePrime
<1>2. ASSUME count' \in Nat, count' >= count, waiting' \subseteq waiting, Takers \subseteq Takers'
      PROVE  PlacesHaveTakers'
  <2>1. Cardinality(Takers) <= Cardinality(Takers') BY <1>2, FinitePrime, FS_Subset
  <2> QED BY <1>0, <1>1, <1>2, <2>1, PoolAssumption DEF PlacesHaveTakers, TypeOK
<1>3. ASSUME Release, pc' = pc PROVE PlacesHaveTakers'
  <2>1. CASE waiting' = {} BY <2>1 DEF PlacesHaveTakers
  <2>2. CASE waiting' # {}
    <3>1. waiting # {} BY <1>3, <2>2 DEF Release, NotifyOne
    <3>2. PICK c \in waiting : waiting' = waiting \ {c} BY <1>3, <3>1 DEF Release, NotifyOne
    <3>3. pc[c] = "asleep" /\ c \in Clients BY <1>0 DEF WaitInv, TypeOK
    <3>4. Takers' = Takers \cup {c} /\ c \notin Takers
      BY <1>3, <3>2, <3>3 DEF Takers, Woken
    <3>5. Cardinality(Takers') = Cardinality(Takers) + 1 BY <3>4, Finite, OneMore
    <3> QED BY <1>0, <1>1, <1>3, <3>1, <3>5, PoolAssumption DEF PlacesHaveTakers, Release, TypeOK
  <2> QED BY <2>1, <2>2
<1>4. ASSUME NEW c \in Clients, SpawnFails(c) PROVE PlacesHaveTakers'
  <2>1. CASE waiting' = {} BY <2>1 DEF PlacesHaveTakers
  <2>2. CASE waiting' # {}
    <3>1. waiting # {} BY <1>4, <2>2 DEF SpawnFails, Release, NotifyOne
    <3>2. PICK d \in waiting : waiting' = waiting \ {d} BY <1>4, <3>1 DEF SpawnFails, Release, NotifyOne
    <3>3. pc[d] = "asleep" /\ d \in Clients BY <1>0 DEF WaitInv, TypeOK
    <3>4. Takers' = Takers \cup {d} /\ d \notin Takers
      BY <1>0, <1>4, <3>2, <3>3 DEF Takers, Woken, SpawnFails, TypeOK
    <3>5. Cardinality(Takers') = Cardinality(Takers) + 1 BY <3>4, Finite, OneMore
    <3> QED BY <1>0, <1>1, <1>4, <3>1, <3>5, PoolAssumption DEF PlacesHaveTakers, SpawnFails, Release, TypeOK
  <2> QED BY <2>1, <2>2
<1>5. ASSUME NEW c \in Clients, Acquire(c) PROVE PlacesHaveTakers'
  <2>1. CASE Crowded /\ count' = count
    BY <1>0, <1>1, <2>1, PoolAssumption DEF PlacesHaveTakers, Crowded, TypeOK
  <2>2. CASE count' = count + 1 /\ waiting' = waiting /\ pc' = [pc EXCEPT ![c] = "spawn"]
    <3>1. c \in Takers BY <1>5 DEF Acquire, Takers
    <3>2. Takers' = Takers \ {c} BY <1>0, <2>2 DEF Takers, Woken, TypeOK
    <3>3. Cardinality(Takers') = Cardinality(Takers) - 1 BY <3>1, <3>2, Finite, OneLess
    <3> QED BY <1>0, <1>1, <2>2, <3>3, PoolAssumption DEF PlacesHaveTakers, TypeOK
  <2> QED BY <1>5, <2>1, <2>2 DEF Acquire
<1>6. ASSUME NEW c \in Clients, Submit(c) PROVE PlacesHaveTakers'
  <2>1. Takers \subseteq Takers' BY <1>0, <1>6 DEF Submit, pool, Takers, Woken, TypeOK
  <2> QED BY <1>0, <1>2, <1>6, <2>1 DEF Submit, pool, TypeOK
<1>7. ASSUME NEW c \in Clients, SpuriousWake(c) PROVE PlacesHaveTakers'
  <2>1. Takers \subseteq Takers' BY <1>7 DEF SpuriousWake, Takers, Woken
  <2> QED BY <1>0, <1>2, <1>7, <2>1 DEF SpuriousWake, TypeOK
<1>8. ASSUME NEW c \in Clients, Reap(c) PROVE PlacesHaveTakers'
  <2>1. Takers \subseteq Takers' BY <1>0, <1>8 DEF Reap, pool, Takers, Woken, TypeOK
  <2> QED BY <1>0, <1>2, <1>8, <2>1 DEF Reap, pool, TypeOK
<1>9. ASSUME NEW c \in Clients, Spawn(c) \/ Store(c) \/ Return(c) PROVE PlacesHaveTakers'
  <2>1. Takers \subseteq Takers'
    BY <1>0, <1>9 DEF Spawn, Store, Return, pool, Takers, Woken, TypeOK
  <2> QED BY <1>0, <1>2, <1>9, <2>1 DEF Spawn, Store, Return, pool, TypeOK
<1>10. ASSUME NEW w \in Workers, JobEnds(w) PROVE PlacesHaveTakers' BY <1>3, <1>10 DEF JobEnds
<1>11. ASSUME NEW w \in Workers, ThreadEnds(w) \/ Join(w) PROVE PlacesHaveTakers'
  BY <1>0, <1>2, <1>11 DEF ThreadEnds, Join, pool, Takers, Woken, TypeOK
<1>12. ASSUME Dispose PROVE PlacesHaveTakers' BY <1>12 DEF Dispose, PlacesHaveTakers
<1>13. ASSUME Closed PROVE PlacesHaveTakers'
  BY <1>0, <1>2, <1>13 DEF Closed, pool, Takers, Woken, TypeOK
<1> QED BY <1>4, <1>5, <1>6, <1>7, <1>8, <1>9, <1>10, <1>11, <1>12, <1>13
        DEF Next, Step, WorkerStep

-----------------------------------------------------------------------------
(* The theorems *)

\* Every step of the specification keeps the invariant.
LEMMA InductiveStep ==
  ASSUME IInv, [Next]_vars
  PROVE  IInv'
<1>1. CASE Next
  BY <1>1, TypeStep, ControlStep, TrackedStep, CountStep, LimitStep, TakersStep DEF IInv
<1>2. CASE UNCHANGED vars
  BY <1>2 DEF IInv, vars, pool, TypeOK, OwnerInv, StoreInv, WaitInv, Tracked, CountExact, Running,
     At, Limit, PlacesHaveTakers, Takers, Woken
<1> QED BY <1>1, <1>2

\* The invariant holds throughout.
THEOREM Invariance == Spec => []IInv
<1>1. IInv /\ [Next]_vars => IInv' BY InductiveStep
<1> QED BY InitIInv, <1>1, PTL DEF Spec

\* thread_count never wraps below zero, and every variable keeps its type:
\* each release gives back a place that was taken.
THEOREM TypeCorrect == Spec => []TypeOK
<1>1. IInv => TypeOK BY DEF IInv
<1> QED BY Invariance, <1>1, PTL

\* thread_count is exact, whatever jobs panic and spawns fail.
THEOREM ExactCount == Spec => []CountExact
<1>1. IInv => CountExact BY DEF IInv
<1> QED BY Invariance, <1>1, PTL

\* At most max_threads jobs run at once.
THEOREM LimitSafety == Spec => []LimitKept
<1>1. IInv => LimitKept BY DEF IInv, Limit, CountExact, LimitKept
<1> QED BY Invariance, <1>1, PTL

\* When dispose has returned no thread is left, and until then none is lost.
THEOREM NoThreadLost == Spec => []ThreadsTracked
<1>1. ASSUME IInv, owner = "closed"
      PROVE  count = 0 /\ \A w \in Workers : worker[w] = "none"
  <2>1. handles = {} /\ joining = {} /\ \A c \in Clients : pc[c] \in {"idle", "return"}
    BY <1>1 DEF IInv, OwnerInv
  <2>2. \A c \in Clients : spawned[c] = NoWorker BY <1>1, <2>1 DEF IInv, StoreInv
  <2>3. \A w \in Workers : worker[w] = "none" BY <1>1, <2>1, <2>2, PoolAssumption DEF IInv, Tracked
  <2>4. Running = {} /\ At("spawn") = {} BY <2>1, <2>3 DEF Running, At
  <2> QED BY <1>1, <2>3, <2>4, FS_EmptySet DEF IInv, CountExact
<1>2. IInv => ThreadsTracked BY <1>1 DEF IInv, Tracked, ThreadsTracked
<1> QED BY Invariance, <1>2, PTL

\* No wake-up is lost: no submitter sleeps beside a free place that nobody
\* is about to take.
THEOREM WakeupSafety == Spec => []PlacesHaveTakers
<1>1. IInv => PlacesHaveTakers BY DEF IInv
<1> QED BY Invariance, <1>1, PTL
-----------------------------------------------------------------------------
(* Standstill *)

\* Where Step, WorkerStep and Closed have nothing to do: a submitter outside a
\* call or asleep on the Condvar, a thread that does not exist or has ended
\* and is not being joined, and dispose unless it has joined its last thread.
ClientStuck(c) == pc[c] = "idle" \/ c \in waiting
WorkerStuck(w) ==
  \/ worker[w] = "none"
  \/ worker[w] = "finished" /\ ~(owner = "joining" /\ w \in joining)
DisposeStuck == ~(owner = "joining" /\ joining = {})

Standstill ==
  /\ \A c \in Clients : ClientStuck(c)
  /\ \A w \in Workers : WorkerStuck(w)
  /\ DisposeStuck

\* If nothing can go on by itself, no submit and no dispose is left inside.
StandstillIsSettled ==
  Standstill => owner # "joining" /\ \A c \in Clients : pc[c] = "idle"

\* Whoever is stuck takes no step.
LEMMA StuckTakesNoStep ==
  ASSUME IInv
  PROVE  /\ \A c \in Clients : ClientStuck(c) => ~Step(c)
         /\ \A w \in Workers : WorkerStuck(w) => ~WorkerStep(w)
         /\ DisposeStuck => ~Closed
<1>1. ASSUME NEW c \in Clients, ClientStuck(c) PROVE ~Step(c)
  <2>1. pc[c] = "idle" \/ (pc[c] = "asleep" /\ c \in waiting)
    BY <1>1 DEF IInv, WaitInv, ClientStuck
  <2> QED BY <2>1 DEF Step, Reap, Acquire, Woken, Spawn, SpawnFails, Store, Return
<1>2. ASSUME NEW w \in Workers, WorkerStuck(w) PROVE ~WorkerStep(w)
  BY <1>2 DEF WorkerStuck, WorkerStep, JobEnds, ThreadEnds, Join
<1>3. DisposeStuck => ~Closed BY DEF DisposeStuck, Closed
<1> QED BY <1>1, <1>2, <1>3

\* Submitters sleep only under a limit.
SleepInv == waiting # {} => MaxThreads > 0

\* A handle is of a thread that has not been joined, and it is in one place:
\* reap joins through the Vec what no submitter still carries.
HandleInv ==
  /\ \A w \in handles \cup joining : worker[w] # "none"
  /\ \A c \in Clients : spawned[c] # NoWorker =>
       worker[spawned[c]] # "none" /\ spawned[c] \notin handles
  /\ \A c, d \in Clients : spawned[c] # NoWorker /\ spawned[c] = spawned[d] => c = d

\* Every step keeps the two.
LEMMA HandleStep ==
  ASSUME IInv, SleepInv, HandleInv, Next
  PROVE  SleepInv' /\ HandleInv'
<1> USE DEF Goto, pool
<1>0. TypeOK /\ OwnerInv /\ StoreInv BY DEF IInv
<1>1. ASSUME handles' = handles, joining' = joining, spawned' = spawned,
             \A w \in Workers : worker[w] # "none" => worker'[w] # "none"
      PROVE  HandleInv'
  BY <1>0, <1>1 DEF HandleInv, TypeOK
<1>2. ASSUME NEW S \in NotifyOne(waiting) PROVE S \subseteq waiting BY <1>2 DEF NotifyOne
<1>3. SleepInv'
  <2>1. CASE \E c \in Clients : Acquire(c) BY <2>1 DEF Acquire, Crowded, SleepInv
  <2>2. CASE ~\E c \in Clients : Acquire(c)
    <3>1. waiting' \subseteq waiting
      BY <1>2, <2>2 DEF Next, Step, WorkerStep, Submit, SpuriousWake, Reap, Spawn, SpawnFails,
         Store, Return, JobEnds, ThreadEnds, Join, Dispose, Closed, Release
    <3> QED BY <3>1 DEF SleepInv
  <2> QED BY <2>1, <2>2
<1>4. ASSUME NEW c \in Clients,
             Submit(c) \/ SpuriousWake(c) \/ Acquire(c) \/ SpawnFails(c) \/ Return(c)
      PROVE  HandleInv'
  BY <1>1, <1>4 DEF Submit, SpuriousWake, Acquire, SpawnFails, Return
<1>5. ASSUME NEW c \in Clients, Reap(c) PROVE HandleInv'
  <2>1. joining = {} BY <1>0, <1>5 DEF Reap, OwnerInv, TypeOK
  <2>2. /\ handles' = handles \ Finished /\ joining' = {} /\ spawned' = spawned
        /\ \A w \in Workers : worker[w] # "none" /\ w \notin handles \cap Finished
             => worker'[w] # "none"
    BY <1>5, <2>1 DEF Reap
  <2> QED BY <1>0, <2>2 DEF HandleInv, TypeOK
<1>6. ASSUME NEW c \in Clients, Spawn(c) PROVE HandleInv'
  <2>1. PICK v \in Workers : /\ worker[v] = "none"
                             /\ worker' = [worker EXCEPT ![v] = "job"]
                             /\ spawned' = [spawned EXCEPT ![c] = v]
    BY <1>6 DEF Spawn
  <2>2. handles' = handles /\ joining' = joining BY <1>6 DEF Spawn
  <2>3. \A w \in Workers : worker[w] # "none" => worker'[w] # "none"
    BY <1>0, <2>1 DEF TypeOK
  <2>4. spawned'[c] = v /\ worker'[v] # "none" /\ \A d \in Clients \ {c} : spawned'[d] = spawned[d]
    BY <1>0, <2>1 DEF TypeOK
  <2>5. v \notin handles \cup joining /\ \A d \in Clients : spawned[d] # v
    BY <2>1, PoolAssumption DEF HandleInv
  <2> QED BY <1>0, <2>2, <2>3, <2>4, <2>5 DEF HandleInv, TypeOK
<1>7. ASSUME NEW c \in Clients, Store(c) PROVE HandleInv'
  <2>1. /\ handles' = handles \cup {spawned[c]} /\ joining' = joining /\ worker' = worker
        /\ spawned'[c] = NoWorker /\ \A d \in Clients \ {c} : spawned'[d] = spawned[d]
    BY <1>0, <1>7 DEF Store, TypeOK
  <2>2. spawned[c] # NoWorker BY <1>0, <1>7 DEF Store, StoreInv
  <2> QED BY <2>1, <2>2 DEF HandleInv
<1>8. ASSUME NEW w \in Workers, JobEnds(w) \/ ThreadEnds(w) PROVE HandleInv'
  <2>1. \A v \in Workers : worker[v] # "none" => worker'[v] # "none"
    BY <1>0, <1>8 DEF JobEnds, ThreadEnds, TypeOK
  <2> QED BY <1>1, <1>8, <2>1 DEF JobEnds, ThreadEnds
<1>9. ASSUME NEW w \in Workers, Join(w) PROVE HandleInv'
  <2>1. handles = {} /\ \A c \in Clients : spawned[c] = NoWorker
    BY <1>0, <1>9 DEF Join, OwnerInv, StoreInv
  <2>2. /\ handles' = handles /\ spawned' = spawned /\ joining' = joining \ {w}
        /\ \A v \in Workers \ {w} : worker'[v] = worker[v]
    BY <1>0, <1>9 DEF Join, TypeOK
  <2> QED BY <1>0, <2>1, <2>2 DEF HandleInv, TypeOK
<1>10. ASSUME Dispose PROVE HandleInv'
  <2>1. \A c \in Clients : spawned[c] = NoWorker BY <1>0, <1>10 DEF Dispose, StoreInv
  <2> QED BY <1>10, <2>1 DEF Dispose, HandleInv
<1>11. ASSUME Closed PROVE HandleInv' BY <1>1, <1>11 DEF Closed
<1> QED BY <1>3, <1>4, <1>5, <1>6, <1>7, <1>8, <1>9, <1>10, <1>11 DEF Next, Step, WorkerStep

\* What is left of SubmitsReturn and DisposeReturns when nothing moves, for
\* any limit: no submitter sleeps with the limit free, and dispose waits for
\* no thread but one that runs.
THEOREM NoDeadlock == Spec => []StandstillIsSettled
<1> DEFINE Inv == IInv /\ SleepInv /\ HandleInv
<1>1. ASSUME Inv, Standstill
      PROVE  owner # "joining" /\ \A c \in Clients : pc[c] = "idle"
  <2>0. TypeOK /\ CountExact /\ PlacesHaveTakers /\ WaitInv BY <1>1 DEF IInv
  <2>1. \A c \in Clients : pc[c] = "idle" \/ (pc[c] = "asleep" /\ c \in waiting)
    BY <1>1, <2>0 DEF Standstill, ClientStuck, WaitInv
  <2>2. Running = {} /\ At("spawn") = {} /\ Takers = {}
    <3>1. \A w \in Workers : worker[w] # "job" BY <1>1 DEF Standstill, WorkerStuck
    <3>2. \A c \in Clients : ~(pc[c] = "acquire" \/ Woken(c)) BY <2>1 DEF Woken
    <3> QED BY <2>1, <3>1, <3>2 DEF Running, At, Takers
  <2>3. count = 0 BY <2>0, <2>2, FS_EmptySet DEF CountExact
  <2>4. waiting = {}
    <3>1. waiting # {} => MaxThreads <= 0
      BY <2>0, <2>2, <2>3, FS_EmptySet, PoolAssumption DEF PlacesHaveTakers
    <3> QED BY <1>1, <3>1, PoolAssumption DEF SleepInv
  <2>5. owner = "joining" => joining = {}
    BY <1>1, <2>0 DEF Standstill, WorkerStuck, HandleInv, TypeOK
  <2> QED BY <1>1, <2>1, <2>4, <2>5 DEF Standstill, DisposeStuck
<1>2. Init => SleepInv /\ HandleInv BY DEF Init, SleepInv, HandleInv
<1>3. IInv /\ SleepInv /\ HandleInv /\ [Next]_vars => SleepInv' /\ HandleInv'
  <2>1. CASE UNCHANGED vars BY <2>1 DEF vars, pool, SleepInv, HandleInv
  <2> QED BY <2>1, HandleStep
<1>4. Inv => StandstillIsSettled BY <1>1 DEF StandstillIsSettled
<1> QED BY <1>2, <1>3, <1>4, Invariance, PTL DEF Spec
=============================================================================

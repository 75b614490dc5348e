--------------------------- MODULE ArrayBQProofs ---------------------------
(***************************************************************************)
(* Proofs about ArrayBQ for every number of threads, every set of items and *)
(* every capacity.                                                          *)
(***************************************************************************)
EXTENDS ArrayBQ, SequenceLemmas, FiniteSetTheorems

-----------------------------------------------------------------------------
(* The inductive invariant *)

Critical == {"check", "cond", "sleep", "verdict", "commit"}
InWait   == {"cond", "sleep", "asleep"}

\* The mutex is owned by the one thread in a critical section.
LockInv == \A t \in Threads : lock = t <=> pc[t] \in Critical

\* Which methods reach which place.
OpInv == \A t \in Threads :
  /\ pc[t] = "idle" => op[t] = "none"
  /\ pc[t] = "lock" => op[t] # "none"
  /\ pc[t] \in InWait \cup {"check"} => op[t] \in {"push", "push_timeout", "pop", "pop_timeout"}
  /\ pc[t] = "verdict" => op[t] \in PushOps \cup PopOps
  /\ pc[t] = "commit" => op[t] \in PushOps \cup PopOps \cup {"drain"}
  /\ pc[t] = "cas" => op[t] = "dispose"

\* A result is known at the end of a call, after a timeout, and once a
\* dispose has won; notifications are pending at the end of a call only.
ResultInv == \A t \in Threads :
  /\ pc[t] \in {"idle", "check", "cond", "sleep", "asleep", "commit", "cas"} => ret[t] = "none"
  /\ pc[t] = "lock" /\ op[t] # "dispose" => ret[t] = "none"
  /\ pc[t] = "verdict" => ret[t] \in {"none", "timeout"}
  /\ pc[t] # "signal" => sig[t] = <<>>

\* A push carries its one item until it commits.
CarryInv == \A t \in Threads :
  op[t] \in PushOps /\ pc[t] # "signal" => \E i \in Items : carry[t] = <<i>>

WaitSetInv ==
  /\ \A t \in notFull : pc[t] = "asleep" /\ op[t] \in PushOps
  /\ \A t \in notEmpty : pc[t] = "asleep" /\ op[t] \in PopOps

\* The waiter counters count the threads inside the wait loops.
WaitingIn(ops) == {t \in Threads : op[t] \in ops /\ pc[t] \in InWait}
CounterInv ==
  /\ pushWaiters = Cardinality(WaitingIn(PushOps))
  /\ popWaiters = Cardinality(WaitingIn(PopOps))

\* What the wait loop established still holds at the verdict, because the
\* lock is held and the flag is never cleared.
VerdictInv == \A t \in Threads :
  pc[t] = "verdict" /\ ret[t] = "none" =>
    /\ op[t] \in {"push", "push_timeout"} => disposed \/ Len(buf) < Capacity
    /\ op[t] \in {"pop", "pop_timeout"} => disposed \/ buf # <<>>

\* A wait times out only while it has something to wait for.
TimeoutInv == \A t \in Threads :
  pc[t] = "verdict" /\ ret[t] = "timeout" => Blocked(t)

\* A thread about to sleep saw nothing to do, and if the flag was set since
\* then its dispose has not passed the lock yet.
SleepInv == \A t \in Threads : pc[t] = "sleep" =>
  /\ op[t] \in PushOps => Len(buf) >= Capacity
  /\ op[t] \in PopOps => buf = <<>>
  /\ disposed => \E u \in Threads : pc[u] = "lock" /\ op[u] = "dispose"

ControlInv == LockInv /\ OpInv /\ ResultInv /\ CarryInv /\ WaitSetInv

IInv == /\ TypeOK /\ ControlInv /\ CounterInv
        /\ VerdictInv /\ TimeoutInv /\ CommitsAreSafe /\ SleepInv
        /\ ExhaustedIsFinal /\ NoLostWakeup

-----------------------------------------------------------------------------
(* Control: types, lock ownership and program counters *)

THEOREM InitIInv == Init => IInv
<1> SUFFICES ASSUME Init PROVE IInv
  OBVIOUS
<1> USE BQAssumption DEF Init
<1>1. TypeOK
  <2>1. buf \in Seq(Items) /\ carry \in [Threads -> Seq(Items)]
        /\ sig \in [Threads -> Seq(Sigs)]
    BY EmptySeq
  <2>2. QED
    BY <2>1 DEF TypeOK, PCs, Rets
<1>2. ControlInv
  BY DEF ControlInv, LockInv, OpInv, ResultInv, CarryInv, WaitSetInv, Critical,
         InWait, PushOps
<1>3. CounterInv
  <2>1. WaitingIn(PushOps) = {} /\ WaitingIn(PopOps) = {}
    BY DEF WaitingIn, InWait
  <2>2. QED
    BY <2>1, FS_EmptySet DEF CounterInv
<1>4. VerdictInv /\ TimeoutInv /\ SleepInv
  BY DEF VerdictInv, TimeoutInv, SleepInv
<1>5. CommitsAreSafe
  BY DEF CommitsAreSafe, Capacity
<1>6. ExhaustedIsFinal /\ NoLostWakeup
  BY DEF ExhaustedIsFinal, NoLostWakeup, NoLostPopWakeup, NoLostPushWakeup,
         DisposeReaches
<1>7. QED
  BY <1>1, <1>2, <1>3, <1>4, <1>5, <1>6 DEF IInv

\* Everything in TypeOK but the two counters.
Types ==
  /\ buf \in Seq(Items)
  /\ lock \in Threads \cup {NoThread}
  /\ disposed \in BOOLEAN
  /\ notFull \in SUBSET Threads /\ notEmpty \in SUBSET Threads
  /\ pc \in [Threads -> PCs]
  /\ op \in [Threads -> Ops \cup {"none"}]
  /\ carry \in [Threads -> Seq(Items)]
  /\ ret \in [Threads -> Rets]
  /\ sig \in [Threads -> Seq(Sigs)]
  /\ expired \in [Threads -> BOOLEAN]
  /\ hand \in SUBSET Items
  /\ exhausted \in BOOLEAN

LEMMA WhenSigs ==
  ASSUME NEW c, NEW s \in Sigs, NEW d, NEW r \in Sigs
  PROVE  When(c, s) \in Seq(Sigs) /\ When(c, s) \o When(d, r) \in Seq(Sigs)
<1>1. When(c, s) \in Seq(Sigs) /\ When(d, r) \in Seq(Sigs)
  BY DEF When
<1>2. QED
  BY <1>1

LEMMA TypesStep == TypeOK /\ ControlInv /\ [Next]_vars => Types'
<1> SUFFICES ASSUME TypeOK, ControlInv, [Next]_vars PROVE Types'
  OBVIOUS
<1> USE BQAssumption DEF TypeOK, Types, PCs, Rets, Sigs, Ops, sync, local, Goto
<1>1. ASSUME NEW t \in Threads, Call(t) PROVE Types'
  <2>1. PICK o \in OpsOf[t] :
          /\ op' = [op EXCEPT ![t] = o]
          /\ pc' = [pc EXCEPT ![t] = IF o = "dispose" THEN "cas" ELSE "lock"]
          /\ \/ \E i \in hand : /\ hand' = hand \ {i}
                                /\ carry' = [carry EXCEPT ![t] = <<i>>]
             \/ UNCHANGED <<hand, carry>>
    BY <1>1 DEF Call
  <2>2. o \in Ops /\ op' \in [Threads -> Ops \cup {"none"}]
    BY <2>1
  <2>3. hand' \in SUBSET Items /\ carry' \in [Threads -> Seq(Items)]
    <3>1. CASE \E i \in hand : /\ hand' = hand \ {i}
                               /\ carry' = [carry EXCEPT ![t] = <<i>>]
      <4>1. PICK i \in hand : /\ hand' = hand \ {i}
                              /\ carry' = [carry EXCEPT ![t] = <<i>>]
        BY <3>1
      <4>2. <<i>> \in Seq(Items)
        OBVIOUS
      <4>3. QED
        BY <4>1, <4>2
    <3>2. CASE UNCHANGED <<hand, carry>>
      BY <3>2
    <3>3. QED
      BY <2>1, <3>1, <3>2
  <2>4. QED
    BY <1>1, <2>1, <2>2, <2>3 DEF Call
<1>2. ASSUME NEW t \in Threads, Acquire(t) PROVE Types'
  BY <1>2 DEF Acquire
<1>3. ASSUME NEW t \in Threads, Check(t) PROVE Types'
  BY <1>3 DEF Check, AddWaiter
<1>4. ASSUME NEW t \in Threads, Predicate(t) PROVE Types'
  BY <1>4 DEF Predicate, AddWaiter
<1>5. ASSUME NEW t \in Threads, Sleep(t) PROVE Types'
  BY <1>5 DEF Sleep
<1>6. ASSUME NEW t \in Threads, Reacquire(t) PROVE Types'
  BY <1>6 DEF Reacquire
<1>7. ASSUME NEW t \in Threads, Expire(t) PROVE Types'
  BY <1>7 DEF Expire
<1>8. ASSUME NEW t \in Threads, Leave(t) PROVE Types'
  BY <1>8 DEF Leave
<1>9. ASSUME NEW t \in Threads, Verdict(t) PROVE Types'
  BY <1>9 DEF Verdict, PushVerdict, PopVerdict, Finish, Proceed
<1>10. ASSUME NEW t \in Threads, EnQCommit(t) PROVE Types'
  <2>1. sig' \in [Threads -> Seq(Sigs)]
    BY <1>10, WhenSigs DEF EnQCommit
  <2>2. buf' \in Seq(Items) /\ carry' \in [Threads -> Seq(Items)]
    BY <1>10 DEF EnQCommit
  <2>3. QED
    BY <1>10, <2>1, <2>2 DEF EnQCommit, Finish
<1>11. ASSUME NEW t \in Threads, DeQCommit(t) PROVE Types'
  <2>1. sig' \in [Threads -> Seq(Sigs)]
    BY <1>11, WhenSigs DEF DeQCommit
  <2>2. buf' \in Seq(Items) /\ carry' \in [Threads -> Seq(Items)]
    BY <1>11 DEF DeQCommit
  <2>3. QED
    BY <1>11, <2>1, <2>2 DEF DeQCommit, Finish
<1>12. ASSUME NEW t \in Threads, Drain(t) PROVE Types'
  <2>1. sig' \in [Threads -> Seq(Sigs)]
    BY <1>12, WhenSigs DEF Drain
  <2>2. buf' \in Seq(Items) /\ carry' \in [Threads -> Seq(Items)]
    BY <1>12 DEF Drain
  <2>3. QED
    BY <1>12, <2>1, <2>2 DEF Drain, Finish
<1>13. ASSUME NEW t \in Threads, DisposeCas(t) PROVE Types'
  BY <1>13 DEF DisposeCas
<1>14. ASSUME NEW t \in Threads, DisposeBarrier(t) PROVE Types'
  BY <1>14 DEF DisposeBarrier
<1>15. ASSUME NEW t \in Threads, Signal(t) PROVE Types'
  BY <1>15 DEF Signal, NotifyOne
<1>16. ASSUME NEW t \in Threads, Return(t) PROVE Types'
  BY <1>16, RangeOfSeq DEF Return
<1>17. CASE UNCHANGED vars
  BY <1>17 DEF vars
<1>18. QED
  BY <1>1, <1>2, <1>3, <1>4, <1>5, <1>6, <1>7, <1>8, <1>9, <1>10, <1>11,
     <1>12, <1>13, <1>14, <1>15, <1>16, <1>17
     DEF Next, Step, TimeoutWake, SpuriousWake
LEMMA ControlStep == TypeOK /\ ControlInv /\ [Next]_vars => ControlInv'
<1> SUFFICES ASSUME TypeOK, ControlInv, [Next]_vars PROVE ControlInv'
  OBVIOUS
<1> USE BQAssumption
    DEF TypeOK, ControlInv, LockInv, OpInv, ResultInv, CarryInv, WaitSetInv, PCs,
        Critical, InWait, PushOps, PopOps, TryOps, TimedOps, Ops, sync, local, Goto
<1>1. ASSUME NEW t \in Threads, Call(t) PROVE ControlInv'
  <2>1. PICK o \in Ops :
          /\ pc[t] = "idle"
          /\ op' = [op EXCEPT ![t] = o]
          /\ pc' = [pc EXCEPT ![t] = IF o = "dispose" THEN "cas" ELSE "lock"]
          /\ UNCHANGED <<lock, ret, sig, notFull, notEmpty>>
          /\ \/ /\ o \in PushOps
                /\ \E i \in hand : carry' = [carry EXCEPT ![t] = <<i>>]
             \/ o \notin PushOps /\ carry' = carry
    BY <1>1 DEF Call
  <2>2. LockInv'
    BY <2>1
  <2>3. OpInv'
    BY <2>1
  <2>4. ResultInv'
    BY <2>1
  <2>5. CarryInv'
    BY <2>1
  <2>6. WaitSetInv'
    BY <2>1
  <2>7. QED
    BY <2>2, <2>3, <2>4, <2>5, <2>6
<1>2. ASSUME NEW t \in Threads, Acquire(t) PROVE ControlInv'
  <2>1. LockInv'
    BY <1>2 DEF Acquire
  <2>2. OpInv'
    BY <1>2 DEF Acquire
  <2>3. ResultInv'
    BY <1>2 DEF Acquire
  <2>4. CarryInv' /\ WaitSetInv'
    BY <1>2 DEF Acquire
  <2>5. QED
    BY <2>1, <2>2, <2>3, <2>4
<1>3. ASSUME NEW t \in Threads, Check(t) PROVE ControlInv'
  BY <1>3 DEF Check, AddWaiter
<1>4. ASSUME NEW t \in Threads, Predicate(t) PROVE ControlInv'
  BY <1>4 DEF Predicate, AddWaiter
<1>5. ASSUME NEW t \in Threads, Sleep(t) PROVE ControlInv'
  BY <1>5 DEF Sleep
<1>6. ASSUME NEW t \in Threads, Reacquire(t) PROVE ControlInv'
  BY <1>6 DEF Reacquire
<1>7. ASSUME NEW t \in Threads, Expire(t) PROVE ControlInv'
  BY <1>7 DEF Expire
<1>8. ASSUME NEW t \in Threads, Leave(t) PROVE ControlInv'
  BY <1>8 DEF Leave
<1>9. ASSUME NEW t \in Threads, Verdict(t) PROVE ControlInv'
  <2>1. /\ pc[t] = "verdict"
        /\ \/ pc' = [pc EXCEPT ![t] = "signal"] /\ lock' = NoThread
           \/ pc' = [pc EXCEPT ![t] = "commit"] /\ lock' = lock /\ ret' = ret
                /\ ret[t] = "none"
        /\ \E r \in Rets : ret' = [ret EXCEPT ![t] = r]
        /\ UNCHANGED <<op, carry, sig, notFull, notEmpty>>
    BY <1>9 DEF Verdict, PushVerdict, PopVerdict, Finish, Proceed, Rets
  <2>2. LockInv'
    <3>1. CASE pc' = [pc EXCEPT ![t] = "signal"] /\ lock' = NoThread
      BY <2>1, <3>1
    <3>2. CASE pc' = [pc EXCEPT ![t] = "commit"] /\ lock' = lock
      BY <2>1, <3>2
    <3>3. QED
      BY <2>1, <3>1, <3>2
  <2>3. OpInv'
    BY <2>1
  <2>4. ResultInv'
    BY <2>1
  <2>5. CarryInv'
    <3>1. pc[t] # "signal" /\ \A u \in Threads \ {t} : pc'[u] = pc[u]
      BY <2>1
    <3>2. QED
      BY <2>1, <3>1
  <2>6. WaitSetInv'
    BY <2>1
  <2>7. QED
    BY <2>2, <2>3, <2>4, <2>5, <2>6
<1>10. ASSUME NEW t \in Threads, EnQCommit(t) PROVE ControlInv'
  BY <1>10 DEF EnQCommit, Finish
<1>11. ASSUME NEW t \in Threads, DeQCommit(t) PROVE ControlInv'
  BY <1>11 DEF DeQCommit, Finish
<1>12. ASSUME NEW t \in Threads, Drain(t) PROVE ControlInv'
  <2>1. LockInv' /\ OpInv' /\ WaitSetInv'
    BY <1>12 DEF Drain, Finish
  <2>2. ResultInv'
    BY <1>12 DEF Drain, Finish
  <2>3. CarryInv'
    BY <1>12 DEF Drain, Finish
  <2>4. QED
    BY <2>1, <2>2, <2>3
<1>13. ASSUME NEW t \in Threads, DisposeCas(t) PROVE ControlInv'
  BY <1>13 DEF DisposeCas
<1>14. ASSUME NEW t \in Threads, DisposeBarrier(t) PROVE ControlInv'
  BY <1>14 DEF DisposeBarrier
<1>15. ASSUME NEW t \in Threads, Signal(t) PROVE ControlInv'
  BY <1>15 DEF Signal, NotifyOne
<1>16. ASSUME NEW t \in Threads, Return(t) PROVE ControlInv'
  BY <1>16 DEF Return
<1>17. CASE UNCHANGED vars
  BY <1>17 DEF vars
<1>18. QED
  BY <1>1, <1>2, <1>3, <1>4, <1>5, <1>6, <1>7, <1>8, <1>9, <1>10, <1>11,
     <1>12, <1>13, <1>14, <1>15, <1>16, <1>17
     DEF Next, Step, TimeoutWake, SpuriousWake

-----------------------------------------------------------------------------
(* The waiter counters *)

LEMMA WaitingFinite ==
  ASSUME NEW ops
  PROVE  IsFiniteSet(WaitingIn(ops)) /\ Cardinality(WaitingIn(ops)) \in Nat
<1>1. WaitingIn(ops) \subseteq Threads
  BY DEF WaitingIn
<1>2. QED
  BY <1>1, BQAssumption, FS_Subset, FS_CardinalityType

\* Only Check and Predicate move threads in and out of the wait loops.
LEMMA WaitingUnchanged ==
  ASSUME \A t \in Threads :
           (op'[t] = op[t] /\ (pc'[t] \in InWait <=> pc[t] \in InWait))
           \/ (pc[t] \notin InWait /\ pc'[t] \notin InWait)
  PROVE  WaitingIn(PushOps)' = WaitingIn(PushOps) /\ WaitingIn(PopOps)' = WaitingIn(PopOps)
BY DEF WaitingIn

LEMMA CounterStep ==
  TypeOK /\ ControlInv /\ CounterInv /\ [Next]_vars => CounterInv'
<1> SUFFICES ASSUME TypeOK, ControlInv, CounterInv, [Next]_vars PROVE CounterInv'
  OBVIOUS
<1> USE DEF TypeOK, PCs, sync, local, Goto
<1>1. ASSUME NEW t \in Threads, Check(t) PROVE CounterInv'
  <2>1. CASE pc' = [pc EXCEPT ![t] = "cond"] /\ AddWaiter(t, 1)
    <3>1. op' = op /\ t \notin WaitingIn(PushOps) /\ t \notin WaitingIn(PopOps)
          /\ op[t] \in {"push", "push_timeout", "pop", "pop_timeout"}
      BY <1>1 DEF Check, WaitingIn, InWait, ControlInv, OpInv
    <3>2. CASE op[t] \in PushOps
      <4>1. /\ WaitingIn(PushOps)' = WaitingIn(PushOps) \cup {t}
            /\ WaitingIn(PopOps)' = WaitingIn(PopOps)
            /\ pushWaiters' = pushWaiters + 1 /\ popWaiters' = popWaiters
        BY <2>1, <3>1, <3>2 DEF WaitingIn, InWait, AddWaiter, PushOps, PopOps
      <4>2. QED
        BY <3>1, <4>1, WaitingFinite, FS_AddElement DEF CounterInv
    <3>3. CASE op[t] \notin PushOps
      <4>1. /\ WaitingIn(PopOps)' = WaitingIn(PopOps) \cup {t}
            /\ WaitingIn(PushOps)' = WaitingIn(PushOps)
            /\ popWaiters' = popWaiters + 1 /\ pushWaiters' = pushWaiters
        BY <2>1, <3>1, <3>3 DEF WaitingIn, InWait, AddWaiter, PushOps, PopOps
      <4>2. QED
        BY <3>1, <4>1, WaitingFinite, FS_AddElement DEF CounterInv
    <3>4. QED
      BY <3>2, <3>3
  <2>2. CASE pc' = [pc EXCEPT ![t] = "verdict"] /\ UNCHANGED <<pushWaiters, popWaiters>>
    BY <1>1, <2>2, WaitingUnchanged DEF Check, InWait, CounterInv
  <2>3. QED
    BY <1>1, <2>1, <2>2 DEF Check
<1>2. ASSUME NEW t \in Threads, Predicate(t) PROVE CounterInv'
  <2>1. CASE pc' = [pc EXCEPT ![t] = "verdict"] /\ AddWaiter(t, -1)
    <3>1. op' = op /\ pc[t] \in InWait
          /\ op[t] \in {"push", "push_timeout", "pop", "pop_timeout"}
      BY <1>2 DEF Predicate, InWait, ControlInv, OpInv
    <3>2. CASE op[t] \in PushOps
      <4>1. /\ WaitingIn(PushOps)' = WaitingIn(PushOps) \ {t}
            /\ WaitingIn(PopOps)' = WaitingIn(PopOps)
            /\ pushWaiters' = pushWaiters + (-1) /\ popWaiters' = popWaiters
            /\ t \in WaitingIn(PushOps)
        BY <2>1, <3>1, <3>2 DEF WaitingIn, InWait, AddWaiter, PushOps, PopOps
      <4>2. QED
        BY <4>1, WaitingFinite, FS_RemoveElement DEF CounterInv
    <3>3. CASE op[t] \notin PushOps
      <4>1. /\ WaitingIn(PopOps)' = WaitingIn(PopOps) \ {t}
            /\ WaitingIn(PushOps)' = WaitingIn(PushOps)
            /\ popWaiters' = popWaiters + (-1) /\ pushWaiters' = pushWaiters
            /\ t \in WaitingIn(PopOps)
        BY <2>1, <3>1, <3>3 DEF WaitingIn, InWait, AddWaiter, PushOps, PopOps
      <4>2. QED
        BY <4>1, WaitingFinite, FS_RemoveElement DEF CounterInv
    <3>4. QED
      BY <3>2, <3>3
  <2>2. CASE pc' = [pc EXCEPT ![t] = "sleep"] /\ UNCHANGED <<pushWaiters, popWaiters>>
    BY <1>2, <2>2, WaitingUnchanged DEF Predicate, InWait, CounterInv
  <2>3. QED
    BY <1>2, <2>1, <2>2 DEF Predicate
<1>3. ASSUME NEW t \in Threads,
             \/ Acquire(t) \/ Verdict(t) \/ EnQCommit(t) \/ DeQCommit(t) \/ Drain(t)
             \/ DisposeCas(t) \/ DisposeBarrier(t) \/ Signal(t) \/ Return(t)
      PROVE CounterInv'
  <2>1. /\ pc[t] \notin InWait /\ pc'[t] \notin InWait
        /\ \A u \in Threads \ {t} : pc'[u] = pc[u] /\ op'[u] = op[u]
        /\ UNCHANGED <<pushWaiters, popWaiters>>
    BY <1>3 DEF Acquire, Verdict, PushVerdict, PopVerdict, Finish, Proceed,
                EnQCommit, DeQCommit, Drain, DisposeCas, DisposeBarrier, Signal,
                Return, InWait
  <2>2. QED
    BY <2>1, WaitingUnchanged DEF CounterInv
<1>4. ASSUME NEW t \in Threads,
             Sleep(t) \/ Reacquire(t) \/ Expire(t) \/ Leave(t)
      PROVE CounterInv'
  <2>1. /\ \A u \in Threads : pc'[u] \in InWait <=> pc[u] \in InWait
        /\ UNCHANGED <<op, pushWaiters, popWaiters>>
    BY <1>4 DEF Sleep, Reacquire, Expire, Leave, InWait
  <2>2. QED
    BY <2>1, WaitingUnchanged DEF CounterInv
<1>5. ASSUME NEW t \in Threads, Call(t) PROVE CounterInv'
  <2>1. /\ pc[t] \notin InWait /\ pc'[t] \notin InWait
        /\ \A u \in Threads \ {t} : pc'[u] = pc[u] /\ op'[u] = op[u]
        /\ UNCHANGED <<pushWaiters, popWaiters>>
    BY <1>5 DEF Call, InWait
  <2>2. QED
    BY <2>1, WaitingUnchanged DEF CounterInv
<1>6. CASE UNCHANGED vars
  BY <1>6, WaitingUnchanged DEF vars, CounterInv
<1>7. QED
  BY <1>1, <1>2, <1>3, <1>4, <1>5, <1>6 DEF Next, Step, TimeoutWake, SpuriousWake

LEMMA TypeOKStep ==
  TypeOK /\ ControlInv /\ CounterInv /\ [Next]_vars => TypeOK'
<1> SUFFICES ASSUME TypeOK, ControlInv, CounterInv, [Next]_vars PROVE TypeOK'
  OBVIOUS
<1>1. Types' /\ CounterInv'
  BY TypesStep, CounterStep
<1>2. pushWaiters' \in Nat /\ popWaiters' \in Nat
  <2>1. Cardinality(WaitingIn(PushOps)') \in Nat /\ Cardinality(WaitingIn(PopOps)') \in Nat
    <3>1. WaitingIn(PushOps)' \subseteq Threads /\ WaitingIn(PopOps)' \subseteq Threads
      BY DEF WaitingIn
    <3>2. QED
      BY <3>1, BQAssumption, FS_Subset, FS_CardinalityType
  <2>2. QED
    BY <1>1, <2>1 DEF CounterInv
<1>3. QED
  BY <1>1, <1>2 DEF Types, TypeOK

-----------------------------------------------------------------------------
(* What the lock protects *)

LEMMA CapacityNat == Capacity \in Nat \ {0}
BY BQAssumption DEF Capacity

\* Whoever is in a critical section is there alone.
LEMMA Exclusive ==
  ASSUME ControlInv, NEW t \in Threads, NEW u \in Threads,
         pc[t] \in Critical, pc[u] \in Critical
  PROVE  t = u
BY DEF ControlInv, LockInv

\* The buffer, and the place of the thread that changes it.
BufferStep(t) == EnQCommit(t) \/ DeQCommit(t) \/ Drain(t)

LEMMA FrameStep ==
  ASSUME TypeOK, ControlInv, [Next]_vars
  PROVE  /\ disposed => disposed'
         /\ buf' = buf \/ \E t \in Threads : BufferStep(t)
<1> USE DEF sync, local
<1>1. ASSUME NEW t \in Threads, Step(t), ~BufferStep(t) PROVE buf' = buf
  BY <1>1 DEF Step, BufferStep, Acquire, Check, Predicate, Sleep, Reacquire, Expire,
              TimeoutWake, Leave, Verdict, DisposeCas, DisposeBarrier, Signal, Return
<1>2. ASSUME NEW t \in Threads, Step(t) PROVE disposed => disposed'
  BY <1>2 DEF Step, Acquire, Check, Predicate, Sleep, Reacquire, Expire,
              TimeoutWake, Leave, Verdict, DisposeCas, DisposeBarrier, Signal, Return,
              EnQCommit, DeQCommit, Drain
<1>3. ASSUME NEW t \in Threads, Call(t) \/ SpuriousWake(t) PROVE UNCHANGED <<buf, disposed>>
  BY <1>3 DEF Call, SpuriousWake, Leave
<1>4. QED
  BY <1>1, <1>2, <1>3 DEF Next, vars

\* Only Predicate enters the verdict with a wait behind it; a buffer changed
\* by another thread is impossible while the lock is held.
LEMMA VerdictStep ==
  TypeOK /\ ControlInv /\ VerdictInv /\ [Next]_vars => VerdictInv'
<1> SUFFICES ASSUME TypeOK, ControlInv, VerdictInv, [Next]_vars,
                    NEW u \in Threads, pc'[u] = "verdict", ret'[u] = "none"
             PROVE  /\ op'[u] \in {"push", "push_timeout"} => disposed' \/ Len(buf') < Capacity
                    /\ op'[u] \in {"pop", "pop_timeout"} => disposed' \/ buf' # <<>>
  BY DEF VerdictInv
<1> USE DEF TypeOK, PCs, sync, local, Goto
<1>0. Len(buf) \in Nat /\ Capacity \in Nat
  BY CapacityNat, LenProperties
<1>1. CASE pc[u] = "verdict" /\ ret[u] = "none" /\ op'[u] = op[u]
  <2>1. buf' = buf
    <3>1. ASSUME NEW t \in Threads, BufferStep(t) PROVE FALSE
      <4>1. pc[t] = "commit" /\ pc' = [pc EXCEPT ![t] = "signal"]
        BY <3>1 DEF BufferStep, EnQCommit, DeQCommit, Drain, Finish
      <4>2. QED
        BY <4>1, <1>1, Exclusive DEF Critical
    <3>2. QED
      BY <3>1, FrameStep
  <2>2. QED
    BY <2>1, <1>1, FrameStep DEF VerdictInv
<1>2. ASSUME NEW t \in Threads, Check(t), t = u PROVE ~Blocked(u) \/ disposed
  BY <1>2 DEF Check
<1>3. ASSUME NEW t \in Threads, Predicate(t), t = u PROVE ~Blocked(u) \/ disposed
  BY <1>3 DEF Predicate
<1>4. ASSUME NEW t \in Threads, Check(t) \/ Predicate(t), t = u
      PROVE  UNCHANGED <<buf, disposed, op>>
  BY <1>4 DEF Check, Predicate
<1>5. ASSUME NEW t \in Threads, Acquire(t), t = u
      PROVE  op'[u] \in TryOps
  BY <1>5 DEF Acquire
<1>6. ASSUME NEW t \in Threads, t = u, ~Acquire(t), ~Check(t), ~Predicate(t),
             Call(t) \/ SpuriousWake(t) \/ Step(t)
      PROVE  pc[u] = "verdict" /\ ret[u] = "none" /\ op'[u] = op[u]
  BY <1>6 DEF Call, SpuriousWake, Step, Sleep, Reacquire, Expire, TimeoutWake, Leave,
              Verdict, PushVerdict, PopVerdict, Finish, Proceed, EnQCommit, DeQCommit,
              Drain, DisposeCas, DisposeBarrier, Signal, Return
<1>7. ASSUME NEW t \in Threads, t # u, Call(t) \/ SpuriousWake(t) \/ Step(t)
      PROVE  pc[u] = "verdict" /\ ret[u] = "none" /\ op'[u] = op[u]
  BY <1>7 DEF Call, SpuriousWake, Step, Acquire, Check, Predicate, Sleep, Reacquire,
              Expire, TimeoutWake, Leave, Verdict, PushVerdict, PopVerdict, Finish,
              Proceed, EnQCommit, DeQCommit, Drain, DisposeCas, DisposeBarrier, Signal,
              Return
<1>8. CASE UNCHANGED vars
  BY <1>1, <1>8 DEF vars
<1>9. ASSUME NEW t \in Threads, Check(t) \/ Predicate(t), t = u
      PROVE  /\ op'[u] \in {"push", "push_timeout"} => disposed' \/ Len(buf') < Capacity
             /\ op'[u] \in {"pop", "pop_timeout"} => disposed' \/ buf' # <<>>
  BY <1>9, <1>0, <1>2, <1>3, <1>4 DEF Blocked, IsFull, PushOps
<1>10. QED
  BY <1>1, <1>5, <1>6, <1>7, <1>8, <1>9 DEF Next, TryOps

LEMMA CommitStep ==
  TypeOK /\ ControlInv /\ VerdictInv /\ CommitsAreSafe /\ [Next]_vars
    => CommitsAreSafe'
<1> SUFFICES ASSUME TypeOK, ControlInv, VerdictInv, CommitsAreSafe, [Next]_vars
             PROVE  CommitsAreSafe'
  OBVIOUS
<1> USE DEF TypeOK, PCs, sync, local, Goto
<1>0. Len(buf) \in Nat /\ Capacity \in Nat /\ Len(buf) <= Capacity
      /\ (buf # <<>> => Len(buf) > 0)
  BY CapacityNat, LenProperties, EmptySeq DEF CommitsAreSafe
<1>1. Len(buf') <= Capacity
  <2>1. ASSUME NEW t \in Threads, EnQCommit(t) PROVE Len(buf') <= Capacity
    <3>1. PICK i \in Items : carry[t] = <<i>>
      BY <2>1 DEF EnQCommit, ControlInv, CarryInv
    <3>2. buf' = buf \o <<i>> /\ Len(buf) < Capacity
      BY <2>1, <3>1 DEF EnQCommit, CommitsAreSafe
    <3>3. QED
      BY <1>0, <3>2
  <2>2. ASSUME NEW t \in Threads, DeQCommit(t) PROVE Len(buf') <= Capacity
    BY <1>0, <2>2, HeadTailProperties DEF DeQCommit
  <2>3. ASSUME NEW t \in Threads, Drain(t) PROVE Len(buf') <= Capacity
    BY <1>0, <2>3, EmptySeq DEF Drain
  <2>4. QED
    BY <1>0, <2>1, <2>2, <2>3, FrameStep DEF BufferStep
<1>2. ASSUME NEW u \in Threads, pc'[u] = "commit"
      PROVE  /\ op'[u] \in PushOps => Len(buf') < Capacity
             /\ op'[u] \in PopOps => buf' # <<>>
  <2>1. CASE pc[u] = "commit" /\ op'[u] = op[u]
    <3>1. ASSUME NEW t \in Threads, BufferStep(t) PROVE FALSE
      <4>1. pc[t] = "commit" /\ pc' = [pc EXCEPT ![t] = "signal"]
        BY <3>1 DEF BufferStep, EnQCommit, DeQCommit, Drain, Finish
      <4>2. QED
        BY <4>1, <1>2, <2>1, Exclusive DEF Critical
    <3>2. QED
      BY <2>1, <3>1, FrameStep DEF CommitsAreSafe
  <2>2. ASSUME NEW t \in Threads, Verdict(t), t = u
        PROVE  /\ UNCHANGED <<buf, op>> /\ ret[u] = "none" /\ pc[u] = "verdict"
               /\ op[u] \in PushOps => ~disposed /\ (op[u] = "try_push" => ~IsFull)
               /\ op[u] \in PopOps => ~PopUnavailable(u) /\ (op[u] = "try_pop" => buf # <<>>)
    BY <1>2, <2>2 DEF Verdict, PushVerdict, PopVerdict, Finish, Proceed, PushOps, PopOps
  <2>3. ASSUME NEW t \in Threads, Verdict(t), t = u
        PROVE  /\ op'[u] \in PushOps => Len(buf') < Capacity
               /\ op'[u] \in PopOps => buf' # <<>>
    <3>1. op'[u] = op[u] /\ buf' = buf
      BY <2>2, <2>3
    <3>2. CASE op[u] \in {"push", "push_timeout"}
      BY <2>2, <2>3, <3>1, <3>2 DEF VerdictInv, PushOps, PopOps
    <3>3. CASE op[u] = "try_push"
      BY <2>2, <2>3, <3>1, <3>3, <1>0 DEF IsFull, PushOps, PopOps
    <3>4. CASE op[u] \in PopOps
      BY <2>2, <2>3, <3>1, <3>4 DEF VerdictInv, PopUnavailable, PushOps, PopOps
    <3>5. QED
      BY <3>1, <3>2, <3>3, <3>4 DEF PushOps
  <2>4. ASSUME NEW t \in Threads, Acquire(t), t = u
        PROVE  op'[u] = "drain"
    BY <1>2, <2>4 DEF Acquire
  <2>5. ASSUME NEW t \in Threads, t # u \/ (~Verdict(t) /\ ~Acquire(t)),
               Call(t) \/ SpuriousWake(t) \/ Step(t)
        PROVE  pc[u] = "commit" /\ op'[u] = op[u]
    BY <1>2, <2>5 DEF Call, SpuriousWake, Step, Acquire, Check, Predicate, Sleep, Reacquire,
              Expire, TimeoutWake, Leave, Verdict, PushVerdict, PopVerdict, Finish,
              Proceed, EnQCommit, DeQCommit, Drain, DisposeCas, DisposeBarrier, Signal,
              Return
  <2>6. CASE UNCHANGED vars
    BY <1>2, <2>1, <2>6 DEF vars
  <2>7. QED
    BY <2>1, <2>3, <2>4, <2>5, <2>6 DEF Next, PushOps, PopOps
<1>3. QED
  BY <1>1, <1>2 DEF CommitsAreSafe

LEMMA SleepStep ==
  TypeOK /\ ControlInv /\ SleepInv /\ [Next]_vars => SleepInv'
<1> SUFFICES ASSUME TypeOK, ControlInv, SleepInv, [Next]_vars,
                    NEW u \in Threads, pc'[u] = "sleep"
             PROVE  /\ op'[u] \in PushOps => Len(buf') >= Capacity
                    /\ op'[u] \in PopOps => buf' = <<>>
                    /\ disposed' => \E v \in Threads : pc'[v] = "lock" /\ op'[v] = "dispose"
  BY DEF SleepInv
<1> USE DEF TypeOK, PCs, sync, local, Goto
<1>1. ASSUME NEW t \in Threads, Predicate(t), t = u
      PROVE  /\ ~disposed' /\ UNCHANGED <<buf, op>>
             /\ op[u] \in PushOps => Len(buf) >= Capacity
             /\ op[u] \in PopOps => buf = <<>>
  BY <1>1 DEF Predicate, Blocked, IsFull, PushOps, PopOps
<1>2. ASSUME NEW t \in Threads, t # u \/ ~Predicate(t),
             Call(t) \/ SpuriousWake(t) \/ Step(t)
      PROVE  pc[u] = "sleep" /\ op'[u] = op[u]
  BY <1>2 DEF Call, SpuriousWake, Step, Acquire, Check, Predicate, Sleep, Reacquire,
              Expire, TimeoutWake, Leave, Verdict, PushVerdict, PopVerdict, Finish,
              Proceed, EnQCommit, DeQCommit, Drain, DisposeCas, DisposeBarrier, Signal,
              Return
<1>3. CASE pc[u] = "sleep" /\ op'[u] = op[u]
  <2>1. buf' = buf
    <3>1. ASSUME NEW t \in Threads, BufferStep(t) PROVE FALSE
      <4>1. pc[t] = "commit"
        BY <3>1 DEF BufferStep, EnQCommit, DeQCommit, Drain
      <4>2. QED
        BY <4>1, <1>3, Exclusive DEF Critical
    <3>2. QED
      BY <3>1, FrameStep
  <2>2. ASSUME disposed'
        PROVE  \E v \in Threads : pc'[v] = "lock" /\ op'[v] = "dispose"
    <3>1. CASE ~disposed
      <4>1. ASSUME NEW t \in Threads, DisposeCas(t)
            PROVE pc'[t] = "lock" /\ op'[t] = "dispose"
        BY <3>1, <4>1 DEF DisposeCas, ControlInv, OpInv
      <4>2. ASSUME NEW t \in Threads, Call(t) \/ SpuriousWake(t) \/ Step(t), ~DisposeCas(t)
            PROVE disposed' = disposed
        BY <4>2 DEF Call, SpuriousWake, Step, Acquire, Check, Predicate, Sleep, Reacquire,
              Expire, TimeoutWake, Leave, Verdict, EnQCommit, DeQCommit, Drain, DisposeBarrier, Signal,
              Return
      <4>3. QED
        BY <3>1, <2>2, <4>1, <4>2 DEF Next, vars
    <3>2. CASE disposed
      <4>1. PICK v \in Threads : pc[v] = "lock" /\ op[v] = "dispose"
        BY <3>2, <1>3 DEF SleepInv
      <4>2. lock # NoThread
        BY <1>3, BQAssumption DEF ControlInv, LockInv, Critical
      <4>3. pc'[v] = "lock" /\ op'[v] = "dispose"
        <5>1. ASSUME NEW t \in Threads, Call(t) \/ SpuriousWake(t) \/ Step(t)
              PROVE pc'[v] = pc[v] /\ op'[v] = op[v]
          BY <4>1, <4>2, <5>1 DEF Call, SpuriousWake, Step, Acquire, Check, Predicate, Sleep, Reacquire,
              Expire, TimeoutWake, Leave, Verdict, PushVerdict, PopVerdict, Finish,
              Proceed, EnQCommit, DeQCommit, Drain, DisposeCas, DisposeBarrier, Signal,
              Return
        <5>2. QED
          BY <4>1, <5>1 DEF Next, vars
      <4>4. QED
        BY <4>3
    <3>3. QED
      BY <3>1, <3>2
  <2>3. QED
    BY <1>3, <2>1, <2>2 DEF SleepInv
<1>4. CASE UNCHANGED vars
  BY <1>3, <1>4 DEF vars
<1>5. QED
  BY <1>1, <1>2, <1>3, <1>4 DEF Next

LEMMA ExhaustedStep ==
  TypeOK /\ ControlInv /\ VerdictInv /\ ExhaustedIsFinal /\ [Next]_vars
    => ExhaustedIsFinal'
<1> SUFFICES ASSUME TypeOK, ControlInv, VerdictInv, ExhaustedIsFinal, [Next]_vars,
                    exhausted'
             PROVE  disposed' /\ buf' = <<>> /\ \A u \in Threads : ~Committing(u)'
  BY DEF ExhaustedIsFinal
<1> USE DEF TypeOK, PCs, sync, local, Goto
<1>1. CASE exhausted
  <2>1. disposed /\ buf = <<>> /\ \A u \in Threads : ~Committing(u)
    BY <1>1 DEF ExhaustedIsFinal
  <2>2. disposed'
    BY <2>1, FrameStep
  <2>3. buf' = <<>>
    BY <2>1, FrameStep DEF BufferStep, EnQCommit, DeQCommit, Drain, Committing
  <2>4. ASSUME NEW u \in Threads, Committing(u)' PROVE FALSE
    <3>1. ASSUME NEW t \in Threads, Call(t) \/ SpuriousWake(t) \/ Step(t)
          PROVE FALSE
      BY <2>1, <2>4, <3>1
         DEF Committing, PushOps, PopOps, Call, SpuriousWake, Step, Acquire, Check, Predicate, Sleep, Reacquire,
              Expire, TimeoutWake, Leave, Verdict, PushVerdict, PopVerdict, Finish,
              Proceed, EnQCommit, DeQCommit, Drain, DisposeCas, DisposeBarrier, Signal,
              Return
    <3>2. CASE UNCHANGED vars
      BY <2>1, <2>4, <3>2 DEF vars, Committing
    <3>3. QED
      BY <3>1, <3>2 DEF Next
  <2>5. QED
    BY <2>2, <2>3, <2>4
<1>2. CASE ~exhausted
  <2>1. PICK t \in Threads : Verdict(t) /\ op[t] \in PopOps
    <3>1. ASSUME NEW t \in Threads, Call(t) \/ SpuriousWake(t) \/ Step(t), ~Verdict(t)
          PROVE FALSE
      BY <1>2, <3>1 DEF Call, SpuriousWake, Step, Acquire, Check, Predicate, Sleep,
              Reacquire, Expire, TimeoutWake, Leave, EnQCommit, DeQCommit, Drain,
              DisposeCas, DisposeBarrier, Signal, Return
    <3>2. QED
      BY <1>2, <3>1 DEF Next, vars, Verdict, PushVerdict, PopVerdict
  <2>2. /\ pc[t] = "verdict" /\ ret[t] = "none" /\ PopUnavailable(t)
        /\ pc' = [pc EXCEPT ![t] = "signal"] /\ UNCHANGED <<buf, disposed, op>>
    BY <1>2, <2>1 DEF Verdict, PopVerdict, Finish, Proceed, PushOps, PopOps
  <2>3. buf = <<>> /\ disposed
    BY <2>1, <2>2 DEF PopUnavailable, VerdictInv
  <2>4. ASSUME NEW u \in Threads, Committing(u)' PROVE FALSE
    <3>1. u # t /\ pc[u] = "commit"
      BY <2>2, <2>4 DEF Committing
    <3>2. QED
      BY <2>2, <3>1, Exclusive DEF Critical
  <2>5. QED
    BY <2>2, <2>3, <2>4
<1>3. QED
  BY <1>1, <1>2

LEMMA TimeoutStep ==
  TypeOK /\ ControlInv /\ TimeoutInv /\ [Next]_vars => TimeoutInv'
<1> SUFFICES ASSUME TypeOK, ControlInv, TimeoutInv, [Next]_vars,
                    NEW u \in Threads, pc'[u] = "verdict", ret'[u] = "timeout"
             PROVE  Blocked(u)'
  BY DEF TimeoutInv
<1> USE DEF TypeOK, PCs, sync, local, Goto
<1>1. ASSUME NEW t \in Threads, Predicate(t), t = u PROVE Blocked(u)'
  <2>1. ret[u] = "none"
    BY <1>1 DEF Predicate, ControlInv, ResultInv
  <2>2. Blocked(u) /\ UNCHANGED <<buf, op>>
    BY <1>1, <2>1 DEF Predicate
  <2>3. QED
    BY <2>2 DEF Blocked, IsFull
<1>2. ASSUME NEW t \in Threads, t # u \/ ~Predicate(t),
             Call(t) \/ SpuriousWake(t) \/ Step(t)
      PROVE  pc[u] = "verdict" /\ ret[u] = "timeout" /\ op'[u] = op[u]
  <2>1. pc[u] \in {"lock", "check"} /\ op[u] # "dispose" => ret[u] = "none"
    BY DEF ControlInv, ResultInv
  <2>2. ASSUME t = u, Call(t) \/ Acquire(t) \/ Check(t) PROVE FALSE
    BY <2>1, <2>2 DEF Call, Acquire, Check, ControlInv, ResultInv
  <2>3. ASSUME t = u, ~Call(t), ~Acquire(t), ~Check(t)
        PROVE  pc[u] = "verdict" /\ ret[u] = "timeout" /\ op'[u] = op[u]
    BY <1>2, <2>3 DEF SpuriousWake, Step, Sleep, Reacquire, Expire, TimeoutWake,
       Leave, Verdict, PushVerdict, PopVerdict, Finish, Proceed, EnQCommit, DeQCommit,
       Drain, DisposeCas, DisposeBarrier, Signal, Return
  <2>4. ASSUME t # u
        PROVE  pc[u] = "verdict" /\ ret[u] = "timeout" /\ op'[u] = op[u]
    BY <1>2, <2>4 DEF Call, SpuriousWake, Step, Acquire, Check, Predicate, Sleep,
       Reacquire, Expire, TimeoutWake, Leave, Verdict, PushVerdict, PopVerdict,
       Finish, Proceed, EnQCommit, DeQCommit, Drain, DisposeCas, DisposeBarrier,
       Signal, Return
  <2>5. QED
    BY <2>2, <2>3, <2>4
<1>3. CASE pc[u] = "verdict" /\ ret[u] = "timeout" /\ op'[u] = op[u]
  <2>1. buf' = buf
    <3>1. ASSUME NEW t \in Threads, BufferStep(t) PROVE FALSE
      <4>1. pc[t] = "commit" /\ pc' = [pc EXCEPT ![t] = "signal"]
        BY <3>1 DEF BufferStep, EnQCommit, DeQCommit, Drain, Finish
      <4>2. QED
        BY <4>1, <1>3, Exclusive DEF Critical
    <3>2. QED
      BY <3>1, FrameStep
  <2>2. QED
    BY <2>1, <1>3 DEF TimeoutInv, Blocked, IsFull
<1>4. CASE UNCHANGED vars
  BY <1>3, <1>4 DEF vars
<1>5. QED
  BY <1>1, <1>2, <1>3, <1>4 DEF Next

-----------------------------------------------------------------------------
(* Wake-ups *)

LEMMA WhenRange ==
  ASSUME NEW c, NEW x, NEW d, NEW y
  PROVE  /\ c => x \in Range(When(c, x) \o When(d, y))
         /\ d => y \in Range(When(c, x) \o When(d, y))
         /\ c => x \in Range(When(c, x))
<1>1. <<x>> \in Seq({x, y}) /\ <<y>> \in Seq({x, y}) /\ <<>> \in Seq({x, y})
  OBVIOUS
<1>2. <<x>> \o <<>> = <<x>> /\ <<>> \o <<y>> = <<y>>
  BY <1>1, ConcatEmptySeq
<1>3. x \in Range(<<x>> \o <<y>>) /\ y \in Range(<<x>> \o <<y>>)
      /\ x \in Range(<<x>>) /\ y \in Range(<<y>>)
  <2> DEFINE xy == <<x>> \o <<y>>
  <2>1. xy \in Seq({x, y}) /\ Len(xy) = 2 /\ xy[1] = x /\ xy[2] = y
    BY <1>1, ConcatProperties
  <2>2. DOMAIN xy = 1 .. 2
    BY <2>1, LenProperties
  <2>3. x \in Range(xy) /\ y \in Range(xy)
    BY <2>1, <2>2 DEF Range
  <2>4. x \in Range(<<x>>) /\ y \in Range(<<y>>)
    BY DEF Range
  <2>5. QED
    BY <2>3, <2>4
<1>4. CASE c /\ d
  BY <1>2, <1>3, <1>4 DEF When
<1>5. CASE c /\ ~d
  BY <1>2, <1>3, <1>5 DEF When
<1>6. CASE ~c /\ d
  BY <1>2, <1>3, <1>6 DEF When
<1>7. QED
  BY <1>4, <1>5, <1>6

\* Someone in a wait set is counted.
LEMMA Counted ==
  ASSUME TypeOK, ControlInv, CounterInv
  PROVE  (notFull # {} => pushWaiters > 0) /\ (notEmpty # {} => popWaiters > 0)
<1>1. notFull \subseteq WaitingIn(PushOps) /\ notEmpty \subseteq WaitingIn(PopOps)
  BY DEF TypeOK, ControlInv, WaitSetInv, WaitingIn, InWait
<1>2. ASSUME NEW ops, WaitingIn(ops) # {} PROVE Cardinality(WaitingIn(ops)) > 0
  BY <1>2, WaitingFinite, FS_EmptySet
<1>3. QED
  BY <1>1, <1>2 DEF CounterInv

\* A step of one thread leaves the place of every other thread alone; the
\* only thing it may do to them is to wake them.
LEMMA OthersStand ==
  ASSUME TypeOK, NEW t \in Threads, NEW w \in Threads, w # t,
         Call(t) \/ SpuriousWake(t) \/ Step(t)
  PROVE  /\ pc'[w] = pc[w] /\ op'[w] = op[w] /\ sig'[w] = sig[w] /\ carry'[w] = carry[w]
         /\ w \notin notFull \cup notEmpty => w \notin notFull' \cup notEmpty'
<1> USE DEF TypeOK, PCs, sync, local, Goto
<1>1. CASE Signal(t)
  <2>1. notFull' \subseteq notFull /\ notEmpty' \subseteq notEmpty
    BY <1>1 DEF Signal, NotifyOne
  <2>2. QED
    BY <1>1, <2>1 DEF Signal
<1>2. CASE Call(t) \/ SpuriousWake(t) \/ (Step(t) /\ ~Signal(t))
  BY <1>2 DEF Call, SpuriousWake, Step, Acquire, Check, Predicate, Sleep, Reacquire,
     Expire, TimeoutWake, Leave, Verdict, PushVerdict, PopVerdict, Finish, Proceed,
     EnQCommit, DeQCommit, Drain, DisposeCas, DisposeBarrier, Return
<1>3. QED
  BY <1>1, <1>2

\* What a Signal does to a list of names: those it does not consume stay.
LEMMA SignalKeeps ==
  ASSUME TypeOK, NEW t \in Threads, Signal(t), NEW x, x \in Range(sig[t])
  PROVE  x = Head(sig[t]) \/ x \in Range(sig'[t])
<1>1. sig[t] \in Seq(Sigs) /\ sig[t] # <<>> /\ sig'[t] = Tail(sig[t])
  BY DEF Signal, TypeOK
<1>2. QED
  BY <1>1, RangeHeadTail

LEMMA LengthFacts ==
  ASSUME TypeOK, CommitsAreSafe
  PROVE  /\ Len(buf) \in Nat /\ Capacity \in Nat \ {0} /\ Len(buf) <= Capacity
         /\ (buf = <<>> <=> Len(buf) = 0)
BY CapacityNat, LenProperties, EmptySeq DEF TypeOK, CommitsAreSafe

LEMMA PopWakeupStep ==
  IInv /\ [Next]_vars => NoLostPopWakeup'
<1> SUFFICES ASSUME IInv, [Next]_vars, buf' # <<>>, notEmpty' # {}
             PROVE  \E w \in Threads :
                      Looking(w, PopOps)' \/ Sending(w, {"one_not_empty", "all_not_empty"})'
  BY DEF NoLostPopWakeup, IInv
<1> DEFINE Names == {"one_not_empty", "all_not_empty"}
<1> USE DEF IInv, PCs, sync, local, Goto
<1>0. /\ Len(buf) \in Nat /\ Capacity \in Nat \ {0} /\ Len(buf) <= Capacity
      /\ (buf = <<>> <=> Len(buf) = 0)
  BY LengthFacts
<1>1. CASE UNCHANGED vars
  BY <1>1 DEF vars, NoLostWakeup, NoLostPopWakeup, Looking, Sending, Awake
<1>2. ASSUME NEW t \in Threads, Call(t) \/ SpuriousWake(t) \/ Step(t)
      PROVE  \E w \in Threads : Looking(w, PopOps)' \/ Sending(w, Names)'
  \* The antecedent becomes true.
  <2>1. ASSUME buf = <<>> PROVE Sending(t, Names)'
    <3>1. EnQCommit(t)
      BY <1>2, <2>1 DEF Call, SpuriousWake, Step, Acquire, Check, Predicate, Sleep,
         Reacquire, Expire, TimeoutWake, Leave, Verdict, DeQCommit, Drain, DisposeCas,
         DisposeBarrier, Signal, Return
    <3>2. notEmpty' = notEmpty /\ popWaiters > 0
      BY <3>1, Counted DEF EnQCommit
    <3>3. "one_not_empty" \in Range(sig'[t])
      BY <1>0, <2>1, <3>1, <3>2, WhenRange DEF EnQCommit, TypeOK
    <3>4. QED
      BY <3>3 DEF Sending
  <2>2. ASSUME notEmpty = {} PROVE buf = <<>>
    <3>1. Sleep(t) /\ op[t] \in PopOps
      BY <1>2, <2>2 DEF Call, SpuriousWake, Step, Acquire, Check, Predicate, Sleep,
         Reacquire, Expire, TimeoutWake, Leave, Verdict, EnQCommit, DeQCommit, Drain,
         DisposeCas, DisposeBarrier, Signal, NotifyOne, Return
    <3>2. QED
      BY <3>1 DEF Sleep, SleepInv
  \* It was true: somebody was looking or sending.
  <2>3. ASSUME buf # <<>>, notEmpty # {}
        PROVE  \E w \in Threads : Looking(w, PopOps)' \/ Sending(w, Names)'
    <3>1. PICK w \in Threads : Looking(w, PopOps) \/ Sending(w, Names)
      BY <2>3 DEF NoLostWakeup, NoLostPopWakeup
    <3>2. ASSUME w # t PROVE Looking(w, PopOps)' \/ Sending(w, Names)'
      BY <1>2, <3>1, <3>2, OthersStand DEF Looking, Sending, Awake
    <3>3. ASSUME w = t, Sending(t, Names)
          PROVE  \E v \in Threads : Looking(v, PopOps)' \/ Sending(v, Names)'
      <4>1. PICK x \in Names : x \in Range(sig[t])
        BY <3>3 DEF Sending
      <4>2. CASE Signal(t)
        <5>1. CASE x \in Range(sig'[t])
          BY <5>1 DEF Sending
        <5>2. CASE x = Head(sig[t]) /\ x = "all_not_empty"
          BY <4>2, <5>2 DEF Signal
        <5>3. CASE x = Head(sig[t]) /\ x = "one_not_empty"
          <6>1. notEmpty' \in NotifyOne(notEmpty) /\ UNCHANGED <<notFull, pc, op>>
            BY <4>2, <5>3 DEF Signal
          <6>2. PICK v \in notEmpty : notEmpty' = notEmpty \ {v}
            BY <2>3, <6>1 DEF NotifyOne
          <6>3. v \in Threads /\ pc[v] = "asleep" /\ op[v] \in PopOps /\ v \notin notFull
            BY <6>2 DEF ControlInv, WaitSetInv, TypeOK, PushOps, PopOps
          <6>4. Looking(v, PopOps)'
            BY <6>1, <6>2, <6>3 DEF Looking, Awake
          <6>5. QED
            BY <6>3, <6>4
        <5>4. QED
          BY <4>1, <4>2, <5>1, <5>2, <5>3, SignalKeeps
      <4>3. CASE ~Signal(t)
        <5>1. pc[t] = "signal" /\ sig[t] # <<>>
          BY <4>1, EmptySeq DEF ControlInv, ResultInv, Range
        <5>2. sig'[t] = sig[t]
          BY <1>2, <4>3, <5>1 DEF Call, SpuriousWake, Step, Acquire, Check, Predicate,
             Sleep, Reacquire, Expire, TimeoutWake, Leave, Verdict, EnQCommit, DeQCommit,
             Drain, DisposeCas, DisposeBarrier, Return
        <5>3. QED
          BY <5>2, <3>3 DEF Sending
      <4>4. QED
        BY <4>2, <4>3
    <3>4. ASSUME w = t, Looking(t, PopOps)
          PROVE  Looking(t, PopOps)' \/ Sending(t, Names)'
      <4>1. CASE DeQCommit(t)
        <5>1. Len(buf) > 1 /\ popWaiters > 0
          <6>1. buf' = Tail(buf) /\ notEmpty' = notEmpty
            BY <4>1 DEF DeQCommit
          <6>2. Len(buf') = Len(buf) - 1 /\ buf' \in Seq(Items)
            BY <2>3, <6>1, HeadTailProperties DEF TypeOK
          <6>3. QED
            BY <1>0, <2>3, <6>2, Counted, EmptySeq
        <5>2. "one_not_empty" \in Range(sig'[t])
          BY <4>1, <5>1, WhenRange DEF DeQCommit, TypeOK
        <5>3. QED
          BY <5>2 DEF Sending
      <4>2. CASE Verdict(t)
        <5>1. pc[t] = "verdict" /\ op[t] \in PopOps /\ op' = op
          BY <3>4, <4>2 DEF Verdict, Looking, PushOps, PopOps
        <5>2. ret[t] # "timeout"
          BY <2>3, <5>1 DEF TimeoutInv, Blocked, PushOps, PopOps
        <5>3. pc'[t] = "commit"
          BY <2>3, <4>2, <5>1, <5>2
             DEF Verdict, PopVerdict, PopUnavailable, Proceed, TypeOK, PushOps, PopOps
        <5>4. QED
          BY <5>1, <5>3 DEF Looking
      <4>3. CASE Predicate(t)
        BY <2>3, <3>4, <4>3 DEF Predicate, Looking, Blocked, TypeOK, PushOps, PopOps
      <4>4. CASE ~DeQCommit(t) /\ ~Verdict(t) /\ ~Predicate(t)
        BY <1>2, <3>4, <4>4 DEF Looking, Awake, TypeOK, PushOps, PopOps, Call,
           SpuriousWake, Step, Acquire, Check, Sleep, Reacquire, Expire, TimeoutWake,
           Leave, EnQCommit, Drain, DisposeCas, DisposeBarrier, Signal, NotifyOne, Return
      <4>5. QED
        BY <4>1, <4>2, <4>3, <4>4
    <3>5. QED
      BY <3>1, <3>2, <3>3, <3>4
  <2>4. QED
    BY <2>1, <2>2, <2>3
<1>3. QED
  BY <1>1, <1>2 DEF Next

LEMMA PushWakeupStep ==
  IInv /\ [Next]_vars => NoLostPushWakeup'
<1> SUFFICES ASSUME IInv, [Next]_vars, ~disposed', ~IsFull', notFull' # {}
             PROVE  \E w \in Threads :
                      Looking(w, PushOps)' \/ Sending(w, {"one_not_full", "all_not_full"})'
  BY DEF NoLostPushWakeup, IInv
<1> DEFINE Names == {"one_not_full", "all_not_full"}
<1> USE DEF IInv, PCs, sync, local, Goto
<1>0. /\ Len(buf) \in Nat /\ Capacity \in Nat \ {0} /\ Len(buf) <= Capacity
      /\ (buf = <<>> <=> Len(buf) = 0)
      /\ ~disposed
  BY LengthFacts, FrameStep
<1>1. CASE UNCHANGED vars
  BY <1>1 DEF vars, NoLostWakeup, NoLostPushWakeup, Looking, Sending, Awake, IsFull
<1>2. ASSUME NEW t \in Threads, Call(t) \/ SpuriousWake(t) \/ Step(t)
      PROVE  \E w \in Threads : Looking(w, PushOps)' \/ Sending(w, Names)'
  \* The antecedent becomes true.
  <2>1. ASSUME IsFull PROVE Sending(t, Names)'
    <3>1. buf' # buf
      BY <2>1 DEF IsFull
    <3>2. BufferStep(t)
      BY <1>2, <3>1 DEF BufferStep, Call, SpuriousWake, Step, Acquire, Check, Predicate,
         Sleep, Reacquire, Expire, TimeoutWake, Leave, Verdict, DisposeCas,
         DisposeBarrier, Signal, Return
    <3>3. ~EnQCommit(t) /\ Len(buf) = Capacity /\ buf # <<>>
      BY <1>0, <2>1 DEF EnQCommit, CommitsAreSafe, IsFull
    <3>4. notFull' = notFull /\ pushWaiters > 0
      BY <3>2, Counted DEF BufferStep, EnQCommit, DeQCommit, Drain
    <3>5. CASE DeQCommit(t)
      <4>1. "one_not_full" \in Range(sig'[t])
        BY <3>3, <3>4, <3>5, WhenRange DEF DeQCommit, TypeOK
      <4>2. QED
        BY <4>1 DEF Sending
    <3>6. CASE Drain(t)
      <4>1. "all_not_full" \in Range(sig'[t])
        BY <3>3, <3>4, <3>6, WhenRange DEF Drain, TypeOK
      <4>2. QED
        BY <4>1 DEF Sending
    <3>7. QED
      BY <3>2, <3>3, <3>5, <3>6 DEF BufferStep
  <2>2. ASSUME notFull = {} PROVE IsFull
    <3>1. Sleep(t) /\ op[t] \in PushOps
      BY <1>2, <2>2 DEF Call, SpuriousWake, Step, Acquire, Check, Predicate, Sleep,
         Reacquire, Expire, TimeoutWake, Leave, Verdict, EnQCommit, DeQCommit, Drain,
         DisposeCas, DisposeBarrier, Signal, NotifyOne, Return
    <3>2. QED
      BY <3>1 DEF Sleep, SleepInv, IsFull
  \* It was true: somebody was looking or sending.
  <2>3. ASSUME ~IsFull, notFull # {}
        PROVE  \E w \in Threads : Looking(w, PushOps)' \/ Sending(w, Names)'
    <3>1. PICK w \in Threads : Looking(w, PushOps) \/ Sending(w, Names)
      BY <1>0, <2>3 DEF NoLostWakeup, NoLostPushWakeup
    <3>2. ASSUME w # t PROVE Looking(w, PushOps)' \/ Sending(w, Names)'
      BY <1>2, <3>1, <3>2, OthersStand DEF Looking, Sending, Awake
    <3>3. ASSUME w = t, Sending(t, Names)
          PROVE  \E v \in Threads : Looking(v, PushOps)' \/ Sending(v, Names)'
      <4>1. PICK x \in Names : x \in Range(sig[t])
        BY <3>3 DEF Sending
      <4>2. CASE Signal(t)
        <5>1. CASE x \in Range(sig'[t])
          BY <5>1 DEF Sending
        <5>2. CASE x = Head(sig[t]) /\ x = "all_not_full"
          BY <4>2, <5>2 DEF Signal
        <5>3. CASE x = Head(sig[t]) /\ x = "one_not_full"
          <6>1. notFull' \in NotifyOne(notFull) /\ UNCHANGED <<notEmpty, pc, op>>
            BY <4>2, <5>3 DEF Signal
          <6>2. PICK v \in notFull : notFull' = notFull \ {v}
            BY <2>3, <6>1 DEF NotifyOne
          <6>3. v \in Threads /\ pc[v] = "asleep" /\ op[v] \in PushOps /\ v \notin notEmpty
            BY <6>2 DEF ControlInv, WaitSetInv, TypeOK, PushOps, PopOps
          <6>4. Looking(v, PushOps)'
            BY <6>1, <6>2, <6>3 DEF Looking, Awake
          <6>5. QED
            BY <6>3, <6>4
        <5>4. QED
          BY <4>1, <4>2, <5>1, <5>2, <5>3, SignalKeeps
      <4>3. CASE ~Signal(t)
        <5>1. pc[t] = "signal" /\ sig[t] # <<>>
          BY <4>1, EmptySeq DEF ControlInv, ResultInv, Range
        <5>2. sig'[t] = sig[t]
          BY <1>2, <4>3, <5>1 DEF Call, SpuriousWake, Step, Acquire, Check, Predicate,
             Sleep, Reacquire, Expire, TimeoutWake, Leave, Verdict, EnQCommit, DeQCommit,
             Drain, DisposeCas, DisposeBarrier, Return
        <5>3. QED
          BY <5>2, <3>3 DEF Sending
      <4>4. QED
        BY <4>2, <4>3
    <3>4. ASSUME w = t, Looking(t, PushOps)
          PROVE  Looking(t, PushOps)' \/ Sending(t, Names)'
      <4>1. CASE EnQCommit(t)
        <5>1. PICK i \in Items : carry[t] = <<i>>
          BY <4>1 DEF EnQCommit, ControlInv, CarryInv
        <5>2. Len(buf') = Len(buf) + 1
          BY <4>1, <5>1 DEF EnQCommit, TypeOK
        <5>3. Len(buf) + 1 < Capacity /\ pushWaiters > 0
          <6>1. notFull' = notFull
            BY <4>1 DEF EnQCommit
          <6>2. QED
            BY <1>0, <5>2, <6>1, Counted DEF IsFull
        <5>4. "one_not_full" \in Range(sig'[t])
          BY <4>1, <5>3, WhenRange DEF EnQCommit, TypeOK
        <5>5. QED
          BY <5>4 DEF Sending
      <4>2. CASE Verdict(t)
        <5>1. pc[t] = "verdict" /\ op[t] \in PushOps /\ op' = op
          BY <3>4, <4>2 DEF Verdict, Looking, PushOps, PopOps
        <5>2. ret[t] # "timeout"
          BY <2>3, <5>1 DEF TimeoutInv, Blocked, PushOps, PopOps
        <5>3. pc'[t] = "commit"
          BY <1>0, <2>3, <4>2, <5>1, <5>2
             DEF Verdict, PushVerdict, Proceed, TypeOK, PushOps, PopOps
        <5>4. QED
          BY <5>1, <5>3 DEF Looking
      <4>3. CASE Predicate(t)
        BY <2>3, <3>4, <4>3 DEF Predicate, Looking, Blocked, TypeOK, PushOps, PopOps
      <4>4. CASE ~EnQCommit(t) /\ ~Verdict(t) /\ ~Predicate(t)
        BY <1>2, <3>4, <4>4 DEF Looking, Awake, TypeOK, PushOps, PopOps, Call,
           SpuriousWake, Step, Acquire, Check, Sleep, Reacquire, Expire, TimeoutWake,
           Leave, DeQCommit, Drain, DisposeCas, DisposeBarrier, Signal, NotifyOne, Return
      <4>5. QED
        BY <4>1, <4>2, <4>3, <4>4
    <3>5. QED
      BY <3>1, <3>2, <3>3, <3>4
  <2>4. QED
    BY <2>1, <2>2, <2>3
<1>3. QED
  BY <1>1, <1>2 DEF Next

LEMMA DisposeStep ==
  IInv /\ [Next]_vars => DisposeReaches'
<1> SUFFICES ASSUME IInv, [Next]_vars, disposed',
                    NEW name \in {"all_not_full", "all_not_empty"},
                    name = "all_not_full" => notFull' # {},
                    name = "all_not_empty" => notEmpty' # {}
             PROVE  \E w \in Threads : Disposing(w, name)'
  BY DEF DisposeReaches
<1> USE DEF IInv, PCs, sync, local, Goto
<1>1. CASE UNCHANGED vars
  BY <1>1 DEF vars, NoLostWakeup, DisposeReaches, Disposing, Sending
<1>2. ASSUME NEW t \in Threads, Call(t) \/ SpuriousWake(t) \/ Step(t)
      PROVE  \E w \in Threads : Disposing(w, name)'
  <2>1. ASSUME ~disposed PROVE Disposing(t, name)'
    <3>1. DisposeCas(t)
      BY <1>2, <2>1 DEF Call, SpuriousWake, Step, Acquire, Check, Predicate, Sleep,
         Reacquire, Expire, TimeoutWake, Leave, Verdict, EnQCommit, DeQCommit, Drain,
         DisposeBarrier, Signal, Return
    <3>2. QED
      BY <2>1, <3>1 DEF DisposeCas, ControlInv, OpInv, Disposing, TypeOK
  <2>2. ASSUME disposed, Sleep(t) PROVE \E w \in Threads : Disposing(w, name)'
    <3>1. PICK v \in Threads : pc[v] = "lock" /\ op[v] = "dispose"
      BY <2>2 DEF Sleep, SleepInv
    <3>2. pc'[v] = "lock" /\ op'[v] = "dispose"
      BY <2>2, <3>1 DEF Sleep, TypeOK
    <3>3. QED
      BY <3>2 DEF Disposing
  <2>3. ASSUME disposed, ~Sleep(t) PROVE \E w \in Threads : Disposing(w, name)'
    <3>1. notFull' \subseteq notFull /\ notEmpty' \subseteq notEmpty
      BY <1>2, <2>3 DEF Call, SpuriousWake, Step, Acquire, Check, Predicate,
         Reacquire, Expire, TimeoutWake, Leave, Verdict, EnQCommit, DeQCommit, Drain,
         DisposeCas, DisposeBarrier, Signal, NotifyOne, Return
    <3>2. PICK w \in Threads : Disposing(w, name)
      BY <2>3, <3>1 DEF NoLostWakeup, DisposeReaches
    <3>3. ASSUME w # t PROVE Disposing(w, name)'
      BY <1>2, <3>2, <3>3, OthersStand DEF Disposing, Sending
    <3>4. ASSUME w = t, pc[t] = "lock" PROVE Disposing(t, name)'
      <4>1. CASE DisposeBarrier(t)
        <5>1. sig'[t] = <<"all_not_empty", "all_not_full">> /\ op'[t] = "dispose"
          BY <4>1 DEF DisposeBarrier, TypeOK
        <5>2. name \in Range(sig'[t])
          BY <5>1 DEF Range
        <5>3. QED
          BY <5>1, <5>2 DEF Disposing, Sending
      <4>2. CASE ~DisposeBarrier(t)
        BY <1>2, <3>2, <3>4, <4>2 DEF Disposing, Call, SpuriousWake, Step, Acquire, Check,
           Predicate, Sleep, Reacquire, Expire, TimeoutWake, Leave, Verdict, EnQCommit,
           DeQCommit, Drain, DisposeCas, Signal, Return
      <4>3. QED
        BY <4>1, <4>2
    <3>5. ASSUME w = t, Sending(t, {name}), op[t] = "dispose" PROVE Disposing(t, name)'
      <4>1. name \in Range(sig[t])
        BY <3>5 DEF Sending
      <4>2. pc[t] = "signal" /\ sig[t] # <<>>
        BY <4>1, EmptySeq DEF ControlInv, ResultInv, Range
      <4>3. CASE Signal(t)
        <5>1. Head(sig[t]) # name
          BY <4>3 DEF Signal
        <5>2. name \in Range(sig'[t])
          BY <4>1, <4>3, <5>1, SignalKeeps
        <5>3. QED
          BY <3>5, <4>3, <5>2 DEF Signal, Disposing, Sending
      <4>4. CASE ~Signal(t)
        <5>1. sig'[t] = sig[t] /\ op'[t] = op[t]
          BY <1>2, <4>2, <4>4 DEF Call, SpuriousWake, Step, Acquire, Check, Predicate,
             Sleep, Reacquire, Expire, TimeoutWake, Leave, Verdict, EnQCommit, DeQCommit,
             Drain, DisposeCas, DisposeBarrier, Return
        <5>2. QED
          BY <3>5, <4>1, <5>1 DEF Disposing, Sending
      <4>5. QED
        BY <4>3, <4>4
    <3>6. QED
      BY <3>2, <3>3, <3>4, <3>5 DEF Disposing
  <2>4. QED
    BY <2>1, <2>2, <2>3
<1>3. QED
  BY <1>1, <1>2 DEF Next

-----------------------------------------------------------------------------
(* The theorems *)

LEMMA InductiveStep == IInv /\ [Next]_vars => IInv'
<1> SUFFICES ASSUME IInv, [Next]_vars PROVE IInv'
  OBVIOUS
<1>1. TypeOK' /\ ControlInv' /\ CounterInv'
  BY TypeOKStep, ControlStep, CounterStep DEF IInv
<1>2. VerdictInv' /\ TimeoutInv' /\ CommitsAreSafe' /\ SleepInv'
  BY VerdictStep, TimeoutStep, CommitStep, SleepStep DEF IInv
<1>3. ExhaustedIsFinal' /\ NoLostWakeup'
  BY ExhaustedStep, PopWakeupStep, PushWakeupStep, DisposeStep DEF IInv, NoLostWakeup
<1>4. QED
  BY <1>1, <1>2, <1>3 DEF IInv

LEMMA Invariance == Spec => []IInv
BY InitIInv, InductiveStep, PTL DEF Spec

\* Every variable keeps its type; the two waiter counters never wrap below
\* zero, because they count the threads inside the wait loops.
THEOREM TypeCorrect == Spec => []TypeOK
<1>1. IInv => TypeOK
  BY DEF IInv
<1>2. QED
  BY <1>1, Invariance, PTL

\* A thread that decided to commit still may when it does: the capacity is
\* respected and de_q_commit never meets an empty buffer.
THEOREM CommitSafety == Spec => []CommitsAreSafe
<1>1. IInv => CommitsAreSafe
  BY DEF IInv
<1>2. QED
  BY <1>1, Invariance, PTL

\* Once a pop has reported the queue unavailable, the queue is disposed and
\* empty for good and no accepted item is left behind.
THEOREM DrainingDispose == Spec => []ExhaustedIsFinal
<1>1. IInv => ExhaustedIsFinal
  BY DEF IInv
<1>2. QED
  BY <1>1, Invariance, PTL

\* No wake-up is lost, for any number of producers and consumers.
THEOREM WakeupSafety == Spec => []NoLostWakeup
<1>1. IInv => NoLostWakeup
  BY DEF IInv
<1>2. QED
  BY <1>1, Invariance, PTL

-----------------------------------------------------------------------------
(* Items *)

\* A call that did not bring an item has none before it commits.
EmptyInv == \A t \in Threads :
  op[t] \notin PushOps /\ pc[t] # "signal" => carry[t] = <<>>

LEMMA EmptyStep == TypeOK /\ ControlInv /\ EmptyInv /\ [Next]_vars => EmptyInv'
<1> SUFFICES ASSUME TypeOK, ControlInv, EmptyInv, [Next]_vars PROVE EmptyInv'
  OBVIOUS
<1>1. CASE UNCHANGED vars
  BY <1>1 DEF vars, local, EmptyInv
<1>2. ASSUME NEW t \in Threads, Call(t) \/ SpuriousWake(t) \/ Step(t) PROVE EmptyInv'
  <2>1. \A w \in Threads \ {t} : pc'[w] = pc[w] /\ op'[w] = op[w] /\ carry'[w] = carry[w]
    BY <1>2, OthersStand
  <2>2. \/ carry'[t] = <<>>
        \/ op'[t] \in PushOps
        \/ pc'[t] = "signal"
        \/ carry'[t] = carry[t] /\ op'[t] = op[t] /\ pc[t] # "signal"
    <3> USE DEF TypeOK, PCs, sync, local, Goto
    <3>1. CASE Call(t)
      <4>1. PICK o \in OpsOf[t] : /\ op' = [op EXCEPT ![t] = o]
                                  /\ o \in PushOps \/ UNCHANGED <<hand, carry>>
        BY <3>1 DEF Call
      <4>2. CASE o \in PushOps
        BY <4>1, <4>2
      <4>3. CASE o \notin PushOps
        <5>1. pc[t] = "idle" /\ op[t] = "none" /\ "none" \notin PushOps /\ carry' = carry
          BY <3>1, <4>1, <4>3 DEF Call, ControlInv, OpInv, PushOps
        <5>2. QED
          BY <5>1 DEF EmptyInv
      <4>4. QED
        BY <4>2, <4>3
    <3>2. CASE Acquire(t) \/ Check(t) \/ Predicate(t)
      BY <3>2 DEF Acquire, Check, Predicate
    <3>3. CASE Verdict(t)
      BY <3>3 DEF Verdict
    <3>4. CASE Sleep(t) \/ Reacquire(t)
      BY <3>4 DEF Sleep, Reacquire
    <3>5. CASE EnQCommit(t) \/ DeQCommit(t) \/ Drain(t) \/ DisposeCas(t) \/ DisposeBarrier(t)
               \/ Return(t)
      BY <3>5 DEF EnQCommit, DeQCommit, Drain, DisposeCas, DisposeBarrier, Return, Finish
    <3>6. CASE Expire(t) \/ Leave(t)
      BY <3>6 DEF Expire, Leave, ControlInv, WaitSetInv
    <3>7. CASE Signal(t)
      BY <3>7 DEF Signal
    <3>8. QED
      BY <1>2, <3>1, <3>2, <3>3, <3>4, <3>5, <3>6, <3>7 DEF Step, TimeoutWake, SpuriousWake
  <2>3. QED
    BY <2>1, <2>2 DEF EmptyInv
<1>3. QED
  BY <1>1, <1>2 DEF Next

\* Items stay conserved when one thread moves them between the buffer, the hands
\* of callers and what it carries.
LEMMA Regroup ==
  ASSUME TypeOK, ItemsConserved, NEW t \in Threads,
         \A u \in Threads \ {t} : carry'[u] = carry[u],
         IsInjective(buf'), IsInjective(carry'[t]),
         Range(buf') \cap hand' = {}, Range(buf') \cap Range(carry'[t]) = {},
         hand' \cap Range(carry'[t]) = {},
         Range(buf') \cup hand' \cup Range(carry'[t])
           = Range(buf) \cup hand \cup Range(carry[t])
  PROVE  ItemsConserved'
<1> DEFINE All == Range(buf) \cup hand \cup Range(carry[t])
<1>1. ASSUME NEW u \in Threads \ {t} PROVE Range(carry[u]) \cap All = {} /\ carry'[u] = carry[u]
  BY DEF ItemsConserved
<1>2. ASSUME NEW u \in Threads
      PROVE  /\ IsInjective(carry'[u])
             /\ Range(carry'[u]) \cap (Range(buf') \cup hand') = {}
             /\ \A v \in Threads \ {u} : Range(carry'[u]) \cap Range(carry'[v]) = {}
  <2>1. CASE u = t
    <3>1. ASSUME NEW v \in Threads \ {t} PROVE Range(carry'[t]) \cap Range(carry'[v]) = {}
      BY <1>1
    <3>2. QED
      BY <2>1, <3>1
  <2>2. CASE u # t
    <3>1. IsInjective(carry'[u])
      BY <1>1, <2>2 DEF ItemsConserved
    <3>2. Range(carry'[u]) \cap (Range(buf') \cup hand' \cup Range(carry'[t])) = {}
      BY <1>1, <2>2
    <3>3. ASSUME NEW v \in Threads \ {u} PROVE Range(carry'[u]) \cap Range(carry'[v]) = {}
      <4>1. CASE v = t
        BY <3>2, <4>1
      <4>2. CASE v # t
        BY <1>1, <2>2, <4>2 DEF ItemsConserved
      <4>3. QED
        BY <4>1, <4>2
    <3>4. QED
      BY <3>1, <3>2, <3>3
  <2>3. QED
    BY <2>1, <2>2
<1>3. Items = Range(buf') \cup hand' \cup UNION {Range(carry'[u]) : u \in Threads}
  <2>1. UNION {Range(carry[u]) : u \in Threads}
          = Range(carry[t]) \cup UNION {Range(carry[u]) : u \in Threads \ {t}}
    OBVIOUS
  <2>2. UNION {Range(carry'[u]) : u \in Threads}
          = Range(carry'[t]) \cup UNION {Range(carry'[u]) : u \in Threads \ {t}}
    OBVIOUS
  <2>3. UNION {Range(carry'[u]) : u \in Threads \ {t}}
          = UNION {Range(carry[u]) : u \in Threads \ {t}}
    BY <1>1
  <2>4. Items = Range(buf) \cup hand \cup UNION {Range(carry[u]) : u \in Threads}
    BY DEF ItemsConserved
  <2>5. QED
    BY <2>1, <2>2, <2>3, <2>4
<1>4. QED
  BY <1>2, <1>3 DEF ItemsConserved

LEMMA ItemsStep ==
  TypeOK /\ ControlInv /\ EmptyInv /\ ItemsConserved /\ [Next]_vars => ItemsConserved'
<1> SUFFICES ASSUME TypeOK, ControlInv, EmptyInv, ItemsConserved, [Next]_vars
             PROVE  ItemsConserved'
  OBVIOUS
<1>1. ASSUME UNCHANGED <<buf, hand, carry>> PROVE ItemsConserved'
  BY <1>1 DEF ItemsConserved
<1>2. ASSUME NEW t \in Threads, Call(t) \/ SpuriousWake(t) \/ Step(t) PROVE ItemsConserved'
  <2>1. \A u \in Threads \ {t} : carry'[u] = carry[u]
    BY <1>2, OthersStand
  <2>2. /\ IsInjective(buf) /\ IsInjective(carry[t]) /\ Range(buf) \cap hand = {}
        /\ Range(buf) \cap Range(carry[t]) = {} /\ hand \cap Range(carry[t]) = {}
    BY DEF ItemsConserved
  <2>3. CASE Call(t)
    <3>1. CASE UNCHANGED <<hand, carry>>
      BY <1>1, <2>3, <3>1 DEF Call
    <3>2. CASE \E i \in hand : hand' = hand \ {i} /\ carry' = [carry EXCEPT ![t] = <<i>>]
      <4>1. PICK i \in hand : hand' = hand \ {i} /\ carry' = [carry EXCEPT ![t] = <<i>>]
        BY <3>2
      <4>2. carry[t] = <<>>
        BY <2>3 DEF Call, EmptyInv, ControlInv, OpInv, PushOps
      <4>3. carry'[t] = <<i>> /\ buf' = buf
        BY <2>3, <4>1 DEF Call, TypeOK
      <4>4. Range(carry'[t]) = {i} /\ IsInjective(carry'[t]) /\ Range(carry[t]) = {}
        BY <4>2, <4>3, EmptyRange, SingleRange
      <4>5. QED
        BY <2>1, <2>2, <4>1, <4>3, <4>4, Regroup
    <3>3. QED
      BY <2>3, <3>1, <3>2 DEF Call
  <2>4. CASE EnQCommit(t)
    <3>1. PICK i \in Items : carry[t] = <<i>>
      BY <2>4 DEF EnQCommit, ControlInv, CarryInv
    <3>2. buf' = buf \o <<i>> /\ carry'[t] = <<>> /\ hand' = hand
      BY <2>4, <3>1 DEF EnQCommit, TypeOK
    <3>3. Range(carry[t]) = {i} /\ Range(carry'[t]) = {} /\ IsInjective(carry'[t])
      BY <3>1, <3>2, EmptyRange, SingleRange
    <3>4. i \notin Range(buf)
      BY <2>2, <3>3
    <3>5. IsInjective(buf') /\ Range(buf') = Range(buf) \cup {i}
      BY <2>2, <3>2, <3>4, AppendKeepsInjective DEF TypeOK
    <3>6. QED
      BY <2>1, <2>2, <3>2, <3>3, <3>5, Regroup
  <2>5. CASE DeQCommit(t)
    <3>1. /\ buf # <<>> /\ carry'[t] = <<Head(buf)>> /\ buf' = Tail(buf) /\ hand' = hand
          /\ op[t] \notin PushOps /\ pc[t] # "signal"
      BY <2>5 DEF DeQCommit, TypeOK, PushOps, PopOps
    <3>2. Range(carry[t]) = {}
      BY <3>1, EmptyRange DEF EmptyInv
    <3>3. Range(carry'[t]) = {Head(buf)} /\ IsInjective(carry'[t])
      BY <3>1, SingleRange
    <3>4. IsInjective(buf') /\ Head(buf) \notin Range(buf')
      BY <2>2, <3>1, TailInjective DEF TypeOK
    <3>5. Range(buf) = Range(buf') \cup {Head(buf)}
      BY <3>1, RangeHeadTail DEF TypeOK
    <3>6. QED
      BY <2>1, <2>2, <3>1, <3>2, <3>3, <3>4, <3>5, Regroup
  <2>6. CASE Drain(t)
    <3>1. /\ carry'[t] = buf /\ buf' = <<>> /\ hand' = hand
          /\ op[t] \notin PushOps /\ pc[t] # "signal"
      BY <2>6 DEF Drain, TypeOK, PushOps
    <3>2. Range(carry[t]) = {} /\ Range(buf') = {} /\ IsInjective(buf')
      BY <3>1, EmptyRange DEF EmptyInv
    <3>3. QED
      BY <2>1, <2>2, <3>1, <3>2, Regroup
  <2>7. CASE Return(t)
    <3>1. hand' = hand \cup Range(carry[t]) /\ carry'[t] = <<>> /\ buf' = buf
      BY <2>7 DEF Return, TypeOK
    <3>2. Range(carry'[t]) = {} /\ IsInjective(carry'[t])
      BY <3>1, EmptyRange
    <3>3. QED
      BY <2>1, <2>2, <3>1, <3>2, Regroup
  <2>8. CASE ~Call(t) /\ ~EnQCommit(t) /\ ~DeQCommit(t) /\ ~Drain(t) /\ ~Return(t)
    <3>1. UNCHANGED <<buf, hand, carry>>
      BY <1>2, <2>8 DEF Step, TimeoutWake, SpuriousWake, Acquire, Check, Predicate, Sleep,
         Reacquire, Expire, Leave, Verdict, DisposeCas, DisposeBarrier, Signal, local
    <3>2. QED
      BY <1>1, <3>1
  <2>9. QED
    BY <2>3, <2>4, <2>5, <2>6, <2>7, <2>8
<1>3. CASE UNCHANGED vars
  BY <1>1, <1>3 DEF vars, local
<1>4. QED
  BY <1>2, <1>3 DEF Next

\* No item is lost, duplicated or handed to two callers.
THEOREM Conservation == Spec => []ItemsConserved
<1>1. Init => EmptyInv /\ ItemsConserved
  <2>1. SUFFICES ASSUME Init PROVE EmptyInv /\ ItemsConserved
    OBVIOUS
  <2>2. buf = <<>> /\ hand = Items /\ \A t \in Threads : carry[t] = <<>>
    BY <2>1 DEF Init
  <2>3. EmptyInv
    BY <2>2 DEF EmptyInv
  <2>4. UNION {Range(carry[t]) : t \in Threads} = {}
    BY <2>2, EmptyRange
  <2>5. QED
    BY <2>2, <2>3, <2>4, EmptyRange DEF ItemsConserved
<1>2. IInv /\ EmptyInv /\ ItemsConserved /\ [Next]_vars => (EmptyInv /\ ItemsConserved)'
  BY EmptyStep, ItemsStep DEF IInv
<1>3. QED
  BY <1>1, <1>2, Invariance, PTL DEF Spec

-----------------------------------------------------------------------------
(* Refinement *)

\* A call about to return has a result, and deadlines are for timed calls.
ReturnInv == \A t \in Threads :
  /\ pc[t] = "signal" \/ (pc[t] = "lock" /\ op[t] = "dispose") => ret[t] # "none"
  /\ expired[t] => op[t] \in TimedOps

RInv == IInv /\ ReturnInv

LEMMA ReturnInvStep == IInv /\ ReturnInv /\ [Next]_vars => ReturnInv'
<1> SUFFICES ASSUME IInv, ReturnInv, [Next]_vars PROVE ReturnInv'
  OBVIOUS
<1> USE DEF IInv, TypeOK, PCs, Rets, sync, local, Goto
<1>1. CASE UNCHANGED vars
  BY <1>1 DEF vars, ReturnInv
<1>2. ASSUME NEW t \in Threads, Call(t) \/ SpuriousWake(t) \/ Step(t) PROVE ReturnInv'
  <2>1. \A w \in Threads \ {t} : /\ pc'[w] = pc[w] /\ op'[w] = op[w]
                                 /\ ret'[w] = ret[w] /\ expired'[w] = expired[w]
    BY <1>2 DEF Call, SpuriousWake, Step, Acquire, Check, Predicate, Sleep, Reacquire,
     Expire, TimeoutWake, Leave, Verdict, PushVerdict, PopVerdict, Finish, Proceed,
     EnQCommit, DeQCommit, Drain, DisposeCas, DisposeBarrier, Return, Signal
  <2>2. /\ pc'[t] = "signal" \/ (pc'[t] = "lock" /\ op'[t] = "dispose") => ret'[t] # "none"
        /\ expired'[t] => op'[t] \in TimedOps
    <3>1. CASE Call(t)
      <4>1. op[t] = "none" /\ "none" \notin TimedOps
        BY <3>1 DEF Call, ControlInv, OpInv, TimedOps
      <4>2. ~expired[t]
        BY <4>1 DEF ReturnInv
      <4>3. QED
        BY <3>1, <4>2 DEF Call
    <3>2. CASE Acquire(t) \/ Check(t) \/ Sleep(t) \/ Reacquire(t)
      BY <3>2 DEF Acquire, Check, Sleep, Reacquire, ReturnInv
    <3>3. CASE Predicate(t)
      BY <3>3 DEF Predicate, ReturnInv
    <3>4. CASE Verdict(t)
      BY <3>4 DEF Verdict, PushVerdict, PopVerdict, Finish, Proceed, ReturnInv
    <3>5. CASE EnQCommit(t) \/ DeQCommit(t) \/ Drain(t) \/ DisposeCas(t)
      BY <3>5 DEF EnQCommit, DeQCommit, Drain, DisposeCas, Finish, ReturnInv
    <3>6. CASE DisposeBarrier(t) \/ Signal(t)
      BY <3>6 DEF DisposeBarrier, Signal, ReturnInv
    <3>7. CASE Expire(t)
      BY <3>7 DEF Expire, ReturnInv
    <3>8. CASE Leave(t)
      BY <3>8 DEF Leave, ReturnInv
    <3>9. CASE Return(t)
      BY <3>9 DEF Return, ReturnInv
    <3>10. QED
      BY <1>2, <3>1, <3>2, <3>3, <3>4, <3>5, <3>6, <3>7, <3>8, <3>9
         DEF Step, TimeoutWake, SpuriousWake
  <2>3. QED
    BY <2>1, <2>2 DEF ReturnInv
<1>3. QED
  BY <1>1, <1>2 DEF Next

\* The words of the abstract queue are those of the ring buffer.
LEMMA SameWords ==
  /\ Abstract!PushOps = PushOps /\ Abstract!PopOps = PopOps /\ Abstract!Capacity = Capacity
BY DEF Abstract!PushOps, PushOps, Abstract!PopOps, PopOps, Abstract!Capacity, Capacity

\* One push at most is between its verdict and its commit, and the abstract
\* queue holds its item already.
LEMMA EnteringQueue ==
  IInv => \A t \in Threads : Committing(t) => Entering = {t} /\ AbsQueue = buf \o carry[t]
<1> SUFFICES ASSUME IInv, NEW t \in Threads, Committing(t)
             PROVE  Entering = {t} /\ AbsQueue = buf \o carry[t]
  OBVIOUS
<1>1. \A u \in Entering : u = t
  BY Exclusive DEF Entering, Committing, Critical, IInv
<1>2. Entering = {t}
  BY <1>1 DEF Entering
<1>3. (CHOOSE u \in Entering : TRUE) = t
  BY <1>2
<1>4. QED
  BY <1>2, <1>3 DEF AbsQueue

LEMMA RestingQueue ==
  (\A t \in Threads : ~Committing(t)) => AbsQueue = buf
BY DEF Entering, AbsQueue

\* Whoever has the lock and is not committing a push sees the abstract queue.
LEMMA HolderQueue ==
  IInv => \A t \in Threads : pc[t] \in Critical /\ ~Committing(t) => AbsQueue = buf
<1> SUFFICES ASSUME IInv, NEW t \in Threads, pc[t] \in Critical, ~Committing(t) PROVE AbsQueue = buf
  OBVIOUS
<1>1. \A u \in Threads : ~Committing(u)
  BY Exclusive DEF Committing, Critical, IInv
<1>2. QED
  BY <1>1, RestingQueue

\* The abstract queue does not see what concerns neither the buffer nor a push
\* that is being committed.
LEMMA QueueKept ==
  ASSUME buf' = buf, \A u \in Threads : Committing(u)' <=> Committing(u),
         \A u \in Threads : Committing(u) => carry'[u] = carry[u]
  PROVE  AbsQueue' = AbsQueue
<1>1. Entering' = Entering
  BY DEF Entering
<1>2. CASE Entering = {}
  BY <1>1, <1>2 DEF AbsQueue
<1>3. CASE Entering # {}
  <2>1. (CHOOSE u \in Entering : TRUE) \in Entering
    BY <1>3
  <2>2. carry'[CHOOSE u \in Entering : TRUE] = carry[CHOOSE u \in Entering : TRUE]
    BY <2>1 DEF Entering
  <2>3. QED
    BY <1>1, <1>3, <2>2 DEF AbsQueue
<1>4. QED
  BY <1>2, <1>3

\* A step that is not seen from outside.
LEMMA Hidden ==
  ASSUME buf' = buf, disposed' = disposed, hand' = hand, op' = op, carry' = carry, ret' = ret,
         \A u \in Threads : Committing(u)' <=> Committing(u)
  PROVE  UNCHANGED Abstract!vars
BY QueueKept DEF AbsCarry, AbsRet, Abstract!vars

LEMMA HiddenStep ==
  ASSUME RInv, NEW t \in Threads,
         \/ Acquire(t) \/ Check(t) \/ Sleep(t) \/ Reacquire(t) \/ Expire(t) \/ Leave(t)
         \/ DisposeBarrier(t) \/ Signal(t)
  PROVE  UNCHANGED Abstract!vars
<1> USE DEF RInv, IInv, TypeOK, PCs, sync, local, Goto
<1>1. buf' = buf /\ disposed' = disposed /\ hand' = hand /\ op' = op /\ carry' = carry /\ ret' = ret
  BY DEF Acquire, Check, Sleep, Reacquire, Expire, Leave, DisposeBarrier, Signal
<1>2. \A u \in Threads \ {t} : pc'[u] = pc[u]
  BY DEF Acquire, Check, Sleep, Reacquire, Expire, Leave, DisposeBarrier, Signal
<1>3. Committing(t)' <=> Committing(t)
  <2>1. CASE Acquire(t)
    BY <2>1 DEF Acquire, Committing, PushOps
  <2>2. CASE Check(t) \/ Sleep(t) \/ Reacquire(t)
    BY <2>2 DEF Check, Sleep, Reacquire, Committing
  <2>3. CASE Expire(t) \/ Leave(t) \/ DisposeBarrier(t) \/ Signal(t)
    BY <2>3 DEF Expire, Leave, DisposeBarrier, Signal, Committing
  <2>4. QED
    BY <2>1, <2>2, <2>3
<1>4. \A u \in Threads : Committing(u)' <=> Committing(u)
  BY <1>1, <1>2, <1>3 DEF Committing
<1>5. QED
  BY <1>1, <1>4, Hidden

LEMMA CallStep == ASSUME RInv, NEW t \in Threads, Call(t) PROVE Abstract!Call(t)
<1> USE DEF RInv, IInv, TypeOK, PCs, sync, Goto
<1>1. PICK o \in OpsOf[t] :
        /\ op' = [op EXCEPT ![t] = o]
        /\ pc' = [pc EXCEPT ![t] = IF o = "dispose" THEN "cas" ELSE "lock"]
        /\ \/ o \in PushOps /\ \E i \in hand : hand' = hand \ {i} /\ carry' = [carry EXCEPT ![t] = <<i>>]
           \/ o \notin PushOps /\ hand' = hand /\ carry' = carry
        /\ buf' = buf /\ disposed' = disposed /\ ret' = ret
  BY DEF Call
<1>2. op[t] = "none" /\ pc[t] = "idle"
  BY DEF Call, ControlInv, OpInv
<1>3. ~Committing(t) /\ ~Committing(t)'
  BY <1>1, <1>2 DEF Committing
<1>4. \A u \in Threads : Committing(u)' <=> Committing(u)
  BY <1>1, <1>3 DEF Committing
<1>5. AbsQueue' = AbsQueue
  BY <1>1, <1>3, <1>4, QueueKept
<1>6. AbsRet' = AbsRet
  BY <1>1, <1>4 DEF AbsRet
<1>7. CASE o \in PushOps /\ \E i \in hand : hand' = hand \ {i} /\ carry' = [carry EXCEPT ![t] = <<i>>]
  <2>1. PICK i \in hand : hand' = hand \ {i} /\ carry' = [carry EXCEPT ![t] = <<i>>]
    BY <1>7
  <2>2. AbsCarry' = [AbsCarry EXCEPT ![t] = <<i>>]
    BY <1>3, <1>4, <2>1 DEF AbsCarry
  <2>3. QED
    BY <1>1, <1>2, <1>5, <1>6, <1>7, <2>1, <2>2, SameWords DEF Abstract!Call
<1>8. CASE o \notin PushOps /\ hand' = hand /\ carry' = carry
  <2>1. AbsCarry' = AbsCarry
    BY <1>4, <1>8 DEF AbsCarry
  <2>2. QED
    BY <1>1, <1>2, <1>5, <1>6, <1>8, <2>1, SameWords DEF Abstract!Call
<1>9. QED
  BY <1>1, <1>7, <1>8

LEMMA Refused ==
  ASSUME RInv, NEW t \in Threads, NEW r, ret' = [ret EXCEPT ![t] = r],
         buf' = buf, disposed' = disposed, hand' = hand, op' = op, carry' = carry,
         ~Committing(t), \A u \in Threads : Committing(u)' <=> Committing(u)
  PROVE  Abstract!Refuse(t, r)
<1>1. AbsQueue' = AbsQueue /\ AbsCarry' = AbsCarry
  BY QueueKept DEF AbsCarry
<1>2. AbsRet' = [AbsRet EXCEPT ![t] = r]
  BY DEF AbsRet, RInv, IInv, TypeOK
<1>3. QED
  BY <1>1, <1>2 DEF Abstract!Refuse, Abstract!Result

LEMMA PredicateStep ==
  ASSUME RInv, NEW t \in Threads, Predicate(t)
  PROVE  Abstract!PushRefused(t) \/ Abstract!PopRefused(t) \/ UNCHANGED Abstract!vars
<1> USE DEF RInv, IInv, TypeOK, PCs, Goto
<1>1. buf' = buf /\ disposed' = disposed /\ hand' = hand /\ op' = op /\ carry' = carry
  BY DEF Predicate
<1>2. pc[t] = "cond" /\ \E l \in {"verdict", "sleep"} : pc' = [pc EXCEPT ![t] = l]
  BY DEF Predicate
<1>3. ~Committing(t) /\ \A u \in Threads : Committing(u)' <=> Committing(u)
  BY <1>1, <1>2 DEF Committing
<1>4. CASE ret' = ret
  BY <1>1, <1>3, <1>4, Hidden
<1>5. CASE ~disposed /\ Blocked(t) /\ expired[t] /\ ret' = [ret EXCEPT ![t] = "timeout"]
  <2>1. Abstract!Refuse(t, "timeout")
    BY <1>1, <1>3, <1>5, Refused
  <2>2. AbsQueue = buf /\ AbsRet[t] = "none"
    BY <1>2, <1>3, HolderQueue DEF Critical, ControlInv, ResultInv, AbsRet
  <2>3. op[t] \in {"push_timeout", "pop_timeout"}
    BY <1>5 DEF ReturnInv, TimedOps
  <2>4. CASE op[t] = "push_timeout"
    <3>1. Abstract!IsFull /\ op[t] \in PushOps
      BY <1>5, <2>2, <2>4, SameWords DEF Abstract!IsFull, Blocked, IsFull, PushOps
    <3>2. QED
      BY <1>5, <2>1, <2>2, <2>4, <3>1, SameWords DEF Abstract!PushRefused, Abstract!Pending
  <2>5. CASE op[t] = "pop_timeout"
    <3>1. AbsQueue = <<>> /\ op[t] \in PopOps
      BY <1>5, <2>2, <2>5 DEF Blocked, PopOps, PushOps
    <3>2. QED
      BY <1>5, <2>1, <2>2, <2>5, <3>1, SameWords DEF Abstract!PopRefused, Abstract!Pending
  <2>6. QED
    BY <2>3, <2>4, <2>5
<1>6. QED
  BY <1>4, <1>5 DEF Predicate

LEMMA PushVerdictStep ==
  ASSUME RInv, NEW t \in Threads, Verdict(t), op[t] \in PushOps
  PROVE  Abstract!PushOk(t) \/ Abstract!PushRefused(t) \/ UNCHANGED Abstract!vars
<1> USE DEF RInv, IInv, TypeOK, PCs, Goto
<1>1. /\ buf' = buf /\ disposed' = disposed /\ hand' = hand /\ op' = op /\ carry' = carry
      /\ pc[t] = "verdict" /\ PushVerdict(t)
  BY DEF Verdict, PushOps, PopOps
<1>2. ~Committing(t) /\ AbsQueue = buf /\ AbsRet[t] = ret[t] /\ AbsCarry[t] = carry[t]
  BY <1>1, HolderQueue DEF Committing, Critical, AbsRet, AbsCarry
<1>3. ASSUME NEW r, Finish(t, r)
      PROVE  /\ ret' = [ret EXCEPT ![t] = r]
             /\ \A u \in Threads : Committing(u)' <=> Committing(u)
  BY <1>1, <1>2, <1>3 DEF Finish, Committing
<1>4. CASE ret[t] = "timeout" /\ Finish(t, "timeout")
  <2>1. ret' = ret
    BY <1>3, <1>4
  <2>2. QED
    BY <1>1, <1>3, <1>4, <2>1, Hidden
<1>5. CASE ret[t] = "none" /\ disposed /\ Finish(t, "unavailable")
  <2>1. Abstract!Refuse(t, "unavailable")
    BY <1>1, <1>2, <1>3, <1>5, Refused
  <2>2. QED
    BY <1>2, <1>5, <2>1, SameWords DEF Abstract!PushRefused, Abstract!Pending
<1>6. CASE ret[t] = "none" /\ ~disposed /\ op[t] = "try_push" /\ IsFull /\ Finish(t, "would_block")
  <2>1. Abstract!Refuse(t, "would_block")
    BY <1>1, <1>2, <1>3, <1>6, Refused
  <2>2. Abstract!IsFull
    BY <1>2, <1>6, SameWords DEF Abstract!IsFull, IsFull
  <2>3. QED
    BY <1>2, <1>6, <2>1, <2>2, SameWords DEF Abstract!PushRefused, Abstract!Pending
<1>7. CASE ret[t] = "none" /\ ~disposed /\ ~(op[t] = "try_push" /\ IsFull) /\ Proceed(t)
  <2>1. ~Abstract!IsFull
    <3>1. Len(buf) \in Nat /\ Capacity \in Nat
      BY CapacityNat, LenProperties
    <3>2. ~(Len(buf) >= Capacity)
      <4>1. CASE op[t] = "try_push"
        BY <1>7, <4>1 DEF IsFull
      <4>2. CASE op[t] \in {"push", "push_timeout"}
        BY <1>1, <1>7, <3>1, <4>2 DEF VerdictInv
      <4>3. QED
        BY <4>1, <4>2 DEF PushOps
    <3>3. QED
      BY <1>2, <3>2, SameWords DEF Abstract!IsFull
  <2>2. /\ ret' = ret /\ pc'[t] = "commit" /\ \A u \in Threads \ {t} : pc'[u] = pc[u]
    BY <1>7 DEF Proceed
  <2>3. Committing(t)' /\ \A u \in Threads \ {t} : Committing(u)' <=> Committing(u)
    BY <1>1, <2>2 DEF Committing
  <2>4. AbsQueue' = buf \o carry[t]
    <3>1. \A u \in Threads : ~Committing(u)
      BY <1>1, <1>2, Exclusive DEF Committing, Critical
    <3>2. Entering' = {t}
      BY <2>3, <3>1 DEF Entering
    <3>3. (CHOOSE u \in Entering' : TRUE) = t
      BY <3>2
    <3>4. AbsQueue' = buf' \o carry'[t]
      BY <3>2, <3>3 DEF AbsQueue
    <3>5. QED
      BY <1>1, <3>4
  <2>5. AbsCarry' = [AbsCarry EXCEPT ![t] = <<>>] /\ AbsRet' = [AbsRet EXCEPT ![t] = "ok"]
    <3>1. AbsCarry' = [AbsCarry EXCEPT ![t] = <<>>]
      BY <1>1, <2>2, <2>3 DEF AbsCarry
    <3>2. AbsRet' = [AbsRet EXCEPT ![t] = "ok"]
      BY <1>1, <2>2, <2>3 DEF AbsRet
    <3>3. QED
      BY <3>1, <3>2
  <2>6. Abstract!Enqueue(t)
    BY <1>1, <1>2, <2>1, <2>4, <2>5 DEF Abstract!Enqueue, Abstract!Result
  <2>7. QED
    BY <1>2, <1>7, <2>6, SameWords DEF Abstract!PushOk, Abstract!Pending
<1>8. QED
  BY <1>1, <1>4, <1>5, <1>6, <1>7 DEF PushVerdict

LEMMA PopVerdictStep ==
  ASSUME RInv, NEW t \in Threads, Verdict(t), op[t] \in PopOps
  PROVE  Abstract!PopRefused(t) \/ UNCHANGED Abstract!vars
<1> USE DEF RInv, IInv, TypeOK, PCs, Goto
<1>1. /\ buf' = buf /\ disposed' = disposed /\ hand' = hand /\ op' = op /\ carry' = carry
      /\ pc[t] = "verdict" /\ PopVerdict(t) /\ op[t] \notin PushOps
  BY DEF Verdict, PushOps, PopOps
<1>2. ~Committing(t) /\ AbsQueue = buf /\ AbsRet[t] = ret[t]
  BY <1>1, HolderQueue DEF Committing, Critical, AbsRet
<1>3. \A u \in Threads : Committing(u)' <=> Committing(u)
  <2>1. \A u \in Threads \ {t} : pc'[u] = pc[u]
    BY <1>1 DEF PopVerdict, Finish, Proceed
  <2>2. QED
    BY <1>1, <2>1 DEF Committing
<1>4. CASE ret' = ret
  BY <1>1, <1>3, <1>4, Hidden
<1>5. CASE ret[t] = "timeout" /\ Finish(t, "timeout")
  BY <1>4, <1>5 DEF Finish
<1>6. CASE ret[t] = "none" /\ PopUnavailable(t) /\ Finish(t, "unavailable")
  <2>1. Abstract!Refuse(t, "unavailable")
    BY <1>1, <1>2, <1>3, <1>6, Refused DEF Finish
  <2>2. buf = <<>> /\ disposed
    BY <1>1, <1>6 DEF PopUnavailable, VerdictInv
  <2>3. QED
    BY <1>2, <1>6, <2>1, <2>2, SameWords DEF Abstract!PopRefused, Abstract!Pending
<1>7. CASE /\ ret[t] = "none" /\ ~PopUnavailable(t) /\ op[t] = "try_pop" /\ buf = <<>>
           /\ Finish(t, "would_block")
  <2>1. Abstract!Refuse(t, "would_block")
    BY <1>1, <1>2, <1>3, <1>7, Refused DEF Finish
  <2>2. ~disposed
    BY <1>7 DEF PopUnavailable
  <2>3. QED
    BY <1>2, <1>7, <2>1, <2>2, SameWords DEF Abstract!PopRefused, Abstract!Pending
<1>8. CASE Proceed(t)
  BY <1>4, <1>8 DEF Proceed
<1>9. QED
  BY <1>1, <1>5, <1>6, <1>7, <1>8 DEF PopVerdict

LEMMA CommitRefines ==
  ASSUME RInv, NEW t \in Threads, EnQCommit(t) \/ DeQCommit(t) \/ Drain(t)
  PROVE  Abstract!PopOk(t) \/ Abstract!Drain(t) \/ UNCHANGED Abstract!vars
<1> USE DEF RInv, IInv, TypeOK, PCs, Goto
<1>1. /\ pc[t] = "commit" /\ op' = op /\ hand' = hand /\ disposed' = disposed
      /\ pc' = [pc EXCEPT ![t] = "signal"] /\ ret' = [ret EXCEPT ![t] = "ok"]
  BY DEF EnQCommit, DeQCommit, Drain, Finish
<1>2. ~Committing(t)' /\ \A u \in Threads \ {t} : ~Committing(u) /\ ~Committing(u)'
  BY <1>1, Exclusive DEF Committing, Critical
<1>3. AbsQueue' = buf'
  BY <1>2 DEF AbsQueue, Entering
<1>4. ret[t] = "none"
  BY <1>1 DEF ControlInv, ResultInv
<1>5. CASE EnQCommit(t)
  <2>1. Committing(t) /\ buf' = buf \o carry[t] /\ carry' = [carry EXCEPT ![t] = <<>>]
    BY <1>5 DEF EnQCommit, Committing
  <2>2. AbsQueue' = AbsQueue
    BY <1>3, <2>1, EnteringQueue
  <2>3. AbsCarry' = AbsCarry
    BY <1>2, <2>1 DEF AbsCarry
  <2>4. AbsRet' = AbsRet
    BY <1>1, <1>2, <2>1 DEF AbsRet
  <2>5. QED
    BY <1>1, <2>2, <2>3, <2>4 DEF Abstract!vars
<1>6. CASE DeQCommit(t) \/ Drain(t)
  <2>1. ~Committing(t) /\ AbsQueue = buf
    BY <1>1, <1>6, HolderQueue DEF DeQCommit, Drain, Committing, Critical, PopOps, PushOps
  <2>2. AbsRet' = [AbsRet EXCEPT ![t] = "ok"] /\ AbsRet[t] = "none"
    BY <1>1, <1>2, <1>4, <2>1 DEF AbsRet
  <2>3. ASSUME NEW s, carry' = [carry EXCEPT ![t] = s] PROVE AbsCarry' = [AbsCarry EXCEPT ![t] = s]
    BY <1>2, <2>1, <2>3 DEF AbsCarry
  <2>4. CASE DeQCommit(t)
    <3>1. AbsCarry' = [AbsCarry EXCEPT ![t] = <<Head(buf)>>]
      BY <2>3, <2>4 DEF DeQCommit
    <3>2. QED
      BY <1>1, <1>3, <2>1, <2>2, <2>4, <3>1, SameWords
         DEF DeQCommit, Abstract!PopOk, Abstract!Pending, Abstract!Result
  <2>5. CASE Drain(t)
    <3>1. AbsCarry' = [AbsCarry EXCEPT ![t] = buf] /\ buf' = <<>>
      BY <2>3, <2>5 DEF Drain
    <3>2. SubSeq(buf, 1, Len(buf)) = buf /\ SubSeq(buf, Len(buf) + 1, Len(buf)) = <<>>
      <4>1. Len(buf) \in Int /\ Len(buf) + 1 \in Int /\ Len(buf) < Len(buf) + 1
        BY LenProperties
      <4>2. QED
        BY <4>1, SubSeqFull, SubSeqEmpty
    <3>3. QED
      BY <1>1, <1>3, <2>1, <2>2, <2>5, <3>1, <3>2
         DEF Drain, Abstract!Drain, Abstract!DrainTo, Abstract!Pending, Abstract!Result
  <2>6. QED
    BY <1>6, <2>4, <2>5
<1>7. QED
  BY <1>5, <1>6

LEMMA DisposeRefines ==
  ASSUME RInv, NEW t \in Threads, DisposeCas(t)
  PROVE  Abstract!Dispose(t)
<1> USE DEF RInv, IInv, TypeOK, PCs, Goto
<1>1. /\ pc[t] = "cas" /\ disposed' = TRUE /\ ret' = [ret EXCEPT ![t] = "ok"]
      /\ buf' = buf /\ hand' = hand /\ op' = op /\ carry' = carry
      /\ pc'[t] # "commit" /\ \A u \in Threads \ {t} : pc'[u] = pc[u]
  BY DEF DisposeCas
<1>2. ~Committing(t) /\ \A u \in Threads : Committing(u)' <=> Committing(u)
  BY <1>1 DEF Committing
<1>3. op[t] = "dispose" /\ AbsRet[t] = "none"
  BY <1>1, <1>2 DEF ControlInv, OpInv, ResultInv, AbsRet
<1>4. AbsQueue' = AbsQueue /\ AbsCarry' = AbsCarry
  BY <1>1, <1>2, QueueKept DEF AbsCarry
<1>5. AbsRet' = [AbsRet EXCEPT ![t] = "ok"]
  BY <1>1, <1>2 DEF AbsRet
<1>6. QED
  BY <1>1, <1>3, <1>4, <1>5 DEF Abstract!Dispose, Abstract!Pending, Abstract!Result

LEMMA ReturnRefines == ASSUME RInv, NEW t \in Threads, Return(t) PROVE Abstract!Return(t)
<1> USE DEF RInv, IInv, TypeOK, PCs, Goto
<1>1. /\ pc[t] = "signal" /\ disposed' = disposed /\ buf' = buf
      /\ hand' = hand \cup Range(carry[t]) /\ op' = [op EXCEPT ![t] = "none"]
      /\ carry' = [carry EXCEPT ![t] = <<>>] /\ ret' = [ret EXCEPT ![t] = "none"]
      /\ pc' = [pc EXCEPT ![t] = "idle"]
  BY DEF Return, sync
<1>2. ~Committing(t) /\ \A u \in Threads : Committing(u)' <=> Committing(u)
  BY <1>1 DEF Committing
<1>3. AbsQueue' = AbsQueue
  BY <1>1, <1>2, QueueKept
<1>4. AbsCarry' = [AbsCarry EXCEPT ![t] = <<>>] /\ AbsCarry[t] = carry[t]
  BY <1>1, <1>2 DEF AbsCarry
<1>5. AbsRet' = [AbsRet EXCEPT ![t] = "none"] /\ AbsRet[t] # "none"
  BY <1>1, <1>2 DEF AbsRet, ReturnInv
<1>6. Abstract!Range(carry[t]) = Range(carry[t])
  BY DEF Abstract!Range, Range
<1>7. QED
  BY <1>1, <1>3, <1>4, <1>5, <1>6 DEF Abstract!Return, Abstract!Result

\* The ring buffer implements the bounded FIFO with a draining dispose: every
\* call takes effect at one instant between its invocation and its return.
THEOREM Implementation == Spec => ImplementsBlockingQueue
<1>1. Init => Abstract!Init /\ ReturnInv
  <2>1. SUFFICES ASSUME Init PROVE Abstract!Init /\ ReturnInv
    OBVIOUS
  <2>2. \A t \in Threads : ~Committing(t)
    BY <2>1 DEF Init, Committing
  <2>3. AbsQueue = <<>>
    BY <2>1, <2>2, RestingQueue DEF Init
  <2>4. AbsCarry = [t \in Threads |-> <<>>] /\ AbsRet = [t \in Threads |-> "none"]
    BY <2>1, <2>2 DEF Init, AbsCarry, AbsRet
  <2>5. QED
    BY <2>1, <2>3, <2>4 DEF Init, Abstract!Init, ReturnInv
<1>2. IInv /\ ReturnInv /\ [Next]_vars => ReturnInv' /\ [Abstract!Next]_(Abstract!vars)
  <2>1. SUFFICES ASSUME IInv, ReturnInv, [Next]_vars PROVE [Abstract!Next]_(Abstract!vars)
    BY ReturnInvStep
  <2>2. RInv
    BY <2>1 DEF RInv
  <2>3. CASE UNCHANGED vars
    BY <2>3, Hidden DEF vars, sync, local, Committing
  <2>4. ASSUME NEW t \in Threads, Call(t) \/ SpuriousWake(t) \/ Step(t)
        PROVE  \/ Abstract!Call(t) \/ Abstract!Return(t) \/ Abstract!PushOk(t)
               \/ Abstract!PushRefused(t) \/ Abstract!PopOk(t) \/ Abstract!PopRefused(t)
               \/ Abstract!Drain(t) \/ Abstract!Dispose(t) \/ UNCHANGED Abstract!vars
    <3>1. CASE Verdict(t)
      BY <2>2, <3>1, PushVerdictStep, PopVerdictStep DEF Verdict
    <3>2. CASE SpuriousWake(t) \/ TimeoutWake(t)
      BY <2>2, <3>2, HiddenStep DEF SpuriousWake, TimeoutWake
    <3>3. QED
      BY <2>2, <2>4, <3>1, <3>2, CallStep, HiddenStep, PredicateStep, CommitRefines,
         DisposeRefines, ReturnRefines DEF Step
  <2>5. QED
    BY <2>1, <2>3, <2>4 DEF Next, Abstract!Next
<1>3. QED
  BY <1>1, <1>2, Invariance, PTL DEF Spec, ImplementsBlockingQueue, Abstract!Spec

-----------------------------------------------------------------------------
(* The contract of every BQ *)

\* In ArrayBQ no call is ever between look and effect.
NothingSeen == [t \in Threads |-> "nothing"]
NothingFound == [t \in Threads |-> 0]
TwoSided == INSTANCE TwoSidedQueue
              WITH queue <- AbsQueue, carry <- AbsCarry, ret <- AbsRet,
                   seen <- NothingSeen, found <- NothingFound

\* The two abstract queues speak the same words.
LEMMA SharedWords ==
  /\ TwoSided!PushOps = Abstract!PushOps /\ TwoSided!PopOps = Abstract!PopOps
  /\ TwoSided!Capacity = Abstract!Capacity /\ (TwoSided!IsFull <=> Abstract!IsFull)
  /\ \A s : TwoSided!Range(s) = Abstract!Range(s)
BY DEF TwoSided!PushOps, TwoSided!PopOps, TwoSided!Capacity, TwoSided!IsFull, TwoSided!Range,
       Abstract!PushOps, Abstract!PopOps, Abstract!Capacity, Abstract!IsFull, Abstract!Range

\* Every step of the one-sided queue is a step of the two-sided one.
LEMMA OneSidedStep ==
  ASSUME NEW t \in Threads,
         \/ Abstract!Call(t) \/ Abstract!Return(t) \/ Abstract!PushOk(t)
         \/ Abstract!PushRefused(t) \/ Abstract!PopOk(t) \/ Abstract!PopRefused(t)
         \/ Abstract!Drain(t) \/ Abstract!Dispose(t)
  PROVE  TwoSided!Call2(t) \/ TwoSided!Return2(t) \/ TwoSided!Effect(t)
<1>1. UNCHANGED <<NothingSeen, NothingFound>> /\ TwoSided!Alone(t)
  BY DEF NothingSeen, NothingFound, TwoSided!Alone
<1>2. CASE Abstract!Call(t)
  BY <1>1, <1>2, SharedWords DEF Abstract!Call, TwoSided!Call, TwoSided!Call2
<1>3. CASE Abstract!Return(t)
  BY <1>1, <1>3, SharedWords
     DEF Abstract!Return, Abstract!Result, TwoSided!Return, TwoSided!Result, TwoSided!Return2
<1>4. ASSUME NEW r PROVE Abstract!Refuse(t, r) => TwoSided!Refuse(t, r)
  BY DEF Abstract!Refuse, Abstract!Result, TwoSided!Refuse, TwoSided!Result
<1>5. \A S : Abstract!Pending(t, S) => TwoSided!Pending(t, S)
  BY DEF Abstract!Pending, TwoSided!Pending
<1>6. Abstract!PushOk(t) => TwoSided!PushOk(t)
  BY <1>5, SharedWords DEF Abstract!PushOk, Abstract!Enqueue, Abstract!Result,
     TwoSided!PushOk, TwoSided!Enqueue, TwoSided!Result
<1>7. Abstract!PushRefused(t) => TwoSided!PushRefused(t)
  BY <1>4, <1>5, SharedWords DEF Abstract!PushRefused, TwoSided!PushRefused
<1>8. Abstract!PopOk(t) => TwoSided!PopOk(t)
  BY <1>5, SharedWords DEF Abstract!PopOk, Abstract!Result, TwoSided!PopOk, TwoSided!Result
<1>9. Abstract!PopRefused(t) => TwoSided!PopRefused(t)
  BY <1>4, <1>5, SharedWords DEF Abstract!PopRefused, TwoSided!PopRefused
<1>10. Abstract!Drain(t) => TwoSided!Drain(t)
  BY <1>5 DEF Abstract!Drain, Abstract!DrainTo, Abstract!Result,
     TwoSided!Drain, TwoSided!DrainTo, TwoSided!Result
<1>11. Abstract!Dispose(t) => TwoSided!Dispose(t)
  BY <1>5 DEF Abstract!Dispose, Abstract!Result, TwoSided!Dispose, TwoSided!Result
<1>12. QED
  BY <1>1, <1>2, <1>3, <1>6, <1>7, <1>8, <1>9, <1>10, <1>11 DEF TwoSided!AtOnce, TwoSided!Effect

\* Whoever is content with the contract that LinkedBQ keeps can be given an
\* ArrayBQ: create_bq may choose either, and ThreadPool is built on both.
THEOREM KeepsTheTwoSidedContract == Spec => TwoSided!Spec2
<1>1. Abstract!Init => TwoSided!Init2
  BY DEF Abstract!Init, TwoSided!Init, TwoSided!Init2, NothingSeen, NothingFound
<1>2. [Abstract!Next]_(Abstract!vars) => [TwoSided!Next2]_(TwoSided!vars2)
  <2>1. CASE Abstract!Next
    BY <2>1, OneSidedStep DEF Abstract!Next, TwoSided!Next2
  <2>2. CASE UNCHANGED Abstract!vars
    BY <2>2 DEF Abstract!vars, TwoSided!vars, TwoSided!vars2, NothingSeen, NothingFound
  <2>3. QED
    BY <2>1, <2>2
<1>3. QED
  BY <1>1, <1>2, Implementation, PTL DEF ImplementsBlockingQueue, Abstract!Spec, TwoSided!Spec2

-----------------------------------------------------------------------------
(* Standstill *)

\* A deadline that has yet to pass.
Ticking(t) == op[t] \in TimedOps /\ ~expired[t]

\* Where Step has nothing for the thread to do: outside a call, waiting for
\* the mutex while somebody holds it, or asleep without a deadline.
Stuck(t) ==
  \/ pc[t] = "idle"
  \/ pc[t] = "lock" /\ lock # NoThread
  \/ Awake(t) /\ lock # NoThread /\ ~Ticking(t)
  \/ t \in notFull \cup notEmpty /\ op[t] \notin TimedOps

\* If no thread can go on by itself, every thread is outside a call or in an
\* untimed wait that only another call can end.
StandstillIsSettled == (\A t \in Threads : Stuck(t)) => \A t \in Threads : Settled(t)

\* A stuck thread takes no step.
LEMMA StuckTakesNoStep ==
  ASSUME RInv, NEW t \in Threads, Stuck(t)
  PROVE  ~Step(t)
<1>0. WaitSetInv /\ (expired[t] => op[t] \in TimedOps)
  BY DEF RInv, IInv, ControlInv, ReturnInv
<1>1. \/ pc[t] = "idle"
      \/ pc[t] = "lock" /\ lock # NoThread
      \/ pc[t] = "asleep" /\ t \notin notFull \cup notEmpty /\ lock # NoThread /\ ~Ticking(t)
      \/ pc[t] = "asleep" /\ t \in notFull \cup notEmpty /\ op[t] \notin TimedOps
  BY <1>0 DEF Stuck, Awake, WaitSetInv
<1>2. ~Leave(t) \/ pc[t] = "asleep"
  BY <1>0 DEF Leave, WaitSetInv
<1>3. QED
  BY <1>0, <1>1, <1>2 DEF Ticking, Step, Acquire, Check, Predicate, Sleep, Reacquire,
     Expire, TimeoutWake, Leave, Verdict, EnQCommit, DeQCommit, Drain, DisposeCas,
     DisposeBarrier, Signal, Return

\* The mutex is never left locked: whoever holds it can go on.
LEMMA HolderGoesOn ==
  ASSUME IInv, \A t \in Threads : Stuck(t)
  PROVE  lock = NoThread
<1>1. ASSUME lock # NoThread PROVE FALSE
  <2>1. lock \in Threads
    BY <1>1 DEF IInv, TypeOK
  <2>2. pc[lock] \in {"check", "cond", "sleep", "verdict", "commit"}
    BY <2>1 DEF IInv, ControlInv, LockInv, Critical
  <2>3. lock \notin notFull \cup notEmpty
    BY <2>2 DEF IInv, ControlInv, WaitSetInv
  <2>4. QED
    BY <2>1, <2>2, <2>3 DEF Stuck, Awake
<1>2. QED
  BY <1>1

\* What is left of CallsSettle when nobody moves, for any number of threads
\* and any capacity: no schedule of edge-triggered notifications, cascades,
\* deadlines, drains and disposes ends with a consumer asleep beside an item,
\* a producer asleep beside free capacity, or anybody asleep after a dispose.
THEOREM NoDeadlock == Spec => []StandstillIsSettled
<1>1. IInv => StandstillIsSettled
  <2>1. SUFFICES ASSUME IInv, \A u \in Threads : Stuck(u), NEW t \in Threads, pc[t] # "idle"
                 PROVE  Settled(t)
    BY DEF StandstillIsSettled, Settled
  <2>2. /\ TypeOK /\ OpInv /\ WaitSetInv /\ NoLostWakeup
        /\ \A u \in Threads : pc[u] # "signal" => sig[u] = <<>>
    BY <2>1 DEF IInv, ControlInv, ResultInv
  <2>3. \A u \in Threads :
          \/ pc[u] = "idle"
          \/ pc[u] = "asleep" /\ u \in notFull \cup notEmpty /\ op[u] \notin TimedOps
    BY <2>1, <2>2, HolderGoesOn DEF Stuck, WaitSetInv
  <2>4. \A u \in Threads : \A ops, names : ~Looking(u, ops) /\ ~Sending(u, names)
    <3> TAKE u \in Threads
    <3> TAKE ops, names
    <3>2. ~Awake(u) /\ pc[u] \notin {"check", "cond", "verdict", "commit"}
      BY <2>3 DEF Awake
    <3>3. sig[u] = <<>>
      BY <2>2, <2>3
    <3>4. QED
      BY <3>2, <3>3, EmptyRange DEF Looking, Sending
  <2>5. \A u \in Threads : \A name : ~Disposing(u, name)
    BY <2>3, <2>4 DEF Disposing
  <2>6. pc[t] = "asleep" /\ t \in notFull \cup notEmpty /\ op[t] \in {"push", "pop"}
    BY <2>1, <2>2, <2>3 DEF OpInv, InWait, TimedOps
  <2>7. ~disposed
    BY <2>2, <2>5, <2>6 DEF NoLostWakeup, DisposeReaches
  <2>8. CASE t \in notFull
    <3>1. op[t] \in PushOps
      BY <2>2, <2>8 DEF WaitSetInv
    <3>2. IsFull
      BY <2>2, <2>4, <2>7, <2>8 DEF NoLostWakeup, NoLostPushWakeup
    <3>3. QED
      BY <2>6, <2>7, <3>1, <3>2 DEF Settled, Blocked
  <2>9. CASE t \in notEmpty
    <3>1. op[t] \notin PushOps
      BY <2>2, <2>9 DEF WaitSetInv, PushOps, PopOps
    <3>2. buf = <<>>
      BY <2>2, <2>4, <2>9 DEF NoLostWakeup, NoLostPopWakeup
    <3>3. QED
      BY <2>6, <2>7, <3>1, <3>2 DEF Settled, Blocked
  <2>10. QED
    BY <2>6, <2>8, <2>9
<1>2. QED
  BY <1>1, Invariance, PTL
=============================================================================

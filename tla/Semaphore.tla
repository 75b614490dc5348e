----------------------------- MODULE Semaphore -----------------------------
(***************************************************************************)
(* What the trait Semaphore (crates/hio-concurrent/src/semaphore.rs)        *)
(* promises, without threads that sleep: every call takes effect in one     *)
(* step between its invocation and its return, and an acquire takes effect  *)
(* only when there is a permit for it.                                      *)
(***************************************************************************)
EXTENDS Naturals

CONSTANTS
  Threads,
  Start,   \* the permits it begins with
  Most,    \* the greatest number of permits; a release stops there
  Hasty    \* try_acquire may give up because the permits changed meanwhile

VARIABLES
  permits,
  op,       \* the method each thread is in, "none" outside a call
  amount,   \* what a release has still to add
  ret,      \* the result of an acquire or try_acquire that took effect
  jostled   \* the calls of try_acquire that have seen the permits change

vars == <<permits, op, amount, ret, jostled>>

Init ==
  /\ permits = Start
  /\ op = [t \in Threads |-> "none"]
  /\ amount = [t \in Threads |-> 0]
  /\ ret = [t \in Threads |-> "none"]
  /\ jostled = {}

Call(t) ==
  /\ op[t] = "none"
  /\ \E o \in {"acquire", "try_acquire", "release"}, n \in 0 .. Most :
       /\ o = "release" \/ n = 0
       /\ op' = [op EXCEPT ![t] = o]
       /\ amount' = [amount EXCEPT ![t] = n]
  /\ UNCHANGED <<permits, ret, jostled>>

Pending(t, o) == op[t] = o /\ ret[t] = "none"

\* The permits change under the eyes of the others who try.
Change(t, n) ==
  /\ permits' = n
  /\ jostled' = (jostled \cup {u \in Threads : Hasty /\ Pending(u, "try_acquire")}) \ {t}

Acquire(t) ==
  /\ Pending(t, "acquire") \/ Pending(t, "try_acquire")
  /\ permits > 0 /\ Change(t, permits - 1)
  /\ ret' = [ret EXCEPT ![t] = "ok"]
  /\ UNCHANGED <<op, amount>>

TryFails(t) ==
  /\ Pending(t, "try_acquire")
  /\ permits = 0 \/ t \in jostled
  /\ ret' = [ret EXCEPT ![t] = "failed"]
  /\ jostled' = jostled \ {t}
  /\ UNCHANGED <<permits, op, amount>>

Release(t) ==
  /\ amount[t] > 0
  /\ Change(t, IF permits + amount[t] > Most THEN Most ELSE permits + amount[t])
  /\ amount' = [amount EXCEPT ![t] = 0]
  /\ UNCHANGED <<op, ret>>

Return(t) ==
  /\ ret[t] # "none" \/ (op[t] = "release" /\ amount[t] = 0)
  /\ op' = [op EXCEPT ![t] = "none"]
  /\ ret' = [ret EXCEPT ![t] = "none"]
  /\ UNCHANGED <<permits, amount, jostled>>

Next == \E t \in Threads :
          Call(t) \/ Acquire(t) \/ TryFails(t) \/ Release(t) \/ Return(t)

Spec == Init /\ [][Next]_vars
=============================================================================

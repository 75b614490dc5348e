--------------------------- MODULE TwoSidedQueue ---------------------------
(***************************************************************************)
(* What every BQ promises, whether or not its producers and consumers      *)
(* exclude each other: the abstract queue of BlockingQueue, except that     *)
(* some calls may look at one moment and take effect at a later one.  A     *)
(* push is admitted while the queue is not disposed, and then enters it even *)
(* if it is disposed meanwhile; a try_pop that found nothing asks only      *)
(* afterwards whether the queue is disposed; a drain takes what it found,   *)
(* and not what comes later.  The calls of one side take turns.             *)
(***************************************************************************)
EXTENDS BlockingQueue

VARIABLES
  seen,  \* what each call has looked at: "nothing", "open", "empty", "items"
  found  \* the number of items a drain has found

vars2 == <<vars, seen, found>>

Init2 ==
  /\ Init
  /\ seen = [t \in Threads |-> "nothing"]
  /\ found = [t \in Threads |-> 0]

\* Producers take turns, and so do consumers.
SideOf(t) == IF op[t] \in PushOps THEN PushOps ELSE PopOps \cup {"drain"}

\* No call of its side is between look and effect.
Alone(t) == \A u \in Threads : op[u] \in SideOf(t) => seen[u] = "nothing"

\* The call looks.
Look(t, what) ==
  /\ Alone(t)
  /\ seen' = [seen EXCEPT ![t] = what]
  /\ UNCHANGED vars

\* A push that waits is admitted when it has seen room as well.
Admit(t) ==
  /\ Pending(t, PushOps) /\ ~disposed
  /\ op[t] = "try_push" \/ ~IsFull
  /\ Look(t, "open") /\ UNCHANGED found

FindNothing(t) ==
  /\ Pending(t, {"try_pop"}) /\ queue = <<>>
  /\ Look(t, "empty") /\ UNCHANGED found

FindItems(t) ==
  /\ Pending(t, {"drain"})
  /\ Look(t, "items")
  /\ found' = [found EXCEPT ![t] = Len(queue)]

\* The call takes effect by what it saw, and what it saw is forgotten.
Settle(t) ==
  /\ seen' = [seen EXCEPT ![t] = "nothing"]
  /\ found' = [found EXCEPT ![t] = 0]

\* An admitted push finds room, or is a try_push.
PushAdmitted(t) ==
  /\ seen[t] = "open"
  /\ \/ Enqueue(t)
     \/ op[t] = "try_push" /\ IsFull /\ Refuse(t, "would_block")
  /\ Settle(t)

TryPopAnswers(t) ==
  /\ seen[t] = "empty"
  /\ Refuse(t, IF disposed THEN "unavailable" ELSE "would_block")
  /\ Settle(t)

DrainFound(t) ==
  /\ seen[t] = "items"
  /\ DrainTo(t, found[t])
  /\ Settle(t)

\* The time of a call is over although the queue is disposed: it saw the
\* flag before that.
LateTimeout(t) ==
  /\ disposed
  /\ \/ Pending(t, {"push_timeout"}) /\ IsFull
     \/ Pending(t, {"pop_timeout"}) /\ queue = <<>>
  /\ Refuse(t, "timeout")

\* Everything else takes effect at one moment, in its turn.
AtOnce(t) ==
  /\ \/ /\ Alone(t)
        /\ \/ PushOk(t) \/ PushRefused(t) \/ PopOk(t) \/ PopRefused(t)
           \/ Drain(t) \/ LateTimeout(t)
     \/ Dispose(t)
  /\ UNCHANGED <<seen, found>>

\* A call looks or takes effect.
Effect(t) ==
  \/ Admit(t) \/ FindNothing(t) \/ FindItems(t)
  \/ PushAdmitted(t) \/ TryPopAnswers(t) \/ DrainFound(t)
  \/ AtOnce(t)

\* Calling and returning are what they were.
Call2(t) == Call(t) /\ UNCHANGED <<seen, found>>
Return2(t) == Return(t) /\ UNCHANGED <<seen, found>>

Next2 == \E t \in Threads : Call2(t) \/ Effect(t) \/ Return2(t)

Spec2 == Init2 /\ [][Next2]_vars2
=============================================================================

--------------------------- MODULE BlockingQueue ---------------------------
(***************************************************************************)
(* What the trait BQ promises, without locks or condition variables: every  *)
(* call takes effect in one step between its invocation and its return.     *)
(* The queue is a bounded FIFO; a disposed queue refuses pushes and still   *)
(* hands out what it holds, and a pop reports it unavailable only once it   *)
(* is empty.                                                                *)
(***************************************************************************)
EXTENDS BQOps

VARIABLES
  queue,     \* the items in the queue, oldest first
  disposed,  \* dispose has taken effect
  hand,      \* the items owned by callers outside any call
  op,        \* the method each thread is in, "none" outside a call
  carry,     \* the items the call owns: its argument or its result
  ret        \* the result of the call, "none" before it takes effect

vars == <<queue, disposed, hand, op, carry, ret>>

Init ==
  /\ queue = <<>>
  /\ disposed = FALSE
  /\ hand = Items
  /\ op = [t \in Threads |-> "none"]
  /\ carry = [t \in Threads |-> <<>>]
  /\ ret = [t \in Threads |-> "none"]

\* A thread calls a method; a push takes an item out of the caller's hands.
Call(t) ==
  /\ op[t] = "none"
  /\ \E o \in OpsOf[t] :
       /\ op' = [op EXCEPT ![t] = o]
       /\ \/ /\ o \in PushOps
             /\ \E i \in hand : /\ hand' = hand \ {i}
                                /\ carry' = [carry EXCEPT ![t] = <<i>>]
          \/ /\ o \notin PushOps
             /\ UNCHANGED <<hand, carry>>
  /\ UNCHANGED <<queue, disposed, ret>>

Pending(t, ops) == op[t] \in ops /\ ret[t] = "none"

Result(t, r) == ret' = [ret EXCEPT ![t] = r]

\* The call fails and keeps what it carries: a push gives its item back.
Refuse(t, r) == /\ Result(t, r)
                /\ UNCHANGED <<queue, disposed, hand, op, carry>>

IsFull == Len(queue) >= Capacity

Enqueue(t) ==
  /\ ~IsFull
  /\ queue' = queue \o carry[t]
  /\ carry' = [carry EXCEPT ![t] = <<>>]
  /\ Result(t, "ok")
  /\ UNCHANGED <<disposed, hand, op>>

PushOk(t) == Pending(t, PushOps) /\ ~disposed /\ Enqueue(t)

PushRefused(t) ==
  /\ Pending(t, PushOps)
  /\ \/ disposed /\ Refuse(t, "unavailable")
     \/ /\ ~disposed /\ IsFull
        /\ \/ op[t] = "try_push" /\ Refuse(t, "would_block")
           \/ op[t] = "push_timeout" /\ Refuse(t, "timeout")

PopOk(t) ==
  /\ Pending(t, PopOps)
  /\ queue # <<>>
  /\ carry' = [carry EXCEPT ![t] = <<Head(queue)>>]
  /\ queue' = Tail(queue)
  /\ Result(t, "ok")
  /\ UNCHANGED <<disposed, hand, op>>

PopRefused(t) ==
  /\ Pending(t, PopOps)
  /\ queue = <<>>
  /\ \/ disposed /\ Refuse(t, "unavailable")
     \/ /\ ~disposed
        /\ \/ op[t] = "try_pop" /\ Refuse(t, "would_block")
           \/ op[t] = "pop_timeout" /\ Refuse(t, "timeout")

DrainTo(t, n) ==
  /\ carry' = [carry EXCEPT ![t] = SubSeq(queue, 1, n)]
  /\ queue' = SubSeq(queue, n + 1, Len(queue))
  /\ Result(t, "ok")
  /\ UNCHANGED <<disposed, hand, op>>

Drain(t) == Pending(t, {"drain"}) /\ DrainTo(t, Len(queue))

Dispose(t) ==
  /\ Pending(t, {"dispose"})
  /\ disposed' = TRUE
  /\ Result(t, "ok")
  /\ UNCHANGED <<queue, hand, op, carry>>

\* The call returns and the caller owns what it carries.
Return(t) ==
  /\ ret[t] # "none"
  /\ hand' = hand \cup Range(carry[t])
  /\ op' = [op EXCEPT ![t] = "none"]
  /\ carry' = [carry EXCEPT ![t] = <<>>]
  /\ Result(t, "none")
  /\ UNCHANGED <<queue, disposed>>

Next == \E t \in Threads :
          \/ Call(t) \/ Return(t)
          \/ PushOk(t) \/ PushRefused(t)
          \/ PopOk(t) \/ PopRefused(t)
          \/ Drain(t) \/ Dispose(t)

Spec == Init /\ [][Next]_vars
=============================================================================

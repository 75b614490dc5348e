------------------------------- MODULE BQOps -------------------------------
(***************************************************************************)
(* The vocabulary of the trait BQ (crates/hio-concurrent/src/bq.rs): its    *)
(* operations, their results, and the parameters of a queue.  It has no     *)
(* state; the abstract queue and both implementations extend it.            *)
(***************************************************************************)
EXTENDS Naturals, Sequences, FiniteSets, Functions

CONSTANTS
  Threads,    \* the threads that share the queue through an Arc
  NoThread,   \* the owner of a mutex that nobody holds
  Items,      \* the values of type T; every one is moved, never copied
  Requested,  \* the capacity given to new(); 0 asks for an unbounded queue
  UsizeMax,   \* usize::MAX
  OpsOf       \* the methods each thread may call

PushOps  == {"push", "try_push", "push_timeout"}
PopOps   == {"pop", "try_pop", "pop_timeout"}
TryOps   == {"try_push", "try_pop"}
TimedOps == {"push_timeout", "pop_timeout"}
Ops      == PushOps \cup PopOps \cup {"drain", "dispose"}

\* Ok, or the HioLastError of the call; "none" while it has no result yet.
Rets == {"none", "ok", "unavailable", "would_block", "timeout"}

ASSUME BQAssumption ==
  /\ IsFiniteSet(Threads)
  /\ NoThread \notin Threads
  /\ Requested \in Nat
  /\ UsizeMax \in Nat \ {0}
  /\ OpsOf \in [Threads -> SUBSET Ops]

\* ensure_capacity
Capacity == IF Requested = 0 THEN UsizeMax ELSE Requested
=============================================================================

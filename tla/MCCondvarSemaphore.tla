------------------------- MODULE MCCondvarSemaphore -------------------------
(***************************************************************************)
(* Instances of CondvarSemaphore for TLC.                                   *)
(***************************************************************************)
EXTENDS CondvarSemaphore

CONSTANTS t1, t2, t3, t4

\* Two threads that wait, two that may do anything.
Roles == [t \in Threads |-> IF t \in {t1, t2} THEN {"acquire"} ELSE Ops]
=============================================================================

-------------------------- MODULE MCFutexSemaphore --------------------------
(***************************************************************************)
(* Instances of FutexSemaphore for TLC.                                     *)
(***************************************************************************)
EXTENDS FutexSemaphore, TLC

CONSTANTS t1, t2, t3, t4

\* i32::max is the function Ord::max: cast to u32 it is the low half of its
\* address.  The kernel reads it as an int, positive or negative.
LowAddress  == 2147483647
HighAddress == -1

\* Two threads that wait, one that may do anything, one that releases.
Roles == [t \in Threads |->
  IF t \in {t1, t2} THEN {"acquire"} ELSE IF t = t3 THEN Ops ELSE {"release"}]
=============================================================================

----------------------------- MODULE MCLinkedBQ -----------------------------
(***************************************************************************)
(* Instances of LinkedBQ for TLC: which thread may call which methods.      *)
(***************************************************************************)
EXTENDS LinkedBQ, TLC

CONSTANTS t1, t2, t3, t4, i1, i2, i3

\* Every thread may call every method.
AnyOps == [t \in Threads |-> Ops]

\* Two producers and two consumers; one producer gives up after a
\* while, one consumer also drains and disposes.
TwoByTwo == [t \in Threads |->
  CASE t = t1 -> {"push"}
    [] t = t2 -> {"push_timeout"}
    [] t = t3 -> {"pop"}
    [] OTHER  -> {"pop", "drain", "dispose"}]

\* Items are interchangeable, and so are threads with the same methods.
AllSymmetry == Permutations(Items) \cup Permutations(Threads)
=============================================================================

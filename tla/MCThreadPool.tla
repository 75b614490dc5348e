---------------------------- MODULE MCThreadPool ----------------------------
(***************************************************************************)
(* Instances of ThreadPool for TLC.                                         *)
(***************************************************************************)
EXTENDS ThreadPool, TLC

CONSTANT o1

\* One outsider pushes without waiting and may dispose the queue.
PoolOps == [t \in Threads |->
  IF t \in Workers THEN {"pop", "push", "dispose"}
  ELSE IF t \in Clients THEN {"push"}
  ELSE IF t = o1 THEN {"try_push", "dispose"}
  ELSE {"dispose"}]
=============================================================================

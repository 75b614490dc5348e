----------------------------- MODULE ThreadPool -----------------------------
(***************************************************************************)
(* ThreadPool (crates/hio-concurrent/src/executor/thread_pool.rs) composed  *)
(* with the queue it takes its jobs from, which is any BQ: TwoSidedQueue is  *)
(* what both of them promise.  The clients share the pool, the owner drops   *)
(* it, and others may hold the JobQueue, an Arc that the caller made.  A job *)
(* is an item of the queue: to submit it is to push it, and a worker pops it *)
(* and runs it.  A job may hold a clone of the pool's own Arc: it can submit *)
(* to the pool that runs it, and it may drop the last reference, which       *)
(* disposes the pool from one of its workers.                               *)
(***************************************************************************)
EXTENDS BQOps

CONSTANTS
  Workers,  \* the threads of the pool
  Clients,  \* the threads that call submit
  Owner,    \* the thread that made the pool and drops its reference
  Holders,  \* the jobs that hold a reference to the pool
  NoJob

Outsiders == Threads \ (Workers \cup Clients \cup {Owner})

ASSUME PoolAssumption ==
  /\ Workers # {} /\ Workers \cup Clients \cup {Owner} \subseteq Threads
  /\ Workers \cap Clients = {} /\ Owner \notin Workers \cup Clients
  /\ NoJob \notin Items /\ Holders \subseteq Items
  /\ \A t \in Workers : OpsOf[t] = {"pop", "push", "dispose"}
  /\ \A t \in Clients : OpsOf[t] = {"push"}
  /\ \A t \in Outsiders : OpsOf[t] \subseteq PushOps \cup {"dispose"}
  /\ OpsOf[Owner] = {"dispose"}

VARIABLES
  queue, disposed, hand, op, carry, ret,  \* the job queue, see BlockingQueue
  seen, found,                            \* and TwoSidedQueue
  worker,    \* "loop", "job", "left" (pop failed) or "panicked"; "disposing"
             \* and "joining" when it has dropped the last reference
  running,   \* the job each worker runs
  accepted,  \* the jobs that entered the queue
  late,      \* those that entered it when it was disposed already
  ended,     \* the jobs that were run, to their end or to a panic
  dropped,   \* the jobs whose submit failed
  handles,   \* the JoinHandles of the pool
  owner      \* "open", "disposing", "joining", "closed"; "gone" when it
             \* was not the last to drop its reference

Q == INSTANCE TwoSidedQueue

jobQueue == <<queue, disposed, hand, op, carry, ret, seen, found>>
entries == <<accepted, late>>
pool == <<worker, running, ended, dropped, handles, owner>>
vars == <<jobQueue, entries, pool>>

\* Mutant: the loop that spawns the workers stops one short.
InitOneShort ==
  /\ Q!Init2
  /\ \E w \in Workers : worker = [v \in Workers |-> IF v = w THEN "left" ELSE "loop"]
  /\ running = [w \in Workers |-> NoJob]
  /\ accepted = {} /\ late = {} /\ ended = {} /\ dropped = {}
  /\ handles = Workers
  /\ owner = "open"

Init ==
  /\ Q!Init2
  /\ worker = [w \in Workers |-> "loop"]
  /\ running = [w \in Workers |-> NoJob]
  /\ accepted = {} /\ late = {} /\ ended = {} /\ dropped = {}
  /\ handles = Workers
  /\ owner = "open"

\* The job that a push brings into the queue with this step.
Entering(t) == IF op[t] \in PushOps /\ ret'[t] = "ok" THEN Range(carry[t]) ELSE {}

\* A call of the queue looks or takes effect: nobody here drains it, or pops
\* without waiting.
QueueStep(t) ==
  /\ Q!Admit(t) \/ Q!PushAdmitted(t) \/ Q!AtOnce(t)
  /\ accepted' = accepted \cup Entering(t)
  /\ late' = IF disposed THEN late \cup Entering(t) ELSE late
  /\ UNCHANGED pool

-----------------------------------------------------------------------------
(* submit, and the others who hold the queue *)

\* A job is run or destroyed only once.
Spent == ended \cup dropped \cup Range(running)

Calls(t, o) == Q!Call2(t) /\ op'[t] = o

\* A job that nobody has seen, and that its maker can make: only who has a
\* reference to the pool can give the job one.
Fresh(jobs, makes) == jobs \cap Spent = {} /\ jobs \subseteq makes

\* submit borrows the pool: the owner keeps its reference while a client does.
Submit(c) ==
  /\ owner = "open" /\ Q!Call2(c) /\ Fresh(Range(carry'[c]), Items)
  /\ UNCHANGED <<entries, pool>>

\* A running job submits to its own pool.
SubmitNested(w) ==
  /\ worker[w] = "job" /\ running[w] \in Holders
  /\ Calls(w, "push") /\ Fresh(Range(carry'[w]), Items)
  /\ UNCHANGED <<entries, pool>>

\* submit destroys the job of a push that failed.
Submitted(t) ==
  /\ op[t] = "push" /\ Q!Return2(t)
  /\ dropped' = dropped \cup Range(carry[t])
  /\ UNCHANGED <<entries, worker, running, ended, handles, owner>>

OutsiderCalls(t) ==
  /\ Q!Call2(t) /\ Fresh(Range(carry'[t]), Items \ Holders)
  /\ UNCHANGED <<entries, pool>>

\* An outsider that was refused keeps the job and may try again.
OutsiderReturns(t) == Q!Return2(t) /\ UNCHANGED <<entries, pool>>

-----------------------------------------------------------------------------
(* worker_thread_proc *)

WorkerPops(w) ==
  /\ worker[w] = "loop" /\ Calls(w, "pop")
  /\ UNCHANGED <<entries, pool>>

\* Mutant: a worker that finds the queue disposed leaves with its job.
WorkerGotUnlessDisposed(w) ==
  /\ worker[w] = "loop" /\ Q!Return2(w)
  /\ \/ /\ ret[w] = "ok" /\ ~disposed
        /\ worker' = [worker EXCEPT ![w] = "job"]
        /\ running' = [running EXCEPT ![w] = Head(carry[w])]
     \/ /\ ret[w] # "ok" \/ disposed
        /\ worker' = [worker EXCEPT ![w] = "left"]
        /\ UNCHANGED running
  /\ UNCHANGED <<entries, ended, dropped, handles, owner>>

\* Mutant: the result of pop is not looked at.
WorkerGotAnyway(w) ==
  /\ worker[w] = "loop" /\ Q!Return2(w)
  /\ worker' = [worker EXCEPT ![w] = "job"]
  /\ running' = [running EXCEPT ![w] = IF carry[w] = <<>> THEN NoJob ELSE Head(carry[w])]
  /\ UNCHANGED <<entries, ended, dropped, handles, owner>>

\* pop returns: the worker runs the job, or leaves when there is none.
WorkerGot(w) ==
  /\ worker[w] = "loop" /\ Q!Return2(w)
  /\ \/ /\ ret[w] = "ok"
        /\ worker' = [worker EXCEPT ![w] = "job"]
        /\ running' = [running EXCEPT ![w] = Head(carry[w])]
     \/ /\ ret[w] # "ok"
        /\ worker' = [worker EXCEPT ![w] = "left"]
        /\ UNCHANGED running
  /\ UNCHANGED <<entries, ended, dropped, handles, owner>>

\* The jobs that still hold a reference to the pool.
Holding == Holders \cap (Range(queue) \cup Range(running)
                          \cup UNION {Range(carry[t]) : t \in Threads})

DropsLast(w) == owner = "gone" /\ Holding = {running[w]}

\* A job comes to its end, and its worker goes on to the state next.
JobOver(w, next) ==
  /\ worker[w] = "job" /\ op[w] = "none" /\ ~DropsLast(w)
  /\ worker' = [worker EXCEPT ![w] = next]
  /\ running' = [running EXCEPT ![w] = NoJob]
  /\ ended' = ended \cup {running[w]}
  /\ UNCHANGED <<jobQueue, entries, dropped, handles, owner>>

\* Mutant: a worker runs one job and leaves.
JobReturnsOnce(w) == JobOver(w, "left")

JobReturns(w) == JobOver(w, "loop")

\* Nothing catches the panic of a job: it ends the worker.
JobPanics(w) == JobOver(w, "panicked")

-----------------------------------------------------------------------------
(* dispose *)

\* Mutant: the queue is not disposed.
DropLastJoining ==
  /\ owner = "open" /\ Holding = {} /\ \A c \in Clients : op[c] = "none"
  /\ owner' = "joining"
  /\ UNCHANGED <<jobQueue, entries, worker, running, ended, dropped, handles>>

\* The owner drops the last reference, and the drop disposes the pool; the
\* compare_exchange lets no second dispose in.
DropLast ==
  /\ owner = "open" /\ Holding = {} /\ \A c \in Clients : op[c] = "none"
  /\ Q!Call2(Owner) /\ owner' = "disposing"
  /\ UNCHANGED <<entries, worker, running, ended, dropped, handles>>

DropNotLast ==
  /\ owner = "open" /\ Holding # {} /\ \A c \in Clients : op[c] = "none"
  /\ owner' = "gone"
  /\ UNCHANGED <<jobQueue, entries, worker, running, ended, dropped, handles>>

\* The last reference goes with a job: its worker disposes the pool.
JobDropsLast(w) ==
  /\ worker[w] = "job" /\ op[w] = "none" /\ DropsLast(w)
  /\ Calls(w, "dispose") /\ worker' = [worker EXCEPT ![w] = "disposing"]
  /\ UNCHANGED <<entries, running, ended, dropped, handles, owner>>

\* The queue is disposed, and dispose starts to join.
Disposed(t) ==
  /\ \/ /\ t = Owner /\ owner' = "joining" /\ UNCHANGED worker
     \/ /\ t \in Workers /\ worker[t] = "disposing"
        /\ worker' = [worker EXCEPT ![t] = "joining"] /\ UNCHANGED owner
  /\ Q!Return2(t)
  /\ UNCHANGED <<entries, running, ended, dropped, handles>>

Joining == owner = "joining" \/ \E w \in Workers : worker[w] = "joining"

\* Mutant: the handles are dropped, which detaches the threads.
JoinDetaching(w) ==
  /\ Joining /\ w \in handles
  /\ handles' = handles \ {w}
  /\ UNCHANGED <<jobQueue, entries, worker, running, ended, dropped, owner>>

\* join returns when the thread is over, by a return or a panic.
Join(w) ==
  /\ Joining /\ w \in handles
  /\ worker[w] \in {"left", "panicked"}
  /\ handles' = handles \ {w}
  /\ UNCHANGED <<jobQueue, entries, worker, running, ended, dropped, owner>>

\* A thread that joins itself waits for ever, or is told so by the system and
\* panics; then the handles it has not joined yet are dropped.
JoinSelf(w) ==
  /\ worker[w] = "joining" /\ worker' = [worker EXCEPT ![w] = "panicked"]
  /\ running' = [running EXCEPT ![w] = NoJob]
  /\ ended' = ended \cup {running[w]}
  /\ handles' = {}
  /\ UNCHANGED <<jobQueue, entries, dropped, owner>>

Closed ==
  /\ owner = "joining" /\ handles = {} /\ owner' = "closed"
  /\ UNCHANGED <<jobQueue, entries, worker, running, ended, dropped, handles>>

-----------------------------------------------------------------------------

WorkerStep(w) ==
  \/ WorkerPops(w) \/ QueueStep(w) \/ WorkerGot(w) \/ Submitted(w)
  \/ JobReturns(w) \/ JobPanics(w) \/ JobDropsLast(w) \/ Disposed(w) \/ Join(w)
ClientStep(c) == QueueStep(c) \/ Submitted(c)
OutsiderStep(t) == QueueStep(t) \/ OutsiderReturns(t)
OwnerStep == QueueStep(Owner) \/ Disposed(Owner) \/ Closed

Next ==
  \/ \E w \in Workers : WorkerStep(w) \/ SubmitNested(w) \/ JoinSelf(w)
  \/ \E c \in Clients : Submit(c) \/ ClientStep(c)
  \/ \E t \in Outsiders : OutsiderCalls(t) \/ OutsiderStep(t)
  \/ DropLast \/ DropNotLast \/ OwnerStep

Spec == Init /\ [][Next]_vars

\* Every thread inside a call keeps running, and jobs come to an end.
FairSpec ==
  /\ Spec
  /\ \A w \in Workers : WF_vars(WorkerStep(w))
  /\ \A c \in Clients : WF_vars(ClientStep(c))
  /\ \A t \in Outsiders : WF_vars(OutsiderStep(t))
  /\ WF_vars(OwnerStep)

-----------------------------------------------------------------------------
(* Properties *)

\* Every variable of the pool has its type, and a worker has a job exactly
\* while it runs one.
TypeOK ==
  /\ worker \in [Workers -> {"loop", "job", "left", "panicked", "disposing", "joining"}]
  /\ running \in [Workers -> Items \cup {NoJob}]
  /\ \A w \in Workers :
       worker[w] \in {"job", "disposing", "joining"} <=> running[w] # NoJob
  /\ accepted \subseteq Items /\ late \subseteq accepted
  /\ ended \subseteq Items /\ dropped \subseteq Items
  /\ handles \subseteq Workers
  /\ owner \in {"open", "disposing", "joining", "closed", "gone"}

Popped == UNION {Range(carry[w]) : w \in {v \in Workers : op[v] = "pop"}}
InFlight == Popped \cup (Range(running) \ {NoJob})

\* A job that entered the queue is never lost: it waits there, or is in the
\* hands of exactly one worker, or has been run; and a job whose submit
\* failed is never run.
JobsKept ==
  /\ accepted = Range(queue) \cup InFlight \cup ended
  /\ Range(queue) \cap (InFlight \cup ended) = {} /\ InFlight \cap ended = {}
  /\ \A v, w \in Workers :
       v # w => (Range(carry[v]) \cup {running[v]})
                  \cap (Range(carry[w]) \cup {running[w]}) \subseteq {NoJob}
  /\ accepted \cap dropped = {}

Panicked == {w \in Workers : worker[w] = "panicked"}

\* dispose waits for the work: when it has returned, every job that entered
\* the queue has been run, except one whose push had read the flag before the
\* queue was disposed, and unless a panic ended each one of the workers.  The
\* tests count on it: they drop the pool and compare the counter.
DisposeFinishes ==
  owner = "closed" /\ Panicked # Workers =>
    \A i, j \in accepted \ ended : i = j /\ i \in late

\* dispose returns to the owner, since jobs end, even when workers have
\* panicked.
DisposeReturns == owner \in {"disposing", "joining"} ~> owner = "closed"

\* The workers that take no job any more: they have panicked, or join
\* themselves, or wait for room in the queue to submit a job.
Lost == {w \in Workers :
  \/ worker[w] \in {"panicked", "joining"}
  \/ op[w] = "push" /\ ret[w] = "none" /\ Q!IsFull}

\* Unless the pool loses all its workers for good: every job that enters the
\* queue in time is taken up by a worker, also when the pool is dropped by one
\* of its jobs.
AcceptedJobsRun ==
  \/ <>[](Lost = Workers)
  \/ \A i \in Items : i \in accepted \ late ~> i \in ended \cup Range(running)

\* Back-pressure ends: a submit that found the queue full returns, one made by
\* a job too, again unless the pool loses all its workers for good.
SubmitsReturn ==
  \/ <>[](Lost = Workers)
  \/ \A t \in Clients \cup Workers : op[t] = "push" ~> op[t] = "none"
=============================================================================

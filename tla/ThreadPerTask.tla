---------------------------- MODULE ThreadPerTask ----------------------------
(***************************************************************************)
(* ThreadPerTaskPool (crates/hio-concurrent/src/executor/                   *)
(* thread_per_task.rs): every job gets a thread of its own, at most         *)
(* MaxThreads at once.  A submitter reaps the finished threads, takes a     *)
(* place under the limit (and waits for one), spawns, and stores the        *)
(* handle.  The mutexes guard short sections, each of them one step.        *)
(***************************************************************************)
EXTENDS Integers, FiniteSets

CONSTANTS
  Clients,     \* the threads that share the pool and submit jobs
  Workers,     \* the threads the operating system can have at once
  NoWorker,
  MaxThreads   \* max_threads, 0 for no limit

ASSUME PoolAssumption ==
  /\ IsFiniteSet(Clients) /\ IsFiniteSet(Workers)
  /\ NoWorker \notin Workers
  /\ MaxThreads \in Nat

VARIABLES
  count,     \* thread_count
  disposed,  \* the AtomicBool
  waiting,   \* the submitters asleep on max_limit_cv
  handles,   \* the JoinHandles in the Vec
  joining,   \* the JoinHandles dispose has taken out and not joined yet
  worker,    \* what each thread is doing
  pc,        \* where each submitter is
  spawned,   \* the handle a submitter has not stored yet
  owner      \* the caller of dispose: "open", "joining" or "closed"

pool == <<count, disposed, waiting>>
vars == <<pool, handles, joining, worker, pc, spawned, owner>>

Init ==
  /\ count = 0 /\ disposed = FALSE /\ waiting = {}
  /\ handles = {} /\ joining = {}
  /\ worker = [w \in Workers |-> "none"]
  /\ pc = [c \in Clients |-> "idle"]
  /\ spawned = [c \in Clients |-> NoWorker]
  /\ owner = "open"

Goto(c, l) == pc' = [pc EXCEPT ![c] = l]

\* notify_one wakes some waiting submitter, if there is one.
NotifyOne(S) == IF S = {} THEN {S} ELSE {S \ {c} : c \in S}

-----------------------------------------------------------------------------
(* submit *)

\* submit borrows the pool, dispose borrows it mutably: they do not overlap.
\* A disposed pool refuses at once.
Submit(c) ==
  /\ pc[c] = "idle" /\ owner # "joining"
  /\ Goto(c, IF disposed THEN "return" ELSE "reap")
  /\ UNCHANGED <<pool, handles, joining, worker, spawned, owner>>

Finished == {w \in Workers : worker[w] = "finished"}

\* reap joins the finished threads.
Reap(c) ==
  /\ pc[c] = "reap" /\ Goto(c, "acquire")
  /\ worker' = [w \in Workers |->
       IF w \in handles \cap Finished THEN "none" ELSE worker[w]]
  /\ handles' = handles \ Finished
  /\ UNCHANGED <<pool, joining, spawned, owner>>

Woken(c) == pc[c] = "asleep" /\ c \notin waiting

Crowded == MaxThreads > 0 /\ ~disposed /\ count >= MaxThreads

\* Mutant: a woken submitter does not look at the count again.
AcquireOnce(c) ==
  /\ pc[c] = "acquire" \/ Woken(c)
  /\ \/ /\ Crowded /\ pc[c] = "acquire" /\ waiting' = waiting \cup {c}
        /\ Goto(c, "asleep") /\ UNCHANGED count
     \/ /\ ~Crowded \/ Woken(c)
        /\ count' = count + 1 /\ Goto(c, "spawn") /\ UNCHANGED waiting
  /\ UNCHANGED <<disposed, handles, joining, worker, spawned, owner>>

\* Mutant: a place is taken without being counted.
AcquireUncounted(c) ==
  /\ pc[c] = "acquire" \/ Woken(c)
  /\ ~Crowded /\ Goto(c, "spawn")
  /\ UNCHANGED <<pool, handles, joining, worker, spawned, owner>>

\* Inner::acquire: wait_while, then the place is taken.  It refuses a place
\* when the pool is disposed, but no submit is inside when that happens.
Acquire(c) ==
  /\ pc[c] = "acquire" \/ Woken(c)
  /\ \/ /\ Crowded /\ waiting' = waiting \cup {c}
        /\ Goto(c, "asleep") /\ UNCHANGED count
     \/ /\ ~Crowded /\ ~disposed
        /\ count' = count + 1 /\ Goto(c, "spawn") /\ UNCHANGED waiting
  /\ UNCHANGED <<disposed, handles, joining, worker, spawned, owner>>

\* The Condvar wakes a submitter for no reason.
SpuriousWake(c) ==
  /\ c \in waiting /\ waiting' = waiting \ {c}
  /\ UNCHANGED <<count, disposed, handles, joining, worker, pc, spawned, owner>>

\* The new thread owns the InnerGuard and runs the job.
Spawn(c) ==
  /\ pc[c] = "spawn" /\ Goto(c, "store")
  /\ \E w \in Workers :
       /\ worker[w] = "none"
       /\ worker' = [worker EXCEPT ![w] = "job"]
       /\ spawned' = [spawned EXCEPT ![c] = w]
  /\ UNCHANGED <<pool, handles, joining, owner>>

\* Inner::release: the place is given back and one submitter notified.
Release == count' = count - 1 /\ waiting' \in NotifyOne(waiting)

\* Mutant: a failed spawn keeps its place.
SpawnFailsKeeping(c) ==
  /\ pc[c] = "spawn" /\ Goto(c, "return")
  /\ UNCHANGED <<pool, handles, joining, worker, spawned, owner>>

\* The system refuses a thread; no guard was made.
SpawnFails(c) ==
  /\ pc[c] = "spawn" /\ Goto(c, "return")
  /\ Release
  /\ UNCHANGED <<disposed, handles, joining, worker, spawned, owner>>

\* Mutant: the last handle replaces the others.
StoreOver(c) ==
  /\ pc[c] = "store" /\ Goto(c, "return")
  /\ handles' = {spawned[c]}
  /\ spawned' = [spawned EXCEPT ![c] = NoWorker]
  /\ UNCHANGED <<pool, joining, worker, owner>>

Store(c) ==
  /\ pc[c] = "store" /\ Goto(c, "return")
  /\ handles' = handles \cup {spawned[c]}
  /\ spawned' = [spawned EXCEPT ![c] = NoWorker]
  /\ UNCHANGED <<pool, joining, worker, owner>>

Return(c) ==
  /\ pc[c] = "return" /\ Goto(c, "idle")
  /\ UNCHANGED <<pool, handles, joining, worker, spawned, owner>>

-----------------------------------------------------------------------------
(* The threads and dispose *)

\* Mutant: the place is given back without a notification.
JobEndsSilently(w) ==
  /\ worker[w] = "job" /\ worker' = [worker EXCEPT ![w] = "ending"]
  /\ count' = count - 1
  /\ UNCHANGED <<waiting, disposed, handles, joining, pc, spawned, owner>>

\* Mutant: dispose keeps the lock of thread_count while it joins.
JobEndsLocked(w) ==
  /\ worker[w] = "job" /\ worker' = [worker EXCEPT ![w] = "ending"]
  /\ owner # "joining" /\ Release
  /\ UNCHANGED <<disposed, handles, joining, pc, spawned, owner>>

\* The job returns or panics; either way its InnerGuard is dropped.
JobEnds(w) ==
  /\ worker[w] = "job" /\ worker' = [worker EXCEPT ![w] = "ending"]
  /\ Release
  /\ UNCHANGED <<disposed, handles, joining, pc, spawned, owner>>

\* Later the thread ends, and is_finished says so.
ThreadEnds(w) ==
  /\ worker[w] = "ending" /\ worker' = [worker EXCEPT ![w] = "finished"]
  /\ UNCHANGED <<pool, handles, joining, pc, spawned, owner>>

\* dispose sets the flag, notifies everybody and takes the handles.
Dispose ==
  /\ owner = "open" /\ \A c \in Clients : pc[c] = "idle"
  /\ owner' = "joining" /\ disposed' = TRUE /\ waiting' = {}
  /\ joining' = handles /\ handles' = {}
  /\ UNCHANGED <<count, worker, pc, spawned>>

\* Each join waits for its thread.
Join(w) ==
  /\ owner = "joining" /\ w \in joining /\ worker[w] = "finished"
  /\ joining' = joining \ {w}
  /\ worker' = [worker EXCEPT ![w] = "none"]
  /\ UNCHANGED <<pool, handles, pc, spawned, owner>>

Closed ==
  /\ owner = "joining" /\ joining = {} /\ owner' = "closed"
  /\ UNCHANGED <<pool, handles, joining, worker, pc, spawned>>

-----------------------------------------------------------------------------

Step(c) == Reap(c) \/ Acquire(c) \/ Spawn(c) \/ SpawnFails(c) \/ Store(c) \/ Return(c)

WorkerStep(w) == JobEnds(w) \/ ThreadEnds(w) \/ Join(w)

Next ==
  \/ \E c \in Clients : Submit(c) \/ SpuriousWake(c) \/ Step(c)
  \/ \E w \in Workers : WorkerStep(w)
  \/ Dispose \/ Closed

Spec == Init /\ [][Next]_vars

\* Submitters keep running, jobs come to an end, and dispose keeps joining.
FairSpec == /\ Spec
            /\ \A c \in Clients : WF_vars(Step(c))
            /\ \A w \in Workers : WF_vars(WorkerStep(w))
            /\ WF_vars(Closed)

-----------------------------------------------------------------------------
(* Properties *)

TypeOK ==
  /\ count \in Nat /\ disposed \in BOOLEAN
  /\ waiting \subseteq Clients
  /\ handles \subseteq Workers /\ joining \subseteq Workers
  /\ worker \in [Workers -> {"none", "job", "ending", "finished"}]
  /\ pc \in [Clients -> {"idle", "reap", "acquire", "asleep", "spawn", "store", "return"}]
  /\ spawned \in [Clients -> Workers \cup {NoWorker}]
  /\ owner \in {"open", "joining", "closed"}

Running == {w \in Workers : worker[w] = "job"}
At(l) == {c \in Clients : pc[c] = l}

\* thread_count is exactly the jobs that run and the submitters about to
\* spawn one: every place taken is given back once, by the InnerGuard of a
\* job that returned or panicked or by a spawn that failed.
CountExact == count = Cardinality(Running) + Cardinality(At("spawn"))

\* Never more jobs at once than the limit (test_backpressure_caps_concurrency),
\* although a freed place may be taken before the woken submitter gets to it.
LimitKept == MaxThreads > 0 => Cardinality(Running) + Cardinality(At("spawn")) <= MaxThreads

\* No thread is forgotten: until it is joined its handle is in the Vec, with
\* the submitter that spawned it, or with dispose.  So a closed pool has no
\* thread left, and a count of zero (test_reject_after_dispose).
ThreadsTracked ==
  /\ \A w \in Workers : worker[w] # "none" =>
       w \in handles \cup joining \cup {spawned[c] : c \in Clients}
  /\ owner = "closed" => count = 0 /\ \A w \in Workers : worker[w] = "none"

Takers == {c \in Clients : pc[c] = "acquire" \/ Woken(c)}

\* No wake-up is lost: while a submitter sleeps, every free place has another
\* that is about to look at the count.
PlacesHaveTakers == waiting # {} => MaxThreads - count <= Cardinality(Takers)

\* Nobody submits any more and no wake-up is spurious.
Quiet == <>[][~\E c \in Clients : Submit(c) \/ SpuriousWake(c)]_vars

\* When the callers fall silent, every submit returns, since jobs end.
SubmitsReturn == Quiet => <>[](\A c \in Clients : pc[c] = "idle")

\* dispose returns, since jobs end.
DisposeReturns == owner = "joining" ~> owner = "closed"

\* Handles do not pile up: the comment in submit says that reap "prevents
\* the infinite growth of handle vec size", and test_reap_bounds_handle_vec
\* asserts at most twice the limit.
HandlesReaped == MaxThreads > 0 => Cardinality(handles) <= 2 * MaxThreads
=============================================================================

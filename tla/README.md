# A TLA+ verification of hio

hio is a Rust workspace for building network services: blocking queues,
semaphores and executors (`crates/hio-concurrent`), a transport that is still
mostly stubs (`crates/hio-transport`), a C ABI (`crates/hio`) and shared types
(`crates/hio-core`).  The logic that is hard to test is in `hio-concurrent`:
lock-based queues whose disposed flag lives outside the lock, edge-triggered
notifications sent after unlocking, timeouts, a semaphore built directly on the
futex system call, and executors whose jobs may panic.  In the transport, the
connection that buffers what a non-blocking socket does not take is complete.
This directory models all of this in TLA+, checks the models with TLC, and
proves the central results with TLAPS.

## Inventory

| Component | State | Operations | What is hard | What makes it correct |
|---|---|---|---|---|
| trait `BQ` (`bq.rs`) | none | push, try_push, push_timeout, pop, try_pop, pop_timeout, drain, dispose | it is a contract | a bounded FIFO, each call atomic; dispose refuses pushes and lets consumers finish |
| `ArrayBQ` (`bq/array_bq.rs`) | `VecDeque` under a mutex, two condvars, two waiter counters, atomic flag | the same | the flag changes at any time; notify_one on edges only, after the unlock, then a cascade; deadlines; the lock passage in dispose | implements the contract; no lost wake-up; no item lost |
| `LinkedBQ` (`bq/linked_bq.rs`) | linked list, a mutex, condvar and waiter counter at each end, atomic count and flag | the same | the two sides share only the count; drain works while producers add; dispose takes neither lock before setting the flag | count and list agree; no lost wake-up across the two locks; no item lost |
| trait `Semaphore` (`semaphore.rs`) | none | acquire, try_acquire, release | it is a contract | each call atomic; an acquire takes effect only when there is a permit |
| `FutexWord` and its shims (`futex.rs`, `futex/linux.rs`, `futex/mswin.rs`) | the word, the kernel's wait queue | wait, wait_timeout, wake_one, wake_all | what the kernel makes of the arguments; the rounding of timeouts | wake_all wakes all; a bounded wait is neither shortened nor endless |
| `FutexSemaphore` (`semaphore/futex_semaphore.rs`) | permits (the futex word), a waiter count | acquire, try_acquire, release | the waiter/permit handshake, the stale count of waiters | implements the contract; no sleeper beside a permit nobody will take |
| `CondvarSemaphore` | permits, waiters, mutex, condvar | the same | the same handshake, with a lock passage in release | the same; releases saturate |
| `ThreadPool` | a queue, worker threads, disposed flag | submit, dispose, drop | a panicking job ends its worker; jobs that submit; drop inside a job | jobs accepted run exactly once before dispose returns |
| `ThreadPerTaskPool` | thread count under a mutex, condvar, handles | submit, reap, dispose | permits against finished threads, spawn failure, disposal of blocked submitters | the limit is kept, the count is given back once, dispose joins everything |
| `Connection` (`netpoll/connection.rs`) | socket, write buffer (a ring buffer) | try_read, write_buf, flush_buf | partial writes of the first slice of the ring, WouldBlock, Interrupted, resets | bytes leave once and in order; the answer of flush_buf tells the owner when to come back; Eof is the end |
| reactor, inbox, thread per connection, udpoll | channels, maps | spawn, shutdown | the loop is empty, the inbox is `todo!()` | - |
| hio-core, ffi | thread-local last error | ffi_wrap_safe | - | the last error belongs to the last call of the thread |
| work stealing, lock-free queue, hio-runtime | - | - | empty | - |

They interact like this: executors take a `BQ<Job>` and their workers call
`pop`; the transport hands jobs to an executor; the C ABI owns the runtime.
Threads meet only in the queues, the semaphores, the executors' counters and
the channels of the transport.

## Modules

| Module | Role |
|---|---|
| `BQOps` | the methods of the trait, their results (`HioLastError`), the parameters of a queue |
| `BlockingQueue` | the abstract specification: a bounded FIFO where every call takes effect in one step |
| `ArrayBQ` | `ArrayBQ`, with the refinement mapping to `BlockingQueue` |
| `ArrayBQProofs` | theorems about `ArrayBQ` |
| `SequenceLemmas` | what the proofs about queues need of sequences of distinct items |
| `TwoSidedQueue` | what every `BQ` promises: the abstract queue of `BlockingQueue`, except that some calls look at one moment and take effect at a later one; `LinkedBQ` keeps this, `ArrayBQ` both |
| `LinkedBQ` | `LinkedBQ`, with the refinement mapping to `TwoSidedQueue` |
| `LinkedBQProofs` | theorems about `LinkedBQ` |
| `Semaphore` | the abstract specification of the trait `Semaphore` |
| `Futex` | `FutexWord` over the Linux and the Windows shim |
| `FutexSemaphore` | `FutexSemaphore` on `Futex`, with the refinement mapping to `Semaphore` |
| `FutexSemaphoreProofs` | theorems about `FutexSemaphore` and the timeouts of the Windows shim |
| `CondvarSemaphore` | atomic permits, a mutex and a condvar, with the refinement mapping to `Semaphore` |
| `CondvarSemaphoreProofs` | theorems about `CondvarSemaphore` |
| `ThreadPool` | `ThreadPool`, composed with `TwoSidedQueue` as its job queue |
| `ThreadPoolProofs` | theorems about `ThreadPool` |
| `ThreadPerTask` | `ThreadPerTaskPool` |
| `ThreadPerTaskProofs` | theorems about `ThreadPerTask` |
| `Connection` | `Connection`, its socket and its peer |
| `ConnectionProofs` | theorems about `Connection` |
| `MC...` | instances for TLC |

Definitions called "Mutant" are plausible mistakes in the code, placed before
the definition they would replace.  No specification uses them; they exist to
show that each property can fail.

### How the queues correspond to the code

A thread is in at most one call.  `pc` says where it is, `op` which method it
runs, `carry` the items the call owns (a push's argument until it is enqueued,
a pop's or drain's result), `ret` the result, `sig` the notifications it still
sends after unlocking, `expired` that the deadline of its timed wait has
passed.  `hand` holds the items no call owns.  An action is what a thread does
between two points where others can interfere.

In `ArrayBQ` those points are lock operations, reads of the atomic flag, and
notifications.

| Code | Actions |
|---|---|
| `self.lock()` | `Acquire` |
| `if !disposed && full` | `Check` |
| `wait_while`, `wait_timeout_while` | `Predicate`, `Sleep`, `Reacquire`, with `Expire`, `TimeoutWake`, `SpuriousWake` |
| the checks after the wait | `Verdict` |
| `en_q_commit`, `de_q_commit`, `drain` up to the unlock | `EnQCommit`, `DeQCommit`, `Drain` |
| `signal`, `notify_all` | `Signal`, one notification at a time |
| `dispose` | `DisposeCas`, `DisposeBarrier`, then `Signal` |
| the return | `Return` |

The waiter counters are changed and read only under the mutex, so their relaxed
ordering does not matter, and their updates belong to the step that is under
the lock.  A step that ends in an unlock includes it: nothing another thread
can see happens between the last access under the lock and the unlock.

In `LinkedBQ` each read of the flag and each read of the count is an action of
its own (`WaitFlag`, `WaitCount`, `VerdictFlag`, `VerdictCount`), because the
other side changes them under another lock.  Enqueuing is `Link` (the node) and
`Add` (`fetch_add`, the cascade and the unlock); dequeuing and draining are
`Unlink` and `Sub`.  `fetch_add` is the only access of its step that the other
side can see, the cascade and the unlock concern its own side only, so the
three are one step.  The count a drain reads is the number it unlinks: adding
nodes at the tail does not disturb either, so read and unlinking are one step.
`Signal` takes the lock of the other side, notifies and releases it, in one
step, since it waits for nothing while it holds the lock.

`Condvar` is outside the repository and is modelled from how it is used: a wait
joins the wait set and unlocks at once, `notify_one` removes any one sleeper,
`notify_all` removes all, and a sleeper may leave for no reason
(`SpuriousWake`).  A poisoned mutex is entered like any other
(`unwrap_or_else(PoisonError::into_inner)`), so poisoning has no state.

### How the semaphores correspond to the code

`Futex` is a module of operators: each gives the set of threads that an
operation of the platform leaves asleep.  `AfterCompare` is the kernel's
compare-and-sleep, one step on both platforms.  `AfterFutexWake` is
`FUTEX_WAKE`: it wakes a thread, then stops when it has woken `nr_wake`, so a
negative number wakes one; `AfterWakeSingle` is `WakeByAddressSingle`.
`LinuxWakeAll`, `WindowsWakeOne` and so on are the shims, `WaitOf`, `WakeOneOf`
and `WakeAllOf` the methods of `FutexWord`.  `NrWake` is the value the Linux
`wake_all` passes.  `FutexSemaphore` chooses its platform in the initial state,
as the build does.

`Load` and `Cas` are the two halves of `try_decrement` and of `try_acquire`;
`Enlist`, `Recheck`, `Wait`, `Resume` and `Delist` are `acquire_slow`; `Add`,
`LoadWaiters`, `WakeOne` and `WakeAll` are `release` with `wake_waiters`.  A
`compare_exchange_weak` that fails spuriously retries with the same value,
which is a stuttering step.

`Semaphore` is what both implement: a call takes effect in one step between its
invocation and its return.  A `try_acquire` of `FutexSemaphore` gives up when
its `compare_exchange` fails, although permits may be left; the abstract one may
do so (`Hasty`) only when the permits have changed while it ran.  `jostled`
records whom this has happened to; it is a history variable that no guard
of the code depends on.

`spare` counts the permits held outside the semaphore; `Call` lets a release
take from it only.  This is the contract behind the assertion of `release`
(`prev <= MAX_PERMITS - n`); the panic beyond it is not modelled.

`CondvarSemaphore` has coarser steps.  Its loops around
`compare_exchange_weak` change nothing until the exchange succeeds, and decide
on the value they verify or on a zero they read, so `Try`, `SlowTry` and `Add`
are one step each.  What is kept apart is what the handshake rests on: `Enlist`
(the guard), the two looks at the permits under the mutex (`SlowTry`,
`Recheck`), `Sleep`, and on the other side `Add`, `LoadWaiters`, `Pass` (the
empty passage through the mutex) and `Notify`.  The spin between a failed
second look and the next round is without the mutex, so it goes back to `Lock`.
The `timeout` of `acquire_slow` is always `None`.  Releases saturate, and
callers may release permits that nobody acquired.  Its `try_acquire` retries,
so it implements the abstract semaphore that is not hasty.

### How the executors correspond to the code

`ThreadPool` keeps the variables of `TwoSidedQueue` and adds the pool's own.
Its workers, clients, owner and outsiders call the queue through the actions
of `TwoSidedQueue` (`Q!Call2`; `QueueStep`, where the call looks or takes
effect; `Q!Return2`), restricted to what the pool's code does between the
calls: a worker pops in a loop, runs what it gets, and leaves when the pop
fails; a job's panic ends the worker, since nothing catches it; `submit` pushes
and destroys a refused job; `dispose` disposes the queue and joins.  Outsiders
are threads that kept a clone of the `JobQueue` they gave to `create_executor`:
they may push and dispose.  `accepted`, `ended` and `dropped` record what
became of a job, and `late` which jobs entered a queue that was disposed
already.  `create_executor` takes any `BQ`, so the queue is the one that both
implement: what holds here holds over `ArrayBQ` and over `LinkedBQ`, the
default.

A job may hold a clone of the `Arc` of its own pool (`Holders`).  It may then
submit to it from a worker (`SubmitNested`), which may have to wait for room
that only workers can make.  And it may outlive the owner's reference
(`DropNotLast`): then the worker that runs it drops the last one
(`JobDropsLast`), disposes the queue and joins the other workers in any order,
until it comes to its own handle (`JoinSelf`).  What `join` does then is up to
the system: it blocks for ever (the action is not fair), or panics, and the
handles not yet joined are dropped, which detaches their threads.  A job that
panics while it holds the last reference drops it during the unwinding, where a
panic of `join` aborts the process; that is left out.

In `ThreadPerTask` the two mutexes guard sections that wait for nothing, so
each is one step: `Reap`, `Acquire` (the predicate of `wait_while` and the
increment, or the wait), `Release`, `Store`.  `Release` belongs to the end of a
job (`JobEnds`, the drop of the `InnerGuard`) or to a failed spawn
(`SpawnFails`).  `ThreadEnds` comes later: only then does `is_finished` say
so.  `reap` asks the handles one after another; nobody else looks at
`is_finished`, so a thread that ends after it was asked might as well end after
the reap, and the whole pass is one step.  `submit` borrows the pool and
`dispose` borrows it mutably, so `Dispose` waits until no submit is running.
For the same reason `acquire` never meets a pool disposed while it waits.

### How the connection corresponds to the code

A byte is its place in its direction, so order, loss and repetition show.  Each
system call of `flush_buf` is a step (`Write`, `WouldBlock`, `Interrupted`,
`WriteFails`), between which the peer reads, writes, finishes or resets the
stream.  The `VecDeque` gives its first slice, which is any non-empty part of
what it holds, depending on where the ring wraps; the socket takes any part of
that.  `answer` is what the last `flush_buf` said, or `"owed"` when more has
been written since.  `TryRead` is a single system call; its outcomes `Idle`,
`Bytes` and `Eof` follow what the socket holds and whether the peer is there.
The socket and the peer are outside the repository: a direction of a TCP stream
is a bounded FIFO, and a reset loses what is under way.

## Runs

| Run | What it checks | States |
|---|---|---|
| `ArrayBQ_safety` | `TypeOK`, `ItemsConserved`, `CommitsAreSafe`, `ExhaustedIsFinal`, `NoLostWakeup`, `ImplementsBlockingQueue`; 3 threads with every method, 3 items, capacity 2 | 325,677 |
| `ArrayBQ_live` | `CallsSettle`; 2 producers, 2 consumers, 3 items, capacity 2 | 529,392 |
| `LinkedBQ_safety` | `TypeOK`, `ItemsConserved`, `CommitsAreSafe`, `CountTracksList`, `NoLostWakeup`, `AtMostOneSlipsIn`, `ImplementsTwoSidedQueue`; 3 threads with every method, 3 items, capacity 2 | 624,593 |
| `LinkedBQ_live` | `CallsSettle`; 2 producers, 2 consumers, 3 items, capacity 2 | 658,461 |
| `LinkedBQ_stranded` | `NothingStranded`, violated | - |
| `FutexSemaphore` | `TypeOK`, `PermitsHaveTakers`, `ImplementsSemaphore`, `CallsSettle`, on both platforms; 2 threads that acquire, one with every method, one that releases, 2 permits | 363,502 |
| `FutexSemaphore_wake_all` | `NobodyForgotten` on Linux with a negative `NrWake`, violated | - |
| `CondvarSemaphore` | `TypeOK`, `PermitsHaveTakers`, `ImplementsSemaphore`, `CallsSettle`; 2 threads that acquire, 2 with every method, 2 permits | 133,223 |
| `ThreadPool` | `TypeOK`, `JobsKept`, `DisposeFinishes`, `DisposeReturns`, `AcceptedJobsRun`, `SubmitsReturn`; 2 workers, a client, an outsider that may `try_push` and dispose, an owner, 3 jobs, one of which holds the pool, capacity 1 | 117,698 |
| `ThreadPerTask` | `TypeOK`, `CountExact`, `LimitKept`, `ThreadsTracked`, `PlacesHaveTakers`, `SubmitsReturn`, `DisposeReturns`; 3 clients, 3 threads, limit 2 | 34,903 |
| `ThreadPerTask_handles` | `HandlesReaped`; 1 client, 3 threads, limit 1, violated | - |
| `Connection` | `TypeOK`, `BytesInOrder`, `EofIsTheEnd`, `Delivered`; 5 bytes each way, room for 2, at most 3 at once | 13,536 |

### Bounds

* Three threads are enough for a sleeper, the thread whose edge it waits for
  and a third that overtakes, disposes or drains; any of them may take any role
  and change it from call to call.  Capacity 2 and three items make the queue
  empty, full with a producer waiting, and something in between, which is where
  the cascade matters and where the order of items can be wrong.  The cascade
  also needs two sleepers of one kind, so the liveness runs have two producers
  and two consumers.  `LinkedBQ_stranded` has capacity 1, as the shortest
  counterexample needs no more.  `UsizeMax` stands for `usize::MAX`; the cfgs
  choose a bounded queue, and an unbounded one is a capacity above the number
  of items.
* Nothing else is bounded: threads call for ever, and the state space is finite
  because each item is in one place.
* Two permits and four threads give a semaphore two sleepers and two releasers,
  so that `wake_one` and `wake_all` are both chosen, rightly and from a stale
  count.  In `CondvarSemaphore` the maximum of two permits stands for
  `u32::MAX`, so that saturation happens too.  `INFINITE` stands for `u32::MAX`
  milliseconds, a number beyond TLC's integers; no run uses it, the theorem
  about it holds for any value.
* `ThreadPool` needs two workers, so that one can survive the panic of the
  other, and a queue of capacity one, so that a submit has to wait; the outsider
  is the second producer and may dispose the queue behind the pool's back, or
  push a job that enters after another thread's dispose.
  One job holds the pool: it submits one of the others from a worker, or is the
  one that drops the last reference, while the other worker waits for room.
* `ThreadPerTask` with a limit of two and three clients has a client that
  waits and one that overtakes it when a place is given back; the third thread
  lets one end while two run.
* `Connection` has room for two bytes under way and buffers of three, so that a
  write takes part of a slice, a slice is part of the buffer, would-block
  happens with bytes left, and five bytes go round several times.
* Threads and items are interchangeable where all threads have the same
  methods; the runs that check only invariants and the refinement (a safety
  property) use that symmetry.

### Fairness

`FairSpec` says that a thread inside a call keeps taking steps (weak fairness
of `Step(t)`): the operating system schedules every runnable thread.  Nothing
makes a caller call or a condition variable wake spuriously.  For the executors
it also says that a job comes to an end, by a return or a panic, which only its
author can promise; `dispose` joins, so it cannot return otherwise.  The mutexes are
not fair, so under endless traffic a thread may starve; `CallsSettle` therefore
speaks of behaviours in which the callers fall silent (`Quiet`), and says that
then every call returns but the untimed waits that have nothing to wait for.
In `Connection` a `flush_buf` runs to its end; the owner, as a reactor would,
flushes when it has written and then only while it is told that bytes remain;
and the peer reads, which is what back-pressure means.  Nothing forces the
peer to write, to finish or to keep the connection.

## What the runs show

* **ArrayBQ is a linearizable bounded FIFO with a draining dispose.**  A push
  takes effect when it last reads the flag as not disposed; it holds the lock
  from there to the enqueue, which is why nobody can see the difference.
* **LinkedBQ is a bounded FIFO whose two sides do not exclude each other.**  It
  implements `TwoSidedQueue`, dispose included: a push is admitted at its last
  read of the flag and enters later, even when the queue is disposed in
  between; a `try_pop` that found nothing asks only then whether the queue is
  disposed; a drain takes what it counted and not what comes meanwhile.  These
  are all the differences from `ArrayBQ`, which is proved to keep this contract
  as well.
* **LinkedBQ strands items at dispose** (`LinkedBQ_stranded`).  A producer that
  has read the flag as clear is overtaken by `dispose` and by a consumer that
  finds the queue empty and disposed; the consumer is told
  `ResourceUnavailable` and stops, and the producer's push succeeds.  The tests
  state the contract that the remaining items are consumed before consumers are
  told so.  `AtMostOneSlipsIn` bounds the damage for waiting pops: one item, of
  the one producer inside the lock.  `try_pop` reads the count before the flag,
  so it may say so with more items in the queue.
* **Both semaphores implement the contract**: no permit is granted twice or lost.
  A `try_acquire` of `CondvarSemaphore` fails only when there is none; that of
  `FutexSemaphore` also when the permits have changed while it ran.
* **FutexSemaphore loses no wake-up**, on either platform, provided the Linux
  `wake_all` passes a positive number.  It passes the address of the function
  `i32::max` cast to `u32` instead of `i32::MAX`; when bit 31 of the address is
  set, the kernel wakes one thread (`FutexSemaphore_wake_all`).
* **CondvarSemaphore loses no wake-up** either; without the passage through the
  mutex in `release` it would.
* **ThreadPool runs what it accepts**, over either queue.  `dispose` returns to
  the owner after every accepted job has been run, with one exception, which
  takes somebody else who holds the `JobQueue` and pushes to it or disposes it:
  a push that has read the flag of a `LinkedBQ` as clear may link its job after
  the workers were told that the queue is exhausted, and that job stays there.
  There is at most one such job.  In a pool made by `ThreadPool::new` nobody
  else holds the queue, and then there is none: `submit` borrows the pool, or its
  job holds a reference to it, so no push is under way when the last reference
  goes.  A submit that waits for room gets through, as long as one worker is
  left.  A worker is lost by a panic, by joining itself
  when a job has dropped the last reference, and for as long as its job waits to
  submit to a full queue: a pool all of whose workers do so has come to a
  standstill.  When all are lost, accepted jobs stay in the queue and a waiting
  submit never returns.  Each property that needs a worker says so.
* **ThreadPerTaskPool keeps its limit** and its count is exact, failed spawns
  included; no waiting submit is overlooked, and dispose joins every thread.
  It does not bound its handles as the comment and the test say
  (`ThreadPerTask_handles`): a place is given back when the job's guard is
  dropped, and the handle can be reaped only when the thread has finished.
* **Connection delivers.**  What the peer reads is what was written, in order and
  without gaps, wherever writes stop short; an owner that comes back only when
  `flush_buf` tells it to gets every byte through, unless the stream is reset;
  and `try_read` says `Eof` only when there is nothing left to read.

## Proofs

`ArrayBQProofs` proves, for every finite set of threads, every set of items and
every capacity (from `BQAssumption` alone):

| Theorem | Property |
|---|---|
| `TypeCorrect` | `TypeOK` |
| `CommitSafety` | `CommitsAreSafe` |
| `DrainingDispose` | `ExhaustedIsFinal` |
| `WakeupSafety` | `NoLostWakeup` |
| `Conservation` | `ItemsConserved` |
| `Implementation` | `ImplementsBlockingQueue` |
| `KeepsTheTwoSidedContract` | the specification of `TwoSidedQueue`, which the run of `LinkedBQ` checks of that queue |
| `NoDeadlock` | `StandstillIsSettled`, see below |

The first four follow from one inductive invariant, `IInv`.  None of the
properties is inductive alone:

* `ControlInv` ties the lock to the places in the code (`LockInv`), the places
  to the methods (`OpInv`), results and pending notifications to places, and
  the wait sets to the threads that sleep.
* `CounterInv` says that a waiter counter is the number of threads between
  `enter` and the drop of its guard.  `TypeOK` needs it (the counter is
  positive when it is decremented), and so does `NoLostWakeup`: a sleeper
  makes the counter positive, so the notification is not skipped.
* `VerdictInv` and `TimeoutInv` carry what the wait loop saw to the verdict; it
  stays true because the lock is held and the flag is never cleared.
* `SleepInv` says that a thread about to sleep saw nothing to do, and that if
  the flag has been set since, the disposer has not passed the lock yet.  This
  is the reason for the otherwise empty lock passage in `dispose`.
* The wake-up parts are preserved by showing that the witness, the thread about
  to act or notify, either stands or hands over: a consumer that pops and leaves
  items behind sends the cascade if anybody is counted.

The lemmas have one step per action and are cited by name: `TypesStep`,
`ControlStep`, `CounterStep`, `VerdictStep`, `CommitStep`, `SleepStep`,
`ExhaustedStep`, `TimeoutStep`, `PopWakeupStep`, `PushWakeupStep`,
`DisposeStep`, and `InductiveStep` that joins them.

`Conservation` follows an item through the calls and the queue; `EmptyInv` says
that only a push carries one before it commits.  `Implementation` shows that an
action is a stutter (`HiddenStep`) or one action of the abstract queue.  A push
takes effect when it reads the flag as clear (`PushVerdictStep`): the abstract
queue then holds its item, which enters the buffer later (`CommitRefines`).  It
is well defined because the lock admits one such push at a time
(`HolderQueue`).  Every other call takes effect where its result is decided, and
`ReturnInv` says that a call that returns has one.

`KeepsTheTwoSidedContract` reads the same states as ones of `TwoSidedQueue`
where no call is ever between its look and its effect: each step of the
abstract queue is then one that takes effect at once.

`LinkedBQProofs` proves, from `BQAssumption` alone:

| Theorem | Property |
|---|---|
| `TypeCorrect` | `TypeOK` |
| `CommitSafety` | `CommitsAreSafe` |
| `CountAgreement` | `CountTracksList` |
| `WakeupSafety` | `NoLostWakeup` |
| `DisposeSafety` | `AtMostOneSlipsIn` |
| `Conservation` | `ItemsConserved` |
| `Implementation` | `ImplementsTwoSidedQueue` |
| `NoDeadlock` | `StandstillIsSettled`, see below |

* `LockInv` gives each side its own mutex, so at most one producer is between
  link and add, and one consumer between unlink and sub.  `TrackInv` counts by
  exactly these two, and `CountTracksList` follows.
* `VerdictInv`: a producer that read room, or a consumer that read items, may act
  on it later without the other lock, since the other side can move the count
  only in its favour.  `CommitsAreSafe` follows.
* `SlipInv`: once a waiting pop has been told, the list holds at most one item,
  and none as long as a producer is still on its way to link one.
* `SleepInv`: between its last look at the count and its sleep a thread holds its
  lock.  If something has come up since, the thread that did it has a
  notification left that has to pass this lock, so it cannot come too early.
  `DisposeReaches` is the same argument for `dispose`.
* A place is handed on: a push or pop that still finds room or items behind it
  sends the cascade if anybody is counted (`CounterInv`).
* `Implementation` reads the abstract queue as two parts (`QueueIs`): `Front`,
  what a consumer has unlinked and not subtracted, and `Back`, the list without
  the node a producer has linked and not added.  Its length is `count`
  (`CountIs`), so what the code reads of the count it knows of the abstract
  queue.  An item enters with the `fetch_add` (`AddRefines`) and leaves with the
  `fetch_sub` (`SubRefines`); a push was admitted at its last look at the flag,
  and between that look and the end of the call nobody else of its side looks
  (`LooksAlone`).  Every other action is a stutter or an answer.  `ResultInv` says
  that a call has a result exactly when it has left the lock.

`ThreadPerTaskProofs` proves, for any finite sets of clients and threads and any
limit (from `PoolAssumption`):

| Theorem | Property |
|---|---|
| `TypeCorrect` | `TypeOK` |
| `ExactCount` | `CountExact` |
| `LimitSafety` | `LimitKept` |
| `NoThreadLost` | `ThreadsTracked` |
| `WakeupSafety` | `PlacesHaveTakers` |
| `NoDeadlock` | `StandstillIsSettled`, see below |

Its `IInv` joins `CountExact`, `PlacesHaveTakers` and three facts about control.
`OwnerInv` says that dispose and submit exclude each other, which is why nobody
can store a handle behind the back of dispose.  `StoreInv` says that a submitter
holds a handle from the spawn to the store and no longer, so a spawn overwrites
none.  `WaitInv` says that the wait set holds sleeping submitters, so a
notification makes one of them a taker.  `TypeOK` needs `CountExact`: a count
that counts somebody can be decremented.  The limit follows from the look
`Acquire` takes (`LimitStep`), the rest from counting: each action adds or
removes one element of the sets counted (`CountStep`, `TakersStep`).

`ThreadPoolProofs` proves, for any number of workers, clients, outsiders and jobs
and any capacity of the queue (from `PoolAssumption` and `BQAssumption`):

| Theorem | Property |
|---|---|
| `TypeCorrect` | `TypeOK` |
| `JobSafety` | `JobsKept` |
| `DisposeSafety` | `DisposeFinishes` |
| `PrivateQueueSafety` | `PrivateQueue`: without outsiders no submit fails, and when dispose has returned and a worker did not panic every accepted job has been run |
| `NoDeadlock` | `StandstillIsSettled`, see below |

The job queue is the abstract one, so the proof rests on what a call of it does
and not on how either queue does it.  `RoleInv` and `CallInv` say who is in which
call and what that call carries.  `Apart` says that a job is in one place: the
queue, one call, one worker, the callers' hands.  `Account` says that the jobs
accepted are those in the queue, in flight and ended.  `SeenInv` says that one
push at most is admitted and has not entered, so at most one job is late
(`LateInv`).  `EndInv` says that a worker leaves a queue that is disposed and
holds no job but a late one, and it stays so; with `Account`, nothing else is
left once one worker has left in order and all have been joined.

`PrivateQueueSafety` needs that no push is under way when the queue is disposed.
`CallerInv` says who can submit: a client while the owner has its reference, and
a worker whose job holds one.  `LastInv` says that from the moment somebody calls
dispose, the only job that may still hold the pool is the one whose worker
disposes it (`HoldingShrinks`: no new reference comes up then).  So nobody
submits any more (`NoPushWhileClosing`), and no job is late or refused (`InTime`).

`CondvarSemaphoreProofs` and `FutexSemaphoreProofs` prove, for any finite set of
threads, any maximum and any amounts (from `SemAssumption`, and on both
platforms):

| Theorem | Property |
|---|---|
| `TypeCorrect` | `TypeOK` |
| `WakeupSafety` | `PermitsHaveTakers` |
| `Implementation` | `ImplementsSemaphore` |
| `NoDeadlock` | `StandstillIsSettled`, see below |

The two invariants share what a place says of the call (`CallInv`), that the
sleepers are where sleepers are (`SleepInv`) and that `waiters` is exact
(`CountInv`): a release that reads zero may skip the wake-up because then nobody
sleeps (`NobodyWaits`).  Both count the free permits against their cover, the
threads that will look and the wake-ups still to come (`Covered`).

In `CondvarSemaphore` the cover alone is not inductive: between the second look
and the sleep a release could add a permit and notify nobody.  `NapInv` says
what the empty passage through the mutex is for: while somebody is there, the
cover holds already without the releases that have passed the mutex, so those
may notify too early.  `LockInv` gives the passage its force.

In `FutexSemaphore` the kernel compares and sleeps in one step, so the cover is
inductive with the facts above; but it needs `NrWake >= Cardinality(Threads)`,
which is an assumption of `WakeupSafety` (`WakeAllStep`) and what the run with a
negative number violates.  `TypeCorrect` needs `Conserved`: the permits in the
word, in callers' hands, in releases under way and outside add up to
`MAX_PERMITS`, from which the assertion in `release` follows.  `Implementation`
needs `SeenInv`: a `try_acquire` whose exchange is going to fail has seen the
permits change.

`FutexSemaphoreProofs` also proves `WindowsTimeoutSafe` about the arithmetic of the Windows
`wait_timeout`, which nothing calls yet: the milliseconds are at least one, never
`INFINITE`, and cover the duration unless it exceeds the longest bounded wait.

`ConnectionProofs` proves, for any number of bytes and any sizes (from
`ConnectionAssumption`):

| Theorem | Property |
|---|---|
| `TypeCorrect` | `TypeOK` |
| `ByteOrder` | `BytesInOrder` |
| `EofIsLast` | `EofIsTheEnd` |

Its invariant says of each sequence of bytes where it begins (`Run`): what is
under way begins where the peer has read to, `write_buf` where the last write
stopped, and likewise for what comes in.  Cutting and appending runs
(`RunCut`, `RunConcat`) is all that any action does.

### Standstill

The liveness properties are only model-checked, on the instances of the runs:
liveness under fairness and `ENABLED` are out of the prover's reach.  But part of
what they forbid is that threads wait for each other in a circle, and that is a
state; `NoDeadlock` excludes it for every value of the constants.
`Stuck` spells out for each component where a thread cannot go on by itself, and
`StandstillIsSettled` says what holds when all are stuck:

| Component | When nobody can go on |
|---|---|
| `ArrayBQ`, `LinkedBQ` | every thread is outside a call, or in a `pop` of an empty queue or a `push` to a full one, without a deadline, and the queue is not disposed (`Settled`, as in `CallsSettle`) |
| `FutexSemaphore`, `CondvarSemaphore` | every thread is outside a call, or in an `acquire` and there is no permit |
| `ThreadPerTask` | no submit is waiting, and dispose is not |
| `ThreadPool` | the owner is not inside dispose; and unless every worker is lost, no submit waits, and every job that came in time has been run or is the one that dropped the last reference and whose worker joins itself |

`StuckTakesNoStep` proves that a stuck thread indeed takes no step.  That a thread
which takes no step is `Stuck` would need `ENABLED`: the definitions list the
negations of the guards, for a reader to compare, and a place they forget would
show in the liveness runs as a call that does not return.

The proofs rest on the invariants above: first the mutexes are free, because
their holders never wait with them (`HolderGoesOn`, `HoldersGoOn`, `HolderInv`; a notifier of `LinkedBQ` takes the mutex of the other side, but holds
none of its own); then a sleeper beside work for it would, by the wake-up
property, have a thread that is about to act or to notify, which is not stuck.
In `FutexSemaphore` that needs `NrWake >= Cardinality(Threads)`, as `WakeupSafety`
does.

Only model-checked: `CallsSettle`, `SubmitsReturn`, `DisposeReturns`,
`AcceptedJobsRun` and `Delivered`.

## What is not modelled, and what is assumed

* Weak memory.  Every atomic access is sequentially consistent here.  The
  queues use acquire and release around one flag and one count, and their other
  relaxed accesses are under a lock.  The semaphore uses `SeqCst` on both sides
  of its handshake; the relaxed loads of `try_decrement` only choose the value
  a compare_exchange then verifies.
* `size`, `capacity`, `is_disposed` and `available_permits`: single reads.
* Drop of the queues: exclusive access, so nobody waits.
* `wait_timeout` of the futex shims as an action: it has no caller.  Its
  arithmetic on Windows is in `Futex`.
* A job that panics while it holds the last reference to its pool (see above).
* The C ABI (`ffi_wrap_safe` and the last error): a thread-local cell that each
  wrapper writes and the same thread reads, with no interleaving.
* The reactor and the inbox of netpoll: the loop is empty and the inbox is
  `todo!()`, so there is no behaviour to model.
* Panics inside the queues: the models show the ones in the code unreachable.
* The components listed as not modelled in `PROJECT.json`, with the reason.

## Plan

1. Done: the queues, the semaphores, the executors and the connection, each with
   its runs; abstract specifications that the queues and the semaphores
   implement; theorems about all of them, every invariant and every refinement
   of the runs among them; `ThreadPool` over the contract of both queues; the
   absence of deadlock for every number of threads.
2. When the reactor and the inbox of netpoll have code: a module for each, and
   `Connection` composed with the reactor instead of the fair owner.

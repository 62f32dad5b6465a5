# A verification of CPython's thread synchronisation

The repository holds two things: a documentation site for a payment product
(Markdown under `docs/`, the HTML generated from it, a container to build it), which
contains no program, and a complete, built tree of CPython 3.13.1
(`src/Python-3.13.1`, below simply the tree). This project models and verifies the part of
CPython that every other part trusts and no test can exhaust: the synchronisation
primitives of `Python/lock.c`, the parking lot of `Python/parking_lot.c`, and what is
built on them - the GIL, thread handles, thread states and stop-the-world requests,
critical sections, `SimpleQueue`, the reclamation of memory by quiescent states, and
biased reference counting.

Paths below are relative to the tree. The modelled build is the one in the tree, a
default build with a GIL, except where a section says otherwise.

## 1. Inventory

| Component | State | Operations | Interacts with | Why it is hard, and what makes it correct |
|---|---|---|---|---|
| raw mutex, `_PyRawMutex` (`lock.c`, `pycore_lock.h`) | one word: LOCKED bit and a pointer to a stack of waiters; a semaphore per waiter | Lock, Unlock and their slow paths | guards each bucket of the parking lot | lock-free stack: no waiter dropped by a race, none woken twice, a free lock never forgotten |
| parking lot (`parking_lot.c`) | 257 buckets: queue of wait entries and a counter; per entry an address, a flag and a semaphore | Park, Unpark, UnparkAll, AfterFork | sleeps and wakes for every lock below, calls back into them with the bucket locked | a timeout races an unpark; entries live in stack frames; addresses share buckets |
| mutex, `PyMutex` (`lock.c`, `cpython/lock.h`) | one byte: LOCKED, HAS_PARKED | Lock, LockTimed, Unlock/TryUnlock, `mutex_unpark` | parking lot | barging and handoff; signals; timeouts; a plain store of the byte |
| readers-writer lock, `_PyRWMutex` | one word: write bit, HAS_PARKED, reader count | RLock, RUnlock, Lock, Unlock | parking lot; stop-the-world | last reader against a writer that is about to park; preference for writers |
| event, `PyEvent` | one byte | IsSet, Notify, Wait, WaitTimed | parking lot; thread handles, stop-the-world | set between the test and the sleep; timeout against notification |
| once flag, `_PyOnceFlag` | one byte | CallOnce | parking lot; thread handles | function may fail: waiters must retry; success is final |
| sequence lock, `_PySeqLock`, and the type attribute cache (`typeobject.c`) | a 32-bit sequence and the three fields of a cache entry | LockWrite, UnlockWrite, AbandonWrite, BeginRead, EndRead, AfterFork; lookup, update, clear | free-threaded lookups | torn and stale reads; wrap-around; fork in the middle of an update |
| recursive mutex, `_PyRecursiveMutex`, and the import lock (`import.c`, `posixmodule.c`) | a PyMutex, an owner, a level | Lock, Unlock, ReInitLock in the child of a fork | PyMutex | the owner is read without synchronisation; identity changes in a fork |
| `SimpleQueue` (`_queuemodule.c`) | ring buffer, has_threads_waiting | put, get | parking lot | an item is handed to a getter that may be timing out; the ring buffer wraps, grows and shrinks; every item to one get, in order |
| thread handles (`_threadmodule.c`) | state, reference count, event and once flag per handle; the list of shutdown handles | start, the thread's own first and last steps, join, `_shutdown`, dealloc, AfterFork | event, once flag, thread states | join races exit and other joins; an OS thread is joined or detached exactly once; shutdown and fork in the middle of it |
| thread locks (`_threadmodule.c`) | a PyMutex per `threading.Lock`, an owner and count per `RLock` | acquire, release | PyMutex | release by another thread |
| GIL (`ceval_gil.c`) | locked, last_holder, switch_number, drop requests | take, drop, pending calls | every thread state | forced switching, requests by threads that exit, finalization |
| thread states, stop-the-world (`pystate.c`) | state of each thread; request, countdown and event of each scope | attach, detach, suspend, new, delete, stop, start | RW mutex, event, parking lot | a thread attaches, is created or deleted while the world stops; requests that meet |
| critical sections (`critical_section.c`) | per-thread stack of sections | begin, end, suspend, resume | PyMutex, detach and attach | mutexes given up whenever a thread blocks, sections resumed lazily; no deadlock whatever the nesting |
| quiescent-state reclamation (`qsbr.c`, `obmalloc.c`) | sequence numbers, slots, queues of delayed frees | attach, detach, quiescent, advance, poll, reserve, register, unregister, process, abandon | thread states, stop-the-world, collector | freeing what a reader still holds; slots that are reused; a queue whose mutex is only tried, and may be handed to a thread that is paused |
| biased reference counting (`brc.c`, `object.c`, `pycore_object.h`) | per object an owner, a local and a shared count with flags; per thread two queues of objects to merge; a table of threads | incref, decref, try-incref, queue, merge by the owner, by others, by the collector; init and remove a thread | thread states, eval breaker, stop-the-world, collector | the owner gives up an object while others count it; owners that exit while objects are queued for them; thread ids that are used again |
| `threading.py`, `queue.py`, `concurrent/futures`, `asyncio` | conditions, queues, futures, tasks | many | thread locks, event loop | cancellation, shutdown, lost notifications |
| cross-interpreter queues and channels, `multiprocessing` | queues, pipes, processes | many | interpreters, OS | lifetime across interpreters and processes |
| interpreter loop, compiler, object types, library at large | | | | sequential data structures; not for TLC |
| documentation site | | | | text only |

All rows down to biased reference counting are modelled, but for the thread locks.
`PROJECT.json` says for each whether every operation is, and lists the hazards with
their lines.

## 2. Plan

Done, in this order: raw mutex; parking lot; mutex over it, and the proofs of the
three; readers-writer lock, event and once flag over the same parking lot;
sequence lock with its user; recursive mutex over the abstract lock, and its proofs;
`SimpleQueue` over the parking lot; stop-the-world; thread handles; the GIL and its
proofs; reclamation; critical sections; biased reference counting; then the proofs of
the rest: the small locks over the parking lot, critical sections, stop-the-world, `SimpleQueue`,
the raw mutex's stack, thread handles, reference counts, the sequence lock, reclamation. Every
invariant and every action property that a passing run checks is now a theorem.

Next, most important first:

1. `threading.Lock` with a release by any thread, under a GIL that serialises releases and
   not acquisitions; `Condition` and `Queue` of the library above it.
2. A fork in the middle of the parking lot (`_PyParkingLot_AfterFork`), and the child's
   side of biased reference counting (`_Py_brc_after_fork`).
3. Liveness by hand: the temporal properties of section 5 are checked on small instances
   only, since the prover has no rule for fairness.

## 3. Modules

| Module | Models | Composition |
|---|---|---|
| `AbstractLock` | what a lock promises: at most one owner, acquired when free, released or handed off by its owner | refined by `RawMutex` and `PyMutex`, used by `RecursiveMutex` |
| `RawMutex` | `_PyRawMutex` | stands alone; justifies the atomic sections of `ParkingLot` |
| `ParkingLot` | `parking_lot.c`: state and step fragments | extended by the next five |
| `PyMutex`, `RWMutex`, `PyEvent`, `OnceFlag` | its users in `lock.c` | each conjoins the parking lot's steps with what the caller does in them |
| `SimpleQueue` | `_queue.SimpleQueue` with its ring buffer | extends `ParkingLot`; what its callbacks do under the bucket's lock is conjoined with the lot's steps |
| `SeqLock` | `_PySeqLock` and a type cache entry | |
| `RecursiveMutex` | `_PyRecursiveMutex`, the import lock across a fork | `INSTANCE AbstractLock` for its PyMutex |
| `CriticalSection` | `critical_section.c` and its header | PyMutexes with a queue and a handoff, as `PyMutex` shows them to be |
| `GIL` | `take_gil`, `drop_gil` | stands alone |
| `ThreadHandle` | the handles of `_threadmodule.c` | event and once flag as flags, as `PyEvent` and `OnceFlag` show them to be |
| `StopTheWorld` | thread states and stop-the-world requests of `pystate.c` | mutex, readers-writer lock and event as their modules show them to be |
| `QSBR` | `qsbr.c`, delayed frees of `obmalloc.c`, and a reader and a writer of shared memory | one PyMutex with waiters and a handoff, as `PyMutex` shows it to be; relies on what `StopTheWorld` shows: `Stopped(t)` is a state in which no other thread is attached |
| `BiasedRefcount` | an object and the threads that share it: `brc.c`, the counting of `object.c`, and what the collector does to the queues | relies on what `StopTheWorld` shows: `WorldStops(t)` is a state in which every other thread is where it can be suspended |
| `SmallLocks` | the raw mutex, readers-writer lock, event, once flag, recursive mutex and critical sections side by side | extends `RawMutex`; the others are instances, three of them over one parking lot |
| `MC*` | instances for TLC | `MCLocks` extends `SmallLocks`. `MCThreads` (handles, with GIL and reference counts as instances) and `MCThreadStates` (stop-the-world, with `QSBR` as an instance) put modules side by side too |
| `ParkingLotProofs`, `PyMutexProofs`, `SimpleQueueProofs`, `SeqLockProofs` | theorems and lemmas | each extends its model and TLAPS |
| `SectionProofs` | lemmas on critical sections | extends `CriticalSection`; an instance of it in `LockProofs` |
| `LockProofs` | theorems of the raw mutex and of `SmallLocks` | extends `SmallLocks`; the parking lot's lemmas come from an instance of `ParkingLotProofs` |
| `ThreadProofs` | theorems of handles, GIL and reference counts | extends `MCThreads` |
| `ThreadStateProofs` | theorems of reclamation and of stop-the-world requests | extends `MCThreadStates` |

Operators marked "Faulty" are plausible bugs of the code, kept beside the
definitions they replace. Nothing refers to them: substituting one for the real
definition makes TLC find the property that guards against it violated, which
shows that the property can fail.

How the models correspond to the code:

* One action per atomic access of a shared word: every load, compare-and-swap,
  exchange and store of `m->_bits`, `rwmutex->bits`, `evt->v`, `flag->v`, the raw
  mutex's word and the sequence is a step of its own, and the value a thread keeps
  in a local between two of them is a variable. A failed compare-and-swap loads
  the new value, as in C. Spurious failures of a compare-and-swap and busy
  waiting (`_Py_yield`, `MAX_SPIN_COUNT`, which is 0 with the GIL) change nothing shared
  and are left out.
* In `ParkingLot` everything the code does between `_PyRawMutex_Lock` and
  `_PyRawMutex_Unlock` of a bucket is one step. Two facts justify it. The queue, the
  counter and `is_unparking` are touched only there, and `RawMutex` is proved to
  exclude. And each such section accesses the caller's word at most once (the
  comparison in Park, the store in `mutex_unpark`), so that a section is atomic with
  respect to the steps on the word as well. What follows a section - the wakeups,
  one at a time - is separate, and so are the failure of a semaphore wait, the
  recheck of `is_unparking` and the second wait.
* A wait entry lives in its thread's frame, so a thread stands for its entry.
  `EntriesAreLive` says that nobody can reach the entry of a frame that is gone.
* The semaphore is a counter. A wait may fail with a timeout when the call has one,
  and with `Py_PARK_INTR` when `Interruptible` is TRUE: the platform's wait reports it
  on EINTR, and the implementation over a condition variable on every spurious wakeup.
* Time is a choice: a timeout is "forever", "finite" or "zero", a finite wait may
  expire at any moment, and `late[t]` becomes true when `time_to_be_fair` has passed. It is
  read only when the thread is dequeued, so it changes only while the thread is parked.
* Locals are reset when a call returns: they die with the frame.
* Memory is sequentially consistent, except in `SeqLock`, where relaxed accesses of
  the fields are taken in any order within the barriers.
* A thread is in one call, on one lock, at a time. A caller that holds a second lock
  while it sleeps adds nothing to the primitive; deadlock between locks is the
  caller's affair.
* A `PyMutex` is released through `PyMutex_Unlock`, with a compare-and-swap first, or by
  `_PyMutex_TryUnlock` directly, as the release of a `threading.Lock` does. Only the latter
  can find nobody waiting. In the raw mutex, whose slow path has no other caller, that
  branch is kept although nothing reaches it.
* The thread that acquired a `PyMutex` unlocks it. `threading.Lock` does not demand this;
  a hazard says so.
* `SeqLock` is compiled into free-threaded builds only (`Py_GIL_DISABLED`); it is
  modelled as that build runs it. A value is identified with the version and name it
  was looked up for, so that `HitIsRight` can tell a stale or mixed answer from a
  right one. A lookup that misses, or whose `_Py_TryIncref` fails, returns without one.
* `SimpleQueue`: the GIL, or the queue's critical section, makes a call of put or get one
  step up to the semaphore wait, for the thread gives it up only once it is queued
  (the comment at `_queuemodule.c:434`: "should be impossible"). The wakeup that ends a put
  is a step of its own, and so is the failure of a wait. An allocation that fails loses the
  item that is put, and leaves the buffer unshrunk.
* `GIL`: each section under `gil->mutex` or `gil->switch_mutex` is a step. The store of
  `last_holder`, the test of the eval breaker and the reset of an abandoned request lie
  outside both and are steps of their own; that is where the races are. `switched[t]` says
  whether `switch_number` has changed since `t` saved it, so that no number is needed.
* `ThreadHandle`: a thread stands for the handle that was made to start it, so that a handle
  is started at most once at a time. What the operating system says to joining or
  detaching a thread that was joined or detached already is the state "error", which
  `HandleLifetime` excludes. In the child of a fork, a handle's thread is "lost": to join it
  is an error too.
* `StopTheWorld` is the free-threaded build, where threads attach without a lock. The list of
  thread states and the requests are guarded by `HEAD_LOCK`, which a requester holds for the
  length of a scan (`head`); every other section under it is one step that waits for `head` to
  be free. Within a scan the load of a thread's state and the compare-and-swap on it are
  separate steps, for attaching and detaching need no lock. The state `"none"` is a thread
  state that is not in the list. A request detaches where it waits for one of its locks.
* `QSBR`: every load and store of `wr_seq`, `rd_seq` and a slot's `seq` is a step. A block is
  behind one shared pointer, as the items of a list are; a reader holds it until its next
  quiescent state. A collection, the growth of the array and a free for want of a chunk need a
  stopped world. The mutex of the interpreter's queue is kept as far as it matters here: those who
  process the queue only try it; a thread that exits waits for it, detached (`"parked"`), and is
  woken by an unlock, with the mutex (`lock.c:145-150`) or without. A thread that was handed
  it has it before it is attached again, so that a stopped world may find it locked: the collector then
  leaves the interpreter's items (`obmalloc.c:1217`). The wait has no order and is not
  interrupted, and whether it was long enough for a handoff is open; `PyMutex` has the details.
  What is processed with the mutex held is a step for each item, as for a thread's own queue.
* `BiasedRefcount` is the free-threaded build. There is one object, which the collector does not
  track, in the queues of the threads of one bucket; objects do not meet but in the bucket's
  mutex. A compare-and-swap that is repeated until it succeeds is one step, since what it
  writes depends on nothing but what it replaces. The stores of an explicit merge to `ob_ref_local` and
  `ob_tid` are one step too: only the owner and those who find it gone, with the bucket locked, read the
  first. The bucket's mutex is a variable only because one merge is done with it locked; other
  sections are one step. A thread may be stopped between two calls, in a destructor, and where it waits
  for the bucket. `Give` stands for any container: a reference is stored by one thread and
  taken by another. A dead object's weak references are cleared in the step that deallocates
  it, which is why a try-incref in between is possible and refused. A thread that has exited may
  come back as a new one with the same id.
* `CriticalSection`: attempts to lock are compare-and-swaps that succeed if the mutex is free,
  or queue the thread, which then detaches: that suspends its sections, unlocking mutexes
  one at a time. An unlock wakes the first that waits, with a handoff or without.
* The child of a fork (`SeqLock`, `RecursiveMutex`, `GIL`, `ThreadHandle`, `StopTheWorld`, `QSBR`) has one thread, which is in no
  other call: the others are gone with their locals.

## 4. Runs

| Run | Instance | Checks |
|---|---|---|
| `locks` | 3 threads that use one lock, 2 that nest 2 sections on 2 mutexes; interrupts, timeouts, forks; fair | of all: `TypesOK`. Recursive mutex: `HeldUntilOutermost`, `OwnerKnowsItself`. Raw mutex: `NoWaiterLost`, `LockProgress`. Readers-writer lock: `BitsExact`, `WriterGetsIn`, `SleepersWake`. Event: `WokenMeansSet`, `SetReleasesAll`. Once flag: `RunsOnce`, `SleepersWake`. Sections: `ActiveMeansLocked`, `NoCircularWait`, `SectionsProgress` |
| `raw_mutex_signals` | 3 threads, interrupted waits | `MutualExclusion`, `ImplementsLock` |
| `raw_mutex_interrupted` | 3 threads, interrupted waits | `HeadIsLive`, violated: see section 7 |
| `mutex` | 3 threads, 2 mutexes in one bucket, all timeouts, interrupts | `LotInv`, `MutualExclusion`, `NoLostWakeup`, `ImplementsLock` |
| `mutex_fair` | 3 threads, 1 mutex, finite timeouts, fair | `NoStarvation` |
| `seqlock` | 3 threads, 2 keys, sequence modulo 4, 1 update during a read, forks | `SequenceVouches` |
| `simple_queue` | 3 threads, 2 queues in one bucket, 5 and 1 items, a buffer of 2 that grows twice | `ItemsDelivered`, `NoIdleGetter` |
| `thread_states` | 3 threads of 2 interpreters, one of whom comes and goes; or 2 threads, 4 blocks, an array of 1 slot that grows | Stop-the-world: `WorldStopped`, `CountdownExact`. Reclamation: `NoUseAfterFree`, `FreedOnce`, `SlotsOwned`, `OnlyHandedOffIsLeft` |
| `threads` | 3 threads with a GIL, with handles, or with one object and at most 4 references; fair | GIL: `HolderConsistent`, `RequestSwitches`, `DropperResumes`. Handles: `HandleLifetime`, `JoinedMeansDone`, `ShutdownWaits`, `JoinsReturn`. Reference counting: `RefcountExact`, `GarbageFreed` |
| `stop_the_world_served` | 2 threads of an interpreter, strongly fair | `RequestsServed` |
| `stop_the_world_fork` | 3 threads of 2 interpreters | `ChildLocksFree`, violated |
| `gil_exit` | 3 threads | `SwitchHasTaker`, violated |

`locks`, `threads` and `thread_states` are composed of modules that do not share state:
a variable `which`, chosen at the start and kept, says whose next-state relation the
behaviour follows, the variables of the others keeping their initial values. This asks of
each module what a run of its own would, on the same bounds. A property of a module that
is an instance reads there as it stands, conditional on `which` where the idle state
of another module would not satisfy it or need not be looked at. The assumptions of the instances,
their operators `Parameters`, are asserted by the composing module. The proofs take the
other direction: a behaviour of the composition is, for the variables of each part, a
behaviour of that part (`RefsPart`, `ReclaimPart` and the like), so that its invariant holds in the whole.

The type invariant of a module is a conjunct of one of its properties: of `SequenceVouches`,
`ItemsDelivered`, `CountdownExact`, `SlotsOwned`, `HolderConsistent`, `HandleLifetime` and
`RefcountExact`; `TypesOK` collects those of `locks`. That of `PyMutex` is a theorem only (`PyMutexTypes`).

Every passing run explores its whole state space. Deadlock is checked everywhere except

* in the two raw mutex runs with interrupted waits: there a stale head can make an
  unlocker pop a thread that is asleep no more, post a semaphore beyond its maximum (a
  fatal error in the code, no action in the model), or strand a sleeper, and the model
  stops where the program would be broken. `raw_mutex_signals` asks what survives even so;
* in the runs of threads: a program ends when its threads do, and in the child of a fork a
  request may wait for ever (section 7).

### Bounds

* Three threads. The races here are between a thread that gives a lock up, one that is about
  to sleep on it or to wake, and one that barges in; a thread that has given the lock up comes
  back as the next newcomer. Two threads show what critical sections can do to each other
  with two mutexes, and a reader and a writer what reclamation can do wrong; with the
  same two, one of which comes and goes, slots are reused and the array grows. The proofs
  hold for every number of threads.
* One bucket. Two mutexes in it, or two queues, show what sharing does (`num_waiters` counts
  both, so that `HAS_PARKED` or `has_threads_waiting` may stay set for nobody); addresses in
  different buckets share nothing.
* `SemaMax` = 1: the raw mutex's semaphore never needs more, which `NoWaiterLost`
  confirms (`sema[t]` is 0 or 1); a real maximum is larger, so a smaller one is stricter.
* `MaxDepth` = 2: an outermost lock, an inner one and one more, so that `level` takes the
  values 0, 1 and 2 and comes back; two sections of two mutexes each, so that one is
  suspended underneath another and resumed.
* `Wrap` = 4 stands for 2^32, and `MaxWrites` = 1 bounds the updates that start during one
  read. `HitIsRight` holds as long as `MaxWrites` < `Wrap` / 2 and fails at equality: a reader
  is deceived only by exactly 2^31 updates (or a multiple) during one read. The code
  accepts that risk.
* `InitialCapacity` = 2 and `MaxPuts` = 5 on one queue: its buffer of 2 slots grows to 4 and
  to 8 with its content wrapped around the end, and shrinks again. `MaxPuts` bounds the
  items, not the gets.
* `MinArraySize` = 1: the second thread makes the array grow, with its readers stopped.
  `DeferredLimit` = 2: every other advance is deferred. `MaxSeq` = 5: the write sequence advances
  twice, so that there are goals that are reached, that are next, and that lie
  beyond an old `rd_seq`. Four blocks: one shared, one in the interpreter's queue, one in the queue of a
  thread that exits while the other has the mutex, and one to come. This is what it takes for a collection to
  find the mutex handed off with items left under it.
* `MaxRefs` = 4: with three threads, each can hold a reference and one of them a second, so that a
  count of an owner goes up and down without reaching zero while the shared one goes below
  zero and above. Two queued references at a time follow.
* Two interpreters, two threads of the first and one of the second: requests of either and of
  the runtime meet, and the thread that comes and goes does so while one scans. A fork
  happens once.
* Symmetry over threads (and mutexes, names, blocks) is used only in runs without liveness
  properties.

### Fairness

`FairSpec` is weak fairness of each thread's `Step`: a thread inside a call is
scheduled by the operating system, and a thread that holds a lock gives it up. A
thread's steps are a sequential program, so one condition per thread is enough, and a
compare-and-swap that keeps failing is still a step taken - lock-freedom is not
assumed, it follows. Nobody is obliged to call anything. In `PyMutex` the clock
(`BecomeLate`) is fair too: 1 ms passes. A wait may fail but need not: no failing wait is fair, so
that nobody is rescued by a timeout or a signal. Interrupts are allowed in the liveness
runs except `mutex_fair`: a thread that is interrupted each time before it can be dequeued
loses its place in the mutex's queue again and again, and is promised nothing by this
code. The raw mutex in `locks` leaves them out because of what section 7 shows.

In `CriticalSection` what is begun is ended, but nobody has to begin or to detach. In `GIL`
a thread looks at its eval breaker, and a wait of an interval ends; nobody has to drop the
GIL of his own accord. In `ThreadHandle` the function of a thread need not return, and a join
without a timeout waits as long; `JoinsReturn` is about threads that exit.

In `BiasedRefcount` a thread looks at its eval breaker and finishes the calls it is in; nobody has to
drop a reference, to exit or to collect. `GarbageFreed` is thus about an object that all
have dropped.

`StopTheWorld` needs strong fairness of a thread's `Step`. A requester needs `HEAD_LOCK` at
several points, and every other thread may take it in between, again and again: the raw
lock under it is not fair by itself, but `PyMutex`, which it is, hands it off after a
millisecond, so that a thread that wants it infinitely often gets it. The same holds of
`MutexHandOff`. Strong fairness of `ScanParks` says that a scan which sees a thread detached
again and again is not each time too late for its compare-and-swap; the code has no
bound on that race either, and repeats the scan every millisecond.

## 5. What the properties say

Locks.

* `NoLostWakeup` (mutex), part of `BitsExact` (readers-writer lock), relates the queue to
  the lock's own word at every moment: if somebody sleeps, the word says so to those
  who will look at it, or somebody who is awake, or already being woken, will act. It is
  the property that the compare under the bucket's lock, the retries after a failed
  compare-and-swap and the choice of `has_more_waiters` exist for. `BitsExact` adds
  exclusion, the exact count of readers, and that new readers are only held back by a writer
  that exists. For the event and the once flag `SetReleasesAll` and `SleepersWake` say
  the same as liveness; `RunsOnce` is that a function that may fail is run by one caller
  at a time, reported as done only if it is, and never again after.
* `LotInv` is the parking lot's side: no pointer to a dead frame, one way to be woken and
  one only, a counter that counts, and nothing left between two calls.
* `NoWaiterLost` and `LockProgress` are the raw mutex's.
* `ImplementsLock` is the refinement of the abstract lock, handoff included: a
  handed-off waiter owns the mutex from the moment `mutex_unpark` stores the byte, while
  it is still asleep, and takes the ownership even if its timeout expires first.
* `NoStarvation` is what the handoff is for.
* `SequenceVouches`: an even sequence vouches for a whole entry, and what an optimistic
  reader accepts is what one writer wrote for that version and name.
* `OwnerKnowsItself`: the unsynchronised test of the recursive mutex's owner is right
  for the thread that makes it, in the child of a fork too. `HeldUntilOutermost`: only the
  outermost unlock lets others in.
* `ActiveMeansLocked`: what a thread does inside a section it does with the section's
  mutexes, although it may have lost them in between. `NoCircularWait` and
  `SectionsProgress`: no nesting deadlocks, because a thread that has to wait for a mutex gives
  up all the others.

Above the locks.

* `ItemsDelivered` (`SimpleQueue`): what is in the buffer is what was put last, in order, and
  each item that left goes to exactly one get, whether through the buffer or from hand to
  hand, and to none that has timed out. `NoIdleGetter`: no get sleeps through a put.
* `HolderConsistent`, `RequestSwitches`, `DropperResumes` (GIL): one holder, whom
  `last_holder` names; a thread that is asked to drop the GIL does not take it again before
  another has had it; and it does not wait for a switch that has already happened.
* `HandleLifetime`: the OS thread of a handle is joined or detached once, by whoever is last,
  never that of a fork's parent; a handle lives as long as somebody refers to it.
  `JoinedMeansDone`, `JoinsReturn`: a join that gets through the once flag finds the thread
  gone, and all joins of a thread that exits return, in the child of a fork too.
  `ShutdownWaits`: a `_shutdown` that does not give up leaves no non-daemon thread that runs.
* `WorldStopped`, `CountdownExact`: while the world is stopped every other thread of the scope
  is suspended, those created or deleted in the meantime included, since each is counted out
  exactly once. `RequestsServed`: each request gets there.
* `NoUseAfterFree`, `FreedOnce`: memory that a thread may be reading is not freed, and what is
  removed is freed once, whoever inherits its queue. `SlotsOwned` is the invariant of the
  slots that a scan relies on. `OnlyHandedOffIsLeft`: after a
  collection no thread's queue has anything left, and the interpreter's only if its mutex was handed
  to a thread that is paused or that a fork lost; `has_work` then announces it to the next who tries.
* `RefcountExact`: "the true refcount is the sum of these two fields" (`brc.c:4`) at every
  moment, when what a merging thread has in its hands and what queues and calls have taken over
  are counted in; an object without an owner is merged or being merged (the comment at
  `object.c:428`), without which a decrement would not see that it is the last; and the object is
  deallocated once, when nobody refers to it and no call is left that uses it.
  `GarbageFreed`: an object that nobody refers to is deallocated, although its owner may have
  exited while it was being queued.

## 6. Proofs

TLAPS proves what follows for every set of threads, mutexes, addresses, blocks, interpreters and
versions, every number of buckets and every hash function `BucketOf`, with interrupts and
timeouts or without, and every value of the bounds (`MaxRefs`, `MaxDepth`, `MaxSeq`,
`MaxPuts`, `InitialCapacity` and the like). The assumptions are the `ASSUME`s of the modules, which
TLC evaluates on each run:

* null values (`NoThread`, `NoAddr`, `NoBlock`) are no threads, addresses or blocks, and `BucketOf`
  maps addresses to buckets;
* `Threads` is finite where threads are counted: readers of the readers-writer lock, the
  countdown of a request, references, slots, and threads that wait in a circle. A process has finitely many;
* the mutexes of critical sections are numbers, because the code orders them by address;
* of the sequence lock: versions are positive, and `Wrap` is even, as 2^32 is.

Two theorems have a hypothesis besides. `RawMutexLosesNobody` has `~Interruptible`: section 7 shows that with
interrupted semaphore waits it is false. `SequenceIsToBeTrusted` has `2 * MaxWrites < Wrap`: during one
read there are fewer updates than bring the sequence around, which is what a sequence lock
relies on; nothing bounds the updates between reads.

| Theorem | Statement |
|---|---|
| `RawMutexTypes`, `RawMutexExclusion`, `RawMutexImplementsLock` | `TypeOK`, `MutualExclusion`, `ImplementsLock` of the raw mutex |
| `RawMutexLosesNobody` | `NoWaiterLost`, for a stack of any length |
| `PyMutexTypes`, `PyMutexLotInv`, `PyMutexExclusion`, `PyMutexNoLostWakeup`, `PyMutexImplementsLock` | `TypeOK`, `LotInv`, `MutualExclusion`, `NoLostWakeup`, `ImplementsLock` of PyMutex |
| `LotQueuesConsistent`, `LotEntriesAreLive`, `LotParkedCanBeWoken` | the parking lot under a PyMutex |
| `SmallLocksTypes` | `TypesOK`: the types of all modules of `SmallLocks` |
| `RWBitsAreExact`, `EventWaitMeansSet`, `OnceRunsOnce` | `BitsExact`, `WokenMeansSet`, `RunsOnce` |
| `ImportLockIsHeld`, `ImportLockKnowsOwner` | `HeldUntilOutermost`, `OwnerKnowsItself` of the recursive mutex |
| `ActiveSectionsAreLocked`, `SectionsDoNotDeadlock` | `ActiveMeansLocked`, `NoCircularWait` of critical sections |
| `SimpleQueueDelivers`, `SimpleQueueWakes`, `SimpleQueueLotInv` | `ItemsDelivered`, `NoIdleGetter`, `LotInv` |
| `SequenceIsToBeTrusted` | `SequenceVouches` |
| `GILTypes`, `GILHolderConsistent`, `GILRequestSwitches` | `TypeOK`, `HolderConsistent` and the action property `RequestSwitches` of the GIL |
| `HandlesLiveLongEnough`, `JoinsWaitForTheEnd`, `ShutdownWaitsForThreads` | `HandleLifetime`, `JoinedMeansDone` and the action property `ShutdownWaits` |
| `RefcountStaysExact` | `RefcountExact` |
| `StopTheWorldTypes`, `WorldIsStopped`, `CountdownIsExact` | `TypeOK`, `WorldStopped`, `CountdownExact` |
| `ReclaimedBlocksAreUnread`, `BlocksAreFreedOnce`, `SlotsHaveOneOwner`, `CollectionsLeaveOnlyHandedOff` | `NoUseAfterFree`, `FreedOnce`, `SlotsOwned` and the action property `OnlyHandedOffIsLeft` |

The arguments:

* Raw mutex. `MutualExclusion` is inductive given `TypeOK`: the LOCKED bit is set and
  cleared only by a compare-and-swap of the thread whose program point moves with it.
  Interrupted waits disturb neither. `NoWaiterLost` speaks of what is reachable along
  `next`. `From(p)` is the least set closed under `next`, so reachability is defined without recursion, and
  the lemmas say what a push, a pop and a removal from the middle do to it. `StackInv` adds that
  no entry is under itself (`Linear`), that a wakeup is under way exactly for who is about to be posted
  (`Wakers`), that the head an owner has read is still on the stack and its link unchanged
  (`Unlockers`: only owners remove), and that a thread pushes its entry with no post left (`NoPostLeft`, which an
  interrupted wait breaks).
* Parking lot. `LotInv` is the conjunction of types, `QueuesConsistent`,
  `EntriesAreLive`, `ParkedCanBeWoken` and `NothingLeft` (between two calls nothing of an
  entry is left). `ParkingLotProofs` shows for every fragment - enqueue, the ways out of
  Park, dequeue, wakeup - that it preserves `LotInv` under what the caller guarantees;
  none of it mentions a mutex, and the proofs of PyMutex, of the small locks and of `SimpleQueue` cite it. The
  lemmas on sequences (what `RemoveAt`, `Append` and `Tail` do to the elements and to injectivity) come first.
* PyMutex. The invariant `IInv` adds to `TypeOK` and `LotInv`:
  `PlacesAgree`, which ties a thread's program point to where the parking lot has it and
  to its locals; `MutualExclusion`; and `SleepersHaveHeirs`, a strengthening of
  `NoLostWakeup`. The latter is not inductive as it stands: that an awake thread is about
  to try the mutex is no use if that thread may give up, its timeout being over. What
  saves the code is that a thread gives up only after it has seen LOCKED in the byte, so
  the strengthening asks for an heir whose copy of the byte is not an outdated "locked".
  `HAS_PARKED` is kept by every compare-and-swap, which is where the retries matter.
* Refinement. `OwnershipStep` shows that each step leaves every mutex's owner set alone or
  changes it as the abstract lock allows; the theorem collects the mutexes.
* Readers-writer lock. `RWInv`: the word counts who holds the lock, as a cardinality
  (`HoldersCounted`); without a writer inside, the parked bit is the mark of one that wants to be (`WriterMarks`);
  and who sleeps will be unparked (`SleepersKnown`): a release is about to, or the parked bit is set and
  there is a holder, or a writer awake that has still to look at the word. The last case is the strengthening:
  readers can sleep behind a writer that has been woken and has nothing yet, and that writer
  sets the bit again or takes the lock.
* Event and once flag. Before an event is set there is no wakeup, given or to be given
  (`EventInv`), so who wakes has seen it set. Of a once flag, a thread that has read
  `ONCE_INITIALIZED` finds it so for good, for nothing takes it back (`OnceInv`).
* Recursive mutex. The invariant `FieldsAgree` ties `thread`, `level` and `depth` to the owner at every
  program point, `lock_store` and `unlock_mutex` included, where owner and field differ.
* Critical sections. `SectionsInv` says what a stack looks like (`Shape`), what goes with each label (`Phase`),
  that a queued thread waits for that mutex, once (`Queues`), and that a thread owns each of
  its mutexes for exactly one reason (`Owns`): a live section, the first mutex of a section not complete, or a release
  not yet done. So a waiting thread, whose sections are suspended, keeps one mutex at most, of a lower
  address than the one it waits for. Along a circle of waiting threads the addresses that they wait for would rise for ever
  (`WaitsRise`), which a finite set of threads does not allow: take away the one that waits for the lowest, and the rest still
  rises, so that the smallest such set would have a smaller one.
* Sequence lock. `SeqInv`: the sequence is odd exactly while one thread writes (`OneWriter`);
  the entry is whole but for the fields the writer has yet to write (`EntryInv`); a reader's sequence is
  behind by some `k` of at most twice the updates begun since, modulo `Wrap` (`Readers`). With `k = 0` what was
  read is in the entry still, with `k = 1` it is unless the writer has begun to write the fields; the
  sequences agree at the end only when `k = 0`.
* `SimpleQueue`. `IInv` adds to `LotInv` that the ring buffer holds the items put last, in
  order, through growth and shrinking (`Buffers`; the lemmas on the ring come first), that an entry queued in the parking lot is
  known to the flag and has missed no item (`SleepersKnown`), and that each item is in one place (`EachItemOnce`).
  The flag is cleared by a counter of the whole bucket; that is enough because a counter of zero leaves no
  entry of this queue either.
* GIL. `HolderConsistent` is inductive given `TypeOK`. `RequestSwitches` is not a consequence
  of it: a request could in principle reach a thread that has looked at its eval
  breaker for the last time before it takes the GIL again. `RequestsSeen` excludes that: a request
  that is pending to the last holder finds it where it will still look - it runs,
  drops, or has dropped the GIL - or where it will never take the GIL again. It rests on the order in
  `drop_gil`, which tests the request only after the GIL is free, and on the fact that a
  request goes to `last_holder` while the GIL is locked. A thread that takes the GIL resets
  its request in the same step.
* Thread handles. `HandleInv` bounds the reference count from below by the object, the thread's own
  reference and that of `_shutdown` (`Counted`); relates state, OS thread, once flag and
  `handle_ready` (`States`, `Calls`); lets one thread start a handle, and one have its once flag (`OneEach`); and keeps the
  handle of a non-daemon thread on the list from before the OS thread is created until its thread
  state is deleted (`Listed`). The last is why an empty list means that `_shutdown` may return.
* Reference counts. `RefSum` is the equation of `RefcountExact`: the two counts and
  what a merging thread has in hand are the references held, queued or taken over by a call. The sums
  over threads are cardinalities of sets of pairs, so that `FiniteSetTheorems` gives what one step adds or takes.
  `RefOne` allows one reference on its way to be merged, because the flag "queued" is set once; `RefOwner` and
  `RefPlace` say what `ob_tid` and the flags mean at each program point, and who can be there; `RefOver`, that the
  object is deallocated by one thread, when nothing refers to it. The order of the stores in
  `_Py_MergeZeroLocalRefcount` and `_Py_ExplicitMergeRefcount` (gh-119999, gh-121794) is what makes `RefPlace` true.
* Stop-the-world. `IInv` ties thread states to program points (`Places`), the two mutexes and the request to who has made it
  (`LocksHeld`, `RequestsMade`), a suspended thread to a request of its scope (`SuspendedForRequest`), and the scan
  to its requester (`ScanHeld`). `Counted`: the countdown is the number of threads in scope
  not yet counted out - not suspended, or suspended and about to decrement - plus, during the requester's own scan, those
  it has parked itself and not yet subtracted. That the scan subtracts at its end is what the term is for.
* Reclamation. `ReclaimInv`: each thread state's slot is its own and says whether it is online (`Slots`);
  nobody is ahead of `wr_seq` (`Locals`); a block is in one queue, shared, free or in the hand of who removes
  it (`Kept`); and of a block that is held and queued no goal has been passed (`Held`). `NotPassed` is the strengthening of
  `NoUseAfterFree`: the slot of the holder, `rd_seq`, and the minimum of every scan under way that has
  been past that slot, are below the goal. It is why a scan that looks at the slots one after the other, while threads attach,
  detach and become quiescent behind it, is safe: a thread that comes online takes the sequence of now, and what it
  can still find shared gets a later goal. `CollectionsLeaveOnlyHandedOff` follows from `Kept`, by which
  goals are at most the next write sequence, from the others' being offline while the world is stopped, and from
  `Locals`, which says where a thread that has the mutex of the interpreter's queue can be: of these
  places only one, woken but not attached, is compatible with a stopped world. Merging the queues of dead threads, and
  the flattening of all of them, are functions on natural numbers; what they return is shown by taking the least number for
  which it were wrong (`LeastNat`, from well-foundedness), which needs no induction.

The composed specifications `AllSpec` are products of their parts. Each
proof shows that a behaviour of the composition is, for the variables of the part, a behaviour of the part, and
the part's invariant is inductive over the part's `Next`.

Every invariant and every action property that a passing run checks is a theorem.
Only model-checked are the temporal properties under fairness: `NoStarvation`, `LockProgress`, `WriterGetsIn`,
`SleepersWake`, `SetReleasesAll`, `SectionsProgress`, `DropperResumes`, `JoinsReturn`, `GarbageFreed` and
`RequestsServed`; TLAPS 1.4.5 has no rule for fairness or ENABLED. The proof
modules use no recursive operators.

## 7. Findings

**The raw mutex's early return.** `_PyRawMutex_LockSlow` ignores the result of `_PySemaphore_Wait` (`lock.c:211`). The
semaphore's wait may return early with `Py_PARK_INTR`, on EINTR with POSIX semaphores and
on a spurious wakeup with a condition variable. The thread then goes back to its loop
with its entry still on the stack; if the lock is free by now it takes it, keeping the
head, and returns: the word points to the frame of a call that is over, although the
header says that the remaining bits "are either zero or a pointer to a struct
raw_mutex_entry". `raw_mutex_interrupted` shows the shortest such run.
`_PyParkingLot_Park` treats the same result with care (`parking_lot.c:328-343`). Exclusion
is not affected (`raw_mutex_signals`, `RawMutexExclusion`); whether a sleeper is woken is.

**A lock that a fork leaves behind.** The comment of `_PyRuntimeState_ReInitThreads`
(`pystate.c:496`) promises that the child of a fork shares no locks with its parent. The
mutex of an interpreter's stop-the-world request is not among those it resets (395-408). A
thread that has locked it and waits for the readers-writer lock (2249-2253), which the
forking thread holds for the request of the runtime, leaves it locked in the child
(`stop_the_world_fork`), where the next request of that interpreter waits for ever. This is
the free-threaded build. The mutex of an interpreter's `mem_free_queue` is not reset either (nor in
`_Py_qsbr_after_fork`, while `_Py_brc_after_fork`, `brc.c:198-202`, resets its buckets' mutexes for this very
reason): if it had been handed to a thread that was paused by the fork, the child, which clears the states of
the dead threads, waits for it for ever if one of them left an item in its queue. `AfterForkWaits` of `QSBR` is this
step; it fires in `thread_states`.

**A request taken back too late.** A thread that exits at finalization resets the drop
request it has made, lest the holder wait for it (the comment at `ceval_gil.c:343`,
gh-96387); but it has unlocked `gil->mutex` one line before, and the holder may drop the GIL in
between, find the request pending and start to wait for the switch. `gil_exit` shows that, when
nobody else is left to take the GIL, it waits for ever: `DropperResumes` holds only until an
interpreter is finalized.

## 8. Not modelled, and why

* `_PyParkingLot_AfterFork` and the reset of mutexes after a fork are part of the child in
  the modules that have one; a fork in the middle of the parking lot itself is not modelled.
* Detaching from the interpreter while asleep belongs to the thread state, not to the lot:
  `StopTheWorld`, `QSBR` and `CriticalSection` have it, `ParkingLot` does not.
* Fatal errors (unlocking what is not locked): the models' callers do not misuse the
  locks, and the invariants show that the errors are unreachable for such callers.
* A thread that is started twice at a time: `threading.Thread.start` does not exclude it
  (`threading.py:966-975`), and the handle would be appended twice to an intrusive list
  (`_threadmodule.c:1846`). A `_shutdown` that meets a handle which is STARTING gives up without
  waiting for the others (2358); no doc says what it should do, and `ShutdownWaits` claims
  nothing about it. Both are listed as hazards without a property.
* The diagram of a handle's states (`_threadmodule.c:49-54`) has no way from NOT_STARTED to
  DONE, which the child of a fork takes (265); no reader of the state minds.
* In `GIL`: pending calls, signals, the free-threaded build's switching the GIL on and off
  and swapping thread states. A condition variable that wakes spuriously ends a forced
  switch early, nothing more.
* In `QSBR`: the chunks of a work queue (any addition may fill one), mimalloc's pages with the
  same goals, `_PyMem_FiniDelayed`, the deletion of another thread's state. In
  `StopTheWorld`: interpreters that come and go.
* In `BiasedRefcount`: objects that the collector tracks, which it deallocates as cyclic trash;
  the child of a fork (`_Py_brc_after_fork`); the deletion of another thread's state; immortal
  objects; the optimistic reads of containers (`_Py_TryIncrefCompare`, `_Py_NewRefWithLock`). A
  collection that runs out of memory returns early and leaves untracked objects it had kept for itself
  undeallocated (`gc_free_threading.c:1126`); it is a hazard without a property.
* Overflow of the reader count, 2^62 readers, and of the 64-bit sequence of `QSBR`.
* The other components of section 1, for the reasons in `PROJECT.json`: the thread locks are in the plan; the libraries written in Python and
  the processes of `multiprocessing` are systems of their own; and the bulk of the tree -
  parser, compiler, interpreter loop, object types, codecs, generated tables - is sequential
  code over unbounded data, whose correctness is not a matter of interleavings and which the
  test suite covers. They make up nearly all of its lines, which is why the share of lines that
  is modelled is small.

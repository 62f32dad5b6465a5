---------------------------- MODULE StopTheWorld ----------------------------
(***************************************************************************)
(* Thread states and stop-the-world requests (Python/pystate.c) as the     *)
(* free-threaded build runs them.  A thread state is attached (it runs     *)
(* Python code), detached or suspended.  A request, of one interpreter or  *)
(* of the whole runtime, suspends every other thread of its scope: the     *)
(* requester moves those that are detached, and asks those that are        *)
(* attached to do it themselves, again and again until none is left.       *)
(*                                                                         *)
(* The list of thread states and the requests are guarded by HEAD_LOCK;    *)
(* attaching and detaching are not.  The locks are what their modules show *)
(* them to be: PyMutex, which may be handed off to a thread that waits,    *)
(* RWMutex, in which a waiting writer holds readers back, and PyEvent.     *)
(***************************************************************************)
EXTENDS Naturals, FiniteSets

CONSTANTS Threads, NoThread,
          Interps, InterpOf,   \* the interpreters, and that of each thread
          MainInterp,
          Initially,           \* the threads there are at the start, who stay
          ALL,                 \* the scope of a request of the runtime
          NoScope

ASSUME StopTheWorldAssumption ==
         /\ NoThread \notin Threads /\ IsFiniteSet(Threads)
         /\ InterpOf \in [Threads -> Interps]
         /\ MainInterp \in Interps
         /\ Initially \subseteq Threads
         /\ ALL \notin Interps /\ NoScope \notin Interps \cup {ALL}

Scopes == Interps \cup {ALL}

VARIABLES state,         \* tstate->state; "none": there is no such thread state
          please_stop,   \* _PY_EVAL_PLEASE_STOP_BIT of its eval breaker
          pc,            \* where the thread is
          scope,         \* of the request it makes, or suspends itself for
          stw,           \* the _stoptheworld_state of each scope,
          mutex,         \* and the owner of its mutex
          writer, readers,   \* of runtime->stoptheworld_mutex
          head,          \* who holds HEAD_LOCK for longer than a step: to scan,
          todo,          \*   the threads still to look at,
          target,        \*   the one seen detached,
          num_parked,    \*   and those suspended so far
          forked         \* is this the child of a fork?

locks == <<mutex, writer, readers>>
scanning == <<head, todo, target, num_parked>>
vars == <<state, please_stop, pc, scope, stw, locks, scanning, forked>>

NoRequest == [requested |-> FALSE, thread_countdown |-> 0, stop_event |-> FALSE,
              requester |-> NoThread, world_stopped |-> FALSE]

Init ==
    /\ state = [t \in Threads |-> IF t \in Initially THEN "attached" ELSE "none"]
    /\ please_stop = [t \in Threads |-> FALSE]
    /\ pc = [t \in Threads |-> IF t \in Initially THEN "run" ELSE "gone"]
    /\ scope = [t \in Threads |-> NoScope]
    /\ stw = [s \in Scopes |-> NoRequest]
    /\ mutex = [s \in Scopes |-> NoThread]
    /\ writer = NoThread /\ readers = {}
    /\ head = NoThread /\ todo = {} /\ target = NoThread /\ num_parked = 0
    /\ forked = FALSE

Goto(t, label) == pc' = [pc EXCEPT ![t] = label]

Becomes(t, s) == state' = [state EXCEPT ![t] = s]

\* _Py_FOR_EACH_THREAD.
InScope(s) == {t \in Threads : state[t] # "none" /\ (s = ALL \/ InterpOf[t] = s)}

\* The requests a thread of this interpreter would have to heed.
Requests(i) == {s \in {i, ALL} : stw[s].requested}

(***************************************************************************)
(* Attaching, detaching, suspending.                                       *)
(***************************************************************************)

\* _PyThreadState_Attach: a suspended thread waits to be detached again.
Attach(t) ==
    /\ pc[t] = "out" /\ state[t] = "detached"
    /\ Becomes(t, "attached") /\ Goto(t, "run")
    /\ UNCHANGED <<please_stop, scope, stw, locks, scanning, forked>>

\* _PyThreadState_Detach, before a call that may block.
Detach(t) ==
    /\ pc[t] = "run"
    /\ Becomes(t, "detached") /\ Goto(t, "out")
    /\ UNCHANGED <<please_stop, scope, stw, locks, scanning, forked>>

\* _Py_HandlePending calls _PyThreadState_Suspend,
HandlePending(t) ==
    /\ pc[t] = "run" /\ please_stop[t]
    /\ please_stop' = [please_stop EXCEPT ![t] = FALSE]
    /\ Goto(t, "pending")
    /\ UNCHANGED <<state, scope, stw, locks, scanning, forked>>

\* which looks for the request
SuspendLooks(t) ==
    /\ pc[t] = "pending"
    /\ head = NoThread
    /\ scope' = [scope EXCEPT ![t] = IF stw[ALL].requested THEN ALL
                                     ELSE IF stw[InterpOf[t]].requested THEN InterpOf[t]
                                     ELSE NoScope]
    /\ Goto(t, "suspend")
    /\ UNCHANGED <<state, please_stop, stw, locks, scanning, forked>>

\* and, when there is none any more, only detaches.
Suspend(t) ==
    /\ pc[t] = "suspend"
    /\ \/ scope[t] = NoScope /\ Becomes(t, "detached") /\ Goto(t, "out")
       \/ scope[t] # NoScope /\ Becomes(t, "suspended") /\ Goto(t, "decrement")
    /\ UNCHANGED <<please_stop, scope, stw, locks, scanning, forked>>

\* decrement_stoptheworld_countdown, of each of the scopes in S.
Decremented(S) == [s \in Scopes |->
    IF s \in S
    THEN [stw[s] EXCEPT !.thread_countdown = @ - 1,
                        !.stop_event = @ \/ stw[s].thread_countdown = 1]
    ELSE stw[s]]

SuspendDecrement(t) ==
    /\ pc[t] = "decrement"
    /\ head = NoThread
    /\ stw' = Decremented({scope[t]})
    /\ scope' = [scope EXCEPT ![t] = NoScope]
    /\ Goto(t, "out")
    /\ UNCHANGED <<state, please_stop, locks, scanning, forked>>

(***************************************************************************)
(* Thread states come and go.                                              *)
(***************************************************************************)

\* Faulty: every thread state starts detached.
NewStateDetached(u) == "detached"

\* init_threadstate: during a request a thread state starts suspended.
NewState(u) == IF Requests(InterpOf[u]) # {} THEN "suspended" ELSE "detached"

New(t, u) ==
    /\ pc[t] = "run" /\ pc[u] = "gone"
    /\ head = NoThread
    /\ Becomes(u, NewState(u)) /\ Goto(u, "new")
    /\ UNCHANGED <<please_stop, scope, stw, locks, scanning, forked>>

\* The operating system's thread starts.
Start(u) ==
    /\ pc[u] = "new"
    /\ Goto(u, "out")
    /\ UNCHANGED <<state, please_stop, scope, stw, locks, scanning, forked>>

\* tstate_delete_common.
Delete(u) ==
    /\ head = NoThread
    /\ stw' = Decremented(IF state[u] = "suspended" THEN {} ELSE Requests(InterpOf[u]))
    /\ Becomes(u, "none") /\ Goto(u, "gone")
    /\ please_stop' = [please_stop EXCEPT ![u] = FALSE]
    /\ UNCHANGED <<scope, locks, scanning, forked>>

\* A thread deletes its own state at its end, or that of a thread that could
\* not be started.
DeleteOne(t, u) ==
    /\ pc[t] = "run"
    /\ \/ t = u /\ t \notin Initially
       \/ pc[u] = "new"
    /\ Delete(u)

(***************************************************************************)
(* stop_the_world.                                                         *)
(***************************************************************************)

\* The mutex of the request; a thread that has to wait for it detaches.
StopTheWorld(t, s) ==
    /\ pc[t] = "run" /\ s \in {InterpOf[t], ALL}
    /\ scope' = [scope EXCEPT ![t] = s]
    /\ IF mutex[s] = NoThread
       THEN mutex' = [mutex EXCEPT ![s] = t] /\ Goto(t, "rwlock") /\ UNCHANGED state
       ELSE Becomes(t, "detached") /\ Goto(t, "mutex_wait") /\ UNCHANGED mutex
    /\ UNCHANGED <<please_stop, stw, writer, readers, scanning, forked>>

\* The mutex is free again, or ours; the thread is attached before it returns.
MutexWait(t) ==
    /\ pc[t] = "mutex_wait" /\ state[t] = "detached"
    /\ mutex[scope[t]] \in {NoThread, t}
    /\ mutex' = [mutex EXCEPT ![scope[t]] = t]
    /\ Becomes(t, "attached") /\ Goto(t, "rwlock")
    /\ UNCHANGED <<please_stop, scope, stw, writer, readers, scanning, forked>>

WriterWaits == \E u \in Threads : pc[u] = "rw_wait" /\ scope[u] = ALL

\* A waiting writer holds back readers while there are others.
RWMayLock(t) ==
    /\ writer = NoThread
    /\ readers = {} \/ (scope[t] # ALL /\ ~WriterWaits)

\* runtime->stoptheworld_mutex, for writing by a request of the runtime, for
\* reading by that of an interpreter.
RWLocked(t) ==
    /\ RWMayLock(t)
    /\ \/ scope[t] = ALL /\ writer' = t /\ UNCHANGED readers
       \/ scope[t] # ALL /\ readers' = readers \cup {t} /\ UNCHANGED writer

\* The lock is taken at once, or the thread detaches to wait for it; then it
\* is attached again before it takes it.
RWLock(t) ==
    \/ /\ pc[t] = "rwlock" \/ (pc[t] = "rw_wait" /\ state[t] = "detached")
       /\ RWLocked(t)
       /\ Becomes(t, "attached") /\ Goto(t, "request")
       /\ UNCHANGED <<please_stop, scope, stw, mutex, scanning, forked>>
    \/ /\ pc[t] = "rwlock" /\ ~RWMayLock(t)
       /\ Becomes(t, "detached") /\ Goto(t, "rw_wait")
       /\ UNCHANGED <<please_stop, scope, stw, locks, scanning, forked>>

StartScan(t) ==
    /\ head = NoThread /\ head' = t
    /\ todo' = InScope(scope[t])
    /\ Goto(t, "scan")
    /\ UNCHANGED <<target, num_parked>>

\* The request is made and the other threads counted; when there are none,
\* the world has stopped.
Request(t) ==
    LET others == InScope(scope[t]) \ {t} IN
    /\ pc[t] = "request"
    /\ head = NoThread
    /\ stw' = [stw EXCEPT ![scope[t]] =
                 [requested |-> TRUE, thread_countdown |-> Cardinality(others),
                  stop_event |-> FALSE, requester |-> t, world_stopped |-> others = {}]]
    /\ IF others = {} THEN Goto(t, "stopped") /\ UNCHANGED scanning ELSE StartScan(t)
    /\ UNCHANGED <<state, please_stop, scope, locks, forked>>

\* park_detached_threads looks at the next thread of the list.
ScanThread(t) ==
    /\ pc[t] = "scan" /\ todo # {}
    /\ LET u == CHOOSE v \in todo : TRUE IN
         /\ todo' = todo \ {u}
         /\ IF state[u] = "detached" THEN target' = u /\ Goto(t, "cas")
                                     ELSE UNCHANGED <<target, pc>>
         /\ please_stop' = [please_stop EXCEPT ![u] = @ \/ (state[u] = "attached" /\ u # t)]
    /\ UNCHANGED <<state, scope, stw, locks, head, num_parked, forked>>

\* Faulty: a store, though the thread may have attached in the meantime.
ScanStores(t) ==
    /\ pc[t] = "cas"
    /\ Becomes(target, "suspended") /\ num_parked' = num_parked + 1
    /\ target' = NoThread
    /\ Goto(t, "scan")
    /\ UNCHANGED <<please_stop, scope, stw, locks, head, todo, forked>>

\* The compare-and-swap on a thread seen detached.
ScanParks(t) ==
    /\ pc[t] = "cas" /\ state[target] = "detached"
    /\ Becomes(target, "suspended") /\ num_parked' = num_parked + 1
    /\ target' = NoThread
    /\ Goto(t, "scan")
    /\ UNCHANGED <<please_stop, scope, stw, locks, head, todo, forked>>

\* The thread has attached in the meantime.
ScanMisses(t) ==
    /\ pc[t] = "cas" /\ state[target] # "detached"
    /\ target' = NoThread
    /\ Goto(t, "scan")
    /\ UNCHANGED <<state, please_stop, scope, stw, locks, head, todo, num_parked, forked>>

\* The scan is over: has everybody stopped?
ScanEnd(t) ==
    LET left == stw[scope[t]].thread_countdown - num_parked
        all == num_parked > 0 /\ left = 0
    IN /\ pc[t] = "scan" /\ todo = {}
       /\ stw' = [stw EXCEPT ![scope[t]].thread_countdown = left,
                             ![scope[t]].world_stopped = all]
       /\ head' = NoThread /\ num_parked' = 0
       /\ Goto(t, IF all THEN "stopped" ELSE "wait")
       /\ UNCHANGED <<state, please_stop, scope, locks, todo, target, forked>>

\* The event is set: the last thread has stopped.
WaitEvent(t) ==
    /\ pc[t] = "wait" /\ stw[scope[t]].stop_event
    /\ stw' = [stw EXCEPT ![scope[t]].world_stopped = TRUE]
    /\ Goto(t, "stopped")
    /\ UNCHANGED <<state, please_stop, scope, locks, scanning, forked>>

\* Faulty: waits for the event and does not look again.
WaitTimesOutNever(t) == FALSE /\ UNCHANGED vars

\* The millisecond is over, and the event is not set.
WaitTimesOut(t) ==
    /\ pc[t] = "wait" /\ ~stw[scope[t]].stop_event
    /\ Goto(t, "rescan")
    /\ UNCHANGED <<state, please_stop, scope, stw, locks, scanning, forked>>

Rescan(t) ==
    /\ pc[t] = "rescan"
    /\ StartScan(t)
    /\ UNCHANGED <<state, please_stop, scope, stw, locks, forked>>

(***************************************************************************)
(* start_the_world, and the child of a fork.                               *)
(***************************************************************************)

\* The suspended threads are detached, and woken to attach.
StartTheWorld(t) ==
    /\ pc[t] = "stopped"
    /\ head = NoThread
    /\ stw' = [stw EXCEPT ![scope[t]] = [@ EXCEPT !.requested = FALSE, !.world_stopped = FALSE,
                                                  !.requester = NoThread]]
    /\ state' = [u \in Threads |->
                   IF u \in InScope(scope[t]) \ {t} THEN "detached" ELSE state[u]]
    /\ Goto(t, "rwunlock")
    /\ UNCHANGED <<please_stop, scope, locks, scanning, forked>>

RWUnlock(t) ==
    /\ pc[t] = "rwunlock"
    /\ writer' = IF scope[t] = ALL THEN NoThread ELSE writer
    /\ readers' = readers \ {t}
    /\ Goto(t, "unlock")
    /\ UNCHANGED <<state, please_stop, scope, stw, mutex, scanning, forked>>

Unlocked(t, owner) ==
    /\ pc[t] = "unlock"
    /\ mutex' = [mutex EXCEPT ![scope[t]] = owner]
    /\ scope' = [scope EXCEPT ![t] = NoScope]
    /\ Goto(t, "run")
    /\ UNCHANGED <<state, please_stop, stw, writer, readers, scanning, forked>>

MutexUnlock(t) == Unlocked(t, NoThread)

\* The mutex is handed off to a thread that waits for it.
MutexHandOff(t, u) ==
    /\ pc[u] = "mutex_wait" /\ scope[u] = scope[t]
    /\ Unlocked(t, u)

\* PyOS_BeforeFork stops the world, and the process forks.  In the child the
\* other threads are gone; the lock of the list is made anew, the parking lot
\* emptied, their thread states and the other interpreters removed, and the
\* world is about to start.
Fork(t) ==
    /\ pc[t] = "stopped" /\ scope[t] = ALL /\ InterpOf[t] = MainInterp
    /\ head = NoThread /\ ~forked
    /\ forked' = TRUE
    /\ state' = [u \in Threads |-> IF u = t THEN state[t] ELSE "none"]
    /\ please_stop' = [u \in Threads |-> u = t /\ please_stop[t]]
    /\ pc' = [u \in Threads |-> IF u = t THEN "stopped" ELSE "gone"]
    /\ scope' = [u \in Threads |-> IF u = t THEN ALL ELSE NoScope]
    /\ mutex' = [s \in Scopes |-> IF s \in {MainInterp, ALL} THEN mutex[s] ELSE NoThread]
    /\ UNCHANGED <<stw, writer, readers, scanning>>

Step(t) ==
    \/ HandlePending(t) \/ SuspendLooks(t) \/ Suspend(t) \/ SuspendDecrement(t)
    \/ MutexWait(t) \/ RWLock(t) \/ Request(t)
    \/ ScanThread(t) \/ ScanParks(t) \/ ScanMisses(t) \/ ScanEnd(t)
    \/ WaitEvent(t) \/ WaitTimesOut(t) \/ Rescan(t)
    \/ StartTheWorld(t) \/ RWUnlock(t) \/ MutexUnlock(t)

Next ==
    \E t \in Threads :
        \/ Step(t)
        \/ Attach(t) \/ Detach(t) \/ Start(t) \/ Fork(t)
        \/ \E u \in Threads : New(t, u) \/ DeleteOne(t, u) \/ MutexHandOff(t, u)
        \/ \E s \in Scopes : StopTheWorld(t, s)

Spec == Init /\ [][Next]_vars

\* A thread that runs, be it only between blocking calls, gets to its eval
\* breaker; one that is in a request goes on with it, and gets the locks it
\* waits for: the mutex is handed off to a thread that it was not free for,
\* after a millisecond.  A scan that sees a thread detached again and again
\* does not come too late every time.
FairSpec ==
    /\ Spec
    /\ \A t \in Threads : /\ SF_vars(Step(t)) /\ SF_vars(ScanParks(t))
                          /\ SF_vars(\E u \in Threads : MutexHandOff(u, t))

(***************************************************************************)
(* Properties.                                                             *)
(***************************************************************************)

TypeOK ==
    /\ state \in [Threads -> {"none", "attached", "detached", "suspended"}]
    /\ please_stop \in [Threads -> BOOLEAN]
    /\ pc \in [Threads -> {"gone", "new", "run", "out", "pending", "suspend", "decrement",
                           "mutex_wait", "rwlock", "rw_wait", "request", "scan", "cas",
                           "wait", "rescan", "stopped", "rwunlock", "unlock"}]
    /\ scope \in [Threads -> Scopes \cup {NoScope}]
    /\ \A s \in Scopes : /\ stw[s].thread_countdown \in Nat
                         /\ stw[s].requester \in Threads \cup {NoThread}
    /\ mutex \in [Scopes -> Threads \cup {NoThread}]
    /\ writer \in Threads \cup {NoThread} /\ readers \subseteq Threads
    /\ head \in Threads \cup {NoThread} /\ target \in Threads \cup {NoThread}
    /\ todo \subseteq Threads /\ num_parked \in Nat /\ forked \in BOOLEAN

\* While the world of a request is stopped every other thread of its scope,
\* those created since included, is suspended (the assertion in
\* start_the_world), and nobody is suspended but for a request.
WorldStopped ==
    /\ \A s \in Scopes : stw[s].world_stopped =>
          \A t \in InScope(s) \ {stw[s].requester} : state[t] = "suspended"
    /\ \A t \in Threads : state[t] = "suspended" => Requests(InterpOf[t]) # {}

\* The threads of a request that it has yet to wait for: they run or are
\* detached, or have suspended themselves and are about to say so.
Awaited(s) ==
    {t \in InScope(s) \ {stw[s].requester} :
        state[t] # "suspended" \/ (pc[t] = "decrement" /\ scope[t] = s)}

\* "decrease stop-the-world counter of remaining number of threads that need
\* to pause": each is counted out exactly once, by itself, by the requester or
\* by whoever deletes it, and no two requests count the same threads.
CountdownExact ==
    /\ TypeOK
    /\ \A s \in Scopes :
          /\ stw[s].requested =>
                /\ stw[s].thread_countdown =
                     Cardinality(Awaited(s)) + IF head = stw[s].requester THEN num_parked ELSE 0
                /\ stw[s].stop_event => stw[s].thread_countdown = 0
          /\ (stw[s].requested /\ stw[ALL].requested) => s = ALL

\* Every request, however many there are at a time and however its threads
\* come and go, stops the world and starts it again, and threads in line for
\* the next request get there.
RequestsServed ==
    /\ \A s \in Scopes : []<>~stw[s].requested
    /\ \A t \in Threads : []<>(pc[t] \notin {"mutex_wait", "rw_wait"} \/ forked)

\* "newly created child processes do not share locks with the parent"
\* (_PyRuntimeState_ReInitThreads): no lock of the child belongs to a thread
\* that is gone.
ChildLocksFree ==
    \A s \in Scopes : mutex[s] # NoThread => state[mutex[s]] # "none"

=============================================================================

---------------------------- MODULE ThreadHandle ----------------------------
(***************************************************************************)
(* The handles of threads (Modules/_threadmodule.c): starting a thread,    *)
(* joining it, and waiting for all of them at shutdown.  A thread stands   *)
(* for the handle that was made to start it; the main thread's was made    *)
(* for a thread that runs already and owns no OS thread.                   *)
(*                                                                         *)
(* handle->mutex guards single reads and writes and is left out; PyEvent   *)
(* and _PyOnceFlag are what their modules show them to be: a flag that is  *)
(* set once, and a function that is run by one caller at a time until it   *)
(* succeeds.  Python code starts no thread twice at a time.                *)
(***************************************************************************)
EXTENDS Naturals, SequencesExt

CONSTANTS Threads, Main

Parameters == Main \in Threads

VARIABLES hstate,       \* handle->state
          os_thread,    \* the OS thread of the handle: "none", or "owned" by it,
                        \*   "joined", "detached", "lost" with a fork's parent,
                        \*   or in "error" when it was none of these any more
          exiting,      \* handle->thread_is_exiting
          once,         \* handle->once
          refcount,     \* handle->refcount
          object,       \* is there a Python object for the handle?
          daemon,       \* what it is started with
          ready,        \* boot->handle_ready
          shutdown_handles,
          pc,           \* where each thread is
          handle,       \* the handle its call is about
          shutdown,     \* how far _shutdown is
          forked        \* is this the child of a fork?

handles == <<hstate, os_thread, exiting, once, refcount, object, daemon, ready>>
vars == <<handles, shutdown_handles, pc, handle, shutdown, forked>>

Init ==
    /\ hstate = [t \in Threads |-> IF t = Main THEN "RUNNING" ELSE "NOT_STARTED"]
    /\ os_thread = [t \in Threads |-> "none"]
    /\ exiting = [t \in Threads |-> FALSE]
    /\ once = [t \in Threads |-> "UNLOCKED"]
    /\ refcount = [t \in Threads |-> 1]
    /\ object = [t \in Threads |-> TRUE]
    /\ daemon \in [Threads -> BOOLEAN] /\ ~daemon[Main]
    /\ ready = [t \in Threads |-> FALSE]
    /\ shutdown_handles = <<>>
    /\ pc = [t \in Threads |-> IF t = Main THEN "run" ELSE "unborn"]
    /\ handle = [t \in Threads |-> Main]
    /\ shutdown = "no"
    /\ forked = FALSE

Goto(t, label) == pc' = [pc EXCEPT ![t] = label]

\* The call is over; a call of _shutdown goes on.
Return(t) ==
    IF t = Main /\ shutdown = "joining"
    THEN Goto(t, "joined") /\ UNCHANGED handle
    ELSE Goto(t, "run") /\ handle' = [handle EXCEPT ![t] = Main]

\* It raises an exception, which ends a call of _shutdown too.
Raise(t) ==
    IF t = Main /\ shutdown = "joining"
    THEN Goto(t, "gives_up") /\ UNCHANGED handle
    ELSE Goto(t, "run") /\ handle' = [handle EXCEPT ![t] = Main]

\* remove_from_shutdown_handles, if the handle is there.
Unlist(h) ==
    \/ h \notin ToSet(shutdown_handles) /\ UNCHANGED shutdown_handles
    \/ \E i \in DOMAIN shutdown_handles :
          shutdown_handles[i] = h /\ shutdown_handles' = RemoveAt(shutdown_handles, i)

IncRef(h) == refcount' = [refcount EXCEPT ![h] = @ + 1]

\* What the OS says to joining or detaching the thread, which may be none.
Reaped(h, how) ==
    os_thread' = [os_thread EXCEPT ![h] = IF @ = "none" THEN @
                                          ELSE IF @ = "owned" THEN how ELSE "error"]

\* ThreadHandle_decref: with the last reference to the handle of a thread
\* nobody has joined, the OS thread is detached.
DecRef(h) ==
    /\ refcount' = [refcount EXCEPT ![h] = @ - 1]
    /\ IF refcount[h] = 1 /\ hstate[h] = "RUNNING"
       THEN /\ hstate' = [hstate EXCEPT ![h] = "DONE"]
            /\ Reaped(h, "detached")
       ELSE UNCHANGED <<hstate, os_thread>>

\* Where a thread is in a call with an object, which the call keeps alive.
InStart == {"start", "create", "mark", "ready", "force", "forced", "undo"}
InJoin == {"wait", "once", "join", "joined_os"}
InCall == InStart \cup InJoin \cup {"check"}

\* The object of a handle is deallocated.
Dealloc(h) ==
    /\ object[h] /\ h # Main
    /\ \A t \in Threads : handle[t] = h => pc[t] \notin InCall
    /\ object' = [object EXCEPT ![h] = FALSE]
    /\ DecRef(h)
    /\ UNCHANGED <<exiting, once, daemon, ready, shutdown_handles, pc, handle, shutdown, forked>>

(***************************************************************************)
(* do_start_new_thread, ThreadHandle_start.                                *)
(***************************************************************************)

\* The handle of a non-daemon thread joins the list.
Start(t, h) ==
    /\ pc[t] = "run" /\ object[h]
    /\ \A u \in Threads : handle[u] = h => pc[u] \notin InStart
    /\ daemon[h] \/ hstate[h] = "NOT_STARTED"
    /\ handle' = [handle EXCEPT ![t] = h]
    /\ shutdown_handles' = IF daemon[h] THEN shutdown_handles
                                        ELSE Append(shutdown_handles, h)
    /\ Goto(t, "start")
    /\ UNCHANGED <<handles, shutdown, forked>>

Starting(t) ==
    LET h == handle[t] IN
    /\ pc[t] = "start"
    /\ \/ /\ hstate[h] = "NOT_STARTED"
          /\ hstate' = [hstate EXCEPT ![h] = "STARTING"]
          /\ Goto(t, "create")
       \/ hstate[h] # "NOT_STARTED" /\ Goto(t, "undo") /\ UNCHANGED hstate
    /\ UNCHANGED <<os_thread, exiting, once, refcount, object, daemon, ready,
                   shutdown_handles, handle, shutdown, forked>>

\* The OS thread is created, which the thread's bootstate belongs to,
CreateThread(t) ==
    LET h == handle[t] IN
    /\ pc[t] = "create"
    /\ IncRef(h)
    /\ os_thread' = [os_thread EXCEPT ![h] = "owned"]
    /\ pc' = [pc EXCEPT ![t] = "mark", ![h] = "boot"]
    /\ UNCHANGED <<hstate, exiting, once, object, daemon, ready,
                   shutdown_handles, handle, shutdown, forked>>

\* or it is not.
CannotCreate(t) ==
    /\ pc[t] = "create"
    /\ Goto(t, "force")
    /\ UNCHANGED <<handles, shutdown_handles, handle, shutdown, forked>>

MarkRunning(t) ==
    /\ pc[t] = "mark"
    /\ hstate' = [hstate EXCEPT ![handle[t]] = "RUNNING"]
    /\ Goto(t, "ready")
    /\ UNCHANGED <<os_thread, exiting, once, refcount, object, daemon, ready,
                   shutdown_handles, handle, shutdown, forked>>

NotifyReady(t) ==
    /\ pc[t] = "ready"
    /\ ready' = [ready EXCEPT ![handle[t]] = TRUE]
    /\ Return(t)
    /\ UNCHANGED <<hstate, os_thread, exiting, once, refcount, object, daemon,
                   shutdown_handles, shutdown, forked>>

\* force_done, through the once flag.
ForceDone(t) ==
    LET h == handle[t] IN
    /\ pc[t] = "force" /\ once[h] = "UNLOCKED"
    /\ once' = [once EXCEPT ![h] = "LOCKED"]
    /\ exiting' = [exiting EXCEPT ![h] = TRUE]
    /\ Goto(t, "forced")
    /\ UNCHANGED <<hstate, os_thread, refcount, object, daemon, ready,
                   shutdown_handles, handle, shutdown, forked>>

ForcedDone(t) ==
    LET h == handle[t] IN
    /\ pc[t] = "forced"
    /\ hstate' = [hstate EXCEPT ![h] = "DONE"]
    /\ once' = [once EXCEPT ![h] = "INITIALIZED"]
    /\ Goto(t, "undo")
    /\ UNCHANGED <<os_thread, exiting, refcount, object, daemon, ready,
                   shutdown_handles, handle, shutdown, forked>>

\* The call fails.
StartFails(t) ==
    /\ pc[t] = "undo"
    /\ IF daemon[handle[t]] THEN UNCHANGED shutdown_handles ELSE Unlist(handle[t])
    /\ Return(t)
    /\ UNCHANGED <<handles, shutdown, forked>>

(***************************************************************************)
(* thread_run.                                                             *)
(***************************************************************************)

\* Faulty: makes do with the reference of the bootstate.
BootBorrowing(h) ==
    /\ pc[h] = "boot" /\ ready[h]
    /\ Goto(h, IF shutdown = "finalizing" THEN "free" ELSE "run")
    /\ UNCHANGED <<handles, shutdown_handles, handle, shutdown, forked>>

\* The function runs, unless the interpreter is being finalized.
Boot(h) ==
    /\ pc[h] = "boot" /\ ready[h]
    /\ IncRef(h)
    /\ Goto(h, IF shutdown = "finalizing" THEN "free" ELSE "run")
    /\ UNCHANGED <<hstate, os_thread, exiting, once, object, daemon, ready,
                   shutdown_handles, handle, shutdown, forked>>

\* Faulty: leaves the list before the thread state is deleted.
FunctionReturnsUnlisting(h) ==
    /\ h # Main /\ pc[h] = "run"
    /\ Unlist(h)
    /\ Goto(h, "free")
    /\ UNCHANGED <<handles, handle, shutdown, forked>>

FunctionReturns(h) ==
    /\ h # Main /\ pc[h] = "run"
    /\ Goto(h, "free")
    /\ UNCHANGED <<handles, shutdown_handles, handle, shutdown, forked>>

\* thread_bootstate_free; the thread state is deleted.
BootFree(h) ==
    /\ pc[h] = "free"
    /\ DecRef(h)
    /\ Goto(h, "unlist")
    /\ UNCHANGED <<exiting, once, object, daemon, ready, shutdown_handles, handle,
                   shutdown, forked>>

ThreadUnlist(h) ==
    /\ pc[h] = "unlist"
    /\ Unlist(h)
    /\ Goto(h, "notify")
    /\ UNCHANGED <<handles, handle, shutdown, forked>>

NotifyExiting(h) ==
    /\ pc[h] = "notify"
    /\ exiting' = [exiting EXCEPT ![h] = TRUE]
    /\ Goto(h, "decref")
    /\ UNCHANGED <<hstate, os_thread, once, refcount, object, daemon, ready,
                   shutdown_handles, handle, shutdown, forked>>

\* The last thing the OS thread does.
ThreadDecRef(h) ==
    /\ pc[h] = "decref"
    /\ DecRef(h)
    /\ Goto(h, "gone")
    /\ UNCHANGED <<exiting, once, object, daemon, ready, shutdown_handles, handle,
                   shutdown, forked>>

(***************************************************************************)
(* ThreadHandle_join.                                                      *)
(***************************************************************************)

Join(t, h) ==
    /\ pc[t] = "run" /\ object[h]
    /\ handle' = [handle EXCEPT ![t] = h]
    /\ Goto(t, "check")
    /\ UNCHANGED <<handles, shutdown_handles, shutdown, forked>>

\* A thread that is not started, or is one's own and still runs, is no one to
\* wait for.
JoinCheck(t) ==
    LET h == handle[t] IN
    /\ pc[t] = "check"
    /\ IF hstate[h] \in {"NOT_STARTED", "STARTING"} \/ (~exiting[h] /\ h = t)
       THEN Raise(t) ELSE Goto(t, "wait") /\ UNCHANGED handle
    /\ UNCHANGED <<handles, shutdown_handles, shutdown, forked>>

JoinWait(t) ==
    /\ pc[t] = "wait" /\ exiting[handle[t]]
    /\ Goto(t, "once")
    /\ UNCHANGED <<handles, shutdown_handles, handle, shutdown, forked>>

\* The timeout expires, or a signal's handler raises an exception; _shutdown
\* waits without a timeout.
JoinGivesUp(t) ==
    /\ pc[t] = "wait" /\ ~exiting[handle[t]]
    /\ Raise(t)
    /\ UNCHANGED <<handles, shutdown_handles, shutdown, forked>>

\* Faulty: does not ask whether another call is about to join the thread.
JoinAtOnce(t) ==
    LET h == handle[t] IN
    /\ pc[t] = "once"
    /\ \/ once[h] = "INITIALIZED" /\ Return(t) /\ UNCHANGED once
       \/ once[h] # "INITIALIZED" /\ once' = [once EXCEPT ![h] = "LOCKED"] /\ Goto(t, "join") /\ UNCHANGED handle
    /\ UNCHANGED <<hstate, os_thread, exiting, refcount, object, daemon, ready,
                   shutdown_handles, shutdown, forked>>

\* _PyOnceFlag_CallOnce of join_thread: one call at a time.
JoinOnce(t) ==
    LET h == handle[t] IN
    /\ pc[t] = "once"
    /\ \/ once[h] = "INITIALIZED" /\ Return(t) /\ UNCHANGED once
       \/ once[h] = "UNLOCKED" /\ once' = [once EXCEPT ![h] = "LOCKED"] /\ Goto(t, "join") /\ UNCHANGED handle
    /\ UNCHANGED <<hstate, os_thread, exiting, refcount, object, daemon, ready,
                   shutdown_handles, shutdown, forked>>

\* The OS thread is over.  (Joining fails only for a thread that joins itself,
\* or is joined or detached already.)
JoinThread(t) ==
    LET h == handle[t] IN
    /\ pc[t] = "join" /\ pc[h] = "gone"
    /\ Reaped(h, "joined")
    /\ hstate' = [hstate EXCEPT ![h] = "DONE"]
    /\ Goto(t, "joined_os")
    /\ UNCHANGED <<exiting, once, refcount, object, daemon, ready,
                   shutdown_handles, handle, shutdown, forked>>

JoinedOnce(t) ==
    /\ pc[t] = "joined_os"
    /\ once' = [once EXCEPT ![handle[t]] = "INITIALIZED"]
    /\ Return(t)
    /\ UNCHANGED <<hstate, os_thread, exiting, refcount, object, daemon, ready,
                   shutdown_handles, shutdown, forked>>

(***************************************************************************)
(* _shutdown, in the main thread.                                          *)
(***************************************************************************)

\* ThreadHandle_set_done of the main thread's own handle, whose once flag no
\* join has got to.
Shutdown ==
    /\ pc[Main] = "run" /\ shutdown = "no"
    /\ once[Main] = "UNLOCKED"
    /\ once' = [once EXCEPT ![Main] = "LOCKED"]
    /\ exiting' = [exiting EXCEPT ![Main] = TRUE]
    /\ shutdown' = "set_done"
    /\ Goto(Main, "set_done")
    /\ UNCHANGED <<hstate, os_thread, refcount, object, daemon, ready, shutdown_handles,
                   handle, forked>>

SetDone ==
    /\ pc[Main] = "set_done"
    /\ hstate' = [hstate EXCEPT ![Main] = "DONE"]
    /\ once' = [once EXCEPT ![Main] = "INITIALIZED"]
    /\ shutdown' = "joining"
    /\ Goto(Main, "next")
    /\ UNCHANGED <<os_thread, exiting, refcount, object, daemon, ready, shutdown_handles,
                   handle, forked>>

\* thread_shutdown joins the first thread of the list, until there is none.
ShutdownNext ==
    /\ pc[Main] = "next" /\ shutdown_handles # <<>>
    /\ handle' = [handle EXCEPT ![Main] = Head(shutdown_handles)]
    /\ IncRef(Head(shutdown_handles))
    /\ Goto(Main, "check")
    /\ UNCHANGED <<hstate, os_thread, exiting, once, object, daemon, ready,
                   shutdown_handles, shutdown, forked>>

ShutdownJoined ==
    /\ pc[Main] = "joined"
    /\ DecRef(handle[Main])
    /\ Goto(Main, "next")
    /\ UNCHANGED <<exiting, once, object, daemon, ready, shutdown_handles, handle,
                   shutdown, forked>>

ShutdownEnds ==
    /\ pc[Main] = "next" /\ shutdown_handles = <<>>
    /\ shutdown' = "done" /\ Goto(Main, "finalize")
    /\ UNCHANGED <<handles, shutdown_handles, handle, forked>>

\* The join has raised an exception.
ShutdownGivesUp ==
    /\ pc[Main] = "gives_up"
    /\ DecRef(handle[Main])
    /\ shutdown' = "gave_up" /\ Goto(Main, "finalize")
    /\ UNCHANGED <<exiting, once, object, daemon, ready, shutdown_handles, handle, forked>>

\* Threads that run on after this are not followed, but for their last steps.
Finalize ==
    /\ pc[Main] = "finalize"
    /\ shutdown' = "finalizing" /\ Goto(Main, "gone")
    /\ UNCHANGED <<handles, shutdown_handles, handle, forked>>

(***************************************************************************)
(* _PyThread_AfterFork, in the child of a fork.                            *)
(***************************************************************************)

\* The handles in _PyRuntime.threads.handles that are of other threads.
Others(t) == {h \in Threads \ {t} : refcount[h] > 0}

\* Faulty: leaves their states as they are.
AfterForkNotState(t) ==
    /\ UNCHANGED hstate
    /\ once' = [h \in Threads |-> IF h \in Others(t) THEN "INITIALIZED" ELSE once[h]]
    /\ exiting' = [h \in Threads |-> h \in Others(t) \/ exiting[h]]

\* The handles of all other threads are done, whatever was going on with them.
AfterFork(t) ==
    /\ hstate' = [h \in Threads |-> IF h \in Others(t) THEN "DONE" ELSE hstate[h]]
    /\ once' = [h \in Threads |-> IF h \in Others(t) THEN "INITIALIZED" ELSE once[h]]
    /\ exiting' = [h \in Threads |-> h \in Others(t) \/ exiting[h]]

Fork(t) ==
    /\ pc[t] = "run" /\ ~forked /\ shutdown = "no"
    /\ forked' = TRUE
    /\ AfterFork(t)
    /\ os_thread' = [h \in Threads |-> IF h # t /\ os_thread[h] = "owned" THEN "lost"
                                                                     ELSE os_thread[h]]
    /\ pc' = [u \in Threads |-> IF u = t THEN "run" ELSE "gone"]
    /\ shutdown_handles' = IF t \in ToSet(shutdown_handles) THEN <<t>> ELSE <<>>
    /\ UNCHANGED <<refcount, object, daemon, ready, handle, shutdown>>

Step(t) ==
    \/ Starting(t) \/ CreateThread(t) \/ CannotCreate(t) \/ MarkRunning(t)
    \/ NotifyReady(t) \/ ForceDone(t) \/ ForcedDone(t) \/ StartFails(t)
    \/ Boot(t) \/ BootFree(t) \/ ThreadUnlist(t) \/ NotifyExiting(t) \/ ThreadDecRef(t)
    \/ JoinCheck(t) \/ JoinWait(t) \/ JoinOnce(t) \/ JoinThread(t) \/ JoinedOnce(t)

ShutdownStep ==
    \/ SetDone \/ ShutdownNext \/ ShutdownJoined \/ ShutdownEnds \/ ShutdownGivesUp
    \/ Finalize

Next ==
    \/ \E t \in Threads :
          \/ Step(t) \/ FunctionReturns(t) \/ JoinGivesUp(t) \/ Dealloc(t) \/ Fork(t)
          \/ \E h \in Threads : \/ Start(t, h)
                                \/ Join(t, h)
    \/ Shutdown \/ ShutdownStep

Spec == Init /\ [][Next]_vars

\* A thread in a call, or at its start or its end, runs on.
FairSpec == Spec /\ (\A t \in Threads : WF_vars(Step(t))) /\ WF_vars(ShutdownStep)

(***************************************************************************)
(* Properties.                                                             *)
(***************************************************************************)

TypeOK ==
    /\ hstate \in [Threads -> {"NOT_STARTED", "STARTING", "RUNNING", "DONE"}]
    /\ os_thread \in [Threads -> {"none", "owned", "joined", "detached", "lost", "error"}]
    /\ exiting \in [Threads -> BOOLEAN]
    /\ once \in [Threads -> {"UNLOCKED", "LOCKED", "INITIALIZED"}]
    /\ refcount \in [Threads -> Nat]
    /\ object \in [Threads -> BOOLEAN] /\ ready \in [Threads -> BOOLEAN]
    /\ shutdown_handles \in Seq(Threads)
    /\ handle \in [Threads -> Threads]

\* The handle "owns" the OS thread "and ensures that the thread is either
\* joined or detached after the handle is destroyed", while "the underlying
\* OS thread, if any, is joined or detached only once", and never that of the
\* parent of a fork.
ReapedOnce ==
    \A h \in Threads : /\ os_thread[h] # "error"
                       /\ refcount[h] = 0 => os_thread[h] # "owned"

\* "Once a join has completed successfully all future joins complete
\* immediately" (the assertion at the end of ThreadHandle_join): whoever gets
\* through the once flag finds the handle done, and a started thread gone.
JoinedMeansDone ==
    \A h \in Threads : once[h] = "INITIALIZED" =>
        /\ hstate[h] = "DONE"
        /\ os_thread[h] # "owned" \/ pc[h] = "gone"

\* A handle is in use only while it is referred to: by its object, the list,
\* the thread that it starts and the calls about it.
AliveInUse ==
    \A h \in Threads : refcount[h] = 0 =>
        /\ ~object[h]
        /\ h \notin ToSet(shutdown_handles)
        /\ pc[h] \in {"unborn", "gone"}
        /\ \A t \in Threads : handle[t] = h => pc[t] \notin InCall

\* The handle's life and that of its OS thread end as they should.
HandleLifetime == TypeOK /\ ReapedOnce /\ AliveInUse

\* Everybody who joins a thread returns once it has exited, however many they
\* are, and so do those that join a handle in the child of a fork.
JoinsReturn ==
    \A t \in Threads : []<>~(pc[t] \in InJoin /\ exiting[handle[t]])

\* "Wait for all non-daemon threads (other than the calling thread) to stop":
\* unless it gives up, no non-daemon thread runs any more when it is over.
ShutdownWaits ==
    [][shutdown = "joining" /\ shutdown' = "done" =>
          \A h \in Threads \ {Main} :
             ~daemon[h] /\ ready[h] => pc[h] \in {"notify", "decref", "gone"}]_vars

=============================================================================

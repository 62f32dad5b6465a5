-------------------------------- MODULE GIL --------------------------------
(***************************************************************************)
(* The global interpreter lock (Python/ceval_gil.c) of a build that has    *)
(* it, with FORCE_SWITCHING.  A thread that wants the GIL waits for an     *)
(* interval at a time and then asks the holder to drop it; a holder that   *)
(* drops the GIL with such a request pending waits until another thread    *)
(* has taken it.                                                           *)
(*                                                                         *)
(* Each section under gil->mutex or gil->switch_mutex is one step: what is *)
(* outside both, the store of last_holder, the test of the eval breaker    *)
(* and the reset of an abandoned request, are steps of their own.          *)
(* Condition variables do not wake spuriously, which would only spoil a    *)
(* forced switch; no thread state is swapped for another.                  *)
(***************************************************************************)
EXTENDS Naturals, FiniteSets

CONSTANTS Threads, NoThread

Parameters == NoThread \notin Threads

VARIABLES locked,          \* gil->locked
          last_holder,     \* gil->last_holder
          drop_request,    \* _PY_GIL_DROP_REQUEST_BIT of each eval breaker
          drop_requested,  \* the local of take_gil
          switched,        \* has switch_number changed since it was saved?
          abandoned,       \* the holder_tstate of a thread that exits
          pc,              \* where each thread is
          finalizing,      \* the thread in Py_Finalize
          forked           \* is this the child of a fork?

gil == <<locked, last_holder>>
takers == <<drop_requested, switched, abandoned>>
vars == <<gil, drop_request, takers, pc, finalizing, forked>>

PC == {"out", "take", "cond", "signaled", "timed_out", "run", "dropping", "dropped",
       "switch", "switch_wait", "final_drop", "reset", "gone"}

Init ==
    /\ locked = FALSE
    /\ last_holder = NoThread
    /\ drop_request = [t \in Threads |-> FALSE]
    /\ drop_requested = [t \in Threads |-> FALSE]
    /\ switched = [t \in Threads |-> FALSE]
    /\ abandoned = [t \in Threads |-> NoThread]
    /\ pc = [t \in Threads |-> "out"]
    /\ finalizing = NoThread
    /\ forked = FALSE

Goto(t, label) == pc' = [pc EXCEPT ![t] = label]

\* _PyThreadState_MustExit.
MustExit(t) == finalizing \notin {NoThread, t}

InCond == {t \in Threads : pc[t] = "cond"}

\* pc, when t goes to label and a waiter of the condition variable, if there
\* is one, is signaled.
GotoSignaling(t, label, waiting, woken) ==
    IF waiting = {} THEN Goto(t, label)
    ELSE \E u \in waiting : pc' = [pc EXCEPT ![t] = label, ![u] = woken]

(***************************************************************************)
(* take_gil.                                                               *)
(***************************************************************************)

Take(t) ==
    /\ pc[t] = "out"
    /\ Goto(t, IF MustExit(t) THEN "gone" ELSE "take")
    /\ drop_requested' = [drop_requested EXCEPT ![t] = FALSE]
    /\ UNCHANGED <<gil, drop_request, switched, abandoned, finalizing, forked>>

\* The GIL is free: t takes it, and the thread that waits for the switch is
\* signaled; a thread that must exit drops it again.
Acquire(t) ==
    /\ locked' = TRUE /\ last_holder' = t
    /\ switched' = [u \in Threads |-> switched[u] \/ last_holder # t]
    /\ IF MustExit(t) THEN UNCHANGED drop_request
                      ELSE drop_request' = [drop_request EXCEPT ![t] = FALSE]
    /\ GotoSignaling(t, IF MustExit(t) THEN "final_drop" ELSE "run",
                     {u \in Threads : pc[u] = "switch_wait"}, "out")
    /\ UNCHANGED <<drop_requested, abandoned, finalizing, forked>>

\* COND_TIMED_WAIT, once switch_number is saved.
WaitAgain(t) ==
    /\ switched' = [switched EXCEPT ![t] = FALSE]
    /\ Goto(t, "cond")

\* Faulty: takes the GIL because of the signal.
TakeLoopTrusting(t) ==
    /\ pc[t] \in {"take", "signaled"}
    /\ \/ (~locked \/ pc[t] = "signaled") /\ Acquire(t)
       \/ /\ locked /\ pc[t] = "take"
          /\ WaitAgain(t)
          /\ UNCHANGED <<gil, drop_request, drop_requested, abandoned, finalizing, forked>>

\* The GIL may have been taken by another thread since the signal.
TakeLoop(t) ==
    /\ pc[t] \in {"take", "signaled"}
    /\ \/ ~locked /\ Acquire(t)
       \/ /\ locked
          /\ WaitAgain(t)
          /\ UNCHANGED <<gil, drop_request, drop_requested, abandoned, finalizing, forked>>

\* The interval has passed.
IntervalEnds(t) ==
    /\ pc[t] = "cond"
    /\ Goto(t, "timed_out")
    /\ UNCHANGED <<gil, drop_request, takers, finalizing, forked>>

\* The GIL is still held; if no switch has occurred the holder is asked to
\* drop it.
TimedOut(t) ==
    /\ pc[t] = "timed_out"
    /\ \/ ~locked /\ Acquire(t)
       \/ /\ locked /\ (switched[t] \/ ~MustExit(t))
          /\ WaitAgain(t)
          /\ IF switched[t] THEN UNCHANGED <<drop_request, drop_requested>>
             ELSE /\ drop_request' = [drop_request EXCEPT ![last_holder] = TRUE]
                  /\ drop_requested' = [drop_requested EXCEPT ![t] = TRUE]
          /\ UNCHANGED <<gil, abandoned, finalizing, forked>>

\* A thread that must exit does; if it has made a request it takes it back,
\* which it does without the mutex.
WaiterExits(t) ==
    /\ pc[t] = "timed_out" /\ locked /\ ~switched[t] /\ MustExit(t)
    /\ Goto(t, IF drop_requested[t] THEN "reset" ELSE "gone")
    /\ abandoned' = [abandoned EXCEPT ![t] = IF drop_requested[t] THEN last_holder ELSE NoThread]
    /\ UNCHANGED <<gil, drop_request, drop_requested, switched, finalizing, forked>>

ResetRequest(t) ==
    /\ pc[t] = "reset"
    /\ drop_request' = [drop_request EXCEPT ![abandoned[t]] = FALSE]
    /\ abandoned' = [abandoned EXCEPT ![t] = NoThread]
    /\ Goto(t, "gone")
    /\ UNCHANGED <<gil, drop_requested, switched, finalizing, forked>>

(***************************************************************************)
(* drop_gil.                                                               *)
(***************************************************************************)

\* Before a call that may block, or on request (_Py_HandlePending).
Detach(t) ==
    /\ pc[t] = "run"
    /\ last_holder' = t
    /\ Goto(t, "dropping")
    /\ UNCHANGED <<locked, drop_request, takers, finalizing, forked>>

HandlePending(t) == drop_request[t] /\ Detach(t)

\* drop_gil_impl, of a release that is the thread's last or not.
DropImpl(t) ==
    /\ pc[t] \in {"dropping", "final_drop"}
    /\ locked' = FALSE
    /\ GotoSignaling(t, IF pc[t] = "dropping" THEN "dropped" ELSE "gone", InCond, "signaled")
    /\ UNCHANGED <<last_holder, drop_request, takers, finalizing, forked>>

\* The thread ends.
FinalDrop(t) ==
    /\ pc[t] = "run" /\ finalizing # t
    /\ Goto(t, "final_drop")
    /\ UNCHANGED <<gil, drop_request, takers, finalizing, forked>>

\* Faulty: heeds no request.
DroppedCareless(t) ==
    /\ pc[t] = "dropped"
    /\ Goto(t, "out")
    /\ UNCHANGED <<gil, drop_request, takers, finalizing, forked>>

\* Is a request pending?
Dropped(t) ==
    /\ pc[t] = "dropped"
    /\ Goto(t, IF drop_request[t] THEN "switch" ELSE "out")
    /\ UNCHANGED <<gil, drop_request, takers, finalizing, forked>>

\* Faulty: does not see whether another thread has taken the GIL already.
SwitchUnchecked(t) ==
    /\ pc[t] = "switch"
    /\ drop_request' = [drop_request EXCEPT ![t] = FALSE]
    /\ Goto(t, "switch_wait")
    /\ UNCHANGED <<gil, takers, finalizing, forked>>

\* Unless another thread has taken the GIL already, t waits until one does.
Switch(t) ==
    /\ pc[t] = "switch"
    /\ IF last_holder = t
       THEN drop_request' = [drop_request EXCEPT ![t] = FALSE] /\ Goto(t, "switch_wait")
       ELSE UNCHANGED drop_request /\ Goto(t, "out")
    /\ UNCHANGED <<gil, takers, finalizing, forked>>

(***************************************************************************)
(* Finalization and fork.                                                  *)
(***************************************************************************)

\* Py_Finalize: all other threads must exit.
Finalize(t) ==
    /\ pc[t] = "run" /\ finalizing = NoThread
    /\ finalizing' = t
    /\ UNCHANGED <<gil, drop_request, takers, pc, forked>>

\* _PyEval_ReInitThreads: the child makes the GIL anew and takes it.
ReInit(t) ==
    /\ locked' = TRUE /\ last_holder' = t
    /\ drop_request' = [drop_request EXCEPT ![t] = FALSE]

Fork(t) ==
    /\ pc[t] = "run" /\ ~forked /\ finalizing = NoThread
    /\ ReInit(t)
    /\ pc' = [u \in Threads |-> IF u = t THEN "run" ELSE "gone"]
    /\ forked' = TRUE
    /\ UNCHANGED <<takers, finalizing>>

Step(t) ==
    \/ Take(t) \/ TakeLoop(t) \/ IntervalEnds(t) \/ TimedOut(t)
    \/ WaiterExits(t) \/ ResetRequest(t)
    \/ HandlePending(t) \/ DropImpl(t) \/ Dropped(t) \/ Switch(t)

Next ==
    \E t \in Threads : Step(t) \/ Detach(t) \/ FinalDrop(t) \/ Finalize(t) \/ Fork(t)

Spec == Init /\ [][Next]_vars

\* A thread runs on, and looks at its eval breaker; nobody has to drop the GIL
\* of his own accord.
FairSpec == Spec /\ \A t \in Threads : WF_vars(Step(t))

(***************************************************************************)
(* Properties.                                                             *)
(***************************************************************************)

TypeOK ==
    /\ locked \in BOOLEAN /\ last_holder \in Threads \cup {NoThread}
    /\ drop_request \in [Threads -> BOOLEAN]
    /\ drop_requested \in [Threads -> BOOLEAN]
    /\ switched \in [Threads -> BOOLEAN]
    /\ abandoned \in [Threads -> Threads \cup {NoThread}]
    /\ pc \in [Threads -> PC]
    /\ finalizing \in Threads \cup {NoThread} /\ forked \in BOOLEAN

Holding == {t \in Threads : pc[t] \in {"run", "dropping", "final_drop"}}

OneHolder ==
    /\ locked <=> Holding # {}
    /\ \A t \in Holding : last_holder = t

\* "holds_gil is the source of truth; check that last_holder and gil->locked
\* are consistent with it": one thread at most holds the GIL, it is locked
\* when one does, and a request goes to nobody else.
HolderConsistent == TypeOK /\ OneHolder

\* "it is time to ask the GIL-holding thread to drop it": a thread that is
\* asked to, be it after it has decided to drop the GIL, does not take it again
\* before another thread has had it.
RequestSwitches ==
    [][\A t \in Threads : t \in Holding' \ Holding /\ last_holder = t
                               => ~drop_request[t]]_vars

\* "Not switched yet => wait": unless the interpreter is finalized, the thread
\* that waits for the switch goes on, since it does not miss the signal.
DropperResumes ==
    \A t \in Threads : []<>(pc[t] # "switch_wait" \/ finalizing # NoThread)

\* "reset the request.  Otherwise, drop_gil() can block forever waiting for
\* the thread which exited": whoever waits for the switch has someone to wait
\* for, who has not decided to exit.
SwitchHasTaker ==
    \A t \in Threads : pc[t] = "switch_wait" =>
        \E u \in Threads : pc[u] \notin {"switch_wait", "reset", "gone"}

=============================================================================

------------------------------ MODULE PyEvent ------------------------------
(***************************************************************************)
(* PyEvent (Python/lock.c): a flag that is set once and wakes everyone who *)
(* waits for it.  Its byte is _Py_UNLOCKED (not set, nobody waits),        *)
(* _Py_HAS_PARKED (not set, somebody may wait) or _Py_LOCKED (set).        *)
(***************************************************************************)
EXTENDS ParkingLot

CONSTANTS event,           \* the address of the event
          Interruptible    \* may a semaphore wait end with Py_PARK_INTR?

Parameters == event \in Addrs /\ Interruptible \in BOOLEAN

VARIABLES evt,     \* evt->v
          timed,   \* a thread is in PyEvent_WaitTimed, not in PyEvent_Wait
          pc,      \* where it is
          ret      \* what its _PyParkingLot_Park returned

vars == <<lotVars, addr, evt, timed, pc, ret>>

Values == {"UNLOCKED", "HAS_PARKED", "LOCKED"}

PC == {"idle", "load", "mark", "park", "parked", "check", "unpark", "wake"}

Init ==
    /\ LotInit
    /\ evt = "UNLOCKED"
    /\ timed = [t \in Threads |-> FALSE]
    /\ pc = [t \in Threads |-> "idle"]
    /\ ret = [t \in Threads |-> "OK"]

Goto(t, label) == pc' = [pc EXCEPT ![t] = label]

Return(t) == Goto(t, "idle") /\ addr' = [addr EXCEPT ![t] = NoAddr]

(***************************************************************************)
(* PyEvent_Wait and PyEvent_WaitTimed.                                     *)
(***************************************************************************)

Wait(t, with_timeout) ==
    /\ pc[t] = "idle"
    /\ addr' = [addr EXCEPT ![t] = event]
    /\ timed' = [timed EXCEPT ![t] = with_timeout]
    /\ Goto(t, "load")
    /\ UNCHANGED <<lotVars, evt, ret>>

WaitLoad(t) ==
    /\ pc[t] = "load"
    /\ \/ evt = "LOCKED" /\ Return(t)
       \/ evt = "UNLOCKED" /\ Goto(t, "mark") /\ UNCHANGED addr
       \/ evt = "HAS_PARKED" /\ Goto(t, "park") /\ UNCHANGED addr
    /\ UNCHANGED <<lotVars, evt, timed, ret>>

\* The compare-and-swap from _Py_UNLOCKED to _Py_HAS_PARKED.
WaitMark(t) ==
    /\ pc[t] = "mark"
    /\ \/ evt = "UNLOCKED" /\ evt' = "HAS_PARKED" /\ Goto(t, "park")
       \/ evt # "UNLOCKED" /\ Goto(t, "load") /\ UNCHANGED evt
    /\ UNCHANGED <<lotVars, addr, timed, ret>>

\* Faulty: joins the queue without looking at the event again.
WaitParkUnchecked(t) ==
    /\ pc[t] = "park"
    /\ Enqueue(t) /\ Goto(t, "parked")
    /\ UNCHANGED <<addr, evt, timed, ret>>

\* _PyParkingLot_Park, up to its semaphore wait.
WaitPark(t) ==
    /\ pc[t] = "park"
    /\ \/ evt = "HAS_PARKED" /\ Enqueue(t) /\ Goto(t, "parked") /\ UNCHANGED ret
       \/ /\ evt # "HAS_PARKED"
          /\ ret' = [ret EXCEPT ![t] = "AGAIN"]
          /\ Goto(t, "check")
          /\ UNCHANGED lotVars
    /\ UNCHANGED <<addr, evt, timed>>

\* The wait ends, in any way.
WaitParked(t) ==
    /\ pc[t] = "parked"
    /\ \/ /\ ParkOK(t)
          /\ ret' = [ret EXCEPT ![t] = "OK"]
          /\ Goto(t, "check")
       \/ \E why \in Failures :
             /\ ParkCancelled(t, why)
             /\ ret' = [ret EXCEPT ![t] = why]
             /\ Goto(t, "check")
       \/ ParkRechecked(t) /\ UNCHANGED <<pc, ret>>
    /\ UNCHANGED <<addr, evt, timed>>

WaitFails(t, why) ==
    /\ pc[t] = "parked"
    /\ IF why = "TIMEOUT" THEN timed[t] ELSE Interruptible
    /\ ParkFails(t, why)
    /\ UNCHANGED <<addr, evt, timed, pc, ret>>

\* Whether the event is set is what PyEvent_WaitTimed returns, whatever the
\* wait returned; PyEvent_Wait calls it until it is.
WaitCheck(t) ==
    /\ pc[t] = "check"
    /\ \/ (evt = "LOCKED" \/ timed[t]) /\ Return(t)
       \/ evt # "LOCKED" /\ ~timed[t] /\ Goto(t, "load") /\ UNCHANGED addr
    /\ ret' = [ret EXCEPT ![t] = "OK"]
    /\ UNCHANGED <<lotVars, evt, timed>>

(***************************************************************************)
(* _PyEvent_Notify.                                                        *)
(***************************************************************************)

\* Faulty: wakes the waiters and leaves it at that.
NotifyUnset(t) ==
    /\ pc[t] = "idle"
    /\ evt' = IF evt = "HAS_PARKED" THEN evt ELSE "LOCKED"
    /\ IF evt = "HAS_PARKED"
       THEN Goto(t, "unpark") /\ addr' = [addr EXCEPT ![t] = event]
       ELSE UNCHANGED <<pc, addr>>
    /\ UNCHANGED <<lotVars, timed, ret>>

\* The exchange; there is something to wake if it was _Py_HAS_PARKED.
Notify(t) ==
    /\ pc[t] = "idle"
    /\ evt' = "LOCKED"
    /\ IF evt = "HAS_PARKED"
       THEN Goto(t, "unpark") /\ addr' = [addr EXCEPT ![t] = event]
       ELSE UNCHANGED <<pc, addr>>
    /\ UNCHANGED <<lotVars, timed, ret>>

\* t's last wakeup is given: its call returns.
Woke(t) ==
    IF to_wake'[t] = <<>> THEN Return(t) ELSE Goto(t, "wake") /\ UNCHANGED addr

\* _PyParkingLot_UnparkAll, up to its wakeups.
NotifyUnpark(t) ==
    /\ pc[t] = "unpark"
    /\ DequeueAll(t, addr[t])
    /\ Woke(t)
    /\ UNCHANGED <<evt, timed, ret>>

NotifyWake(t) ==
    /\ pc[t] = "wake"
    /\ Wakeup(t)
    /\ Woke(t)
    /\ UNCHANGED <<evt, timed, ret>>

Step(t) ==
    \/ WaitLoad(t) \/ WaitMark(t) \/ WaitPark(t) \/ WaitParked(t) \/ WaitCheck(t)
    \/ NotifyUnpark(t) \/ NotifyWake(t)

Next ==
    \E t \in Threads :
        \/ \E with_timeout \in BOOLEAN : Wait(t, with_timeout)
        \/ Notify(t)
        \/ Step(t)
        \/ \E why \in Failures : WaitFails(t, why)

Spec == Init /\ [][Next]_vars

\* A thread in a call runs on; nobody has to call.
FairSpec == Spec /\ \A t \in Threads : WF_vars(Step(t))

(***************************************************************************)
(* Properties.                                                             *)
(***************************************************************************)

TypeOK ==
    /\ LotTypeOK
    /\ evt \in Values
    /\ timed \in [Threads -> BOOLEAN]
    /\ pc \in [Threads -> PC]
    /\ ret \in [Threads -> {"OK", "AGAIN"} \cup Failures]

\* PyEvent_WaitTimed "returns 1 if the event was set, and 0 if the timeout
\* expired or thread was interrupted": when neither happened, the result it
\* is about to read is that the event is set.
WokenMeansSet ==
    \A t \in Threads :
        pc[t] = "check" /\ ret[t] \in {"OK", "AGAIN"} => evt = "LOCKED"

\* Once the event is set, everybody who waits for it returns, even those
\* that wait without a timeout: no waiter that marks itself takes back the
\* notification.
SetReleasesAll ==
    \A t \in Threads : []<>(evt = "LOCKED" => pc[t] = "idle")

=============================================================================

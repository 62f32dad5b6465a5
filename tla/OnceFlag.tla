------------------------------ MODULE OnceFlag ------------------------------
(***************************************************************************)
(* _PyOnceFlag (Python/lock.c): runs an initialisation function until it   *)
(* succeeds once.  The byte is 0, _Py_ONCE_INITIALIZED, or _Py_LOCKED with *)
(* or without _Py_HAS_PARKED while a thread runs the function.             *)
(***************************************************************************)
EXTENDS Integers, ParkingLot

CONSTANTS once,            \* the address of the flag
          Interruptible    \* may a semaphore wait end with Py_PARK_INTR?

Parameters == once \in Addrs /\ Interruptible \in BOOLEAN

VARIABLES flag,   \* flag->v
          pc,     \* where each thread is
          v,      \* its local copy of the flag
          res     \* the result of its call: that of fn, or 0

vars == <<lotVars, addr, flag, pc, v, res>>

Values == {"UNLOCKED", "LOCKED", "LOCKED+HAS_PARKED", "ONCE_INITIALIZED"}

PC == {"idle", "load", "loop", "fn", "parked", "unlock", "unpark", "wake"}

Init ==
    /\ LotInit
    /\ flag = "UNLOCKED"
    /\ pc = [t \in Threads |-> "idle"]
    /\ v = [t \in Threads |-> "UNLOCKED"]
    /\ res = [t \in Threads |-> -1]

Goto(t, label) == pc' = [pc EXCEPT ![t] = label]

\* The call returns res.
Return(t) == Goto(t, "idle") /\ addr' = [addr EXCEPT ![t] = NoAddr]

CASFails(t) ==
    /\ flag # v[t]
    /\ v' = [v EXCEPT ![t] = flag]
    /\ UNCHANGED <<flag, pc>>

\* _PyOnceFlag_CallOnce: returns at once when the flag is set.
CallOnce(t) ==
    /\ pc[t] = "idle"
    /\ IF flag = "ONCE_INITIALIZED"
       THEN res' = [res EXCEPT ![t] = 0] /\ UNCHANGED <<addr, pc>>
       ELSE Goto(t, "load") /\ addr' = [addr EXCEPT ![t] = once] /\ UNCHANGED res
    /\ UNCHANGED <<lotVars, flag, v>>

\* The load at the start of the slow path, and after each wait.
Load(t) ==
    /\ pc[t] = "load"
    /\ v' = [v EXCEPT ![t] = flag]
    /\ Goto(t, "loop")
    /\ UNCHANGED <<lotVars, addr, flag, res>>

\* Faulty: a store, where another thread may have started in the meantime.
StartByStore(t) ==
    /\ pc[t] = "loop"
    /\ v[t] = "UNLOCKED"
    /\ flag' = "LOCKED" /\ Goto(t, "fn")
    /\ UNCHANGED <<lotVars, addr, v, res>>

\* The thread whose compare-and-swap succeeds runs the function.
Start(t) ==
    /\ pc[t] = "loop"
    /\ v[t] = "UNLOCKED"
    /\ \/ CASFails(t)
       \/ flag = v[t] /\ flag' = "LOCKED" /\ Goto(t, "fn") /\ UNCHANGED v
    /\ UNCHANGED <<lotVars, addr, res>>

AlreadyDone(t) ==
    /\ pc[t] = "loop"
    /\ v[t] = "ONCE_INITIALIZED"
    /\ res' = [res EXCEPT ![t] = 0]
    /\ Return(t)
    /\ UNCHANGED <<lotVars, flag, v>>

\* The first thread to wait sets _Py_HAS_PARKED.
Mark(t) ==
    /\ pc[t] = "loop"
    /\ v[t] = "LOCKED"
    /\ \/ CASFails(t)
       \/ /\ flag = v[t]
          /\ flag' = "LOCKED+HAS_PARKED"
          /\ v' = [v EXCEPT ![t] = flag']
          /\ UNCHANGED pc
    /\ UNCHANGED <<lotVars, addr, res>>

\* Faulty: joins the queue without comparing the flag again.
ParkUnchecked(t) ==
    /\ pc[t] = "loop"
    /\ v[t] = "LOCKED+HAS_PARKED"
    /\ Enqueue(t) /\ Goto(t, "parked")
    /\ UNCHANGED <<addr, flag, v, res>>

\* _PyParkingLot_Park, up to its semaphore wait.
Park(t) ==
    /\ pc[t] = "loop"
    /\ v[t] = "LOCKED+HAS_PARKED"
    /\ \/ flag = v[t] /\ Enqueue(t) /\ Goto(t, "parked")
       \/ flag # v[t] /\ Goto(t, "load") /\ UNCHANGED lotVars
    /\ UNCHANGED <<addr, flag, v, res>>

\* The wait ends, in any way; the caller ignores which.
Parked(t) ==
    /\ pc[t] = "parked"
    /\ \/ (ParkOK(t) \/ ParkCancelled(t, "INTR")) /\ Goto(t, "load")
       \/ ParkRechecked(t) /\ UNCHANGED pc
    /\ UNCHANGED <<addr, flag, v, res>>

WaitInterrupted(t) ==
    /\ Interruptible
    /\ pc[t] = "parked"
    /\ ParkFails(t, "INTR")
    /\ UNCHANGED <<addr, flag, pc, v, res>>

\* The function, which belongs to the caller, succeeds or fails.
FnReturns(t) ==
    /\ pc[t] = "fn"
    /\ \E r \in {0, -1} : res' = [res EXCEPT ![t] = r]
    /\ Goto(t, "unlock")
    /\ UNCHANGED <<lotVars, addr, flag, v>>

\* What unlock_once stores: after a failure the next caller tries again.
NewValue(t) == IF res[t] = 0 THEN "ONCE_INITIALIZED" ELSE "UNLOCKED"

\* unlock_once: the exchange.
UnlockOnce(t) ==
    /\ pc[t] = "unlock"
    /\ flag' = NewValue(t)
    /\ IF flag = "LOCKED+HAS_PARKED"
       THEN Goto(t, "unpark") /\ UNCHANGED addr
       ELSE Return(t)
    /\ UNCHANGED <<lotVars, v, res>>

\* t's last wakeup is given: its call returns.
Woke(t) ==
    IF to_wake'[t] = <<>> THEN Return(t) ELSE Goto(t, "wake") /\ UNCHANGED addr

\* _PyParkingLot_UnparkAll, up to its wakeups.
Unpark(t) ==
    /\ pc[t] = "unpark"
    /\ DequeueAll(t, addr[t])
    /\ Woke(t)
    /\ UNCHANGED <<flag, v, res>>

Wake(t) ==
    /\ pc[t] = "wake"
    /\ Wakeup(t)
    /\ Woke(t)
    /\ UNCHANGED <<flag, v, res>>

Step(t) ==
    \/ Load(t) \/ Start(t) \/ AlreadyDone(t) \/ Mark(t) \/ Park(t) \/ Parked(t)
    \/ FnReturns(t) \/ UnlockOnce(t) \/ Unpark(t) \/ Wake(t)

Next == \E t \in Threads : CallOnce(t) \/ Step(t) \/ WaitInterrupted(t)

Spec == Init /\ [][Next]_vars

\* A thread in a call runs on, and the function returns.
FairSpec == Spec /\ \A t \in Threads : WF_vars(Step(t))

(***************************************************************************)
(* Properties.                                                             *)
(***************************************************************************)

TypeOK ==
    /\ LotTypeOK
    /\ flag \in Values
    /\ pc \in [Threads -> PC]
    /\ v \in [Threads -> Values]
    /\ res \in [Threads -> {0, -1}]

Running == {t \in Threads : pc[t] \in {"fn", "unlock"}}

\* The function never runs in two threads at a time, nor again after it has
\* succeeded, and the flag says whether it is running.
OneRunner ==
    /\ \A t, u \in Running : t = u
    /\ flag \in {"LOCKED", "LOCKED+HAS_PARKED"} <=> Running # {}

\* A call returns 0 when, and only when, the function has succeeded: a waiter
\* woken by a failure tries again, and a failure does not pass for a success.
ZeroMeansInitialized ==
    (\E t \in Threads : pc[t] # "unlock" /\ res[t] = 0) <=> flag = "ONCE_INITIALIZED"

\* "If fn returns 0 (success), then subsequent calls immediately return 0":
\* the function runs in one thread at a time until it has succeeded once, and
\* that no thread, however stale its copy of the flag, takes back.
RunsOnce == OneRunner /\ ZeroMeansInitialized

\* Nobody is left asleep: whoever waits for the initialisation goes on once
\* the function has succeeded, and after a failure too.
SleepersWake == \A t \in Threads : []<>(pc[t] # "parked")

=============================================================================

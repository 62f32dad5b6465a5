------------------------------ MODULE PyMutex ------------------------------
(***************************************************************************)
(* PyMutex (Python/lock.c): a one-byte lock over the parking lot.  Two     *)
(* bits say whether it is locked and whether threads may be parked on it.  *)
(* The unlocking thread wakes one waiter, which competes for the lock      *)
(* again; a waiter that has waited longer than TIME_TO_BE_FAIR_NS is       *)
(* handed the lock instead.                                                *)
(*                                                                         *)
(* Each atomic load and compare-and-swap of the byte is a step of its own. *)
(* Spinning (MAX_SPIN_COUNT, zero with the GIL) reads and writes nothing   *)
(* shared and is left out.                                                 *)
(***************************************************************************)
EXTENDS ParkingLot

CONSTANTS Timeouts,        \* the timeouts passed to _PyMutex_LockTimed
          Interruptible    \* may a semaphore wait end with Py_PARK_INTR?

Mutexes == Addrs

ASSUME PyMutexAssumption ==
         /\ Timeouts \subseteq {"forever", "finite", "zero"}
         /\ Interruptible \in BOOLEAN

VARIABLES bits,        \* m->_bits of each mutex
          pc,          \* where each thread is
          v,           \* its local copy of its mutex's bits
          timeout,     \* what is left of its timeout
          handle,      \* did it pass _PY_LOCK_HANDLE_SIGNALS?
          late,        \* is now past its entry.time_to_be_fair?
          handed_off   \* its entry.handed_off

locals == <<v, timeout, handle, late, handed_off>>
vars == <<lotVars, addr, bits, pc, locals>>

Bits == SUBSET {"LOCKED", "HAS_PARKED"}

PC == {"idle", "lock_load", "lock_loop", "lock_parked", "lock_again",
       "locked", "unlock_load", "unlock_loop", "unlock_wake"}

Init ==
    /\ LotInit
    /\ bits = [m \in Mutexes |-> {}]
    /\ pc = [t \in Threads |-> "idle"]
    /\ v = [t \in Threads |-> {}]
    /\ timeout = [t \in Threads |-> "forever"]
    /\ handle = [t \in Threads |-> FALSE]
    /\ late = [t \in Threads |-> FALSE]
    /\ handed_off = [t \in Threads |-> FALSE]

Goto(t, label) == pc' = [pc EXCEPT ![t] = label]

SetV(t, b) == v' = [v EXCEPT ![t] = b]

\* The locals of a call die with it.
ResetLocals(t) ==
    /\ SetV(t, {})
    /\ timeout' = [timeout EXCEPT ![t] = "forever"]
    /\ handle' = [handle EXCEPT ![t] = FALSE]
    /\ late' = [late EXCEPT ![t] = FALSE]
    /\ handed_off' = [handed_off EXCEPT ![t] = FALSE]

\* The call returns with the lock (PY_LOCK_ACQUIRED) or without it
\* (PY_LOCK_FAILURE, PY_LOCK_INTR, or an unlock).
ReturnLocked(t) == Goto(t, "locked") /\ ResetLocals(t) /\ UNCHANGED addr

ReturnIdle(t) ==
    /\ Goto(t, "idle")
    /\ ResetLocals(t)
    /\ addr' = [addr EXCEPT ![t] = NoAddr]

\* The compare-and-swap of t's mutex from old to new fails: it loads v.
CASFails(t, old) ==
    /\ bits[addr[t]] # old
    /\ SetV(t, bits[addr[t]])
    /\ UNCHANGED <<lotVars, addr, bits, pc, timeout, handle, late, handed_off>>

CAS(t, old, new) ==
    /\ bits[addr[t]] = old
    /\ bits' = [bits EXCEPT ![addr[t]] = new]

(***************************************************************************)
(* Lock.                                                                   *)
(***************************************************************************)

\* PyMutex_Lock: one compare-and-swap, then _PyMutex_LockTimed for ever.
Lock(t, m) ==
    /\ pc[t] = "idle"
    /\ addr' = [addr EXCEPT ![t] = m]
    /\ \/ /\ bits[m] = {}
          /\ bits' = [bits EXCEPT ![m] = {"LOCKED"}]
          /\ Goto(t, "locked")
       \/ /\ bits[m] # {}
          /\ Goto(t, "lock_load")
          /\ UNCHANGED bits
    /\ UNCHANGED <<lotVars, locals>>

LockTimed(t, m, time, signals) ==
    /\ pc[t] = "idle"
    /\ addr' = [addr EXCEPT ![t] = m]
    /\ timeout' = [timeout EXCEPT ![t] = time]
    /\ handle' = [handle EXCEPT ![t] = signals]
    /\ Goto(t, "lock_load")
    /\ UNCHANGED <<lotVars, bits, v, late, handed_off>>

LockLoad(t) ==
    /\ pc[t] = "lock_load"
    /\ SetV(t, bits[addr[t]])
    /\ Goto(t, "lock_loop")
    /\ UNCHANGED <<lotVars, addr, bits, timeout, handle, late, handed_off>>

\* Unlocked: try to grab the lock, keeping HAS_PARKED.
LockGrab(t) ==
    /\ pc[t] = "lock_loop"
    /\ "LOCKED" \notin v[t]
    /\ \/ CASFails(t, v[t])
       \/ /\ CAS(t, v[t], v[t] \cup {"LOCKED"})
          /\ ReturnLocked(t)
          /\ UNCHANGED lotVars

\* Locked, and no time is left.
LockFails(t) ==
    /\ pc[t] = "lock_loop"
    /\ "LOCKED" \in v[t]
    /\ timeout[t] = "zero"
    /\ ReturnIdle(t)
    /\ UNCHANGED <<lotVars, bits>>

\* Locked, and we are the first waiter: set HAS_PARKED.
LockMark(t) ==
    LET newv == v[t] \cup {"HAS_PARKED"} IN
    /\ pc[t] = "lock_loop"
    /\ "LOCKED" \in v[t] /\ "HAS_PARKED" \notin v[t]
    /\ timeout[t] # "zero"
    /\ \/ CASFails(t, v[t])
       \/ /\ CAS(t, v[t], newv)
          /\ SetV(t, newv)
          /\ UNCHANGED <<lotVars, addr, pc, timeout, handle, late, handed_off>>

\* Faulty: joins the queue without comparing the bits again.
LockParkUnchecked(t) ==
    /\ pc[t] = "lock_loop"
    /\ v[t] = {"LOCKED", "HAS_PARKED"}
    /\ timeout[t] # "zero"
    /\ Enqueue(t)
    /\ Goto(t, "lock_parked")
    /\ UNCHANGED <<addr, bits, locals>>

\* _PyParkingLot_Park, up to its semaphore wait, or Py_PARK_AGAIN when the
\* bits are not those we expect any more.
LockPark(t) ==
    /\ pc[t] = "lock_loop"
    /\ v[t] = {"LOCKED", "HAS_PARKED"}
    /\ timeout[t] # "zero"
    /\ \/ /\ bits[addr[t]] = v[t]
          /\ Enqueue(t)
          /\ Goto(t, "lock_parked")
       \/ /\ bits[addr[t]] # v[t]
          /\ Goto(t, "lock_again")
          /\ UNCHANGED lotVars
    /\ UNCHANGED <<addr, bits, locals>>

\* The clock passes time_to_be_fair, one millisecond after the call.  It is
\* looked at only while t is parked.
BecomeLate(t) ==
    /\ pc[t] = "lock_parked"
    /\ ~late[t]
    /\ late' = [late EXCEPT ![t] = TRUE]
    /\ UNCHANGED <<lotVars, addr, bits, pc, v, timeout, handle, handed_off>>

\* Faulty: takes every wakeup for a handoff.
LockWokenOwning(t) ==
    /\ pc[t] = "lock_parked"
    /\ ParkOK(t)
    /\ ReturnLocked(t)
    /\ UNCHANGED bits

\* Park returns Py_PARK_OK: the lock was handed off to us, or we compete.
LockWoken(t) ==
    /\ pc[t] = "lock_parked"
    /\ ParkOK(t)
    /\ \/ handed_off[t] /\ ReturnLocked(t)
       \/ ~handed_off[t] /\ Goto(t, "lock_again") /\ UNCHANGED <<addr, locals>>
    /\ UNCHANGED bits

LockWaitFails(t, why) ==
    /\ pc[t] = "lock_parked"
    /\ IF why = "TIMEOUT" THEN timeout[t] = "finite" ELSE Interruptible
    /\ ParkFails(t, why)
    /\ UNCHANGED <<addr, bits, pc, locals>>

LockRecheck(t) ==
    /\ pc[t] = "lock_parked"
    /\ ParkRechecked(t)
    /\ UNCHANGED <<addr, bits, pc, locals>>

\* Park returns Py_PARK_TIMEOUT.
LockTimesOut(t) ==
    /\ pc[t] = "lock_parked"
    /\ ParkCancelled(t, "TIMEOUT")
    /\ ReturnIdle(t)
    /\ UNCHANGED bits

\* Park returns Py_PARK_INTR: try again, unless a signal handler that we
\* were asked to run raises an exception.
LockInterrupted(t) ==
    /\ pc[t] = "lock_parked"
    /\ ParkCancelled(t, "INTR")
    /\ \/ Goto(t, "lock_again") /\ UNCHANGED <<addr, locals>>
       \/ handle[t] /\ ReturnIdle(t)
    /\ UNCHANGED bits

\* What is left of the timeout, at least zero; and the bits again.
LockAgain(t) ==
    /\ pc[t] = "lock_again"
    /\ \E left \in {timeout[t]} \cup (IF timeout[t] = "finite" THEN {"zero"} ELSE {}) :
         timeout' = [timeout EXCEPT ![t] = left]
    /\ SetV(t, bits[addr[t]])
    /\ Goto(t, "lock_loop")
    /\ UNCHANGED <<lotVars, addr, bits, handle, late, handed_off>>

(***************************************************************************)
(* Unlock.                                                                 *)
(***************************************************************************)

\* PyMutex_Unlock: one compare-and-swap, then _PyMutex_TryUnlock.
Unlock(t) ==
    /\ pc[t] = "locked"
    /\ \/ CAS(t, {"LOCKED"}, {}) /\ ReturnIdle(t)
       \/ /\ bits[addr[t]] # {"LOCKED"}
          /\ Goto(t, "unlock_load")
          /\ UNCHANGED <<addr, bits, locals>>
    /\ UNCHANGED lotVars

\* _PyMutex_TryUnlock, which the release of a threading.Lock calls at once.
UnlockLoad(t) ==
    /\ pc[t] \in {"locked", "unlock_load"}
    /\ SetV(t, bits[addr[t]])
    /\ Goto(t, "unlock_loop")
    /\ UNCHANGED <<lotVars, addr, bits, timeout, handle, late, handed_off>>

UnlockFast(t) ==
    /\ pc[t] = "unlock_loop"
    /\ v[t] = {"LOCKED"}
    /\ \/ CASFails(t, v[t])
       \/ CAS(t, v[t], {}) /\ ReturnIdle(t) /\ UNCHANGED lotVars

\* Faulty: hands off ownership of a mutex that it unlocks.
UnparkWaiterUnlocking(m, w) ==
    /\ handed_off' = [handed_off EXCEPT ![w] = late[w]]
    /\ bits' = [bits EXCEPT ![m] = IF HasMoreWaiters(m) THEN {"HAS_PARKED"} ELSE {}]

\* Faulty: never hands off.
UnparkWaiterUnfair(m, w) ==
    /\ bits' = [bits EXCEPT ![m] = IF HasMoreWaiters(m) THEN {"HAS_PARKED"} ELSE {}]
    /\ UNCHANGED handed_off

\* mutex_unpark, with the bucket locked: w is the dequeued waiter.  The store
\* of the bits overwrites whatever they are.
UnparkWaiter(m, w) ==
    /\ handed_off' = [handed_off EXCEPT ![w] = late[w]]
    /\ bits' = [bits EXCEPT ![m] = {b \in {"LOCKED", "HAS_PARKED"} :
                                      IF b = "LOCKED" THEN late[w] ELSE HasMoreWaiters(m)}]

\* _PyParkingLot_Unpark, up to the wakeup.
UnlockUnpark(t) ==
    LET m == addr[t] IN
    /\ pc[t] = "unlock_loop"
    /\ {"LOCKED", "HAS_PARKED"} \subseteq v[t]
    /\ \/ \E i \in Places(m) :
            /\ IsFirstPlace(m, i)
            /\ Dequeue(t, m, i)
            /\ UnparkWaiter(m, waiters[BucketOf[m]][i])
            /\ Goto(t, "unlock_wake")
            /\ UNCHANGED <<addr, v, timeout, handle, late>>
       \/ /\ Places(m) = {}
          /\ bits' = [bits EXCEPT ![m] = {}]
          /\ ReturnIdle(t)
          /\ UNCHANGED lotVars

UnlockWake(t) ==
    /\ pc[t] = "unlock_wake"
    /\ Wakeup(t)
    /\ ReturnIdle(t)
    /\ UNCHANGED bits

(***************************************************************************)
(* The specification.                                                      *)
(***************************************************************************)

\* What a thread in a call, or with the lock, does sooner or later.
Step(t) ==
    \/ LockLoad(t) \/ LockGrab(t) \/ LockFails(t) \/ LockMark(t) \/ LockPark(t)
    \/ LockWoken(t) \/ LockRecheck(t) \/ LockTimesOut(t) \/ LockInterrupted(t)
    \/ LockAgain(t)
    \/ Unlock(t) \/ UnlockLoad(t) \/ UnlockFast(t) \/ UnlockUnpark(t) \/ UnlockWake(t)

Calls(t) ==
    \E m \in Mutexes :
        \/ Lock(t, m)
        \/ \E time \in Timeouts, signals \in BOOLEAN : LockTimed(t, m, time, signals)

Next ==
    \E t \in Threads :
        \/ Calls(t)
        \/ Step(t)
        \/ BecomeLate(t)
        \/ \E why \in Failures : LockWaitFails(t, why)

Spec == Init /\ [][Next]_vars

\* Threads run on, holders unlock, and the clock advances.
FairSpec ==
    Spec /\ \A t \in Threads : WF_vars(Step(t)) /\ WF_vars(BecomeLate(t))

(***************************************************************************)
(* Properties.                                                             *)
(***************************************************************************)

TypeOK ==
    /\ LotTypeOK
    /\ bits \in [Mutexes -> Bits]
    /\ pc \in [Threads -> PC]
    /\ v \in [Threads -> Bits]
    /\ timeout \in [Threads -> {"forever", "finite", "zero"}]
    /\ handle \in [Threads -> BOOLEAN]
    /\ late \in [Threads -> BOOLEAN]
    /\ handed_off \in [Threads -> BOOLEAN]

\* t owns m: from its compare-and-swap, or from the handoff, to the
\* compare-and-swap or the unpark that gives the mutex up.
Owns(t, m) ==
    /\ addr[t] = m
    /\ \/ pc[t] \in {"locked", "unlock_load", "unlock_loop"}
       \/ pc[t] = "lock_parked" /\ handed_off[t]

\* A mutex has at most one owner, the waiter it was handed off to included,
\* and its LOCKED bit says if it has one.
MutualExclusion ==
    \A m \in Mutexes :
        /\ \A t, u \in Threads : Owns(t, m) /\ Owns(u, m) => t = u
        /\ "LOCKED" \in bits[m] <=> \E t \in Threads : Owns(t, m)

\* Threads awake in a lock call on m, or about to be woken from one.
Heirs(m) ==
    {t \in Threads : addr[t] = m /\ \/ pc[t] \in {"lock_load", "lock_loop", "lock_again"}
                                    \/ pc[t] = "lock_parked" /\ is_unparking[t]}

\* No wakeup is lost: while a thread sleeps in the queue for m, HAS_PARKED
\* says so, so that an unlock cannot take the fast path past it, and m is
\* either owned or about to be tried by a thread that is awake.
NoLostWakeup ==
    \A m \in Mutexes : Places(m) # {} =>
        /\ "HAS_PARKED" \in bits[m]
        /\ "LOCKED" \in bits[m] \/ Heirs(m) # {}

owners == [m \in Mutexes |-> {t \in Threads : Owns(t, m)}]

AL(m) == INSTANCE AbstractLock WITH owners <- owners[m]

\* Each mutex implements a lock that is acquired when free, released by its
\* owner or handed off by it to a waiter.
ImplementsLock ==
    /\ \A m \in Mutexes : AL(m)!Init
    /\ [][\A m \in Mutexes : [AL(m)!Next]_(owners[m])]_owners

\* "If a thread waits on a lock for longer than TIME_TO_BE_FAIR_NS (1 ms),
\* then the unlocking thread directly hands off ownership of the lock.  This
\* avoids starvation": once its time has passed, a thread in the queue gets
\* the lock, however many others take the mutex without queueing.
NoStarvation ==
    \A t \in Threads :
        (addr[t] \in Mutexes /\ t \in Queued(BucketOf[addr[t]])
           /\ late[t] /\ timeout[t] = "forever")
        ~> (pc[t] = "locked")

=============================================================================

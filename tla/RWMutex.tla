------------------------------ MODULE RWMutex ------------------------------
(***************************************************************************)
(* _PyRWMutex (Python/lock.c): many readers or one writer.  One word holds *)
(* the write bit, a bit for parked threads and the number of readers.  A   *)
(* writer that finds readers sets the parked bit, and while the bit is set *)
(* no new reader gets in.                                                  *)
(***************************************************************************)
EXTENDS ParkingLot

CONSTANTS rwmutex,         \* the address of the lock
          Interruptible    \* may a semaphore wait end with Py_PARK_INTR?

Parameters == rwmutex \in Addrs /\ Interruptible \in BOOLEAN

VARIABLES bits,   \* rwmutex->bits
          want,   \* the lock a thread asks for, or holds
          pc,     \* where it is
          v       \* its local copy of the bits

vars == <<lotVars, addr, bits, want, pc, v>>

Bits == [write : BOOLEAN, parked : BOOLEAN, readers : Nat]

Unlocked == [write |-> FALSE, parked |-> FALSE, readers |-> 0]

PC == {"idle", "loop", "parked", "reload", "held", "unpark", "wake"}

Init ==
    /\ LotInit
    /\ bits = Unlocked
    /\ want = [t \in Threads |-> "none"]
    /\ pc = [t \in Threads |-> "idle"]
    /\ v = [t \in Threads |-> Unlocked]

Goto(t, label) == pc' = [pc EXCEPT ![t] = label]

(***************************************************************************)
(* _PyRWMutex_RLock and _PyRWMutex_Lock.                                   *)
(***************************************************************************)

\* Either call starts with a load of the bits.
Call(t, kind) ==
    /\ pc[t] = "idle"
    /\ addr' = [addr EXCEPT ![t] = rwmutex]
    /\ want' = [want EXCEPT ![t] = kind]
    /\ v' = [v EXCEPT ![t] = bits]
    /\ Goto(t, "loop")
    /\ UNCHANGED <<lotVars, bits>>

CASFails(t) ==
    /\ bits # v[t]
    /\ v' = [v EXCEPT ![t] = bits]
    /\ UNCHANGED <<bits, pc>>

CAS(t, new) == bits = v[t] /\ bits' = new

\* Faulty: a reader gets in although a writer waits.
MayGrabUnfair(t) ==
    IF want[t] = "read" THEN ~v[t].write
                        ELSE ~v[t].write /\ v[t].readers = 0

\* What t saw lets it in: a reader when no writer holds the lock or waits, a
\* writer when nobody holds it, whether or not HAS_PARKED is set.
MayGrab(t) ==
    IF want[t] = "read" THEN ~v[t].write /\ ~v[t].parked
                        ELSE ~v[t].write /\ v[t].readers = 0

\* Try to get in: one more reader, or the writer.
Grab(t) ==
    /\ pc[t] = "loop"
    /\ MayGrab(t)
    /\ \/ CASFails(t)
       \/ /\ IF want[t] = "read"
             THEN CAS(t, [v[t] EXCEPT !.readers = @ + 1])
             ELSE CAS(t, [v[t] EXCEPT !.write = TRUE])
          /\ Goto(t, "held")
          /\ v' = [v EXCEPT ![t] = Unlocked]
    /\ UNCHANGED <<lotVars, addr, want>>

\* rwmutex_set_parked_and_wait: the compare-and-swap.
SetParked(t) ==
    LET newval == [v[t] EXCEPT !.parked = TRUE] IN
    /\ pc[t] = "loop"
    /\ ~MayGrab(t)
    /\ ~v[t].parked
    /\ \/ CASFails(t)
       \/ /\ CAS(t, newval)
          /\ v' = [v EXCEPT ![t] = newval]
          /\ UNCHANGED pc
    /\ UNCHANGED <<lotVars, addr, want>>

\* rwmutex_set_parked_and_wait: _PyParkingLot_Park up to its wait.
Park(t) ==
    /\ pc[t] = "loop"
    /\ ~MayGrab(t)
    /\ v[t].parked
    /\ \/ bits = v[t] /\ Enqueue(t) /\ Goto(t, "parked")
       \/ bits # v[t] /\ Goto(t, "reload") /\ UNCHANGED lotVars
    /\ UNCHANGED <<addr, bits, want, v>>

\* The wait ends, in any way; the caller ignores which.
Parked(t) ==
    /\ pc[t] = "parked"
    /\ \/ (ParkOK(t) \/ ParkCancelled(t, "INTR")) /\ Goto(t, "reload")
       \/ ParkRechecked(t) /\ UNCHANGED pc
    /\ UNCHANGED <<addr, bits, want, v>>

WaitInterrupted(t) ==
    /\ Interruptible
    /\ pc[t] = "parked"
    /\ ParkFails(t, "INTR")
    /\ UNCHANGED <<addr, bits, want, pc, v>>

Reload(t) ==
    /\ pc[t] = "reload"
    /\ v' = [v EXCEPT ![t] = bits]
    /\ Goto(t, "loop")
    /\ UNCHANGED <<lotVars, addr, bits, want>>

(***************************************************************************)
(* _PyRWMutex_RUnlock and _PyRWMutex_Unlock.                               *)
(***************************************************************************)

\* The atomic update; the lock is given up, and if it must be, the threads
\* parked on it are unparked next.
GiveUp(t, new, unpark) ==
    /\ pc[t] = "held"
    /\ bits' = new
    /\ IF unpark
       THEN Goto(t, "unpark") /\ UNCHANGED addr
       ELSE Goto(t, "idle") /\ addr' = [addr EXCEPT ![t] = NoAddr]
    /\ want' = [want EXCEPT ![t] = "none"]
    /\ UNCHANGED <<lotVars, v>>

RUnlock(t) ==
    /\ want[t] = "read"
    /\ GiveUp(t, [bits EXCEPT !.readers = @ - 1], bits.readers = 1 /\ bits.parked)

\* Faulty: keeps HAS_PARKED although it wakes everyone.
WUnlockParked(t) ==
    /\ want[t] = "write"
    /\ GiveUp(t, [bits EXCEPT !.write = FALSE], bits.parked)

WUnlock(t) ==
    /\ want[t] = "write"
    /\ GiveUp(t, Unlocked, bits.parked)

\* t's last wakeup is given: its call returns.
Woke(t) ==
    IF to_wake'[t] = <<>>
    THEN Goto(t, "idle") /\ addr' = [addr EXCEPT ![t] = NoAddr]
    ELSE Goto(t, "wake") /\ UNCHANGED addr

Unpark(t) ==
    /\ pc[t] = "unpark"
    /\ DequeueAll(t, addr[t])
    /\ Woke(t)
    /\ UNCHANGED <<bits, want, v>>

Wake(t) ==
    /\ pc[t] = "wake"
    /\ Wakeup(t)
    /\ Woke(t)
    /\ UNCHANGED <<bits, want, v>>

Step(t) ==
    \/ Grab(t) \/ SetParked(t) \/ Park(t) \/ Parked(t) \/ Reload(t)
    \/ RUnlock(t) \/ WUnlock(t) \/ Unpark(t) \/ Wake(t)

Next ==
    \E t \in Threads :
        \/ \E kind \in {"read", "write"} : Call(t, kind)
        \/ Step(t)
        \/ WaitInterrupted(t)

Spec == Init /\ [][Next]_vars

\* Threads run on, and holders of the lock give it up.
FairSpec == Spec /\ \A t \in Threads : WF_vars(Step(t))

(***************************************************************************)
(* Properties.                                                             *)
(***************************************************************************)

TypeOK ==
    /\ LotTypeOK
    /\ bits \in Bits
    /\ want \in [Threads -> {"none", "read", "write"}]
    /\ pc \in [Threads -> PC]
    /\ v \in [Threads -> Bits]

Holders(kind) == {t \in Threads : pc[t] = "held" /\ want[t] = kind}

\* "The lock can only be held by readers or a writer, but not both", and the
\* word tells how many of each there are.
Exclusion ==
    /\ Holders("write") = {} \/ Holders("read") = {}
    /\ bits.readers = Cardinality(Holders("read"))
    /\ Cardinality(Holders("write")) = IF bits.write THEN 1 ELSE 0

\* Threads in a call for the kind of lock that are awake, or will be without
\* anybody giving the lock up: they are posted or on a waker's list, or the
\* thread that gave the lock up has yet to unpark everyone.
Stirring(kind) ==
    {t \in Threads :
        /\ want[t] = kind
        /\ \/ pc[t] \in {"loop", "reload"}
           \/ pc[t] = "parked" /\ \/ is_unparking[t]
                                  \/ \E u \in Threads : pc[u] = "unpark"}

\* A sleeper is never forgotten: whoever holds the lock will see HAS_PARKED
\* and unpark everybody, or a thread is about to, or an awake writer will
\* take the lock and unpark when it is done.
NoLostWakeup ==
    Places(rwmutex) # {} =>
        \/ \E u \in Threads : pc[u] = "unpark"
        \/ bits.parked /\ \/ bits.write
                          \/ bits.readers > 0
                          \/ Stirring("write") # {}

\* "unlocked with awoken writer about to acquire lock", "a writer is
\* waiting": the parked bit, when it is not the mark of a writer's own hold,
\* is never without a writer that waits, or new readers would be locked out
\* for nobody.
ReadersYieldToWriter ==
    bits.parked /\ ~bits.write =>
        \/ bits.readers > 0 /\ \E t \in Threads : want[t] = "write"
        \/ Stirring("write") # {}

\* The word says what is the case: the holders exclude each other and are
\* counted, and the parked bit is there when it is needed, and only then, so
\* that no sleeper is forgotten and no reader kept out for nobody.
BitsExact == Exclusion /\ NoLostWakeup /\ ReadersYieldToWriter

\* "If a writer is waiting while the lock is read-locked then, new readers
\* will be blocked.  This avoids starvation of writers."
WriterGetsIn == (bits.parked /\ ~bits.write) ~> bits.write

=============================================================================

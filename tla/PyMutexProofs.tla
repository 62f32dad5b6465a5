--------------------------- MODULE PyMutexProofs ---------------------------
(***************************************************************************)
(* PyMutex over the parking lot, for any number of threads, mutexes and    *)
(* buckets: the parking lot's invariant, mutual exclusion, and no lost     *)
(* wakeup.                                                                 *)
(***************************************************************************)
EXTENDS PyMutex, ParkingLotProofs

USE PyMutexAssumption

\* Where a thread is and what it holds: its entry, its list of entries to
\* wake, its mutex and its handoff.
PlacesAgree ==
    \A t \in Threads :
        /\ pc[t] = "lock_parked" <=> parked[t] # "no"
        /\ pc[t] # "idle" => addr[t] \in Mutexes
        /\ pc[t] # "unlock_wake" => to_wake[t] = <<>>
        /\ pc[t] = "unlock_wake" => \E w \in Threads : to_wake[t] = <<w>>
        /\ handed_off[t] => pc[t] = "lock_parked" /\ is_unparking[t]

\* t sleeps in the queue of m.
Sleeps(t, m) == addr[t] = m /\ parked[t] # "no" /\ ~is_unparking[t]

\* t will try m, and has not seen it locked since the last unlock.
FreshHeir(t, m) ==
    /\ addr[t] = m
    /\ \/ pc[t] \in {"lock_load", "lock_again"}
       \/ pc[t] = "lock_loop" /\ "LOCKED" \notin v[t]
       \/ pc[t] = "lock_parked" /\ is_unparking[t]

\* A thread that fails, its timeout over, has seen the mutex locked: when it
\* was unlocked since, the unlock has found another heir.
SleepersHaveHeirs ==
    \A m \in Mutexes : \A x \in Threads : Sleeps(x, m) =>
        /\ "HAS_PARKED" \in bits[m]
        /\ "LOCKED" \in bits[m] \/ \E t \in Threads : FreshHeir(t, m)

IInv == TypeOK /\ LotInv /\ PlacesAgree /\ MutualExclusion /\ SleepersHaveHeirs

\* Nobody changes the address he parks on ...
LEMMA AddrStays ==
    ASSUME TypeOK, UNCHANGED addr PROVE AddrKept
BY DEF TypeOK, LotTypeOK, AddrKept

\* ... but a thread that is not parked.
LEMMA AddrChanges ==
    ASSUME TypeOK, NEW t \in Threads, NEW a \in Addrs \cup {NoAddr},
           addr' = [addr EXCEPT ![t] = a], parked'[t] = "no"
    PROVE  AddrKept
BY DEF TypeOK, LotTypeOK, AddrKept

\* At first every mutex is free.
LEMMA InitIInv == Init => IInv
<1> SUFFICES ASSUME Init PROVE IInv
  OBVIOUS
<1>1. LotInv
  BY InitLotInv DEF Init
<1>2. TypeOK
  BY <1>1 DEF Init, TypeOK, LotInv, Bits, PC
<1>3. PlacesAgree
  BY DEF Init, LotInit, PlacesAgree
<1>4. MutualExclusion
  BY DEF Init, LotInit, MutualExclusion, Owns
<1>5. SleepersHaveHeirs
  BY DEF Init, LotInit, SleepersHaveHeirs, Sleeps
<1>6. QED
  BY <1>1, <1>2, <1>3, <1>4, <1>5 DEF IInv

\* Every step keeps the parking lot's invariant.
LEMMA StepKeepsLotInv ==
    ASSUME IInv, NEW t \in Threads,
           Calls(t) \/ Step(t) \/ BecomeLate(t) \/ \E why \in Failures : LockWaitFails(t, why)
    PROVE  LotInv'
<1>1. LotInv /\ TypeOK /\ PlacesAgree
  BY DEF IInv
<1>2. NoAddr \in Addrs \cup {NoAddr} /\ \A m \in Mutexes : m \in Addrs \cup {NoAddr}
  BY DEF Mutexes
<1>3. pc[t] # "lock_parked" => parked[t] = "no"
  BY <1>1 DEF PlacesAgree
<1>4. ASSUME UNCHANGED lotVars, UNCHANGED addr PROVE LotInv'
  BY <1>1, <1>4, AddrStays, OutsideKeepsLotInv
<1>5. ASSUME UNCHANGED lotVars, pc[t] # "lock_parked", NEW a \in Addrs \cup {NoAddr},
             addr' = [addr EXCEPT ![t] = a]
      PROVE  LotInv'
  <2>1. AddrKept
    BY <1>1, <1>3, <1>5, AddrChanges DEF lotVars
  <2>2. QED
    BY <1>1, <1>5, <2>1, OutsideKeepsLotInv
<1>6. CASE Calls(t)
  BY <1>2, <1>5, <1>6 DEF Calls, Lock, LockTimed
<1>7. CASE \/ LockLoad(t) \/ LockMark(t) \/ LockAgain(t) \/ UnlockLoad(t) \/ BecomeLate(t)
  BY <1>4, <1>7 DEF LockLoad, LockMark, LockAgain, UnlockLoad, BecomeLate, CASFails
<1>8. CASE LockGrab(t) \/ LockFails(t) \/ UnlockFast(t)
  BY <1>2, <1>4, <1>5, <1>8
  DEF LockGrab, LockFails, UnlockFast, CASFails, ReturnIdle, ReturnLocked
<1>9. CASE LockPark(t)
  <2>1. addr[t] \in Addrs
    BY <1>1, <1>9 DEF LockPark, PlacesAgree, Mutexes
  <2>2. QED
    BY <1>1, <1>4, <1>9, <2>1, EnqueueKeepsLotInv DEF LockPark
<1>10. CASE LockWoken(t)
  <2>1. ParkOK(t) /\ parked'[t] = "no"
    BY <1>1, <1>10 DEF LockWoken, ParkOK, TypeOK, LotTypeOK
  <2>2. AddrKept
    BY <1>1, <1>10, AddrStays DEF LockWoken, ReturnLocked
  <2>3. QED
    BY <1>1, <2>1, <2>2, ParkOKKeepsLotInv
<1>11. CASE \E why \in Failures : LockWaitFails(t, why)
  BY <1>1, <1>11, AddrStays, ParkFailsKeepsLotInv DEF LockWaitFails
<1>12. CASE LockRecheck(t)
  BY <1>1, <1>12, AddrStays, ParkRecheckedKeepsLotInv DEF LockRecheck
<1>13. CASE LockTimesOut(t) \/ LockInterrupted(t)
  <2>1. PICK why \in Failures : ParkCancelled(t, why)
    BY <1>13 DEF LockTimesOut, LockInterrupted, Failures
  <2>2. pc[t] = "lock_parked" /\ addr[t] \in Addrs
    BY <1>1, <1>13 DEF LockTimesOut, LockInterrupted, PlacesAgree, Mutexes
  <2>3. parked'[t] = "no"
    BY <1>1, <2>1 DEF ParkCancelled, TypeOK, LotTypeOK
  <2>4. UNCHANGED addr \/ addr' = [addr EXCEPT ![t] = NoAddr]
    BY <1>13 DEF LockTimesOut, LockInterrupted, ReturnIdle
  <2>5. AddrKept
    BY <1>1, <1>2, <2>3, <2>4, AddrStays, AddrChanges
  <2>6. QED
    BY <1>1, <2>1, <2>2, <2>5, ParkCancelledKeepsLotInv
<1>14. CASE Unlock(t)
  BY <1>2, <1>4, <1>5, <1>14 DEF Unlock, ReturnIdle
<1>15. CASE UnlockUnpark(t)
  <2>1. addr[t] \in Addrs /\ to_wake[t] = <<>>
    BY <1>1, <1>15 DEF UnlockUnpark, PlacesAgree, Mutexes
  <2>2. CASE /\ UNCHANGED lotVars
             /\ ReturnIdle(t)
    BY <1>2, <1>5, <1>15, <2>2 DEF UnlockUnpark, ReturnIdle
  <2>3. CASE \E i \in Places(addr[t]) : Dequeue(t, addr[t], i) /\ UNCHANGED addr
    BY <1>1, <2>1, <2>3, AddrStays, DequeueKeepsLotInv
  <2>4. QED
    BY <1>15, <2>2, <2>3 DEF UnlockUnpark
<1>16. CASE UnlockWake(t)
  <2>1. parked'[t] = "no" /\ Wakeup(t)
    BY <1>3, <1>16 DEF UnlockWake, Wakeup
  <2>2. AddrKept
    BY <1>1, <1>2, <1>16, <2>1, AddrChanges DEF UnlockWake, ReturnIdle
  <2>3. QED
    BY <1>1, <2>1, <2>2, WakeupKeepsLotInv
<1>17. QED
  BY <1>6, <1>7, <1>8, <1>9, <1>10, <1>11, <1>12, <1>13, <1>14, <1>15, <1>16 DEF Step

(***************************************************************************)
(* Types, and the places of the threads.                                   *)
(***************************************************************************)

\* The types are kept.
LEMMA StepKeepsTypeOK ==
    ASSUME IInv, NEW t \in Threads,
           Calls(t) \/ Step(t) \/ BecomeLate(t) \/ \E why \in Failures : LockWaitFails(t, why)
    PROVE  TypeOK'
<1>1. LotTypeOK'
  BY StepKeepsLotInv DEF LotInv
<1>2. TypeOK /\ LotTypeOK /\ PlacesAgree
  BY DEF IInv, TypeOK
<1>3. \A m \in Mutexes : bits[m] \in Bits
  BY <1>2 DEF TypeOK
<1>4. pc[t] # "idle" => addr[t] \in Mutexes /\ bits[addr[t]] \in Bits
  BY <1>2 DEF TypeOK, PlacesAgree
<1>5. {} \in Bits /\ {"LOCKED"} \in Bits /\ \A b \in Bits : b \cup {"LOCKED"} \in Bits /\ b \cup {"HAS_PARKED"} \in Bits
  BY DEF Bits
<1>6. pc' \in [Threads -> PC]
  BY <1>2
  DEF TypeOK, Lock, LockTimed, LockLoad, LockGrab, LockFails, LockMark, LockPark, LockWoken, LockRecheck,
      LockTimesOut, LockInterrupted, LockAgain, Unlock, UnlockLoad, UnlockFast, UnlockUnpark,
      UnlockWake, LockWaitFails, BecomeLate, Calls, Step,
      CASFails, ReturnIdle, ReturnLocked, ResetLocals, Goto, SetV, locals, PC
<1>7. v' \in [Threads -> Bits]
  <2>1. \/ v' = v
        \/ v' = [v EXCEPT ![t] = {}]
        \/ pc[t] # "idle" /\ v' = [v EXCEPT ![t] = bits[addr[t]]]
        \/ v' = [v EXCEPT ![t] = v[t] \cup {"HAS_PARKED"}]
    BY DEF Lock, LockTimed, LockLoad, LockGrab, LockFails, LockMark, LockPark, LockWoken, LockRecheck,
      LockTimesOut, LockInterrupted, LockAgain, Unlock, UnlockLoad, UnlockFast, UnlockUnpark,
      UnlockWake, LockWaitFails, BecomeLate, Calls, Step,
      CASFails, ReturnIdle, ReturnLocked, ResetLocals, SetV, locals
  <2>2. v \in [Threads -> Bits] /\ v[t] \cup {"HAS_PARKED"} \in Bits
    BY <1>2, <1>5 DEF TypeOK
  <2>3. QED
    BY <1>4, <1>5, <2>1, <2>2
<1>8. timeout' \in [Threads -> {"forever", "finite", "zero"}]
  BY <1>2, PyMutexAssumption
  DEF TypeOK, Lock, LockTimed, LockLoad, LockGrab, LockFails, LockMark, LockPark, LockWoken, LockRecheck,
      LockTimesOut, LockInterrupted, LockAgain, Unlock, UnlockLoad, UnlockFast, UnlockUnpark,
      UnlockWake, LockWaitFails, BecomeLate, Calls, Step,
      CASFails, ReturnIdle, ReturnLocked, ResetLocals, Goto, SetV, locals
<1>9. handle' \in [Threads -> BOOLEAN]
  BY <1>2
  DEF TypeOK, Lock, LockTimed, LockLoad, LockGrab, LockFails, LockMark, LockPark, LockWoken, LockRecheck,
      LockTimesOut, LockInterrupted, LockAgain, Unlock, UnlockLoad, UnlockFast, UnlockUnpark,
      UnlockWake, LockWaitFails, BecomeLate, Calls, Step,
      CASFails, ReturnIdle, ReturnLocked, ResetLocals, Goto, SetV, locals
<1>10. late' \in [Threads -> BOOLEAN]
  BY <1>2
  DEF TypeOK, Lock, LockTimed, LockLoad, LockGrab, LockFails, LockMark, LockPark, LockWoken, LockRecheck,
      LockTimesOut, LockInterrupted, LockAgain, Unlock, UnlockLoad, UnlockFast, UnlockUnpark,
      UnlockWake, LockWaitFails, BecomeLate, Calls, Step,
      CASFails, ReturnIdle, ReturnLocked, ResetLocals, Goto, SetV, locals
<1>11. bits' \in [Mutexes -> Bits]
  <2>1. CASE Calls(t)
    BY <1>2, <1>5, <2>1 DEF TypeOK, Calls, Lock, LockTimed
  <2>2. CASE LockGrab(t) \/ LockMark(t) \/ Unlock(t) \/ UnlockFast(t)
    <3>1. v[t] \in Bits
      BY <1>2 DEF TypeOK
    <3>2. \/ bits' = bits
          \/ bits' = [bits EXCEPT ![addr[t]] = {}]
          \/ bits' = [bits EXCEPT ![addr[t]] = v[t] \cup {"LOCKED"}]
          \/ bits' = [bits EXCEPT ![addr[t]] = v[t] \cup {"HAS_PARKED"}]
      BY <2>2 DEF LockGrab, LockMark, Unlock, UnlockFast, CAS, CASFails
    <3>3. QED
      BY <1>2, <1>5, <3>1, <3>2 DEF TypeOK
  <2>3. CASE UnlockUnpark(t)
    <3>1. PICK b \in Bits : bits' = [bits EXCEPT ![addr[t]] = b]
      BY <2>3 DEF UnlockUnpark, UnparkWaiter, Bits
    <3>2. QED
      BY <1>2, <3>1 DEF TypeOK
  <2>4. CASE bits' = bits
    BY <1>2, <2>4 DEF TypeOK
  <2>5. QED
    BY <2>1, <2>2, <2>3, <2>4
    DEF Step, LockLoad, LockFails, LockPark, LockWoken, LockRecheck, LockTimesOut, LockInterrupted,
        LockAgain, UnlockLoad, UnlockWake, LockWaitFails, BecomeLate
<1>12. handed_off' \in [Threads -> BOOLEAN]
  <2>1. CASE UnlockUnpark(t)
    <3>1. \/ handed_off' = [handed_off EXCEPT ![t] = FALSE]
          \/ \E w : handed_off' = [handed_off EXCEPT ![w] = late[w]]
      BY <2>1 DEF UnlockUnpark, UnparkWaiter, ReturnIdle, ResetLocals
    <3>2. QED
      BY <1>2, <3>1 DEF TypeOK
  <2>2. CASE handed_off' = handed_off \/ handed_off' = [handed_off EXCEPT ![t] = FALSE]
    BY <1>2, <2>2 DEF TypeOK
  <2>3. QED
    BY <2>1, <2>2
    DEF Lock, LockTimed, LockLoad, LockGrab, LockFails, LockMark, LockPark, LockWoken, LockRecheck,
      LockTimesOut, LockInterrupted, LockAgain, Unlock, UnlockLoad, UnlockFast,
      UnlockWake, LockWaitFails, BecomeLate, Calls, Step,
      CASFails, ReturnIdle, ReturnLocked, ResetLocals, locals
<1>13. QED
  BY <1>1, <1>6, <1>7, <1>8, <1>9, <1>10, <1>11, <1>12 DEF TypeOK

\* A thread is in the parking lot where its program point says.
LEMMA StepKeepsPlaces ==
    ASSUME IInv, NEW t \in Threads,
           Calls(t) \/ Step(t) \/ BecomeLate(t) \/ \E why \in Failures : LockWaitFails(t, why)
    PROVE  PlacesAgree'
<1>1. TypeOK /\ LotInv /\ LotTypeOK /\ PlacesAgree
  BY DEF IInv, TypeOK
<1> USE DEF TypeOK, LotTypeOK, PlacesAgree, Goto, SetV, ResetLocals, ReturnIdle, ReturnLocked, lotVars, locals
<1>6. CASE Calls(t)
  BY <1>1, <1>6 DEF Calls, Lock, LockTimed
<1>7. CASE LockLoad(t) \/ LockAgain(t) \/ UnlockLoad(t) \/ LockFails(t)
  BY <1>1, <1>7 DEF LockLoad, LockAgain, UnlockLoad, LockFails
<1>8. CASE LockGrab(t) \/ UnlockFast(t) \/ LockMark(t) \/ Unlock(t)
  BY <1>1, <1>8 DEF LockGrab, UnlockFast, LockMark, Unlock, CASFails
<1>9. CASE LockPark(t)
  BY <1>1, <1>9 DEF LockPark, Enqueue
<1>10. CASE LockWoken(t)
  BY <1>1, <1>10 DEF LockWoken, ParkOK
<1>11. CASE LockRecheck(t) \/ BecomeLate(t) \/ \E why \in Failures : LockWaitFails(t, why)
  BY <1>1, <1>11 DEF LockRecheck, ParkRechecked, BecomeLate, LockWaitFails, ParkFails, Failures
<1>12. CASE LockTimesOut(t) \/ LockInterrupted(t)
  <2>1. /\ pc[t] = "lock_parked" /\ parked' = [parked EXCEPT ![t] = "no"]
        /\ ~is_unparking[t] /\ UNCHANGED <<is_unparking, to_wake>>
    BY <1>12 DEF LockTimesOut, LockInterrupted, ParkCancelled
  <2>2. \/ ReturnIdle(t)
        \/ pc' = [pc EXCEPT ![t] = "lock_again"] /\ UNCHANGED <<addr, handed_off>>
    BY <1>12 DEF LockTimesOut, LockInterrupted
  <2>3. QED
    BY <1>1, <2>1, <2>2
<1>13. CASE UnlockUnpark(t)
  <2>1. CASE ReturnIdle(t) /\ UNCHANGED lotVars /\ pc[t] = "unlock_loop"
    BY <1>1, <2>1
  <2>2. CASE \E i \in Places(addr[t]) :
               /\ Dequeue(t, addr[t], i)
               /\ UnparkWaiter(addr[t], waiters[BucketOf[addr[t]]][i])
               /\ Goto(t, "unlock_wake")
               /\ UNCHANGED addr
    <3>1. PICK i \in Places(addr[t]) :
             /\ Dequeue(t, addr[t], i)
             /\ UnparkWaiter(addr[t], waiters[BucketOf[addr[t]]][i])
             /\ pc' = [pc EXCEPT ![t] = "unlock_wake"]
             /\ UNCHANGED addr
      BY <2>2
    <3>2. pc[t] = "unlock_loop" /\ addr[t] \in Addrs /\ BucketOf[addr[t]] \in Buckets
      BY <1>1, <1>13, ParkingLotAssumption DEF UnlockUnpark, Mutexes
    <3>3. PICK w \in Threads : w = waiters[BucketOf[addr[t]]][i] /\ w \in Queued(BucketOf[addr[t]])
      <4>1. waiters[BucketOf[addr[t]]] \in Seq(Threads) /\ i \in DOMAIN waiters[BucketOf[addr[t]]]
        BY <1>1, <3>2 DEF Places
      <4>2. QED
        BY <4>1, ElementFacts DEF Queued
    <3>4. pc[w] = "lock_parked" /\ w # t
      <4>1. parked[w] # "no"
        BY <1>1, <3>2, <3>3 DEF LotInv, EntriesAreLive
      <4>2. QED
        BY <1>1, <3>2, <4>1
    <3>5. /\ is_unparking' = [is_unparking EXCEPT ![w] = TRUE]
          /\ to_wake' = [to_wake EXCEPT ![t] = <<w>>]
          /\ handed_off' = [handed_off EXCEPT ![w] = late[w]]
          /\ UNCHANGED parked
      BY <3>1, <3>3 DEF Dequeue, UnparkWaiter
    <3>6. QED
      BY <1>1, <3>1, <3>2, <3>4, <3>5
  <2>3. QED
    BY <1>13, <2>1, <2>2 DEF UnlockUnpark
<1>14. CASE UnlockWake(t)
  <2>1. PICK w \in Threads : to_wake[t] = <<w>>
    BY <1>1, <1>14 DEF UnlockWake
  <2>2. to_wake' = [to_wake EXCEPT ![t] = <<>>]
    BY <1>14, <2>1 DEF UnlockWake, Wakeup
  <2>3. QED
    BY <1>1, <1>14, <2>2 DEF UnlockWake, Wakeup
<1>15. QED
  BY <1>6, <1>7, <1>8, <1>9, <1>10, <1>11, <1>12, <1>13, <1>14 DEF Step

(***************************************************************************)
(* Ownership: a step keeps, gives, takes or hands off each mutex.          *)
(***************************************************************************)

Holding(t) ==
    \/ pc[t] \in {"locked", "unlock_load", "unlock_loop"}
    \/ pc[t] = "lock_parked" /\ handed_off[t]

WillHold(t) ==
    \/ pc'[t] \in {"locked", "unlock_load", "unlock_loop"}
    \/ pc'[t] = "lock_parked" /\ handed_off'[t]

LockedBit(m) == "LOCKED" \in bits[m]

LockedNext(m) == "LOCKED" \in bits'[m]

\* The threads but those of S hold what they held.
OthersHold(S) ==
    \A x \in Threads \ S : /\ addr'[x] = addr[x]
                           /\ WillHold(x) <=> Holding(x)

OtherBits(m) == \A n \in Mutexes \ {m} : LockedNext(n) <=> LockedBit(n)

Keeps(t) ==
    /\ OthersHold({t})
    /\ WillHold(t) <=> Holding(t)
    /\ Holding(t) => addr'[t] = addr[t]
    /\ \A m \in Mutexes : LockedNext(m) <=> LockedBit(m)

Takes(t, m) ==
    /\ ~Holding(t) /\ WillHold(t) /\ addr'[t] = m
    /\ OthersHold({t})
    /\ ~LockedBit(m) /\ LockedNext(m) /\ OtherBits(m)

Gives(t, m) ==
    /\ Holding(t) /\ ~WillHold(t) /\ addr[t] = m
    /\ OthersHold({t})
    /\ ~LockedNext(m) /\ OtherBits(m)

HandsOff(t, w, m) ==
    /\ Holding(t) /\ ~WillHold(t) /\ addr[t] = m
    /\ w # t /\ ~Holding(w) /\ WillHold(w) /\ addr[w] = m /\ addr'[w] = m
    /\ OthersHold({t, w})
    /\ LockedNext(m) /\ OtherBits(m)

OwnershipStep(t) ==
    \/ Keeps(t)
    \/ \E m \in Mutexes : Takes(t, m) \/ Gives(t, m)
    \/ \E m \in Mutexes, w \in Threads : HandsOff(t, w, m)

\* A step changes the owner of a mutex as it may.
LEMMA StepOwnership ==
    ASSUME IInv, NEW t \in Threads,
           Calls(t) \/ Step(t) \/ BecomeLate(t) \/ \E why \in Failures : LockWaitFails(t, why)
    PROVE  OwnershipStep(t)
<1>1. TypeOK /\ LotInv /\ LotTypeOK /\ PlacesAgree
  BY DEF IInv, TypeOK
<1> USE DEF OthersHold, Holding, WillHold, LockedBit, LockedNext, OtherBits
<1>2. ASSUME OthersHold({t}), UNCHANGED bits, WillHold(t) <=> Holding(t), Holding(t) => addr'[t] = addr[t]
      PROVE  OwnershipStep(t)
  BY <1>2 DEF OwnershipStep, Keeps
<1>3. ASSUME CASFails(t, v[t]) PROVE OwnershipStep(t)
  BY <1>2, <1>3 DEF CASFails
<1>4. ASSUME ReturnIdle(t), UNCHANGED bits, ~Holding(t) PROVE OwnershipStep(t)
  BY <1>1, <1>2, <1>4 DEF ReturnIdle, ResetLocals, Goto, TypeOK, LotTypeOK
<1>5. ASSUME ReturnIdle(t), Holding(t), bits' = [bits EXCEPT ![addr[t]] = {}]
      PROVE  OwnershipStep(t)
  <2>1. addr[t] \in Mutexes
    BY <1>1, <1>5 DEF PlacesAgree
  <2>2. OthersHold({t}) /\ ~WillHold(t)
    BY <1>1, <1>5 DEF ReturnIdle, ResetLocals, Goto, TypeOK, LotTypeOK
  <2>3. bits'[addr[t]] = {} /\ \A n \in Mutexes : n # addr[t] => bits'[n] = bits[n]
    BY <1>1, <1>5, <2>1 DEF TypeOK
  <2>4. Gives(t, addr[t])
    BY <1>5, <2>2, <2>3 DEF Gives
  <2>5. QED
    BY <2>1, <2>4 DEF OwnershipStep
<1>6. CASE Calls(t)
  <2>1. PICK m \in Mutexes : Lock(t, m) \/ \E time \in Timeouts, signals \in BOOLEAN : LockTimed(t, m, time, signals)
    BY <1>6 DEF Calls
  <2>2. /\ pc[t] = "idle" /\ addr' = [addr EXCEPT ![t] = m] /\ UNCHANGED handed_off
        /\ \/ /\ bits[m] = {} /\ bits' = [bits EXCEPT ![m] = {"LOCKED"}]
              /\ pc' = [pc EXCEPT ![t] = "locked"]
           \/ pc' = [pc EXCEPT ![t] = "lock_load"] /\ UNCHANGED bits
    BY <2>1 DEF Lock, LockTimed, Goto, locals
  <2>3. CASE UNCHANGED bits /\ pc' = [pc EXCEPT ![t] = "lock_load"]
    BY <1>1, <1>2, <2>2, <2>3 DEF TypeOK, LotTypeOK
  <2>4. CASE /\ bits[m] = {} /\ bits' = [bits EXCEPT ![m] = {"LOCKED"}]
             /\ pc' = [pc EXCEPT ![t] = "locked"]
    <3>1. Takes(t, m)
      BY <1>1, <2>2, <2>4 DEF TypeOK, LotTypeOK, Takes
    <3>2. QED
      BY <3>1 DEF OwnershipStep
  <2>5. QED
    BY <2>2, <2>3, <2>4
<1>7. CASE LockLoad(t) \/ LockAgain(t) \/ UnlockLoad(t) \/ BecomeLate(t)
  BY <1>1, <1>2, <1>7 DEF LockLoad, LockAgain, UnlockLoad, BecomeLate, Goto, TypeOK
<1>8. CASE LockGrab(t)
  <2>1. CASE CASFails(t, v[t])
    BY <1>3, <2>1
  <2>2. CASE CAS(t, v[t], v[t] \cup {"LOCKED"}) /\ ReturnLocked(t)
    <3>1. addr[t] \in Mutexes /\ pc[t] = "lock_loop" /\ "LOCKED" \notin v[t]
      BY <1>1, <1>8 DEF LockGrab, PlacesAgree
    <3>2. OthersHold({t}) /\ WillHold(t) /\ ~Holding(t) /\ addr'[t] = addr[t]
      BY <1>1, <2>2, <3>1 DEF ReturnLocked, ResetLocals, Goto, TypeOK
    <3>3. ~LockedBit(addr[t]) /\ LockedNext(addr[t]) /\ OtherBits(addr[t])
      BY <1>1, <2>2, <3>1 DEF CAS, TypeOK
    <3>4. Takes(t, addr[t])
      BY <3>2, <3>3 DEF Takes
    <3>5. QED
      BY <3>1, <3>4 DEF OwnershipStep
  <2>3. QED
    BY <1>8, <2>1, <2>2 DEF LockGrab
<1>9. CASE LockFails(t) \/ UnlockWake(t)
  BY <1>4, <1>9 DEF LockFails, UnlockWake
<1>10. CASE LockMark(t)
  <2>1. CASE CASFails(t, v[t])
    BY <1>3, <2>1
  <2>2. CASE CAS(t, v[t], v[t] \cup {"HAS_PARKED"}) /\ UNCHANGED <<addr, pc, handed_off>>
    <3>1. addr[t] \in Mutexes /\ "LOCKED" \in v[t]
      BY <1>1, <1>10 DEF LockMark, PlacesAgree
    <3>2. \A m \in Mutexes : LockedNext(m) <=> LockedBit(m)
      BY <1>1, <2>2, <3>1 DEF CAS, TypeOK
    <3>3. QED
      BY <2>2, <3>2 DEF OwnershipStep, Keeps
  <2>3. QED
    BY <1>10, <2>1, <2>2 DEF LockMark
<1>11. CASE LockPark(t)
  <2>1. ~handed_off[t]
    BY <1>1, <1>11 DEF LockPark, PlacesAgree
  <2>2. QED
    BY <1>1, <1>2, <1>11, <2>1 DEF LockPark, Goto, TypeOK, locals
<1>12. CASE LockWoken(t)
  <2>1. CASE handed_off[t] /\ ReturnLocked(t)
    BY <1>1, <1>2, <1>12, <2>1 DEF LockWoken, ReturnLocked, ResetLocals, Goto, TypeOK
  <2>2. CASE ~handed_off[t] /\ Goto(t, "lock_again") /\ UNCHANGED <<addr, locals>>
    BY <1>1, <1>2, <1>12, <2>2 DEF LockWoken, Goto, TypeOK, locals
  <2>3. QED
    BY <1>12, <2>1, <2>2 DEF LockWoken
<1>13. CASE LockRecheck(t) \/ \E why \in Failures : LockWaitFails(t, why)
  BY <1>2, <1>13 DEF LockRecheck, LockWaitFails, locals
<1>14. CASE LockTimesOut(t) \/ LockInterrupted(t)
  <2>1. ~handed_off[t] /\ pc[t] = "lock_parked" /\ UNCHANGED bits
    BY <1>1, <1>14 DEF LockTimesOut, LockInterrupted, ParkCancelled, PlacesAgree
  <2>2. CASE ReturnIdle(t)
    BY <1>4, <2>1, <2>2
  <2>3. CASE Goto(t, "lock_again") /\ UNCHANGED <<addr, locals>>
    BY <1>1, <1>2, <2>1, <2>3 DEF Goto, TypeOK, locals
  <2>4. QED
    BY <1>14, <2>2, <2>3 DEF LockTimesOut, LockInterrupted
<1>15. CASE Unlock(t)
  <2>1. CASE CAS(t, {"LOCKED"}, {}) /\ ReturnIdle(t)
    BY <1>5, <1>15, <2>1 DEF CAS, Unlock
  <2>2. CASE pc[t] = "locked" /\ Goto(t, "unlock_load") /\ UNCHANGED <<addr, bits, locals>>
    BY <1>1, <1>2, <2>2 DEF Goto, TypeOK, locals
  <2>3. QED
    BY <1>15, <2>1, <2>2 DEF Unlock
<1>16. CASE UnlockFast(t)
  <2>1. CASE CASFails(t, v[t])
    BY <1>3, <2>1
  <2>2. CASE CAS(t, v[t], {}) /\ ReturnIdle(t)
    BY <1>5, <1>16, <2>2 DEF CAS, UnlockFast
  <2>3. QED
    BY <1>16, <2>1, <2>2 DEF UnlockFast
<1>17. CASE UnlockUnpark(t)
  <2>1. CASE bits' = [bits EXCEPT ![addr[t]] = {}] /\ ReturnIdle(t)
    BY <1>5, <1>17, <2>1 DEF UnlockUnpark
  <2>2. CASE \E i \in Places(addr[t]) :
               /\ UnparkWaiter(addr[t], waiters[BucketOf[addr[t]]][i])
               /\ Goto(t, "unlock_wake")
               /\ UNCHANGED addr
    <3>1. PICK i \in Places(addr[t]) :
             /\ UnparkWaiter(addr[t], waiters[BucketOf[addr[t]]][i])
             /\ pc' = [pc EXCEPT ![t] = "unlock_wake"]
             /\ UNCHANGED addr
      BY <2>2 DEF Goto
    <3>2. pc[t] = "unlock_loop" /\ addr[t] \in Mutexes
      BY <1>1, <1>17 DEF UnlockUnpark, PlacesAgree
    <3>3. addr[t] \in Addrs /\ BucketOf[addr[t]] \in Buckets
      BY <3>2, ParkingLotAssumption DEF Mutexes
    <3>4. PICK w \in Threads : /\ w = waiters[BucketOf[addr[t]]][i]
                               /\ w \in Queued(BucketOf[addr[t]])
                               /\ addr[w] = addr[t]
      <4>1. /\ waiters[BucketOf[addr[t]]] \in Seq(Threads)
            /\ i \in DOMAIN waiters[BucketOf[addr[t]]]
            /\ addr[waiters[BucketOf[addr[t]]][i]] = addr[t]
        BY <1>1, <3>3 DEF Places, LotTypeOK
      <4>2. QED
        BY <4>1, ElementFacts DEF Queued
    <3>5. pc[w] = "lock_parked" /\ w # t /\ ~handed_off[w]
      <4>1. parked[w] # "no" /\ ~is_unparking[w]
        BY <1>1, <3>3, <3>4 DEF LotInv, EntriesAreLive
      <4>2. QED
        BY <1>1, <3>2, <4>1 DEF PlacesAgree
    <3>6. PICK b : /\ "LOCKED" \in b <=> late[w]
                   /\ bits' = [bits EXCEPT ![addr[t]] = b]
                   /\ handed_off' = [handed_off EXCEPT ![w] = late[w]]
      BY <3>1, <3>4 DEF UnparkWaiter
    <3>7. bits'[addr[t]] = b /\ \A n \in Mutexes : n # addr[t] => bits'[n] = bits[n]
      BY <1>1, <3>2, <3>6 DEF TypeOK
    <3>8. /\ handed_off'[w] = late[w]
          /\ \A x \in Threads : x # w => handed_off'[x] = handed_off[x]
          /\ pc'[t] = "unlock_wake"
          /\ \A x \in Threads : x # t => pc'[x] = pc[x]
      BY <1>1, <3>1, <3>6 DEF TypeOK
    <3>9. CASE late[w]
      <4>1. HandsOff(t, w, addr[t])
        BY <3>1, <3>2, <3>4, <3>5, <3>6, <3>7, <3>8, <3>9 DEF HandsOff
      <4>2. QED
        BY <3>2, <4>1 DEF OwnershipStep
    <3>10. CASE ~late[w]
      <4>1. Gives(t, addr[t])
        BY <3>1, <3>2, <3>4, <3>5, <3>6, <3>7, <3>8, <3>10 DEF Gives
      <4>2. QED
        BY <3>2, <4>1 DEF OwnershipStep
    <3>11. QED
      BY <3>9, <3>10
  <2>3. QED
    BY <1>17, <2>1, <2>2 DEF UnlockUnpark
<1>18. QED
  BY <1>6, <1>7, <1>8, <1>9, <1>10, <1>11, <1>12, <1>13, <1>14, <1>15, <1>16, <1>17 DEF Step

\* Such changes leave one owner at most, and are steps of the abstract lock.
LEMMA OwnershipKeepsExclusion ==
    ASSUME IInv, NEW t \in Threads, OwnershipStep(t)
    PROVE  /\ MutualExclusion'
           /\ \A m \in Mutexes : owners'[m] = owners[m] \/ AL(m)!Next
<1>1. \A x \in Threads, m \in Mutexes : Owns(x, m) <=> addr[x] = m /\ Holding(x)
  BY DEF Owns, Holding
<1>2. \A x \in Threads, m \in Mutexes : Owns(x, m)' <=> addr'[x] = m /\ WillHold(x)
  BY DEF Owns, WillHold
<1>3. /\ \A m \in Mutexes : owners[m] = {x \in Threads : addr[x] = m /\ Holding(x)}
      /\ \A m \in Mutexes : owners'[m] = {x \in Threads : addr'[x] = m /\ WillHold(x)}
  BY <1>1, <1>2 DEF owners
<1>4. \A m \in Mutexes :
        /\ \A x, y \in Threads : addr[x] = m /\ Holding(x) /\ addr[y] = m /\ Holding(y) => x = y
        /\ LockedBit(m) <=> \E x \in Threads : addr[x] = m /\ Holding(x)
  BY <1>1 DEF IInv, MutualExclusion, LockedBit
<1>5. SUFFICES ASSUME NEW m \in Mutexes
               PROVE  /\ \A x, y \in Threads : addr'[x] = m /\ WillHold(x) /\ addr'[y] = m /\ WillHold(y) => x = y
                      /\ LockedNext(m) <=> \E x \in Threads : addr'[x] = m /\ WillHold(x)
                      /\ owners'[m] = owners[m] \/ AL(m)!Next
  BY <1>2 DEF MutualExclusion, LockedNext
<1> HIDE DEF owners
<1> USE DEF OthersHold, OtherBits
<1>6. ASSUME \A x \in Threads : addr'[x] = m /\ WillHold(x) <=> addr[x] = m /\ Holding(x),
             LockedNext(m) <=> LockedBit(m)
      PROVE  /\ \A x, y \in Threads : addr'[x] = m /\ WillHold(x) /\ addr'[y] = m /\ WillHold(y) => x = y
             /\ LockedNext(m) <=> \E x \in Threads : addr'[x] = m /\ WillHold(x)
             /\ owners'[m] = owners[m] \/ AL(m)!Next
  <2>1. owners'[m] = owners[m]
    BY <1>3, <1>6
  <2>2. QED
    BY <1>4, <1>6, <2>1
<1>7. CASE Keeps(t)
  BY <1>6, <1>7 DEF Keeps
<1>8. CASE \E n \in Mutexes : Takes(t, n)
  <2>1. PICK n \in Mutexes : Takes(t, n)
    BY <1>8
  <2>2. CASE n # m
    BY <1>6, <2>1, <2>2 DEF Takes
  <2>3. CASE n = m
    <3>1. \A x \in Threads : ~(addr[x] = m /\ Holding(x))
      BY <1>4, <2>1, <2>3 DEF Takes
    <3>2. \A x \in Threads : addr'[x] = m /\ WillHold(x) <=> x = t
      BY <2>1, <2>3, <3>1 DEF Takes
    <3>3. owners[m] = {} /\ owners'[m] = {t}
      BY <1>3, <3>1, <3>2
    <3>4. AL(m)!Next
      BY <3>3 DEF AL!Next, AL!StrictNext, AL!Acquire
    <3>5. QED
      BY <2>1, <2>3, <3>2, <3>4 DEF Takes
  <2>4. QED
    BY <2>2, <2>3
<1>9. CASE \E n \in Mutexes : Gives(t, n)
  <2>1. PICK n \in Mutexes : Gives(t, n)
    BY <1>9
  <2>2. CASE n # m
    BY <1>6, <2>1, <2>2 DEF Gives
  <2>3. CASE n = m
    <3>1. \A x \in Threads : addr[x] = m /\ Holding(x) <=> x = t
      BY <1>4, <2>1, <2>3 DEF Gives
    <3>2. \A x \in Threads : ~(addr'[x] = m /\ WillHold(x))
      BY <2>1, <2>3, <3>1 DEF Gives
    <3>3. owners[m] = {t} /\ owners'[m] = {}
      BY <1>3, <3>1, <3>2
    <3>4. AL(m)!Next
      BY <3>3 DEF AL!Next, AL!StrictNext, AL!Release
    <3>5. QED
      BY <2>1, <2>3, <3>2, <3>4 DEF Gives
  <2>4. QED
    BY <2>2, <2>3
<1>10. CASE \E n \in Mutexes, w \in Threads : HandsOff(t, w, n)
  <2>1. PICK n \in Mutexes, w \in Threads : HandsOff(t, w, n)
    BY <1>10
  <2>2. CASE n # m
    BY <1>6, <2>1, <2>2 DEF HandsOff
  <2>3. CASE n = m
    <3>1. \A x \in Threads : addr[x] = m /\ Holding(x) <=> x = t
      BY <1>4, <2>1, <2>3 DEF HandsOff
    <3>2. \A x \in Threads : addr'[x] = m /\ WillHold(x) <=> x = w
      BY <2>1, <2>3, <3>1 DEF HandsOff
    <3>3. owners[m] = {t} /\ owners'[m] = {w} /\ t # w
      BY <1>3, <2>1, <3>1, <3>2 DEF HandsOff
    <3>4. AL(m)!Next
      BY <3>3 DEF AL!Next, AL!Handoff
    <3>5. QED
      BY <2>1, <2>3, <3>2, <3>4 DEF HandsOff
  <2>4. QED
    BY <2>2, <2>3
<1>11. QED
  BY <1>7, <1>8, <1>9, <1>10 DEF OwnershipStep

(***************************************************************************)
(* Wakeups: whoever sleeps has an owner or a fresh heir to wake it.        *)
(***************************************************************************)

WillSleep(t, m) == addr'[t] = m /\ parked'[t] # "no" /\ ~is_unparking'[t]

WillBeFresh(t, m) ==
    /\ addr'[t] = m
    /\ \/ pc'[t] \in {"lock_load", "lock_again"}
       \/ pc'[t] = "lock_loop" /\ "LOCKED" \notin v'[t]
       \/ pc'[t] = "lock_parked" /\ is_unparking'[t]

\* What the threads but t see stays as it is.
OthersStay(t) ==
    \A x \in Threads \ {t} :
        /\ addr'[x] = addr[x] /\ pc'[x] = pc[x] /\ v'[x] = v[x]
        /\ parked'[x] # "no" <=> parked[x] # "no"
        /\ is_unparking'[x] <=> is_unparking[x]

\* A thread that sleeps is in its bucket's queue.
LEMMA SleepersAreQueued ==
    ASSUME IInv, NEW t \in Threads, NEW m \in Mutexes, Sleeps(t, m)
    PROVE  t \in Queued(BucketOf[m]) /\ Places(m) # {}
<1>1. LotTypeOK /\ LotInv /\ m \in Addrs /\ BucketOf[m] \in Buckets
  BY ParkingLotAssumption DEF IInv, LotInv, Mutexes
<1>2. PICK b \in Buckets : t \in Queued(b)
  BY <1>1 DEF LotInv, ParkedCanBeWoken, Sleeps
<1>3. b = BucketOf[m]
  BY <1>1, <1>2 DEF LotInv, QueuesConsistent, Sleeps
<1>4. PICK i \in DOMAIN waiters[BucketOf[m]] : waiters[BucketOf[m]][i] = t
  BY <1>2, <1>3 DEF Queued, ToSet
<1>5. QED
  BY <1>2, <1>3, <1>4 DEF Places, Sleeps

\* A sequence with two different elements has more than one.
LEMMA TwoElements ==
    ASSUME NEW S, NEW s \in Seq(S), NEW x \in ToSet(s), NEW y \in ToSet(s), x # y
    PROVE  Len(s) > 1
<1>1. PICK i \in DOMAIN s, j \in DOMAIN s : x = s[i] /\ y = s[j]
  BY DEF ToSet
<1>2. Len(s) \in Nat /\ i \in 1..Len(s) /\ j \in 1..Len(s) /\ i # j
  BY <1>1, LenProperties
<1>3. QED
  BY <1>2

\* Whoever sleeps has an heir.
LEMMA StepKeepsHeirs ==
    ASSUME IInv, NEW t \in Threads,
           Calls(t) \/ Step(t) \/ BecomeLate(t) \/ \E why \in Failures : LockWaitFails(t, why)
    PROVE  SleepersHaveHeirs'
<1>1. TypeOK /\ LotInv /\ LotTypeOK /\ PlacesAgree /\ MutualExclusion
  BY DEF IInv, TypeOK
<1>2. /\ bits \in [Mutexes -> Bits] /\ pc \in [Threads -> PC] /\ v \in [Threads -> Bits]
      /\ addr \in [Threads -> Addrs \cup {NoAddr}] /\ parked \in [Threads -> ParkStates]
      /\ is_unparking \in [Threads -> BOOLEAN]
  BY <1>1 DEF TypeOK, LotTypeOK
<1>3. \A m \in Mutexes : \A x \in Threads : addr[x] = m /\ parked[x] # "no" /\ ~is_unparking[x] =>
        "HAS_PARKED" \in bits[m] /\ ("LOCKED" \in bits[m] \/ \E y \in Threads : FreshHeir(y, m))
  BY DEF IInv, SleepersHaveHeirs, Sleeps
<1>4. SUFFICES \A m \in Mutexes : \A x \in Threads : WillSleep(x, m) =>
        "HAS_PARKED" \in bits'[m] /\ ("LOCKED" \in bits'[m] \/ \E y \in Threads : WillBeFresh(y, m))
  BY DEF SleepersHaveHeirs, Sleeps, WillSleep, WillBeFresh, FreshHeir
<1> DEFINE Safe(m) == \A x \in Threads : WillSleep(x, m) =>
        "HAS_PARKED" \in bits'[m] /\ ("LOCKED" \in bits'[m] \/ \E y \in Threads : WillBeFresh(y, m))
\* The bits stay, and an heir of an unlocked mutex stays one.
<1>5. ASSUME NEW m \in Mutexes, OthersStay(t), bits'[m] = bits[m],
             WillSleep(t, m) => Sleeps(t, m),
             "LOCKED" \notin bits[m] /\ FreshHeir(t, m) => WillBeFresh(t, m)
      PROVE  Safe(m)
  <2>1. \A x \in Threads : WillSleep(x, m) => Sleeps(x, m)
    BY <1>5 DEF OthersStay, WillSleep, Sleeps
  <2>2. \A y \in Threads : "LOCKED" \notin bits[m] /\ FreshHeir(y, m) => WillBeFresh(y, m)
    BY <1>5 DEF OthersStay, WillBeFresh, FreshHeir
  <2>3. QED
    BY <1>3, <1>5, <2>1, <2>2 DEF Sleeps
\* Nobody sleeps on a mutex without HAS_PARKED.
<1>6. ASSUME NEW m \in Mutexes, OthersStay(t), "HAS_PARKED" \notin bits[m], ~WillSleep(t, m)
      PROVE  Safe(m)
  BY <1>3, <1>6 DEF OthersStay, WillSleep
<1>7. ASSUME NEW m \in Mutexes, OthersStay(t), {"LOCKED", "HAS_PARKED"} \subseteq bits'[m]
      PROVE  Safe(m)
  BY <1>7
<1> USE DEF Goto, SetV, lotVars, locals, ResetLocals
<1>8. pc[t] # "idle" => addr[t] \in Mutexes
  BY <1>1 DEF PlacesAgree
<1>9. pc[t] # "lock_parked" => parked[t] = "no"
  BY <1>1 DEF PlacesAgree
\* A failed compare-and-swap loads the bits.
<1>10. ASSUME CASFails(t, v[t]), pc[t] \in {"lock_loop", "unlock_loop"}, NEW m \in Mutexes
       PROVE  Safe(m)
  <2>1. OthersStay(t) /\ bits'[m] = bits[m] /\ (WillSleep(t, m) => Sleeps(t, m))
    BY <1>2, <1>10 DEF CASFails, OthersStay, WillSleep, Sleeps
  <2>2. "LOCKED" \notin bits[m] /\ FreshHeir(t, m) => WillBeFresh(t, m)
    BY <1>2, <1>10 DEF CASFails, FreshHeir, WillBeFresh
  <2>3. QED
    BY <1>5, <2>1, <2>2
\* A thread that is no heir returns.
<1>11. ASSUME UNCHANGED <<is_unparking, parked, bits>>, pc[t] # "lock_parked",
              ReturnIdle(t), NEW m \in Mutexes, ~FreshHeir(t, m)
       PROVE  Safe(m)
  <2>1. OthersStay(t) /\ ~WillSleep(t, m)
    BY <1>2, <1>9, <1>11 DEF ReturnIdle, OthersStay, WillSleep
  <2>2. QED
    BY <1>5, <1>11, <2>1
<1>12. ASSUME UNCHANGED lotVars, pc[t] \in {"locked", "unlock_loop"},
              bits[addr[t]] = {"LOCKED"}, bits' = [bits EXCEPT ![addr[t]] = {}], ReturnIdle(t),
              NEW m \in Mutexes
       PROVE  Safe(m)
  <2>1. OthersStay(t) /\ ~WillSleep(t, m) /\ ~FreshHeir(t, m)
    BY <1>2, <1>9, <1>12 DEF ReturnIdle, OthersStay, WillSleep, FreshHeir
  <2>2. CASE m = addr[t]
    BY <1>6, <1>12, <2>1, <2>2
  <2>3. CASE m # addr[t]
    BY <1>2, <1>5, <1>12, <2>1, <2>3
  <2>4. QED
    BY <2>2, <2>3
<1> SUFFICES ASSUME NEW m \in Mutexes PROVE Safe(m)
  OBVIOUS
<1> HIDE DEF Safe
<1>13. CASE Calls(t)
  <2>1. PICK n \in Mutexes : Lock(t, n) \/ \E time \in Timeouts, signals \in BOOLEAN : LockTimed(t, n, time, signals)
    BY <1>13 DEF Calls
  <2>2. /\ pc[t] = "idle" /\ addr' = [addr EXCEPT ![t] = n] /\ UNCHANGED <<lotVars, v>>
        /\ \/ /\ bits[n] = {} /\ bits' = [bits EXCEPT ![n] = {"LOCKED"}]
              /\ pc' = [pc EXCEPT ![t] = "locked"]
           \/ pc' = [pc EXCEPT ![t] = "lock_load"] /\ UNCHANGED bits
    BY <2>1 DEF Lock, LockTimed
  <2>3. OthersStay(t) /\ ~WillSleep(t, m) /\ ~FreshHeir(t, m)
    BY <1>2, <1>9, <2>2 DEF OthersStay, WillSleep, FreshHeir
  <2>4. CASE UNCHANGED bits \/ m # n
    BY <1>2, <1>5, <2>2, <2>3, <2>4
  <2>5. CASE bits[n] = {} /\ m = n
    BY <1>6, <2>3, <2>5
  <2>6. QED
    BY <2>2, <2>4, <2>5
<1>14. CASE LockLoad(t) \/ LockAgain(t)
  <2>1. OthersStay(t) /\ bits'[m] = bits[m] /\ (WillSleep(t, m) => Sleeps(t, m))
    BY <1>2, <1>14 DEF LockLoad, LockAgain, OthersStay, WillSleep, Sleeps
  <2>2. "LOCKED" \notin bits[m] /\ FreshHeir(t, m) => WillBeFresh(t, m)
    BY <1>2, <1>14 DEF LockLoad, LockAgain, FreshHeir, WillBeFresh
  <2>3. QED
    BY <1>5, <2>1, <2>2
<1>15. CASE UnlockLoad(t) \/ BecomeLate(t)
  <2>1. OthersStay(t) /\ bits'[m] = bits[m] /\ (WillSleep(t, m) => Sleeps(t, m))
    BY <1>2, <1>15 DEF UnlockLoad, BecomeLate, OthersStay, WillSleep, Sleeps
  <2>2. FreshHeir(t, m) => WillBeFresh(t, m)
    BY <1>2, <1>15 DEF UnlockLoad, BecomeLate, FreshHeir, WillBeFresh
  <2>3. QED
    BY <1>5, <2>1, <2>2
<1>16. CASE LockGrab(t)
  <2>1. CASE CASFails(t, v[t])
    BY <1>10, <1>16, <2>1 DEF LockGrab
  <2>2. CASE CAS(t, v[t], v[t] \cup {"LOCKED"}) /\ ReturnLocked(t) /\ UNCHANGED lotVars
    <3>1. /\ pc[t] = "lock_loop" /\ addr[t] \in Mutexes /\ bits[addr[t]] = v[t]
          /\ bits' = [bits EXCEPT ![addr[t]] = v[t] \cup {"LOCKED"}]
      BY <1>8, <1>16, <2>2 DEF LockGrab, CAS
    <3>2. OthersStay(t) /\ ~WillSleep(t, m)
      BY <1>2, <1>9, <2>2, <3>1 DEF ReturnLocked, OthersStay, WillSleep
    <3>3. CASE m # addr[t]
      <4>1. bits'[m] = bits[m] /\ ~FreshHeir(t, m)
        BY <1>2, <3>1, <3>3 DEF FreshHeir
      <4>2. QED
        BY <1>5, <3>2, <4>1
    <3>4. CASE m = addr[t] /\ "HAS_PARKED" \in bits[m]
      BY <1>2, <1>7, <3>1, <3>2, <3>4
    <3>5. CASE m = addr[t] /\ "HAS_PARKED" \notin bits[m]
      BY <1>6, <3>2, <3>5
    <3>6. QED
      BY <3>3, <3>4, <3>5
  <2>3. QED
    BY <1>16, <2>1, <2>2 DEF LockGrab
<1>17. CASE LockFails(t) \/ UnlockWake(t)
  <2>1. ~FreshHeir(t, m) /\ pc[t] # "lock_parked" /\ UNCHANGED <<is_unparking, parked, bits>> /\ ReturnIdle(t)
    BY <1>17 DEF LockFails, UnlockWake, Wakeup, FreshHeir
  <2>2. QED
    BY <1>11, <2>1
<1>18. CASE LockMark(t)
  <2>1. CASE CASFails(t, v[t])
    BY <1>10, <1>18, <2>1 DEF LockMark
  <2>2. CASE CAS(t, v[t], v[t] \cup {"HAS_PARKED"}) /\ v' = [v EXCEPT ![t] = v[t] \cup {"HAS_PARKED"}]
             /\ UNCHANGED <<lotVars, addr, pc>>
    <3>1. /\ pc[t] = "lock_loop" /\ addr[t] \in Mutexes /\ "LOCKED" \in v[t]
          /\ bits' = [bits EXCEPT ![addr[t]] = v[t] \cup {"HAS_PARKED"}]
      BY <1>8, <1>18, <2>2 DEF LockMark, CAS
    <3>2. OthersStay(t) /\ ~WillSleep(t, m) /\ ~FreshHeir(t, m)
      BY <1>2, <1>9, <2>2, <3>1 DEF OthersStay, WillSleep, FreshHeir
    <3>3. CASE m # addr[t]
      BY <1>2, <1>5, <3>1, <3>2, <3>3
    <3>4. CASE m = addr[t]
      BY <1>2, <1>7, <3>1, <3>2, <3>4
    <3>5. QED
      BY <3>3, <3>4
  <2>3. QED
    BY <1>18, <2>1, <2>2 DEF LockMark
<1>19. CASE LockPark(t)
  <2>1. /\ pc[t] = "lock_loop" /\ addr[t] \in Mutexes /\ v[t] = {"LOCKED", "HAS_PARKED"}
        /\ UNCHANGED <<addr, bits, v, is_unparking>>
    BY <1>8, <1>19 DEF LockPark, Enqueue
  <2>2. OthersStay(t) /\ ~FreshHeir(t, m)
    BY <1>2, <1>19, <2>1 DEF LockPark, Enqueue, OthersStay, FreshHeir
  <2>3. CASE bits[addr[t]] = v[t] /\ m = addr[t]
    BY <1>7, <2>1, <2>2, <2>3
  <2>4. CASE m # addr[t]
    BY <1>5, <2>1, <2>2, <2>4 DEF WillSleep
  <2>5. CASE UNCHANGED lotVars
    BY <1>5, <1>9, <2>1, <2>2, <2>5 DEF WillSleep
  <2>6. QED
    BY <1>19, <2>3, <2>4, <2>5 DEF LockPark
<1>20. CASE LockWoken(t)
  <2>1. /\ pc[t] = "lock_parked" /\ addr[t] \in Mutexes
        /\ sema[t] > 0 /\ parked[t] # "no" /\ UNCHANGED bits
        /\ parked' = [parked EXCEPT ![t] = "no"]
        /\ is_unparking' = [is_unparking EXCEPT ![t] = FALSE]
    BY <1>8, <1>20 DEF LockWoken, ParkOK
  <2>2. ~WillSleep(t, m)
    BY <1>2, <2>1 DEF WillSleep
  <2>3. CASE handed_off[t] /\ ReturnLocked(t)
    <3>1. OthersStay(t)
      BY <1>2, <2>1, <2>3 DEF ReturnLocked, OthersStay
    <3>2. "LOCKED" \in bits[addr[t]]
      BY <1>1, <2>1, <2>3 DEF MutualExclusion, Owns
    <3>3. "LOCKED" \notin bits[m] => ~FreshHeir(t, m)
      BY <3>2 DEF FreshHeir
    <3>4. QED
      BY <1>5, <2>1, <2>2, <3>1, <3>3
  <2>4. CASE ~handed_off[t] /\ pc' = [pc EXCEPT ![t] = "lock_again"] /\ UNCHANGED <<addr, v>>
    <3>1. OthersStay(t) /\ (FreshHeir(t, m) => WillBeFresh(t, m))
      BY <1>2, <2>1, <2>4 DEF OthersStay, FreshHeir, WillBeFresh
    <3>2. QED
      BY <1>5, <2>1, <2>2, <3>1
  <2>5. QED
    BY <1>20, <2>3, <2>4 DEF LockWoken
<1>21. CASE LockRecheck(t) \/ \E why \in Failures : LockWaitFails(t, why)
  <2>1. /\ UNCHANGED <<addr, bits, pc, v, is_unparking>> /\ parked[t] # "no"
        /\ \E st : parked' = [parked EXCEPT ![t] = st]
    BY <1>21 DEF LockRecheck, LockWaitFails, ParkRechecked, ParkFails, Failures
  <2>2. OthersStay(t) /\ (WillSleep(t, m) => Sleeps(t, m)) /\ (FreshHeir(t, m) => WillBeFresh(t, m))
    BY <1>2, <2>1 DEF OthersStay, WillSleep, Sleeps, FreshHeir, WillBeFresh
  <2>3. QED
    BY <1>5, <2>1, <2>2
<1>22. CASE LockTimesOut(t) \/ LockInterrupted(t)
  <2>1. /\ pc[t] = "lock_parked" /\ ~is_unparking[t] /\ UNCHANGED <<is_unparking, bits>>
        /\ parked' = [parked EXCEPT ![t] = "no"]
    BY <1>22 DEF LockTimesOut, LockInterrupted, ParkCancelled
  <2>2. ~FreshHeir(t, m)
    BY <2>1 DEF FreshHeir
  <2>3. CASE ReturnIdle(t)
    <3>1. OthersStay(t) /\ ~WillSleep(t, m)
      BY <1>2, <2>1, <2>3 DEF ReturnIdle, OthersStay, WillSleep
    <3>2. QED
      BY <1>5, <2>1, <2>2, <3>1
  <2>4. CASE pc' = [pc EXCEPT ![t] = "lock_again"] /\ UNCHANGED <<addr, v>>
    <3>1. OthersStay(t) /\ ~WillSleep(t, m)
      BY <1>2, <2>1, <2>4 DEF OthersStay, WillSleep
    <3>2. QED
      BY <1>5, <2>1, <2>2, <3>1
  <2>5. QED
    BY <1>22, <2>3, <2>4 DEF LockTimesOut, LockInterrupted
<1>23. CASE Unlock(t)
  <2>1. CASE CAS(t, {"LOCKED"}, {}) /\ ReturnIdle(t)
    BY <1>12, <1>23, <2>1 DEF Unlock, CAS
  <2>2. CASE pc' = [pc EXCEPT ![t] = "unlock_load"] /\ UNCHANGED <<addr, bits, v>>
    <3>1. OthersStay(t) /\ (WillSleep(t, m) => Sleeps(t, m)) /\ ~FreshHeir(t, m)
      BY <1>2, <1>23, <2>2 DEF Unlock, OthersStay, WillSleep, Sleeps, FreshHeir
    <3>2. QED
      BY <1>5, <2>2, <3>1
  <2>3. QED
    BY <1>23, <2>1, <2>2 DEF Unlock
<1>24. CASE UnlockFast(t)
  <2>1. CASE CASFails(t, v[t])
    BY <1>10, <1>24, <2>1 DEF UnlockFast
  <2>2. CASE CAS(t, v[t], {}) /\ ReturnIdle(t) /\ UNCHANGED lotVars
    BY <1>12, <1>24, <2>2 DEF UnlockFast, CAS
  <2>3. QED
    BY <1>24, <2>1, <2>2 DEF UnlockFast
<1>25. CASE UnlockUnpark(t)
  <2>1. /\ pc[t] = "unlock_loop" /\ addr[t] \in Mutexes /\ parked[t] = "no"
        /\ addr[t] \in Addrs /\ BucketOf[addr[t]] \in Buckets
    BY <1>8, <1>9, <1>25, ParkingLotAssumption DEF UnlockUnpark, Mutexes
  <2>2. CASE /\ Places(addr[t]) = {} /\ bits' = [bits EXCEPT ![addr[t]] = {}]
             /\ ReturnIdle(t) /\ UNCHANGED lotVars
    <3>1. OthersStay(t) /\ ~WillSleep(t, m) /\ ~FreshHeir(t, m)
      BY <1>2, <2>1, <2>2 DEF ReturnIdle, OthersStay, WillSleep, FreshHeir
    <3>2. CASE m # addr[t]
      BY <1>2, <1>5, <2>2, <3>1, <3>2
    <3>3. CASE m = addr[t]
      <4>1. \A x \in Threads : ~Sleeps(x, m)
        BY <2>2, <3>3, SleepersAreQueued
      <4>2. \A x \in Threads : ~WillSleep(x, m)
        BY <3>1, <4>1 DEF OthersStay, WillSleep, Sleeps
      <4>3. QED
        BY <4>2 DEF Safe
    <3>4. QED
      BY <3>2, <3>3
  <2>3. CASE \E i \in Places(addr[t]) :
               /\ Dequeue(t, addr[t], i)
               /\ UnparkWaiter(addr[t], waiters[BucketOf[addr[t]]][i])
               /\ pc' = [pc EXCEPT ![t] = "unlock_wake"]
               /\ UNCHANGED <<addr, v>>
    <3>1. PICK i \in Places(addr[t]) :
             /\ Dequeue(t, addr[t], i)
             /\ UnparkWaiter(addr[t], waiters[BucketOf[addr[t]]][i])
             /\ pc' = [pc EXCEPT ![t] = "unlock_wake"]
             /\ UNCHANGED <<addr, v>>
      BY <2>3
    <3>2. PICK w \in Threads : /\ w = waiters[BucketOf[addr[t]]][i]
                               /\ w \in Queued(BucketOf[addr[t]])
                               /\ addr[w] = addr[t]
      <4>1. /\ waiters[BucketOf[addr[t]]] \in Seq(Threads)
            /\ i \in DOMAIN waiters[BucketOf[addr[t]]]
            /\ addr[waiters[BucketOf[addr[t]]][i]] = addr[t]
        BY <1>1, <2>1 DEF Places, LotTypeOK
      <4>2. QED
        BY <4>1, ElementFacts DEF Queued
    <3>3. parked[w] # "no" /\ pc[w] = "lock_parked" /\ w # t
      <4>1. parked[w] # "no"
        BY <1>1, <2>1, <3>2 DEF LotInv, EntriesAreLive
      <4>2. QED
        BY <1>1, <2>1, <4>1 DEF PlacesAgree
    <3>4. UNCHANGED parked /\ is_unparking' = [is_unparking EXCEPT ![w] = TRUE]
      BY <3>1, <3>2 DEF Dequeue
    <3>5. PICK b : /\ "HAS_PARKED" \in b <=> HasMoreWaiters(addr[t])
                   /\ bits' = [bits EXCEPT ![addr[t]] = b]
      BY <3>1 DEF UnparkWaiter
    <3>6. bits'[addr[t]] = b /\ \A n \in Mutexes : n # addr[t] => bits'[n] = bits[n]
      BY <1>2, <2>1, <3>5
    <3>7. /\ pc'[t] = "unlock_wake" /\ \A x \in Threads : x # t => pc'[x] = pc[x]
          /\ is_unparking'[w] /\ \A x \in Threads : x # w => is_unparking'[x] = is_unparking[x]
      BY <1>2, <3>1, <3>4
    <3>8. CASE m = addr[t]
      <4>1. WillBeFresh(w, m)
        BY <3>1, <3>2, <3>3, <3>7, <3>8 DEF WillBeFresh
      <4>2. ASSUME NEW x \in Threads, WillSleep(x, m) PROVE "HAS_PARKED" \in bits'[m]
        <5>1. Sleeps(x, m) /\ x # w
          BY <3>1, <3>4, <3>7, <4>2 DEF WillSleep, Sleeps
        <5>2. x \in ToSet(waiters[BucketOf[m]]) /\ w \in ToSet(waiters[BucketOf[m]])
          BY <3>2, <3>8, <5>1, SleepersAreQueued DEF Queued
        <5>3. waiters[BucketOf[m]] \in Seq(Threads)
          BY <1>1, <2>1, <3>8
             DEF LotTypeOK
        <5>4. Len(waiters[BucketOf[m]]) > 1 /\ Len(waiters[BucketOf[m]]) \in Nat
          BY <5>1, <5>2, <5>3, TwoElements, LenProperties
        <5>5. num_waiters[BucketOf[m]] = Len(waiters[BucketOf[m]])
          BY <1>1, <2>1, <3>8 DEF LotInv, QueuesConsistent
        <5>6. HasMoreWaiters(m)
          BY <5>4, <5>5 DEF HasMoreWaiters
        <5>7. QED
          BY <3>5, <3>6, <3>8, <5>6
      <4>3. QED
        BY <4>1, <4>2 DEF Safe
    <3>9. CASE m # addr[t]
      <4>1. \A x \in Threads : WillSleep(x, m) => Sleeps(x, m)
        BY <3>1, <3>4, <3>7 DEF WillSleep, Sleeps
      <4>2. \A y \in Threads : FreshHeir(y, m) => WillBeFresh(y, m)
        BY <3>1, <3>7, <3>9 DEF WillBeFresh, FreshHeir
      <4>3. QED
        BY <1>3, <3>6, <3>9, <4>1, <4>2 DEF Safe, Sleeps
    <3>10. QED
      BY <3>8, <3>9
  <2>4. QED
    BY <1>25, <2>2, <2>3 DEF UnlockUnpark
<1>26. QED
  BY <1>13, <1>14, <1>15, <1>16, <1>17, <1>18, <1>19, <1>20, <1>21, <1>22, <1>23, <1>24, <1>25 DEF Step

(***************************************************************************)
(* The theorems.                                                           *)
(***************************************************************************)

\* Every step keeps the invariant.
LEMMA StepKeepsIInv ==
    ASSUME IInv, NEW t \in Threads,
           Calls(t) \/ Step(t) \/ BecomeLate(t) \/ \E why \in Failures : LockWaitFails(t, why)
    PROVE  IInv' /\ \A m \in Mutexes : owners'[m] = owners[m] \/ AL(m)!Next
<1>1. MutualExclusion' /\ \A m \in Mutexes : owners'[m] = owners[m] \/ AL(m)!Next
  BY StepOwnership, OwnershipKeepsExclusion
<1>2. LotInv' /\ TypeOK' /\ PlacesAgree' /\ SleepersHaveHeirs'
  BY StepKeepsLotInv, StepKeepsTypeOK, StepKeepsPlaces, StepKeepsHeirs
<1>3. QED
  BY <1>1, <1>2 DEF IInv

\* What no step changes stays so.
LEMMA StutterKeepsIInv ==
    ASSUME IInv, UNCHANGED vars
    PROVE  IInv' /\ UNCHANGED owners
<1> USE DEF vars, lotVars, locals
<1>1. TypeOK' /\ LotInv'
  BY DEF IInv, TypeOK, LotInv, LotTypeOK, QueuesConsistent, EntriesAreLive, ParkedCanBeWoken,
         NothingLeft, Queued, ToBeWoken
<1>2. PlacesAgree' /\ MutualExclusion' /\ SleepersHaveHeirs'
  BY DEF IInv, PlacesAgree, MutualExclusion, Owns, SleepersHaveHeirs, Sleeps, FreshHeir
<1>3. UNCHANGED owners
  BY DEF owners, Owns
<1>4. QED
  BY <1>1, <1>2, <1>3 DEF IInv

\* The invariant holds in every state.
LEMMA Invariance == Spec => []IInv
<1>1. IInv /\ [Next]_vars => IInv'
  BY StepKeepsIInv, StutterKeepsIInv DEF Next
<1>2. QED
  BY <1>1, InitIInv, PTL DEF Spec

\* Every variable of the mutex and of the parking lot keeps its type.
THEOREM PyMutexTypes == Spec => []TypeOK
BY Invariance, PTL DEF IInv

\* A mutex has at most one owner, threads it was handed off to included, and
\* its LOCKED bit tells whether it has one.
THEOREM PyMutexExclusion == Spec => []MutualExclusion
BY Invariance, PTL DEF IInv

\* The parking lot's invariant: its queues, counters, semaphores and wakers
\* agree through every race of a timeout with an unpark.
THEOREM PyMutexLotInv == Spec => []LotInv
BY Invariance, PTL DEF IInv

\* The buckets' counters and queues agree.
THEOREM LotQueuesConsistent == Spec => []QueuesConsistent
BY Invariance, PTL DEF IInv, LotInv

\* No queue and no waker holds the entry of a call that has returned.
THEOREM LotEntriesAreLive == Spec => []EntriesAreLive
BY Invariance, PTL DEF IInv, LotInv

\* Every parked thread is queued, on one waker's list, or posted, and it is
\* woken once.
THEOREM LotParkedCanBeWoken == Spec => []ParkedCanBeWoken
BY Invariance, PTL DEF IInv, LotInv

\* While a thread sleeps on a mutex, HAS_PARKED is set, and the mutex has an
\* owner or a thread awake that tries it.
THEOREM PyMutexNoLostWakeup == Spec => []NoLostWakeup
<1>1. IInv => NoLostWakeup
  <2> SUFFICES ASSUME IInv, NEW m \in Mutexes, NEW i \in Places(m)
               PROVE  "HAS_PARKED" \in bits[m] /\ ("LOCKED" \in bits[m] \/ Heirs(m) # {})
    BY DEF NoLostWakeup
  <2>1. LotTypeOK /\ LotInv /\ m \in Addrs /\ BucketOf[m] \in Buckets
    BY ParkingLotAssumption DEF IInv, LotInv, Mutexes
  <2>2. PICK x \in Threads : addr[x] = m /\ x \in Queued(BucketOf[m])
    <3>1. /\ waiters[BucketOf[m]] \in Seq(Threads) /\ i \in DOMAIN waiters[BucketOf[m]]
          /\ addr[waiters[BucketOf[m]][i]] = m
      BY <2>1 DEF Places, LotTypeOK
    <3>2. QED
      BY <3>1, ElementFacts DEF Queued
  <2>3. Sleeps(x, m)
    BY <2>1, <2>2 DEF LotInv, EntriesAreLive, Sleeps
  <2>4. \A y \in Threads : FreshHeir(y, m) => y \in Heirs(m)
    BY DEF FreshHeir, Heirs
  <2>5. QED
    BY <2>3, <2>4 DEF IInv, SleepersHaveHeirs
<1>2. QED
  BY <1>1, Invariance, PTL

\* Every mutex implements the abstract lock: acquired when free, released by
\* its owner, or handed off by it.
THEOREM PyMutexImplementsLock == Spec => ImplementsLock
<1>1. Init => \A m \in Mutexes : AL(m)!Init
  BY DEF Init, AL!Init, owners, Owns
<1>2. IInv /\ [Next]_vars => [\A m \in Mutexes : [AL(m)!Next]_(owners[m])]_owners
  BY StepKeepsIInv, StutterKeepsIInv DEF Next
<1>3. QED
  BY <1>1, <1>2, Invariance, PTL DEF Spec, ImplementsLock

=============================================================================

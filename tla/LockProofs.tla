----------------------------- MODULE LockProofs -----------------------------
(***************************************************************************)
(* Proofs about the small locks, for any number of threads, addresses and  *)
(* buckets.                                                                *)
(***************************************************************************)
EXTENDS SmallLocks, FiniteSetTheorems, TLAPS

(***************************************************************************)
(* The raw mutex, with or without interrupted semaphore waits.             *)
(***************************************************************************)

USE RawMutexAssumption

\* The word is built from a bit and a pointer.
LEMMA WordFacts ==
    /\ Unlocked \in Word /\ Locked \in Word
    /\ \A w \in Word : w.head \in Pointer /\ [w EXCEPT !.locked = TRUE] \in Word
    /\ \A b \in BOOLEAN, p \in Pointer : [locked |-> b, head |-> p] \in Word
    /\ NoThread \in Pointer /\ Threads \subseteq Pointer
    /\ \A p \in Pointer : p # NoThread => p \in Threads
BY DEF Word, Pointer, Unlocked, Locked

\* Each step keeps the words, counters and program points in their ranges.
LEMMA StepKeepsTypes == TypeOK /\ [Next]_vars => TypeOK'
<1> SUFFICES ASSUME TypeOK, [Next]_vars PROVE TypeOK'
  OBVIOUS
<1> USE DEF TypeOK, PC, Goto
<1>1. ASSUME NEW t \in Threads, Lock(t) PROVE TypeOK'
  BY <1>1, WordFacts DEF Lock
<1>2. ASSUME NEW t \in Threads, LockSlow(t) PROVE TypeOK'
  BY <1>2 DEF LockSlow
<1>3. ASSUME NEW t \in Threads, LockGrab(t) PROVE TypeOK'
  BY <1>3, WordFacts DEF LockGrab
<1>4. ASSUME NEW t \in Threads, LockPush(t) PROVE TypeOK'
  <2>1. v[t].head \in Pointer /\ [locked |-> TRUE, head |-> t] \in Word
    BY WordFacts
  <2>2. next' \in [Threads -> Pointer]
    BY <1>4, <2>1 DEF LockPush
  <2>3. CASE word = v[t]
    BY <1>4, <2>1, <2>2, <2>3 DEF LockPush
  <2>4. CASE word # v[t]
    BY <1>4, <2>1, <2>2, <2>4 DEF LockPush
  <2>5. QED
    BY <2>3, <2>4
<1>5. ASSUME NEW t \in Threads, LockWoken(t) PROVE TypeOK'
  BY <1>5 DEF LockWoken
<1>6. ASSUME NEW t \in Threads, LockInterrupted(t) PROVE TypeOK'
  BY <1>6 DEF LockInterrupted
<1>7. ASSUME NEW t \in Threads, Unlock(t) PROVE TypeOK'
  BY <1>7, WordFacts DEF Unlock
<1>8. ASSUME NEW t \in Threads, UnlockSlow(t) PROVE TypeOK'
  BY <1>8 DEF UnlockSlow
<1>9. ASSUME NEW t \in Threads, UnlockTry(t) PROVE TypeOK'
  <2>1. CASE v[t].head # NoThread
    <3>1. v[t].head \in Threads
      BY <2>1, WordFacts
    <3>2. next[v[t].head] \in Pointer
      BY <3>1
    <3>3. QED
      BY <1>9, <2>1, <3>2 DEF UnlockTry
  <2>2. CASE v[t].head = NoThread
    BY <1>9, <2>2, WordFacts DEF UnlockTry
  <2>3. QED
    BY <2>1, <2>2
<1>13. ASSUME NEW t \in Threads, UnlockPop(t) PROVE TypeOK'
  <2>1. next_waiter' \in [Threads -> Pointer]
    BY <1>13, WordFacts DEF UnlockPop
  <2>2. CASE word = v[t]
    <3>1. v[t].head \in Pointer /\ [locked |-> FALSE, head |-> next_waiter[t]] \in Word
      BY WordFacts
    <3>2. QED
      BY <1>13, <2>1, <2>2, <3>1 DEF UnlockPop
  <2>3. CASE word # v[t]
    BY <1>13, <2>1, <2>3 DEF UnlockPop
  <2>4. QED
    BY <2>2, <2>3
<1>10. ASSUME NEW t \in Threads, UnlockWake(t) PROVE TypeOK'
  <2>1. CASE waking[t] \in Threads
    BY <1>10, <2>1, WordFacts DEF UnlockWake
  <2>2. CASE waking[t] \notin Threads
    <3>1. sema' = sema
      BY <1>10, <2>2 DEF UnlockWake
    <3>2. QED
      BY <1>10, <3>1, WordFacts DEF UnlockWake
  <2>3. QED
    BY <2>1, <2>2
<1>11. CASE UNCHANGED vars
  BY <1>11 DEF vars
<1>12. QED
  BY <1>1, <1>2, <1>3, <1>4, <1>5, <1>6, <1>7, <1>8, <1>9, <1>10, <1>11,
     <1>13
     DEF Next, Step

\* The words, counters and program points stay in their ranges in every
\* interleaving of _PyRawMutex_Lock and _PyRawMutex_Unlock.
THEOREM RawMutexTypes == Spec => []TypeOK
<1>1. Init => TypeOK
  BY WordFacts DEF Init, TypeOK, PC
<1>2. QED
  BY <1>1, StepKeepsTypes, PTL DEF Spec

\* A step of one thread keeps the lock exclusive: only a successful
\* compare-and-swap moves the LOCKED bit, and it moves it together with
\* the thread's own program point.
LEMMA StepKeepsMutualExclusion ==
    TypeOK /\ MutualExclusion /\ [Next]_vars => MutualExclusion'
<1> SUFFICES ASSUME TypeOK, MutualExclusion, [Next]_vars
             PROVE MutualExclusion'
  OBVIOUS
<1> USE DEF TypeOK, MutualExclusion, Holds, Goto, Word, PC
<1>1. ASSUME NEW t \in Threads, Lock(t) PROVE MutualExclusion'
  BY <1>1 DEF Lock, Unlocked, Locked
<1>2. ASSUME NEW t \in Threads, LockSlow(t) PROVE MutualExclusion'
  BY <1>2 DEF LockSlow
<1>3. ASSUME NEW t \in Threads, LockGrab(t) PROVE MutualExclusion'
  BY <1>3 DEF LockGrab
<1>4. ASSUME NEW t \in Threads, LockPush(t) PROVE MutualExclusion'
  BY <1>4 DEF LockPush
<1>5. ASSUME NEW t \in Threads, LockWoken(t) PROVE MutualExclusion'
  BY <1>5 DEF LockWoken
<1>6. ASSUME NEW t \in Threads, LockInterrupted(t) PROVE MutualExclusion'
  BY <1>6 DEF LockInterrupted
<1>7. ASSUME NEW t \in Threads, Unlock(t) PROVE MutualExclusion'
  BY <1>7 DEF Unlock, Unlocked, Locked
<1>8. ASSUME NEW t \in Threads, UnlockSlow(t) PROVE MutualExclusion'
  BY <1>8 DEF UnlockSlow
<1>9. ASSUME NEW t \in Threads, UnlockTry(t) PROVE MutualExclusion'
  <2>1. CASE v[t].head = NoThread /\ word = v[t]
    <3>1. ~ word'.locked /\ \A u \in Threads : Holds(u)' => Holds(u) /\ u # t
      BY <1>9, <2>1 DEF UnlockTry, Unlocked
    <3>2. Holds(t)
      BY <1>9 DEF UnlockTry
    <3>3. QED
      BY <3>1, <3>2
  <2>2. CASE v[t].head # NoThread \/ word # v[t]
    BY <1>9, <2>2 DEF UnlockTry
  <2>3. QED
    BY <2>1, <2>2
<1>10. ASSUME NEW t \in Threads, UnlockWake(t) PROVE MutualExclusion'
  BY <1>10 DEF UnlockWake
<1>13. ASSUME NEW t \in Threads, UnlockPop(t) PROVE MutualExclusion'
  <2>1. CASE word = v[t]
    <3>1. ~ word'.locked /\ \A u \in Threads : Holds(u)' => Holds(u) /\ u # t
      BY <1>13, <2>1 DEF UnlockPop
    <3>2. Holds(t)
      BY <1>13 DEF UnlockPop
    <3>3. QED
      BY <3>1, <3>2
  <2>2. CASE word # v[t]
    BY <1>13, <2>2 DEF UnlockPop
  <2>3. QED
    BY <2>1, <2>2
<1>11. CASE UNCHANGED vars
  BY <1>11 DEF vars
<1>12. QED
  BY <1>1, <1>2, <1>3, <1>4, <1>5, <1>6, <1>7, <1>8, <1>9, <1>10, <1>11,
     <1>13
     DEF Next, Step

\* At most one thread is between a lock and its unlock, and the LOCKED bit
\* of the word tells whether one is.
THEOREM RawMutexExclusion == Spec => []MutualExclusion
<1>1. Init => MutualExclusion
  BY DEF Init, MutualExclusion, Holds, Unlocked
<1>2. QED
  BY <1>1, RawMutexTypes, StepKeepsMutualExclusion, PTL DEF Spec

\* Every step of the compare-and-swap loops is, for an observer of the
\* ownership alone, an acquisition of a free lock, a release by its owner,
\* or nothing.
LEMMA StepRefines ==
    TypeOK /\ MutualExclusion /\ MutualExclusion' /\ [Next]_vars
        => [AL!StrictNext]_owners
<1> SUFFICES ASSUME TypeOK, MutualExclusion, MutualExclusion', [Next]_vars
             PROVE [AL!StrictNext]_owners
  OBVIOUS
<1> DEFINE Same == \A u \in Threads : Holds(u)' <=> Holds(u)
<1>1. ASSUME Same PROVE UNCHANGED owners
  BY <1>1 DEF owners
<1>2. ASSUME NEW t \in Threads, ~word.locked, Holds(t)'
      PROVE AL!StrictNext
  <2>1. owners = {} /\ owners' = {t}
    BY <1>2 DEF MutualExclusion, owners
  <2>2. QED
    BY <2>1 DEF AL!StrictNext, AL!Acquire
<1>3. ASSUME NEW t \in Threads, Holds(t), ~word'.locked
      PROVE AL!StrictNext
  <2>1. owners = {t} /\ owners' = {}
    BY <1>3 DEF MutualExclusion, owners
  <2>2. QED
    BY <2>1 DEF AL!StrictNext, AL!Release
<1> USE DEF TypeOK, Holds, Goto, PC
<1>4. ASSUME NEW t \in Threads, Lock(t) PROVE [AL!StrictNext]_owners
  <2>1. CASE word = Unlocked
    BY <1>2, <1>4, <2>1 DEF Lock, Unlocked
  <2>2. CASE word # Unlocked
    BY <1>1, <1>4, <2>2 DEF Lock
  <2>3. QED
    BY <2>1, <2>2
<1>5. ASSUME NEW t \in Threads, LockGrab(t) PROVE [AL!StrictNext]_owners
  <2>1. CASE word = v[t]
    BY <1>2, <1>5, <2>1 DEF LockGrab
  <2>2. CASE word # v[t]
    BY <1>1, <1>5, <2>2 DEF LockGrab
  <2>3. QED
    BY <2>1, <2>2
<1>6. ASSUME NEW t \in Threads, Unlock(t) PROVE [AL!StrictNext]_owners
  <2>1. CASE word = Locked
    BY <1>3, <1>6, <2>1 DEF Unlock, Unlocked
  <2>2. CASE word # Locked
    BY <1>1, <1>6, <2>2 DEF Unlock
  <2>3. QED
    BY <2>1, <2>2
<1>7. ASSUME NEW t \in Threads, UnlockTry(t) PROVE [AL!StrictNext]_owners
  <2>1. CASE v[t].head = NoThread /\ word = v[t]
    BY <1>3, <1>7, <2>1 DEF UnlockTry, Unlocked
  <2>2. CASE v[t].head # NoThread \/ word # v[t]
    BY <1>1, <1>7, <2>2 DEF UnlockTry
  <2>3. QED
    BY <2>1, <2>2
<1>8. ASSUME NEW t \in Threads,
             LockSlow(t) \/ LockPush(t) \/ LockWoken(t) \/ LockInterrupted(t)
               \/ UnlockSlow(t) \/ UnlockWake(t)
      PROVE [AL!StrictNext]_owners
  BY <1>1, <1>8
     DEF LockSlow, LockPush, LockWoken, LockInterrupted, UnlockSlow, UnlockWake
<1>11. ASSUME NEW t \in Threads, UnlockPop(t) PROVE [AL!StrictNext]_owners
  <2>1. CASE word = v[t]
    BY <1>3, <1>11, <2>1 DEF UnlockPop
  <2>2. CASE word # v[t]
    BY <1>1, <1>11, <2>2 DEF UnlockPop
  <2>3. QED
    BY <2>1, <2>2
<1>9. CASE UNCHANGED vars
  BY <1>1, <1>9 DEF vars
<1>10. QED
  BY <1>4, <1>5, <1>6, <1>7, <1>8, <1>9, <1>11 DEF Next, Step

\* The raw mutex implements the abstract lock that is acquired only when
\* free and released only by its owner.
THEOREM RawMutexImplementsLock == Spec => ImplementsLock
<1>1. Init => AL!Init
  BY DEF Init, AL!Init, owners, Holds
<1>2. QED
  BY <1>1, StepRefines, RawMutexTypes, RawMutexExclusion, PTL
     DEF Spec, ImplementsLock, AL!StrictSpec

(***************************************************************************)
(* The stack of waiters.                                                   *)
(***************************************************************************)

\* What is reachable from p is p and what is reachable from the entry under
\* it, and nothing else.
LEMMA FromFacts ==
    ASSUME next \in [Threads -> Pointer]
    PROVE  /\ \A p \in Pointer : IsClosedFrom(From(p), p)
           /\ \A p \in Pointer : \A S \in SUBSET Threads :
                 IsClosedFrom(S, p) => From(p) \subseteq S
           /\ From(NoThread) = {}
           /\ \A p \in Threads : From(p) = {p} \cup From(next[p])
           /\ \A p \in Pointer : \A t \in From(p) : From(next[t]) \subseteq From(p)
<1>1. ASSUME NEW p \in Pointer PROVE IsClosedFrom(From(p), p)
  BY DEF From, IsClosedFrom, Pointer
<1>2. ASSUME NEW p \in Pointer, NEW S \in SUBSET Threads, IsClosedFrom(S, p)
      PROVE  From(p) \subseteq S
  BY <1>2 DEF From
<1>3. From(NoThread) = {}
  <2>1. IsClosedFrom({}, NoThread)
    BY DEF IsClosedFrom
  <2>2. QED
    BY <2>1 DEF From
<1>4. ASSUME NEW p \in Pointer, NEW t \in From(p)
      PROVE  From(next[t]) \subseteq From(p)
  <2>1. t \in Threads /\ next[t] \in Pointer
    BY DEF From
  <2>2. From(p) \in SUBSET Threads /\ IsClosedFrom(From(p), next[t])
    BY <1>1 DEF IsClosedFrom, From
  <2>3. QED
    BY <1>2, <2>1, <2>2
<1>5. ASSUME NEW p \in Threads PROVE From(p) = {p} \cup From(next[p])
  <2>1. p \in Pointer /\ next[p] \in Pointer
    BY DEF Pointer
  <2>2. IsClosedFrom({p} \cup From(next[p]), p) /\ {p} \cup From(next[p]) \in SUBSET Threads
    <3>1. IsClosedFrom(From(next[p]), next[p])
      BY <1>1, <2>1
    <3>2. QED
      BY <3>1 DEF IsClosedFrom, From
  <2>3. From(p) \subseteq {p} \cup From(next[p])
    BY <1>2, <2>1, <2>2
  <2>4. p \in From(p)
    BY <1>1, <2>1 DEF IsClosedFrom
  <2>5. From(next[p]) \subseteq From(p)
    BY <1>4, <2>1, <2>4
  <2>6. QED
    BY <2>3, <2>4, <2>5
<1>6. QED
  BY <1>1, <1>2, <1>3, <1>4, <1>5

\* The same, as a formula that holds after a step too.
LEMMA FromCons ==
    next \in [Threads -> Pointer] => \A p \in Threads : From(p) = {p} \cup From(next[p])
BY FromFacts

\* A step that does not change the link of a reachable entry changes nothing
\* of what is reachable.
LEMMA FromUnchanged ==
    ASSUME next \in [Threads -> Pointer],
           NEW p \in Pointer, \A t \in From(p) : next'[t] = next[t]
    PROVE  From(p)' = From(p)
<1>1. PICK F \in SUBSET Threads : F = From(p)
  BY DEF From
<1>2. IsClosedFrom(F, p)
  BY <1>1, FromFacts
<1>3. p \in F \cup {NoThread} /\ \A t \in F : next'[t] \in F \cup {NoThread}
  BY <1>1, <1>2 DEF IsClosedFrom
<1>4. From(p)' \subseteq F
  BY <1>3 DEF From, IsClosedFrom
<1>5. ASSUME NEW S \in SUBSET Threads,
             p \in S \cup {NoThread}, \A t \in S : next'[t] \in S \cup {NoThread}
      PROVE  F \subseteq S
  <2>1. IsClosedFrom(S \cap F, p) /\ S \cap F \in SUBSET Threads
    BY <1>1, <1>2, <1>5 DEF IsClosedFrom
  <2>2. From(p) \subseteq S \cap F
    BY <2>1, FromFacts
  <2>3. QED
    BY <1>1, <2>2
<1>6. F \subseteq From(p)'
  BY <1>5 DEF From, IsClosedFrom
<1>7. QED
  BY <1>1, <1>4, <1>6

\* No entry is under itself.
Linear == \A t \in Stack : t \notin From(next[t])

\* Who wakes a waiter is about to post its semaphore, and nobody else is.
Wakers ==
    /\ \A t \in Threads : waking[t] # NoThread <=> pc[t] = "unlock_wake"
    /\ \A t, u \in Threads : waking[t] = waking[u] /\ waking[t] # NoThread => t = u

\* The owner's copy of the head is still on the stack, if under newer
\* entries, and what it read from that entry is still true.
Unlockers ==
    \A t \in Threads :
        /\ pc[t] \in {"unlock_try", "unlock_pop"} =>
              v[t].head = NoThread \/ v[t].head \in Stack
        /\ pc[t] = "unlock_pop" =>
              v[t].head # NoThread /\ next_waiter[t] = next[v[t].head]

\* Whoever is about to push its entry has no post left over.
NoPostLeft == \A t \in Threads : pc[t] = "lock_try" => sema[t] = 0

StackInv ==
    TypeOK /\ MutualExclusion /\ NoWaiterLost /\ Linear /\ Wakers /\ Unlockers /\ NoPostLeft

\* The stack stays the same, links included, while the head does and no link
\* in it changes.
LEMMA StackUnchanged ==
    ASSUME TypeOK, word'.head = word.head, \A t \in Stack : next'[t] = next[t]
    PROVE  Stack' = Stack /\ (Linear => Linear')
<1>1. word.head \in Pointer /\ next \in [Threads -> Pointer]
  BY WordFacts DEF TypeOK
<1>2. PICK h \in Pointer : h = word.head
  BY <1>1
<1>3. From(h)' = From(h)
  BY <1>1, <1>2, FromUnchanged DEF Stack
<1>4. Stack' = Stack
  <2>1. Stack = From(h)
    BY <1>2 DEF Stack
  <2>2. Stack' = From(h)'
    BY <1>2 DEF Stack, From
  <2>3. QED
    BY <1>3, <2>1, <2>2
<1>5. ASSUME Linear, NEW t \in Stack PROVE t \notin From(next[t])'
  <2>1. t \in Threads
    BY DEF Stack, From
  <2>2. PICK p \in Pointer : p = next[t]
    BY <1>1, <2>1
  <2>3. \A u \in From(p) : next'[u] = next[u]
    <3>1. From(p) \subseteq Stack
      BY <1>1, <2>2, FromFacts DEF Stack
    <3>2. QED
      BY <3>1
  <2>4. From(p)' = From(p)
    BY <1>1, <2>3, FromUnchanged
  <2>5. From(next[t])' = From(p)'
    BY <2>2 DEF From
  <2>6. QED
    BY <1>5, <2>2, <2>4, <2>5 DEF Linear
<1>6. QED
  BY <1>4, <1>5 DEF Linear

\* The invariant holds of the mutex that nobody has touched.
LEMMA InitStackInv == Init => StackInv
<1> SUFFICES ASSUME Init PROVE StackInv
  OBVIOUS
<1>1. TypeOK
  BY WordFacts DEF Init, TypeOK, PC
<1>2. MutualExclusion
  BY DEF Init, MutualExclusion, Holds, Unlocked
<1>3. Stack = {}
  <2>1. word.head = NoThread
    BY DEF Init, Unlocked
  <2>2. QED
    BY <1>1, <2>1, FromFacts DEF Stack, TypeOK
<1>4. NoWaiterLost /\ Linear /\ Wakers /\ Unlockers /\ NoPostLeft
  BY <1>3 DEF Init, NoWaiterLost, BeingWoken, Linear, Wakers, Unlockers, NoPostLeft
<1>5. QED
  BY <1>1, <1>2, <1>4 DEF StackInv

\* While waits end only when their semaphore is posted, every step of a
\* thread keeps the stack of the threads that sleep on the mutex.
LEMMA StepKeepsStackInv ==
    ASSUME ~Interruptible, StackInv, [Next]_vars
    PROVE  StackInv'
<1>1. TypeOK /\ MutualExclusion /\ NoWaiterLost /\ Linear /\ Wakers /\ Unlockers /\ NoPostLeft
  BY DEF StackInv
<1>2. TypeOK' /\ MutualExclusion'
  BY <1>1, StepKeepsTypes, StepKeepsMutualExclusion
<1> DEFINE Kept == (NoWaiterLost /\ Linear /\ Wakers /\ Unlockers /\ NoPostLeft)'
<1> HIDE DEF Kept
<1>3. Stack \subseteq Threads /\ next \in [Threads -> Pointer] /\ word.head \in Pointer
  BY <1>1, WordFacts DEF Stack, From, TypeOK
\* A step that only moves t, which does not sleep or wake, on.
<1>4. ASSUME NEW t \in Threads, NEW l \in PC \ {"lock_wait", "unlock_wake"},
             UNCHANGED <<word, next, waking>>,
             sema' = sema \/ sema' = [sema EXCEPT ![t] = 0],
             pc[t] \notin {"lock_wait", "unlock_wake"},
             pc' = [pc EXCEPT ![t] = l],
             pc'[t] = "lock_try" => sema'[t] = 0,
             \A u \in Threads : u # t => v'[u] = v[u] /\ next_waiter'[u] = next_waiter[u],
             pc'[t] \in {"unlock_try", "unlock_pop"} =>
                v'[t].head = NoThread \/ v'[t].head \in Stack,
             pc'[t] = "unlock_pop" =>
                v'[t].head # NoThread /\ next_waiter'[t] = next[v'[t].head]
      PROVE  Kept
  <2>1. Stack' = Stack /\ Linear'
    BY <1>1, <1>4, StackUnchanged
  <2>2. NoWaiterLost'
    BY <1>1, <1>4, <2>1 DEF NoWaiterLost, BeingWoken, TypeOK
  <2>3. Wakers'
    BY <1>1, <1>4 DEF Wakers, TypeOK
  <2>4. Unlockers'
    BY <1>1, <1>4, <2>1 DEF Unlockers, TypeOK
  <2>5. NoPostLeft'
    BY <1>1, <1>4 DEF NoPostLeft, TypeOK
  <2>6. QED
    BY <2>1, <2>2, <2>3, <2>4, <2>5 DEF Kept
\* A step that changes the LOCKED bit alone.
<1>5. ASSUME NEW t \in Threads, UNCHANGED <<next, sema, v, next_waiter, waking>>,
             word'.head = word.head,
             pc[t] \notin {"lock_wait", "unlock_wake"},
             \E l \in {"locked", "idle"} : pc' = [pc EXCEPT ![t] = l]
      PROVE  Kept
  <2>1. Stack' = Stack /\ Linear'
    BY <1>1, <1>5, StackUnchanged
  <2>2. NoWaiterLost'
    BY <1>1, <1>5, <2>1 DEF NoWaiterLost, BeingWoken, TypeOK
  <2>3. Wakers'
    BY <1>1, <1>5 DEF Wakers, TypeOK
  <2>4. Unlockers'
    BY <1>1, <1>5, <2>1 DEF Unlockers, TypeOK
  <2>5. NoPostLeft'
    BY <1>1, <1>5 DEF NoPostLeft, TypeOK
  <2>6. QED
    BY <2>1, <2>2, <2>3, <2>4, <2>5 DEF Kept
<1>6. ASSUME NEW t \in Threads, Lock(t) PROVE Kept
  <2>1. CASE word = Unlocked
    BY <1>1, <1>5, <1>6, <2>1 DEF Lock, Goto, Unlocked, Locked
  <2>2. CASE word # Unlocked
    <3>1. pc' = [pc EXCEPT ![t] = "lock_slow"] /\ pc[t] = "idle"
             /\ UNCHANGED <<word, next, sema, v, next_waiter, waking>>
      BY <1>6, <2>2 DEF Lock, Goto
    <3>2. pc'[t] = "lock_slow" /\ "lock_slow" \in PC
      BY <1>1, <3>1 DEF TypeOK, PC
    <3>3. QED
      BY <1>4, <3>1, <3>2
  <2>3. QED
    BY <2>1, <2>2
<1>7. ASSUME NEW t \in Threads, LockSlow(t) PROVE Kept
  <2>1. /\ pc' = [pc EXCEPT ![t] = "lock_try"] /\ pc[t] = "lock_slow"
        /\ sema' = [sema EXCEPT ![t] = 0] /\ v' = [v EXCEPT ![t] = word]
        /\ UNCHANGED <<word, next, next_waiter, waking>>
    BY <1>7 DEF LockSlow, Goto
  <2>2. pc'[t] = "lock_try" /\ "lock_try" \in PC /\ sema'[t] = 0
           /\ \A u \in Threads : u # t => v'[u] = v[u]
    BY <1>1, <2>1 DEF TypeOK, PC
  <2>3. QED
    BY <1>4, <2>1, <2>2
<1>8. ASSUME NEW t \in Threads, LockGrab(t) PROVE Kept
  <2>1. CASE word = v[t]
    <3>1. word'.head = word.head
      BY <1>1, <1>8, <2>1 DEF LockGrab, TypeOK, Word
    <3>2. QED
      BY <1>5, <1>8, <2>1, <3>1 DEF LockGrab, Goto
  <2>2. CASE word # v[t]
    <3>1. /\ pc[t] = "lock_try" /\ pc' = [pc EXCEPT ![t] = "lock_try"]
          /\ v' = [v EXCEPT ![t] = word] /\ UNCHANGED <<word, next, sema, next_waiter, waking>>
      BY <1>1, <1>8, <2>2 DEF LockGrab, TypeOK
    <3>2. pc'[t] = "lock_try" /\ "lock_try" \in PC /\ sema'[t] = 0
             /\ \A u \in Threads : u # t => v'[u] = v[u]
      BY <1>1, <3>1 DEF TypeOK, PC, NoPostLeft
    <3>3. QED
      BY <1>4, <3>1, <3>2
  <2>3. QED
    BY <2>1, <2>2
\* Nobody is below the entry that t pushes, nor has its link been in use.
<1>9. ASSUME NEW t \in Threads, LockPush(t) PROVE Kept
  <2>1. t \notin Stack /\ t \notin BeingWoken /\ pc[t] = "lock_try" /\ sema[t] = 0
    BY <1>1, <1>9 DEF LockPush, NoWaiterLost, NoPostLeft
  <2>2. \A u \in Stack : next'[u] = next[u]
    BY <1>1, <1>9, <2>1 DEF LockPush, TypeOK
  <2>3. CASE word # v[t]
    <3>1. Stack' = Stack /\ Linear'
      BY <1>1, <1>9, <2>2, <2>3, StackUnchanged DEF LockPush
    <3>2. UNCHANGED <<word, pc, sema, next_waiter, waking>> /\ v' = [v EXCEPT ![t] = word]
      BY <1>9, <2>3 DEF LockPush
    <3>3. NoWaiterLost' /\ Wakers' /\ NoPostLeft'
      BY <1>1, <3>1, <3>2 DEF NoWaiterLost, BeingWoken, Wakers, NoPostLeft
    <3>4. Unlockers'
      BY <1>1, <2>1, <2>2, <3>1, <3>2 DEF Unlockers, TypeOK
    <3>5. QED
      BY <3>1, <3>3, <3>4 DEF Kept
  <2>4. CASE word = v[t]
    <3>1. /\ word'.head = t /\ next' = [next EXCEPT ![t] = word.head]
          /\ pc' = [pc EXCEPT ![t] = "lock_wait"]
          /\ UNCHANGED <<v, sema, next_waiter, waking>>
      BY <1>9, <2>4 DEF LockPush, Goto
    <3>2. PICK h \in Pointer : h = word.head
      BY <1>3
    <3>3. From(h)' = From(h) /\ From(h) = Stack
      BY <1>3, <2>2, <3>2, FromUnchanged DEF Stack
    <3>4. next' \in [Threads -> Pointer] /\ next'[t] = h
      BY <1>2, <1>3, <3>1, <3>2 DEF TypeOK
    <3>5. From(t)' = {t} \cup From(h)'
      <4>1. (next \in [Threads -> Pointer]
              => \A p \in Threads : From(p) = {p} \cup From(next[p]))'
        BY FromCons, PTL
      <4>2. From(next[t])' = From(h)'
        BY <3>4 DEF From
      <4>3. QED
        BY <3>4, <4>1, <4>2
    <3>6. Stack' = {t} \cup Stack
      <4>1. Stack' = From(t)'
        BY <3>1 DEF Stack, From
      <4>2. QED
        BY <3>3, <3>5, <4>1
    <3>7. Linear'
      <4>1. ASSUME NEW u \in Stack PROVE u \notin From(next[u])'
        <5>1. u \in Threads /\ u # t
          BY <1>3, <2>1
        <5>2. PICK p \in Pointer : p = next[u]
          BY <1>3, <5>1
        <5>3. From(p) \subseteq Stack
          BY <1>3, <5>2, FromFacts DEF Stack
        <5>4. From(p)' = From(p)
          BY <1>3, <2>2, <5>3, FromUnchanged
        <5>5. From(next[u])' = From(p)'
          BY <2>2, <5>2 DEF From
        <5>6. QED
          BY <1>1, <5>2, <5>4, <5>5 DEF Linear
      <4>2. t \notin From(next[t])'
        <5>1. From(next[t])' = From(h)'
          BY <3>4 DEF From
        <5>2. QED
          BY <2>1, <3>3, <5>1
      <4>3. QED
        BY <3>6, <4>1, <4>2 DEF Linear
    <3>8. NoWaiterLost'
      BY <1>1, <2>1, <3>1, <3>6 DEF NoWaiterLost, BeingWoken, TypeOK
    <3>9. Wakers' /\ NoPostLeft'
      BY <1>1, <2>1, <3>1 DEF Wakers, NoPostLeft, TypeOK
    <3>10. Unlockers'
      BY <1>1, <2>1, <2>2, <3>1, <3>6 DEF Unlockers, TypeOK
    <3>11. QED
      BY <3>7, <3>8, <3>9, <3>10 DEF Kept
  <2>5. QED
    BY <2>3, <2>4
<1>10. ASSUME NEW t \in Threads, LockWoken(t) PROVE Kept
  <2>1. t \notin Stack /\ t \notin BeingWoken /\ sema[t] = 1 /\ pc[t] = "lock_wait"
    BY <1>1, <1>10 DEF LockWoken, NoWaiterLost, TypeOK
  <2>2. sema' = [sema EXCEPT ![t] = 0]
    BY <1>1, <1>10, <2>1 DEF LockWoken, TypeOK
  <2>3. Stack' = Stack /\ Linear'
    BY <1>1, <1>10, StackUnchanged DEF LockWoken
  <2>4. pc' = [pc EXCEPT ![t] = "lock_try"]
           /\ UNCHANGED <<word, next, v, next_waiter, waking>>
    BY <1>10 DEF LockWoken, Goto
  <2>5. NoWaiterLost'
    BY <1>1, <2>1, <2>2, <2>3, <2>4 DEF NoWaiterLost, BeingWoken, TypeOK
  <2>6. Wakers' /\ NoPostLeft'
    BY <1>1, <2>1, <2>2, <2>4 DEF Wakers, NoPostLeft, TypeOK
  <2>7. Unlockers'
    BY <1>1, <2>1, <2>3, <2>4 DEF Unlockers, TypeOK
  <2>8. QED
    BY <2>3, <2>5, <2>6, <2>7 DEF Kept
<1>11. ASSUME NEW t \in Threads, Unlock(t) PROVE Kept
  <2>1. CASE word = Locked
    BY <1>1, <1>5, <1>11, <2>1 DEF Unlock, Goto, Unlocked, Locked
  <2>2. CASE word # Locked
    <3>1. pc' = [pc EXCEPT ![t] = "unlock_slow"] /\ pc[t] = "locked"
             /\ UNCHANGED <<word, next, sema, v, next_waiter, waking>>
      BY <1>11, <2>2 DEF Unlock, Goto
    <3>2. pc'[t] = "unlock_slow" /\ "unlock_slow" \in PC
      BY <1>1, <3>1 DEF TypeOK, PC
    <3>3. QED
      BY <1>4, <3>1, <3>2
  <2>3. QED
    BY <2>1, <2>2
\* The head that was read is that of the stack.
<1>12. word.head = NoThread \/ word.head \in Stack
  BY <1>3, FromFacts DEF Stack, IsClosedFrom
<1>13. ASSUME NEW t \in Threads, UnlockSlow(t) PROVE Kept
  <2>1. /\ pc' = [pc EXCEPT ![t] = "unlock_try"] /\ pc[t] = "unlock_slow"
        /\ v' = [v EXCEPT ![t] = word]
        /\ UNCHANGED <<word, next, sema, next_waiter, waking>>
    BY <1>13 DEF UnlockSlow, Goto
  <2>2. pc'[t] = "unlock_try" /\ "unlock_try" \in PC /\ v'[t] = word
           /\ \A u \in Threads : u # t => v'[u] = v[u]
    BY <1>1, <2>1 DEF TypeOK, PC
  <2>3. QED
    BY <1>4, <1>12, <2>1, <2>2
<1>14. ASSUME NEW t \in Threads, UnlockTry(t) PROVE Kept
  <2>1. CASE v[t].head # NoThread
    <3>1. /\ pc' = [pc EXCEPT ![t] = "unlock_pop"] /\ pc[t] = "unlock_try"
          /\ next_waiter' = [next_waiter EXCEPT ![t] = next[v[t].head]]
          /\ UNCHANGED <<word, v, next, sema, waking>>
      BY <1>14, <2>1 DEF UnlockTry, Goto
    <3>2. pc'[t] = "unlock_pop" /\ "unlock_pop" \in PC /\ v[t].head \in Stack
      BY <1>1, <2>1, <3>1 DEF TypeOK, PC, Unlockers
    <3>3. /\ next_waiter'[t] = next[v[t].head]
          /\ \A u \in Threads : u # t => next_waiter'[u] = next_waiter[u]
      BY <1>1, <3>1 DEF TypeOK
    <3>4. QED
      BY <1>4, <2>1, <3>1, <3>2, <3>3
  <2>2. CASE v[t].head = NoThread /\ word = v[t]
    BY <1>1, <1>5, <1>14, <2>2 DEF UnlockTry, Goto, Unlocked
  <2>3. CASE v[t].head = NoThread /\ word # v[t]
    <3>1. /\ pc' = [pc EXCEPT ![t] = "unlock_try"] /\ pc[t] = "unlock_try"
          /\ v' = [v EXCEPT ![t] = word]
          /\ UNCHANGED <<word, next, sema, next_waiter, waking>>
      BY <1>1, <1>14, <2>3 DEF UnlockTry, TypeOK
    <3>2. pc'[t] = "unlock_try" /\ "unlock_try" \in PC /\ v'[t] = word
             /\ \A u \in Threads : u # t => v'[u] = v[u] /\ next_waiter'[u] = next_waiter[u]
      BY <1>1, <3>1 DEF TypeOK, PC
    <3>3. QED
      BY <1>4, <1>12, <3>1, <3>2
  <2>4. QED
    BY <2>1, <2>2, <2>3
<1>15. ASSUME NEW t \in Threads, UnlockPop(t) PROVE Kept
  <2>1. CASE word # v[t]
    <3>1. /\ pc' = [pc EXCEPT ![t] = "unlock_try"] /\ pc[t] = "unlock_pop"
          /\ v' = [v EXCEPT ![t] = word]
          /\ next_waiter' = [next_waiter EXCEPT ![t] = NoThread]
          /\ UNCHANGED <<word, next, sema, waking>>
      BY <1>15, <2>1 DEF UnlockPop, Goto
    <3>2. pc'[t] = "unlock_try" /\ "unlock_try" \in PC /\ v'[t] = word
             /\ \A u \in Threads : u # t => v'[u] = v[u] /\ next_waiter'[u] = next_waiter[u]
      BY <1>1, <3>1 DEF TypeOK, PC
    <3>3. QED
      BY <1>4, <1>12, <3>1, <3>2
  <2>2. CASE word = v[t]
    <3>1. PICK h \in Threads : h = word.head /\ h \in Stack /\ next_waiter[t] = next[h]
      BY <1>1, <1>3, <1>15, <2>2 DEF UnlockPop, Unlockers
    <3>2. /\ pc[t] = "unlock_pop" /\ pc' = [pc EXCEPT ![t] = "unlock_wake"]
          /\ waking' = [waking EXCEPT ![t] = h] /\ word'.head = next[h]
          /\ next_waiter' = [next_waiter EXCEPT ![t] = NoThread]
          /\ UNCHANGED <<v, next, sema>>
      BY <1>15, <2>2, <3>1 DEF UnlockPop, Goto
    <3>3. PICK p \in Pointer : p = next[h]
      BY <1>3
    <3>4. Stack = {h} \cup From(p) /\ h \notin From(p)
      BY <1>1, <1>3, <3>1, <3>3, FromFacts DEF Stack, Linear
    <3>5. Stack' = From(p)
      <4>1. From(p)' = From(p)
        BY <1>3, <3>2, FromUnchanged
      <4>2. Stack' = From(p)'
        BY <3>2, <3>3 DEF Stack, From
      <4>3. QED
        BY <4>1, <4>2
    <3>6. Linear'
      <4>1. ASSUME NEW u \in From(p) PROVE u \notin From(next[u])'
        <5>1. u \in Stack /\ u \in Threads
          BY <1>3, <3>4
        <5>2. PICK n \in Pointer : n = next[u]
          BY <1>3, <5>1
        <5>3. From(n)' = From(n)
          BY <1>3, <3>2, FromUnchanged
        <5>4. From(next[u])' = From(n)'
          BY <3>2, <5>2 DEF From
        <5>5. QED
          BY <1>1, <5>1, <5>2, <5>3, <5>4 DEF Linear
      <4>2. QED
        BY <3>5, <4>1 DEF Linear
    <3>7. pc[h] = "lock_wait" /\ sema[h] = 0 /\ h \notin BeingWoken /\ h # t
      BY <1>1, <3>1, <3>2 DEF NoWaiterLost
    <3>8. waking[t] = NoThread
      BY <1>1, <3>2 DEF Wakers
    <3>9. BeingWoken' = BeingWoken \cup {h}
      BY <1>1, <3>2, <3>8, RawMutexAssumption DEF BeingWoken, TypeOK
    <3>10. NoWaiterLost'
      BY <1>1, <3>2, <3>4, <3>5, <3>7, <3>9 DEF NoWaiterLost, TypeOK
    <3>11. Wakers'
      BY <1>1, <3>2, <3>7, RawMutexAssumption DEF Wakers, BeingWoken, TypeOK
    <3>12. NoPostLeft'
      BY <1>1, <3>2 DEF NoPostLeft, TypeOK
    \* t was the owner: nobody else is unlocking.
    <3>13. Unlockers'
      BY <1>1, <3>2 DEF Unlockers, TypeOK, MutualExclusion, Holds
    <3>14. QED
      BY <3>6, <3>10, <3>11, <3>12, <3>13 DEF Kept
  <2>3. QED
    BY <2>1, <2>2
<1>16. ASSUME NEW t \in Threads, UnlockWake(t) PROVE Kept
  <2>1. PICK w \in Threads : w = waking[t]
    BY <1>1, <1>16, WordFacts DEF UnlockWake, Wakers, TypeOK
  <2>2. /\ pc[t] = "unlock_wake" /\ pc' = [pc EXCEPT ![t] = "idle"]
        /\ sema' = [sema EXCEPT ![w] = @ + 1]
        /\ waking' = [waking EXCEPT ![t] = NoThread]
        /\ UNCHANGED <<word, next, v, next_waiter>>
    BY <1>16, <2>1 DEF UnlockWake, Goto
  <2>3. w \in BeingWoken
    BY <2>1, RawMutexAssumption DEF BeingWoken
  <2>4. pc[w] = "lock_wait" /\ sema[w] = 0 /\ w \notin Stack /\ w # t
    BY <1>1, <2>2, <2>3 DEF NoWaiterLost
  <2>5. BeingWoken' = BeingWoken \ {w}
    BY <1>1, <2>1, <2>2, RawMutexAssumption DEF BeingWoken, Wakers, TypeOK
  <2>6. Stack' = Stack /\ Linear'
    BY <1>1, <2>2, StackUnchanged
  <2>7. sema'[w] = 1 /\ \A u \in Threads : u # w => sema'[u] = sema[u]
    BY <1>1, <2>2, <2>4 DEF TypeOK
  <2>8. NoWaiterLost'
    BY <1>1, <2>2, <2>4, <2>5, <2>6, <2>7 DEF NoWaiterLost, TypeOK
  <2>9. Wakers'
    BY <1>1, <2>2 DEF Wakers, TypeOK
  <2>10. NoPostLeft'
    BY <1>1, <2>2, <2>4, <2>7 DEF NoPostLeft, TypeOK
  <2>11. Unlockers'
    BY <1>1, <2>2, <2>6 DEF Unlockers, TypeOK
  <2>12. QED
    BY <2>6, <2>8, <2>9, <2>10, <2>11 DEF Kept
<1>17. ASSUME UNCHANGED vars PROVE Kept
  <2>1. Stack' = Stack /\ Linear'
    BY <1>1, <1>17, StackUnchanged DEF vars
  <2>2. NoWaiterLost' /\ Wakers' /\ Unlockers' /\ NoPostLeft'
    BY <1>1, <1>17, <2>1 DEF vars, NoWaiterLost, BeingWoken, Wakers, Unlockers, NoPostLeft
  <2>3. QED
    BY <2>1, <2>2 DEF Kept
<1>18. Kept
  BY <1>6, <1>7, <1>8, <1>9, <1>10, <1>11, <1>13, <1>14, <1>15, <1>16, <1>17
     DEF Next, Step, LockInterrupted
<1>19. QED
  BY <1>2, <1>18 DEF StackInv, Kept

\* "NoWaiterLost" is true where a semaphore wait returns only when posted:
\* whoever sleeps on a raw mutex is on the stack, about to be posted, or
\* posted, and nobody else is reachable, for any number of threads.
THEOREM RawMutexLosesNobody == ~Interruptible => (Spec => []NoWaiterLost)
<1> SUFFICES ASSUME ~Interruptible PROVE Spec => []NoWaiterLost
  OBVIOUS
<1>1. StackInv /\ [Next]_vars => StackInv'
  BY StepKeepsStackInv
<1>2. StackInv => NoWaiterLost
  BY DEF StackInv
<1>3. QED
  BY <1>1, <1>2, InitStackInv, PTL DEF Spec
USE SmallLocksAssumption

(***************************************************************************)
(* A thread in the parking lot.                                            *)
(***************************************************************************)

\* The theorems about the parking lot, which the locks share.
Lot == INSTANCE ParkingLotProofs WITH sema <- lot_sema

\* The theorems about critical sections.
Cs == INSTANCE SectionProofs WITH
    Threads <- Nesters, want <- cs_want, level <- cs_level, pc <- cs_pc

\* The labels of the calls on a lock that may park.
LotPC == RW!PC \cup Event!PC \cup Once!PC

\* A thread in a call works on the lock, and its label says whether it is in
\* _PyParkingLot_Park, or has threads to wake.
Calls ==
    /\ lock_pc \in [Threads -> LotPC]
    /\ \A t \in Threads : lock_pc[t] # "idle" => addr[t] = lock
    /\ \A t \in Threads : lock_pc[t] = "parked" <=> parked[t] # "no"
    /\ \A t \in Threads : lock_pc[t] = "wake" <=> to_wake[t] # <<>>

\* The invariant of the parking lot, and who is in it.
LotCalls == Lot!LotInv /\ Calls

\* t goes to the label l.
Goes(t, l) == lock_pc' = [lock_pc EXCEPT ![t] = l]

\* After a wakeup t has more to give, or its call returns.
GivesOn(t) ==
    \/ to_wake'[t] # <<>> /\ Goes(t, "wake") /\ UNCHANGED addr
    \/ to_wake'[t] = <<>> /\ Goes(t, "idle") /\ addr' = [addr EXCEPT ![t] = NoAddr]

\* The parking lot's own assumptions follow from those of the small locks.
LEMMA LotAssumptions ==
    /\ BucketOf \in [Addrs -> Buckets] /\ NoAddr \notin Addrs
    /\ lock \in Addrs /\ lock # NoAddr
OBVIOUS

\* Every call on a lock has these labels.
LEMMA LabelFacts ==
    /\ "idle" \in LotPC /\ "wake" \in LotPC /\ "parked" \in LotPC
BY DEF LotPC, RW!PC, Event!PC, Once!PC

\* The parts of the invariant that are used most.
LEMMA LotFacts ==
    ASSUME LotCalls
    PROVE  /\ Lot!LotTypeOK
           /\ addr \in [Threads -> Addrs \cup {NoAddr}]
           /\ parked \in [Threads -> Lot!ParkStates]
           /\ to_wake \in [Threads -> Seq(Threads)]
           /\ lock_pc \in [Threads -> LotPC]
BY DEF LotCalls, Calls, Lot!LotInv, Lot!LotTypeOK

\* Outside of the parking lot, a step of t.
LEMMA OutsideKeepsCalls ==
    ASSUME LotCalls, NEW t \in Threads, NEW l \in LotPC \ {"parked", "wake"},
           lock_pc[t] \notin {"parked", "wake"}, Goes(t, l), UNCHANGED Lot!lotVars,
           \/ UNCHANGED addr /\ (l # "idle" => lock_pc[t] # "idle")
           \/ addr' = [addr EXCEPT ![t] = lock]
           \/ addr' = [addr EXCEPT ![t] = NoAddr] /\ l = "idle"
    PROVE  LotCalls'
<1>1. Calls /\ Lot!LotInv
  BY DEF LotCalls
<1>2. UNCHANGED <<parked, to_wake>>
  BY DEF Lot!lotVars
<1>3. parked[t] = "no" /\ addr' \in [Threads -> Addrs \cup {NoAddr}]
  BY <1>1, LotFacts DEF Calls
<1>4. Lot!AddrKept
  BY <1>2, <1>3, LotFacts DEF Lot!AddrKept
<1>5. Lot!LotInv'
  BY <1>1, <1>4, Lot!OutsideKeepsLotInv
<1>6. Calls'
  BY <1>1, <1>2, LotFacts DEF Calls, Goes
<1>7. QED
  BY <1>5, <1>6 DEF LotCalls

\* t parks.
LEMMA EnqueueKeepsCalls ==
    ASSUME LotCalls, NEW t \in Threads, lock_pc[t] \notin {"idle", "wake"},
           Lot!Enqueue(t), Goes(t, "parked"), UNCHANGED addr
    PROVE  LotCalls'
<1>1. Calls /\ Lot!LotInv
  BY DEF LotCalls
<1>2. Lot!LotInv'
  BY <1>1, Lot!EnqueueKeepsLotInv DEF Calls
<1>3. parked' = [parked EXCEPT ![t] = "asleep"] /\ UNCHANGED to_wake
  BY DEF Lot!Enqueue
<1>4. Calls'
  BY <1>1, <1>3, LotFacts, LabelFacts DEF Calls, Goes
<1>5. QED
  BY <1>2, <1>4 DEF LotCalls

\* t's wait ends, and it leaves the parking lot.
LEMMA LeaveKeepsCalls ==
    ASSUME LotCalls, NEW t \in Threads, NEW l \in LotPC \ {"idle", "parked", "wake"},
           lock_pc[t] = "parked",
           Lot!ParkOK(t) \/ \E why \in Lot!Failures : Lot!ParkCancelled(t, why),
           Goes(t, l), UNCHANGED addr
    PROVE  LotCalls'
<1>1. Calls /\ Lot!LotInv
  BY DEF LotCalls
<1>2. parked' = [parked EXCEPT ![t] = "no"] /\ UNCHANGED to_wake
  BY DEF Lot!ParkOK, Lot!ParkCancelled
<1>3. Lot!AddrKept
  BY LotFacts DEF Lot!AddrKept
<1>4. addr[t] \in Addrs
  BY <1>1 DEF Calls
<1>5. Lot!LotInv'
  BY <1>1, <1>3, <1>4, Lot!ParkOKKeepsLotInv, Lot!ParkCancelledKeepsLotInv
<1>6. Calls'
  BY <1>1, <1>2, LotFacts DEF Calls, Goes
<1>7. QED
  BY <1>5, <1>6 DEF LotCalls

\* t's wait fails, and it drains the wakeup that is on its way.
LEMMA WaitOnKeepsCalls ==
    ASSUME LotCalls, NEW t \in Threads, lock_pc[t] = "parked",
           Lot!ParkRechecked(t) \/ \E why \in Lot!Failures : Lot!ParkFails(t, why),
           UNCHANGED <<lock_pc, addr>>
    PROVE  LotCalls'
<1>1. Calls /\ Lot!LotInv
  BY DEF LotCalls
<1>2. Lot!AddrKept
  BY LotFacts DEF Lot!AddrKept
<1>3. Lot!LotInv'
  BY <1>1, <1>2, Lot!ParkRecheckedKeepsLotInv, Lot!ParkFailsKeepsLotInv
<1>4. /\ UNCHANGED to_wake
      /\ \E p \in Lot!ParkStates \ {"no"} : parked' = [parked EXCEPT ![t] = p]
  BY DEF Lot!ParkRechecked, Lot!ParkFails, Lot!ParkStates, Lot!Failures
<1>5. Calls'
  BY <1>1, <1>4, LotFacts DEF Calls
<1>6. QED
  BY <1>3, <1>5 DEF LotCalls

\* t dequeues everybody who waits for the lock.
LEMMA UnparkKeepsCalls ==
    ASSUME LotCalls, NEW t \in Threads, lock_pc[t] \notin {"idle", "parked", "wake"},
           Lot!DequeueAll(t, lock), GivesOn(t)
    PROVE  LotCalls'
<1>1. Calls /\ Lot!LotInv
  BY DEF LotCalls
<1>2. parked[t] = "no" /\ to_wake[t] = <<>> /\ UNCHANGED parked
  BY <1>1 DEF Calls, Lot!DequeueAll
<1>3. Lot!AddrKept
  BY <1>2, LotFacts DEF Lot!AddrKept, GivesOn
<1>4. Lot!LotInv'
  BY <1>1, <1>2, <1>3, Lot!DequeueAllKeepsLotInv
<1>5. \A u \in Threads : u # t => to_wake'[u] = to_wake[u]
  BY LotFacts DEF Lot!DequeueAll
<1>6. GivesOn(t) => Calls'
  <2>1. ASSUME to_wake'[t] # <<>>, Goes(t, "wake"), UNCHANGED addr PROVE Calls'
    BY <1>1, <1>2, <1>5, <2>1, LotFacts, LabelFacts DEF Calls, Goes
  <2>2. ASSUME to_wake'[t] = <<>>, Goes(t, "idle"), addr' = [addr EXCEPT ![t] = NoAddr]
        PROVE  Calls'
    BY <1>1, <1>2, <1>5, <2>2, LotFacts, LabelFacts DEF Calls, Goes
  <2>3. QED
    BY <2>1, <2>2 DEF GivesOn
<1>7. QED
  BY <1>4, <1>6 DEF LotCalls

\* t wakes the next.
LEMMA WakeKeepsCalls ==
    ASSUME LotCalls, NEW t \in Threads, lock_pc[t] = "wake",
           Lot!Wakeup(t), GivesOn(t)
    PROVE  LotCalls'
<1>1. Calls /\ Lot!LotInv
  BY DEF LotCalls
<1>2. parked[t] = "no" /\ UNCHANGED parked
  BY <1>1 DEF Calls, Lot!Wakeup
<1>3. Lot!AddrKept
  BY <1>2, LotFacts DEF Lot!AddrKept, GivesOn
<1>4. Lot!LotInv'
  BY <1>1, <1>3, Lot!WakeupKeepsLotInv
<1>5. \A u \in Threads : u # t => to_wake'[u] = to_wake[u]
  BY LotFacts DEF Lot!Wakeup
<1>6. GivesOn(t) => Calls'
  <2>1. ASSUME to_wake'[t] # <<>>, Goes(t, "wake"), UNCHANGED addr PROVE Calls'
    BY <1>1, <1>2, <1>5, <2>1, LotFacts, LabelFacts DEF Calls, Goes
  <2>2. ASSUME to_wake'[t] = <<>>, Goes(t, "idle"), addr' = [addr EXCEPT ![t] = NoAddr]
        PROVE  Calls'
    BY <1>1, <1>2, <1>5, <2>2, LotFacts, LabelFacts DEF Calls, Goes
  <2>3. QED
    BY <2>1, <2>2 DEF GivesOn
<1>7. QED
  BY <1>4, <1>6 DEF LotCalls

\* A step that changes nothing of the parking lot, nor of who calls.
LEMMA StutterKeepsCalls ==
    ASSUME LotCalls, UNCHANGED <<Lot!lotVars, addr, lock_pc>>
    PROVE  LotCalls'
<1>1. Lot!LotInv'
  BY Lot!OutsideKeepsLotInv DEF LotCalls, Lot!AddrKept, Lot!lotVars, Lot!LotInv, Lot!LotTypeOK
<1>2. Calls'
  BY DEF LotCalls, Calls, Lot!lotVars
<1>3. QED
  BY <1>1, <1>2 DEF LotCalls

(***************************************************************************)
(* The once flag.                                                          *)
(***************************************************************************)

\* The types of the flag's own state; a thread has seen the flag initialized
\* only if it is.
OnceTypes ==
    /\ flag \in Once!Values
    /\ lock_pc \in [Threads -> Once!PC]
    /\ once_v \in [Threads -> Once!Values]
    /\ res \in [Threads -> {0, -1}]

\* One thread at a time runs the initializer, and a call that returns 0, or
\* has read so, comes after it has succeeded.
OnceInv ==
    /\ OnceTypes
    /\ Once!OneRunner
    /\ Once!ZeroMeansInitialized
    /\ \A t \in Threads : once_v[t] = "ONCE_INITIALIZED" => flag = "ONCE_INITIALIZED"

\* The flag's steps in the parking lot are the parking lot's.
LEMMA OnceOnLot ==
    ASSUME NEW t \in Threads
    PROVE  /\ UNCHANGED Once!lotVars <=> UNCHANGED Lot!lotVars
           /\ Once!Enqueue(t) <=> Lot!Enqueue(t)
           /\ Once!ParkOK(t) <=> Lot!ParkOK(t)
           /\ Once!ParkCancelled(t, "INTR") <=> Lot!ParkCancelled(t, "INTR")
           /\ Once!ParkFails(t, "INTR") <=> Lot!ParkFails(t, "INTR")
           /\ Once!ParkRechecked(t) <=> Lot!ParkRechecked(t)
           /\ Once!DequeueAll(t, lock) <=> Lot!DequeueAll(t, lock)
           /\ Once!Wakeup(t) <=> Lot!Wakeup(t)
<1>1. UNCHANGED Once!lotVars <=> UNCHANGED Lot!lotVars
  BY DEF Once!lotVars, Lot!lotVars
<1>2. Once!Enqueue(t) <=> Lot!Enqueue(t)
  BY DEF Once!Enqueue, Lot!Enqueue
<1>3. Once!ParkOK(t) <=> Lot!ParkOK(t)
  BY DEF Once!ParkOK, Lot!ParkOK
<1>4. Once!ParkCancelled(t, "INTR") <=> Lot!ParkCancelled(t, "INTR")
  BY DEF Once!ParkCancelled, Lot!ParkCancelled, Once!RemoveAt, Lot!RemoveAt
<1>5. Once!ParkFails(t, "INTR") <=> Lot!ParkFails(t, "INTR")
  BY DEF Once!ParkFails, Lot!ParkFails
<1>6. Once!ParkRechecked(t) <=> Lot!ParkRechecked(t)
  BY DEF Once!ParkRechecked, Lot!ParkRechecked, Once!Failures, Lot!Failures
<1>7. Once!DequeueAll(t, lock) <=> Lot!DequeueAll(t, lock)
  <2>2. \A s : Once!ToSet(s) = Lot!ToSet(s)
    BY DEF Once!ToSet, Lot!ToSet
  <2>3. \A s, I : Once!Entries(s, I) = Lot!Entries(s, I)
    BY DEF Once!Entries, Lot!Entries, Once!Cardinality, Lot!Cardinality
  <2>4. QED
    BY <2>2, <2>3 DEF Once!DequeueAll, Lot!DequeueAll, Once!Places, Lot!Places
<1>8. Once!Wakeup(t) <=> Lot!Wakeup(t)
  BY DEF Once!Wakeup, Lot!Wakeup
<1>9. QED
  BY <1>1, <1>2, <1>3, <1>4, <1>5, <1>6, <1>7, <1>8

\* A waker of the flag goes on to the next thread, or its call returns.
LEMMA OnceWoke == \A t \in Threads : Once!Woke(t) => GivesOn(t)
BY DEF Once!Woke, GivesOn, Once!Return, Once!Goto, Goes

\* No step of _PyOnceFlag_CallOnceSlow disturbs the parking lot: a thread
\* is in its queue, or wakes, as its label says.
LEMMA OnceKeepsCalls ==
    ASSUME LotCalls, NEW t \in Threads,
           Once!CallOnce(t) \/ Once!Step(t) \/ Once!WaitInterrupted(t)
    PROVE  LotCalls'
<1> USE OnceOnLot DEF Once!Goto, Goes, Once!Return, Once!lotVars, Lot!lotVars
<1>0. Once!PC \subseteq LotPC /\ "INTR" \in Lot!Failures /\ (lock_pc[t] # "idle" => addr[t] = lock)
  BY DEF LotPC, Lot!Failures, LotCalls, Calls
<1> USE DEF Once!PC
<1>1. CASE Once!CallOnce(t)
  BY <1>0, <1>1, OutsideKeepsCalls, StutterKeepsCalls DEF Once!CallOnce
<1>2. CASE Once!Load(t)
  BY <1>0, <1>2, OutsideKeepsCalls DEF Once!Load
<1>3. CASE Once!Start(t)
  BY <1>0, <1>3, OutsideKeepsCalls, StutterKeepsCalls DEF Once!Start, Once!CASFails
<1>4. CASE Once!AlreadyDone(t)
  BY <1>0, <1>4, OutsideKeepsCalls DEF Once!AlreadyDone
<1>5. CASE Once!Mark(t)
  BY <1>5, StutterKeepsCalls DEF Once!Mark, Once!CASFails
<1>6. CASE Once!Park(t)
  BY <1>0, <1>6, OutsideKeepsCalls, EnqueueKeepsCalls DEF Once!Park
<1>7. CASE Once!Parked(t)
  BY <1>0, <1>7, LeaveKeepsCalls, WaitOnKeepsCalls DEF Once!Parked
<1>8. CASE Once!FnReturns(t)
  BY <1>0, <1>8, OutsideKeepsCalls DEF Once!FnReturns
<1>9. CASE Once!UnlockOnce(t)
  BY <1>0, <1>9, OutsideKeepsCalls DEF Once!UnlockOnce
<1>10. CASE Once!Unpark(t)
  BY <1>0, <1>10, UnparkKeepsCalls, OnceWoke DEF Once!Unpark
<1>11. CASE Once!Wake(t)
  BY <1>11, WakeKeepsCalls, OnceWoke DEF Once!Wake
<1>12. CASE Once!WaitInterrupted(t)
  BY <1>0, <1>12, WaitOnKeepsCalls DEF Once!WaitInterrupted
<1>13. QED
  BY <1>1, <1>2, <1>3, <1>4, <1>5, <1>6, <1>7, <1>8, <1>9, <1>10, <1>11, <1>12
  DEF Once!Step

\* The invariant of the once flag is inductive.
LEMMA OnceKeepsInv ==
    ASSUME LotCalls, OnceInv, NEW t \in Threads,
           Once!CallOnce(t) \/ Once!Step(t) \/ Once!WaitInterrupted(t)
    PROVE  OnceInv'
<1> USE DEF OnceInv, OnceTypes, Once!OneRunner, Once!ZeroMeansInitialized, Once!Running,
            Once!Values, Once!PC, Once!Goto, Once!Return
<1>1. CASE Once!CallOnce(t)
  BY <1>1 DEF Once!CallOnce
<1>2. CASE Once!Load(t)
  BY <1>2 DEF Once!Load
<1>3. CASE Once!Start(t)
  BY <1>3 DEF Once!Start, Once!CASFails
<1>4. CASE Once!AlreadyDone(t)
  BY <1>4 DEF Once!AlreadyDone
<1>5. CASE Once!Mark(t)
  BY <1>5 DEF Once!Mark, Once!CASFails
<1>6. CASE Once!Park(t)
  BY <1>6 DEF Once!Park
<1>7. CASE Once!Parked(t)
  BY <1>7 DEF Once!Parked
<1>8. CASE Once!FnReturns(t)
  BY <1>8 DEF Once!FnReturns
<1>9. CASE Once!UnlockOnce(t)
  BY <1>9 DEF Once!UnlockOnce, Once!NewValue
<1>10. CASE Once!Unpark(t)
  BY <1>10 DEF Once!Unpark, Once!Woke
<1>11. CASE Once!Wake(t)
  BY <1>11 DEF Once!Wake, Once!Woke
<1>12. CASE Once!WaitInterrupted(t)
  BY <1>12 DEF Once!WaitInterrupted
<1>13. QED
  BY <1>1, <1>2, <1>3, <1>4, <1>5, <1>6, <1>7, <1>8, <1>9, <1>10, <1>11, <1>12
  DEF Once!Step

(***************************************************************************)
(* The event.                                                              *)
(***************************************************************************)

\* The types of the event's own state.
EventTypes ==
    /\ evt \in Event!Values
    /\ lock_pc \in [Threads -> Event!PC]
    /\ timed \in [Threads -> BOOLEAN]
    /\ ret \in [Threads -> {"OK", "AGAIN"} \cup Event!Failures]

\* Before the event is set there are no wakeups, given or to be given, and
\* none was consumed.  Who is about to park, or sleeps, has marked the event.
EventInv ==
    /\ EventTypes
    /\ evt # "LOCKED" => \A t \in Threads :
          /\ lot_sema[t] = 0 /\ to_wake[t] = <<>>
          /\ lock_pc[t] \notin {"unpark", "wake"}
          /\ lock_pc[t] = "check" => ret[t] \in Event!Failures
    /\ \A t \in Threads : lock_pc[t] \in {"park", "parked"} => evt # "UNLOCKED"

\* The event's steps in the parking lot are the parking lot's.
LEMMA EventOnLot ==
    ASSUME NEW t \in Threads
    PROVE  /\ UNCHANGED Event!lotVars <=> UNCHANGED Lot!lotVars
           /\ Event!Enqueue(t) <=> Lot!Enqueue(t)
           /\ Event!ParkOK(t) <=> Lot!ParkOK(t)
           /\ \A why \in Lot!Failures :
                 /\ Event!ParkCancelled(t, why) <=> Lot!ParkCancelled(t, why)
                 /\ Event!ParkFails(t, why) <=> Lot!ParkFails(t, why)
           /\ Event!ParkRechecked(t) <=> Lot!ParkRechecked(t)
           /\ Event!DequeueAll(t, lock) <=> Lot!DequeueAll(t, lock)
           /\ Event!Wakeup(t) <=> Lot!Wakeup(t)
<1>1. UNCHANGED Event!lotVars <=> UNCHANGED Lot!lotVars
  BY DEF Event!lotVars, Lot!lotVars
<1>2. Event!Enqueue(t) <=> Lot!Enqueue(t)
  BY DEF Event!Enqueue, Lot!Enqueue
<1>3. Event!ParkOK(t) <=> Lot!ParkOK(t)
  BY DEF Event!ParkOK, Lot!ParkOK
<1>4. \A why \in Lot!Failures : Event!ParkCancelled(t, why) <=> Lot!ParkCancelled(t, why)
  BY DEF Event!ParkCancelled, Lot!ParkCancelled, Event!RemoveAt, Lot!RemoveAt
<1>5. \A why \in Lot!Failures : Event!ParkFails(t, why) <=> Lot!ParkFails(t, why)
  BY DEF Event!ParkFails, Lot!ParkFails
<1>6. Event!ParkRechecked(t) <=> Lot!ParkRechecked(t)
  BY DEF Event!ParkRechecked, Lot!ParkRechecked, Event!Failures, Lot!Failures
<1>7. Event!DequeueAll(t, lock) <=> Lot!DequeueAll(t, lock)
  <2>2. \A s : Event!ToSet(s) = Lot!ToSet(s)
    BY DEF Event!ToSet, Lot!ToSet
  <2>3. \A s, I : Event!Entries(s, I) = Lot!Entries(s, I)
    BY DEF Event!Entries, Lot!Entries, Event!Cardinality, Lot!Cardinality
  <2>4. QED
    BY <2>2, <2>3 DEF Event!DequeueAll, Lot!DequeueAll, Event!Places, Lot!Places
<1>8. Event!Wakeup(t) <=> Lot!Wakeup(t)
  BY DEF Event!Wakeup, Lot!Wakeup
<1>9. QED
  BY <1>1, <1>2, <1>3, <1>4, <1>5, <1>6, <1>7, <1>8

\* A waker of the event goes on to the next thread, or its call returns.
LEMMA EventWoke == \A t \in Threads : Event!Woke(t) => GivesOn(t)
BY DEF Event!Woke, GivesOn, Event!Return, Event!Goto, Goes

\* No step of a wait for an event, or of its notification, disturbs the
\* parking lot.
LEMMA EventKeepsCalls ==
    ASSUME LotCalls, NEW t \in Threads,
           \/ \E with_timeout \in BOOLEAN : Event!Wait(t, with_timeout)
           \/ Event!Notify(t)
           \/ Event!Step(t)
           \/ \E why \in Event!Failures : Event!WaitFails(t, why)
    PROVE  LotCalls'
<1> USE EventOnLot DEF Event!Goto, Goes, Event!Return, Event!lotVars, Lot!lotVars
<1>0. Event!PC \subseteq LotPC /\ Event!Failures = Lot!Failures /\ (lock_pc[t] # "idle" => addr[t] = lock)
  BY DEF LotPC, Lot!Failures, Event!Failures, LotCalls, Calls
<1> USE DEF Event!PC
<1>1. CASE \E with_timeout \in BOOLEAN : Event!Wait(t, with_timeout)
  BY <1>0, <1>1, OutsideKeepsCalls DEF Event!Wait
<1>2. CASE Event!WaitLoad(t)
  BY <1>0, <1>2, OutsideKeepsCalls DEF Event!WaitLoad
<1>3. CASE Event!WaitMark(t)
  BY <1>0, <1>3, OutsideKeepsCalls DEF Event!WaitMark
<1>4. CASE Event!WaitPark(t)
  BY <1>0, <1>4, OutsideKeepsCalls, EnqueueKeepsCalls DEF Event!WaitPark
<1>5. CASE Event!WaitParked(t)
  BY <1>0, <1>5, LeaveKeepsCalls, WaitOnKeepsCalls DEF Event!WaitParked
<1>6. CASE \E why \in Event!Failures : Event!WaitFails(t, why)
  BY <1>0, <1>6, WaitOnKeepsCalls DEF Event!WaitFails
<1>7. CASE Event!WaitCheck(t)
  BY <1>0, <1>7, OutsideKeepsCalls DEF Event!WaitCheck
<1>8. CASE Event!Notify(t)
  BY <1>0, <1>8, OutsideKeepsCalls, StutterKeepsCalls DEF Event!Notify
<1>9. CASE Event!NotifyUnpark(t)
  BY <1>0, <1>9, UnparkKeepsCalls, EventWoke DEF Event!NotifyUnpark
<1>10. CASE Event!NotifyWake(t)
  BY <1>10, WakeKeepsCalls, EventWoke DEF Event!NotifyWake
<1>11. QED
  BY <1>1, <1>2, <1>3, <1>4, <1>5, <1>6, <1>7, <1>8, <1>9, <1>10 DEF Event!Step

\* The invariant of the event is inductive.
LEMMA EventKeepsInv ==
    ASSUME LotCalls, EventInv, NEW t \in Threads,
           \/ \E with_timeout \in BOOLEAN : Event!Wait(t, with_timeout)
           \/ Event!Notify(t)
           \/ Event!Step(t)
           \/ \E why \in Event!Failures : Event!WaitFails(t, why)
    PROVE  EventInv'
<1> USE DEF EventInv, EventTypes, Event!Values, Event!PC, Event!Failures,
            Event!Goto, Event!Return, Event!lotVars
<1>1. CASE \E with_timeout \in BOOLEAN : Event!Wait(t, with_timeout)
  BY <1>1 DEF Event!Wait
<1>2. CASE Event!WaitLoad(t)
  BY <1>2 DEF Event!WaitLoad
<1>3. CASE Event!WaitMark(t)
  BY <1>3 DEF Event!WaitMark
<1>4. CASE Event!WaitPark(t)
  BY <1>4 DEF Event!WaitPark, Event!Enqueue
<1>5. CASE Event!WaitParked(t)
  BY <1>5 DEF Event!WaitParked, Event!ParkOK, Event!ParkCancelled, Event!ParkRechecked
<1>6. CASE \E why \in Event!Failures : Event!WaitFails(t, why)
  BY <1>6 DEF Event!WaitFails, Event!ParkFails
<1>7. CASE Event!WaitCheck(t)
  BY <1>7 DEF Event!WaitCheck
<1>8. CASE Event!Notify(t)
  BY <1>8 DEF Event!Notify
<1>9. CASE Event!NotifyUnpark(t)
  BY <1>9 DEF Event!NotifyUnpark, Event!Woke
<1>10. CASE Event!NotifyWake(t)
  BY <1>10 DEF Event!NotifyWake, Event!Woke
<1>11. QED
  BY <1>1, <1>2, <1>3, <1>4, <1>5, <1>6, <1>7, <1>8, <1>9, <1>10 DEF Event!Step

(***************************************************************************)
(* The readers-writer lock.                                                *)
(***************************************************************************)

\* The types of the lock's own state.
RWTypes ==
    /\ bits \in RW!Bits
    /\ want \in [Threads -> {"none", "read", "write"}]
    /\ lock_pc \in [Threads -> RW!PC]
    /\ rw_v \in [Threads -> RW!Bits]

\* A thread has a kind of lock in mind until it gives the lock up.
Wants == \A t \in Threads : want[t] = "none" <=> lock_pc[t] \in {"idle", "unpark", "wake"}

\* The threads that hold the lock to read, or to write.
Holding(kind) == {t \in Threads : lock_pc[t] = "held" /\ want[t] = kind}

\* The word counts the readers, and says whether there is a writer.
HoldersCounted ==
    /\ bits.readers = Cardinality(Holding("read"))
    /\ IF bits.write THEN bits.readers = 0 /\ \E w \in Threads : Holding("write") = {w}
                     ELSE Holding("write") = {}

\* Without a writer inside, the parked bit is the mark of one who wants to be.
WriterMarks ==
    bits.parked /\ ~bits.write => \E t \in Threads : want[t] = "write" /\ lock_pc[t] # "held"

\* t is parked and nobody has dequeued it.
Sleeps(t) == lock_pc[t] = "parked" /\ ~is_unparking[t]

\* A release has found the parked bit, and has yet to dequeue who sleeps.
SomebodyUnparks == \E u \in Threads : lock_pc[u] = "unpark"

\* A writer that was dequeued, or has not parked yet, has still to look at
\* the word.
WriterAwake ==
    \E t \in Threads :
        /\ want[t] = "write"
        /\ \/ lock_pc[t] \in {"loop", "reload"}
           \/ lock_pc[t] = "parked" /\ is_unparking[t]

\* Who sleeps will be unparked by somebody.
SleepersKnown ==
    (\E s \in Threads : Sleeps(s)) =>
        SomebodyUnparks \/ (bits.parked /\ (bits.write \/ bits.readers > 0 \/ WriterAwake))

\* The invariant of the readers-writer lock.
RWInv == RWTypes /\ Wants /\ HoldersCounted /\ WriterMarks /\ SleepersKnown

\* The lock's steps in the parking lot are the parking lot's.
LEMMA RWOnLot ==
    ASSUME NEW t \in Threads
    PROVE  /\ UNCHANGED RW!lotVars <=> UNCHANGED Lot!lotVars
           /\ RW!Enqueue(t) <=> Lot!Enqueue(t)
           /\ RW!ParkOK(t) <=> Lot!ParkOK(t)
           /\ RW!ParkCancelled(t, "INTR") <=> Lot!ParkCancelled(t, "INTR")
           /\ RW!ParkFails(t, "INTR") <=> Lot!ParkFails(t, "INTR")
           /\ RW!ParkRechecked(t) <=> Lot!ParkRechecked(t)
           /\ RW!DequeueAll(t, lock) <=> Lot!DequeueAll(t, lock)
           /\ RW!Wakeup(t) <=> Lot!Wakeup(t)
<1>1. UNCHANGED RW!lotVars <=> UNCHANGED Lot!lotVars
  BY DEF RW!lotVars, Lot!lotVars
<1>2. RW!Enqueue(t) <=> Lot!Enqueue(t)
  BY DEF RW!Enqueue, Lot!Enqueue
<1>3. RW!ParkOK(t) <=> Lot!ParkOK(t)
  BY DEF RW!ParkOK, Lot!ParkOK
<1>4. RW!ParkCancelled(t, "INTR") <=> Lot!ParkCancelled(t, "INTR")
  BY DEF RW!ParkCancelled, Lot!ParkCancelled, RW!RemoveAt, Lot!RemoveAt
<1>5. RW!ParkFails(t, "INTR") <=> Lot!ParkFails(t, "INTR")
  BY DEF RW!ParkFails, Lot!ParkFails
<1>6. RW!ParkRechecked(t) <=> Lot!ParkRechecked(t)
  BY DEF RW!ParkRechecked, Lot!ParkRechecked, RW!Failures, Lot!Failures
<1>7. RW!DequeueAll(t, lock) <=> Lot!DequeueAll(t, lock)
  <2>2. \A s : RW!ToSet(s) = Lot!ToSet(s)
    BY DEF RW!ToSet, Lot!ToSet
  <2>3. \A s, I : RW!Entries(s, I) = Lot!Entries(s, I)
    BY DEF RW!Entries, Lot!Entries, RW!Cardinality, Lot!Cardinality
  <2>4. QED
    BY <2>2, <2>3 DEF RW!DequeueAll, Lot!DequeueAll, RW!Places, Lot!Places
<1>8. RW!Wakeup(t) <=> Lot!Wakeup(t)
  BY DEF RW!Wakeup, Lot!Wakeup
<1>9. QED
  BY <1>1, <1>2, <1>3, <1>4, <1>5, <1>6, <1>7, <1>8

\* A waker of the readers-writer lock goes on to the next thread, or its
\* call returns.
LEMMA RWWoke == \A t \in Threads : RW!Woke(t) => GivesOn(t)
BY DEF RW!Woke, GivesOn, RW!Goto, Goes

\* No step of rwmutex_set_parked_and_wait or of _PyRWMutex_Unlock disturbs
\* the parking lot.
LEMMA RWKeepsCalls ==
    ASSUME LotCalls, NEW t \in Threads,
           \/ \E kind \in {"read", "write"} : RW!Call(t, kind)
           \/ RW!Step(t)
           \/ RW!WaitInterrupted(t)
    PROVE  LotCalls'
<1> USE RWOnLot DEF RW!Goto, Goes, RW!lotVars, Lot!lotVars
<1>0. RW!PC \subseteq LotPC /\ "INTR" \in Lot!Failures /\ (lock_pc[t] # "idle" => addr[t] = lock)
  BY DEF LotPC, Lot!Failures, LotCalls, Calls
<1> USE DEF RW!PC
<1>1. CASE \E kind \in {"read", "write"} : RW!Call(t, kind)
  BY <1>0, <1>1, OutsideKeepsCalls DEF RW!Call
<1>2. CASE RW!Grab(t)
  BY <1>0, <1>2, OutsideKeepsCalls, StutterKeepsCalls DEF RW!Grab, RW!CASFails
<1>3. CASE RW!SetParked(t)
  BY <1>3, StutterKeepsCalls DEF RW!SetParked, RW!CASFails
<1>4. CASE RW!Park(t)
  BY <1>0, <1>4, OutsideKeepsCalls, EnqueueKeepsCalls DEF RW!Park
<1>5. CASE RW!Parked(t)
  BY <1>0, <1>5, LeaveKeepsCalls, WaitOnKeepsCalls DEF RW!Parked
<1>6. CASE RW!WaitInterrupted(t)
  BY <1>0, <1>6, WaitOnKeepsCalls DEF RW!WaitInterrupted
<1>7. CASE RW!Reload(t)
  BY <1>0, <1>7, OutsideKeepsCalls DEF RW!Reload
<1>8. CASE RW!RUnlock(t)
  BY <1>0, <1>8, OutsideKeepsCalls DEF RW!RUnlock, RW!GiveUp
<1>9. CASE RW!WUnlock(t)
  BY <1>0, <1>9, OutsideKeepsCalls DEF RW!WUnlock, RW!GiveUp
<1>10. CASE RW!Unpark(t)
  BY <1>0, <1>10, UnparkKeepsCalls, RWWoke DEF RW!Unpark
<1>11. CASE RW!Wake(t)
  BY <1>11, WakeKeepsCalls, RWWoke DEF RW!Wake
<1>12. QED
  BY <1>1, <1>2, <1>3, <1>4, <1>5, <1>6, <1>7, <1>8, <1>9, <1>10, <1>11 DEF RW!Step

\* dequeue_all marks every sleeper.
LEMMA UnparkWakesAll ==
    ASSUME LotCalls, NEW t \in Threads, Lot!DequeueAll(t, lock)
    PROVE  /\ is_unparking' \in [Threads -> BOOLEAN]
           /\ \A x \in Threads : is_unparking[x] => is_unparking'[x]
           /\ \A x \in Threads : Sleeps(x) => is_unparking'[x]
<1>1. Lot!LotInv /\ Calls
  BY DEF LotCalls
<1>2. /\ is_unparking' \in [Threads -> BOOLEAN]
      /\ \A x \in Threads :
            x \in Lot!ToSet(to_wake'[t]) <=> addr[x] = lock /\ \E c \in Buckets : x \in Lot!Queued(c)
      /\ \A x \in Threads : is_unparking'[x] <=> is_unparking[x] \/ x \in Lot!ToSet(to_wake'[t])
  BY <1>1, Lot!DequeueAllFacts
<1>3. ASSUME NEW x \in Threads, Sleeps(x) PROVE is_unparking'[x]
  <2>1. addr[x] = lock /\ parked[x] # "no"
    BY <1>1, <1>3 DEF Sleeps, Calls
  <2>2. \E c \in Buckets : x \in Lot!Queued(c)
    BY <1>1, <1>3, <2>1 DEF Sleeps, Lot!LotInv, Lot!ParkedCanBeWoken
  <2>3. QED
    BY <1>2, <2>1, <2>2
<1>4. QED
  BY <1>2, <1>3

\* Who holds the lock does so until it gives it up, and nobody else's
\* steps, or steps of a thread outside, tell.
LEMMA HoldingFacts ==
    ASSUME RWTypes
    PROVE  /\ \A kind : Holding(kind) \subseteq Threads /\ IsFiniteSet(Holding(kind))
           /\ Cardinality(Holding("read")) \in Nat
           /\ Cardinality(Holding("read")) = 0 <=> Holding("read") = {}
<1>1. \A kind : Holding(kind) \subseteq Threads /\ IsFiniteSet(Holding(kind))
  BY FS_Subset DEF Holding
<1>2. QED
  BY <1>1, FS_CardinalityType, FS_EmptySet

\* Every step keeps the types, and the word in agreement with who holds the
\* lock.
LEMMA RWKeepsCounted ==
    ASSUME RWInv, NEW t \in Threads,
           \/ \E kind \in {"read", "write"} : RW!Call(t, kind)
           \/ RW!Step(t)
           \/ RW!WaitInterrupted(t)
    PROVE  RWTypes' /\ Wants' /\ HoldersCounted'
<1> USE DEF RWInv, RWTypes, Wants, RW!Bits, RW!PC, RW!Goto, RW!Unlocked
<1>1. ASSUME UNCHANGED bits, \A kind \in {"read", "write"} : Holding(kind)' = Holding(kind)
      PROVE  HoldersCounted'
  BY <1>1 DEF HoldersCounted
<1>2. CASE \E kind \in {"read", "write"} : RW!Call(t, kind)
  <2>1. RWTypes' /\ Wants'
    BY <1>2 DEF RW!Call
  <2>2. QED
    BY <1>1, <1>2, <2>1 DEF RW!Call, Holding
<1>3. CASE RW!Grab(t)
  <2>1. CASE RW!CASFails(t)
    <3>1. RWTypes' /\ Wants'
      BY <1>3, <2>1 DEF RW!Grab, RW!CASFails
    <3>2. QED
      BY <1>1, <1>3, <2>1, <3>1 DEF RW!Grab, RW!CASFails, Holding
  <2>2. CASE bits = rw_v[t] /\ lock_pc' = [lock_pc EXCEPT ![t] = "held"] /\ want[t] = "read"
    <3>1. /\ lock_pc[t] = "loop" /\ ~bits.write /\ ~bits.parked /\ UNCHANGED want
          /\ bits' = [bits EXCEPT !.readers = @ + 1]
          /\ rw_v' = [rw_v EXCEPT ![t] = RW!Unlocked]
      BY <1>3, <2>2 DEF RW!Grab, RW!MayGrab, RW!CASFails, RW!CAS
    <3>2. RWTypes' /\ Wants'
      BY <2>2, <3>1
    <3>3. /\ bits'.readers = bits.readers + 1 /\ ~bits'.write
          /\ Holding("read")' = Holding("read") \cup {t} /\ Holding("write")' = Holding("write")
          /\ t \notin Holding("read")
      BY <2>2, <3>1 DEF Holding
    <3>4. Cardinality(Holding("read")') = Cardinality(Holding("read")) + 1
      BY <3>3, HoldingFacts, FS_AddElement
    <3>5. HoldersCounted'
      BY <3>1, <3>3, <3>4 DEF HoldersCounted
    <3>6. QED
      BY <3>2, <3>5
  <2>3. CASE bits = rw_v[t] /\ lock_pc' = [lock_pc EXCEPT ![t] = "held"] /\ want[t] # "read"
    <3>1. /\ lock_pc[t] = "loop" /\ ~bits.write /\ bits.readers = 0 /\ UNCHANGED want
          /\ bits' = [bits EXCEPT !.write = TRUE] /\ want[t] = "write"
          /\ rw_v' = [rw_v EXCEPT ![t] = RW!Unlocked]
      BY <1>3, <2>3 DEF RW!Grab, RW!MayGrab, RW!CASFails, RW!CAS
    <3>2. RWTypes' /\ Wants'
      BY <2>3, <3>1
    <3>3. Holding("write") = {}
      BY <3>1 DEF HoldersCounted
    <3>4. /\ bits'.readers = bits.readers /\ bits'.write
          /\ Holding("read")' = Holding("read") /\ Holding("write")' = {t}
      BY <2>3, <3>1, <3>3 DEF Holding
    <3>5. HoldersCounted'
      BY <3>1, <3>4 DEF HoldersCounted
    <3>6. QED
      BY <3>2, <3>5
  <2>4. QED
    BY <1>3, <2>1, <2>2, <2>3 DEF RW!Grab, RW!CAS
<1>4. CASE RW!SetParked(t)
  <2>1. CASE RW!CASFails(t)
    <3>1. RWTypes' /\ Wants'
      BY <1>4, <2>1 DEF RW!SetParked, RW!CASFails
    <3>2. QED
      BY <1>1, <1>4, <2>1, <3>1 DEF RW!SetParked, RW!CASFails, Holding
  <2>2. CASE ~RW!CASFails(t)
    <3>1. /\ bits' = [bits EXCEPT !.parked = TRUE] /\ UNCHANGED <<lock_pc, want>>
          /\ rw_v' = [rw_v EXCEPT ![t] = bits']
      BY <1>4, <2>2 DEF RW!SetParked, RW!CASFails, RW!CAS
    <3>2. RWTypes' /\ Wants'
      BY <3>1
    <3>3. QED
      BY <3>1, <3>2 DEF HoldersCounted, Holding
  <2>3. QED
    BY <2>1, <2>2
<1>5. CASE RW!Park(t)
  <2>1. /\ UNCHANGED <<bits, want, rw_v>> /\ lock_pc[t] = "loop"
        /\ \E l \in {"parked", "reload"} : lock_pc' = [lock_pc EXCEPT ![t] = l]
    BY <1>5 DEF RW!Park
  <2>2. RWTypes' /\ Wants'
    BY <2>1
  <2>3. QED
    BY <1>1, <2>1, <2>2 DEF Holding
<1>6. CASE RW!Parked(t)
  <2>1. RWTypes' /\ Wants'
    BY <1>6 DEF RW!Parked
  <2>2. QED
    BY <1>1, <1>6, <2>1 DEF RW!Parked, Holding
<1>7. CASE RW!WaitInterrupted(t)
  BY <1>1, <1>7 DEF RW!WaitInterrupted, Holding
<1>8. CASE RW!Reload(t)
  <2>1. RWTypes' /\ Wants'
    BY <1>8 DEF RW!Reload
  <2>2. QED
    BY <1>1, <1>8, <2>1 DEF RW!Reload, Holding
<1>9. CASE RW!RUnlock(t)
  <2>1. /\ lock_pc[t] = "held" /\ want[t] = "read"
        /\ bits' = [bits EXCEPT !.readers = @ - 1]
        /\ \E l \in {"idle", "unpark"} : lock_pc' = [lock_pc EXCEPT ![t] = l]
        /\ want' = [want EXCEPT ![t] = "none"]
        /\ UNCHANGED rw_v
    BY <1>9 DEF RW!RUnlock, RW!GiveUp
  <2>2. t \in Holding("read") /\ bits.readers # 0 /\ bits.readers \in Nat
    BY <2>1, HoldingFacts DEF Holding, HoldersCounted
  <2>3. RWTypes' /\ Wants'
    <3>1. bits.readers - 1 \in Nat
      BY <2>2
    <3>2. bits' \in RW!Bits
      BY <2>1, <3>1
    <3>3. QED
      BY <2>1, <3>2
  <2>4. /\ bits'.readers = bits.readers - 1 /\ bits'.write = bits.write
        /\ Holding("read")' = Holding("read") \ {t} /\ Holding("write")' = Holding("write")
    BY <2>1 DEF Holding
  <2>5. Cardinality(Holding("read")') = Cardinality(Holding("read")) - 1
    BY <2>2, <2>4, HoldingFacts, FS_RemoveElement
  <2>6. HoldersCounted'
    BY <2>2, <2>4, <2>5 DEF HoldersCounted
  <2>7. QED
    BY <2>3, <2>6
<1>10. CASE RW!WUnlock(t)
  <2>1. /\ lock_pc[t] = "held" /\ want[t] = "write" /\ bits' = RW!Unlocked
        /\ \E l \in {"idle", "unpark"} : lock_pc' = [lock_pc EXCEPT ![t] = l]
        /\ want' = [want EXCEPT ![t] = "none"]
        /\ UNCHANGED rw_v
    BY <1>10 DEF RW!WUnlock, RW!GiveUp
  <2>2. RWTypes' /\ Wants'
    BY <2>1
  <2>3. t \in Holding("write")
    BY <2>1 DEF Holding
  <2>4. Holding("write") = {t} /\ bits.readers = 0
    BY <2>3 DEF HoldersCounted
  <2>5. Holding("write")' = {} /\ Holding("read")' = Holding("read")
    BY <2>1, <2>4 DEF Holding
  <2>6. HoldersCounted'
    BY <2>1, <2>4, <2>5 DEF HoldersCounted
  <2>7. QED
    BY <2>2, <2>6
<1>11. CASE RW!Unpark(t)
  <2>1. RWTypes' /\ Wants'
    BY <1>11 DEF RW!Unpark, RW!Woke
  <2>2. QED
    BY <1>1, <1>11, <2>1 DEF RW!Unpark, RW!Woke, Holding
<1>12. CASE RW!Wake(t)
  <2>1. RWTypes' /\ Wants'
    BY <1>12 DEF RW!Wake, RW!Woke
  <2>2. QED
    BY <1>1, <1>12, <2>1 DEF RW!Wake, RW!Woke, Holding
<1>13. QED
  BY <1>2, <1>3, <1>4, <1>5, <1>6, <1>7, <1>8, <1>9, <1>10, <1>11, <1>12 DEF RW!Step

\* Every step keeps the mark of a waiting writer, and somebody who will
\* unpark who sleeps.
LEMMA RWKeepsKnown ==
    ASSUME LotCalls, RWInv, NEW t \in Threads,
           \/ \E kind \in {"read", "write"} : RW!Call(t, kind)
           \/ RW!Step(t)
           \/ RW!WaitInterrupted(t)
    PROVE  WriterMarks' /\ SleepersKnown'
<1>0. /\ bits \in RW!Bits /\ rw_v[t] \in RW!Bits
      /\ lock_pc \in [Threads -> RW!PC]
      /\ want \in [Threads -> {"none", "read", "write"}]
      /\ \A x \in Threads : want[x] = "none" <=> lock_pc[x] \in {"idle", "unpark", "wake"}
      /\ WriterMarks /\ SleepersKnown
  BY DEF RWInv, RWTypes, Wants
<1> USE RWOnLot DEF RW!Bits, RW!PC, RW!Goto, RW!Unlocked, RW!lotVars
\* What the steps that leave the bits alone may do.
<1>1. ASSUME UNCHANGED <<bits, want>>,
             \A x \in Threads : lock_pc'[x] = "held" <=> lock_pc[x] = "held",
             \A x \in Threads : Sleeps(x)' => Sleeps(x),
             \A x \in Threads : lock_pc[x] = "unpark" => lock_pc'[x] = "unpark",
             WriterAwake => WriterAwake'
      PROVE  WriterMarks' /\ SleepersKnown'
  BY <1>0, <1>1 DEF WriterMarks, SleepersKnown, SomebodyUnparks
<1>2. CASE \E kind \in {"read", "write"} : RW!Call(t, kind)
  BY <1>0, <1>2 DEF RW!Call, WriterMarks, SleepersKnown, SomebodyUnparks, WriterAwake, Sleeps
<1>3. CASE RW!Grab(t)
  <2>1. CASE RW!CASFails(t)
    BY <1>0, <1>1, <1>3, <2>1 DEF RW!Grab, RW!CASFails, WriterAwake, Sleeps
  <2>2. CASE bits = rw_v[t] /\ lock_pc' = [lock_pc EXCEPT ![t] = "held"] /\ want[t] = "read"
    <3>1. /\ lock_pc[t] = "loop" /\ ~bits.write /\ ~bits.parked /\ ~bits'.parked
          /\ UNCHANGED <<want, is_unparking>>
      BY <1>0, <1>3, <2>2 DEF RW!Grab, RW!MayGrab, RW!CASFails, RW!CAS
    <3>2. QED
      BY <1>0, <2>2, <3>1 DEF WriterMarks, SleepersKnown, SomebodyUnparks, Sleeps
  <2>3. CASE bits = rw_v[t] /\ lock_pc' = [lock_pc EXCEPT ![t] = "held"] /\ want[t] # "read"
    <3>1. /\ lock_pc[t] = "loop" /\ bits'.write /\ bits'.parked = bits.parked
          /\ UNCHANGED <<want, is_unparking>>
      BY <1>0, <1>3, <2>3 DEF RW!Grab, RW!MayGrab, RW!CASFails, RW!CAS
    <3>2. QED
      BY <1>0, <2>3, <3>1 DEF WriterMarks, SleepersKnown, SomebodyUnparks, Sleeps
  <2>4. QED
    BY <1>3, <2>1, <2>2, <2>3 DEF RW!Grab, RW!CAS
<1>4. CASE RW!SetParked(t)
  <2>1. CASE RW!CASFails(t)
    BY <1>0, <1>1, <1>4, <2>1 DEF RW!SetParked, RW!CASFails, WriterAwake, Sleeps
  <2>2. CASE ~RW!CASFails(t)
    <3>1. /\ bits' = [bits EXCEPT !.parked = TRUE] /\ UNCHANGED <<lock_pc, want, is_unparking>>
          /\ lock_pc[t] = "loop" /\ ~bits.parked
          /\ want[t] = "read" => bits.write
      BY <1>0, <1>4, <2>2 DEF RW!SetParked, RW!CASFails, RW!CAS, RW!MayGrab
    <3>2. want[t] # "read" => want[t] = "write"
      BY <1>0, <3>1
    <3>3. WriterMarks'
      BY <1>0, <3>1, <3>2 DEF WriterMarks
    <3>4. SleepersKnown'
      BY <1>0, <3>1 DEF SleepersKnown, SomebodyUnparks, WriterAwake, Sleeps
    <3>5. QED
      BY <3>3, <3>4
  <2>3. QED
    BY <2>1, <2>2
<1>5. CASE RW!Park(t)
  <2>1. CASE bits # rw_v[t]
    BY <1>0, <1>1, <1>5, <2>1 DEF RW!Park, WriterAwake, Sleeps
  <2>2. CASE bits = rw_v[t]
    <3>1. /\ lock_pc[t] = "loop" /\ lock_pc' = [lock_pc EXCEPT ![t] = "parked"]
          /\ UNCHANGED <<bits, want, is_unparking>>
          /\ bits.parked
          /\ want[t] = "write" => bits.write \/ bits.readers # 0
      BY <1>0, <1>5, <2>2 DEF RW!Park, RW!Enqueue, RW!MayGrab
    <3>2. WriterMarks'
      BY <1>0, <3>1 DEF WriterMarks
    <3>3. bits.write \/ bits.readers # 0 \/ WriterAwake \/ SomebodyUnparks
      BY <1>0, <3>1 DEF WriterMarks, SleepersKnown, Sleeps, WriterAwake
    <3>4. SleepersKnown'
      BY <1>0, <3>1, <3>3 DEF SleepersKnown, SomebodyUnparks, WriterAwake, Sleeps
    <3>5. QED
      BY <3>2, <3>4
  <2>3. QED
    BY <2>1, <2>2
<1>6. CASE RW!Parked(t)
  <2>1. CASE RW!ParkRechecked(t) /\ UNCHANGED lock_pc
    BY <1>0, <1>1, <1>6, <2>1 DEF RW!Parked, RW!ParkRechecked, WriterAwake, Sleeps
  <2>2. CASE (RW!ParkOK(t) \/ RW!ParkCancelled(t, "INTR")) /\ lock_pc' = [lock_pc EXCEPT ![t] = "reload"]
    <3>1. /\ UNCHANGED <<bits, want>> /\ lock_pc[t] = "parked"
          /\ \A x \in Threads : x # t => is_unparking'[x] = is_unparking[x]
      BY <1>6, <2>2, LotFacts DEF RW!Parked, RW!ParkOK, RW!ParkCancelled, Lot!LotTypeOK
    <3>2. \A x \in Threads : x # t => lock_pc'[x] = lock_pc[x]
      BY <1>0, <2>2
    <3>3. lock_pc'[t] = "reload"
      BY <1>0, <2>2
    <3>4. WriterAwake => WriterAwake'
      BY <3>1, <3>2, <3>3 DEF WriterAwake
    <3>5. \A x \in Threads : Sleeps(x)' => Sleeps(x)
      BY <3>1, <3>2, <3>3 DEF Sleeps
    <3>6. QED
      BY <1>1, <3>1, <3>2, <3>3, <3>4, <3>5
  <2>3. QED
    BY <1>6, <2>1, <2>2 DEF RW!Parked
<1>7. CASE RW!WaitInterrupted(t)
  BY <1>0, <1>1, <1>7 DEF RW!WaitInterrupted, RW!ParkFails, WriterAwake, Sleeps
<1>8. CASE RW!Reload(t)
  BY <1>0, <1>1, <1>8 DEF RW!Reload, WriterAwake, Sleeps
<1>9. CASE RW!RUnlock(t)
  <2>1. /\ lock_pc[t] = "held" /\ want[t] = "read"
        /\ bits' = [bits EXCEPT !.readers = @ - 1]
        /\ IF bits.readers = 1 /\ bits.parked THEN lock_pc' = [lock_pc EXCEPT ![t] = "unpark"]
                                              ELSE lock_pc' = [lock_pc EXCEPT ![t] = "idle"]
        /\ want' = [want EXCEPT ![t] = "none"]
        /\ UNCHANGED is_unparking
    BY <1>9 DEF RW!RUnlock, RW!GiveUp
  <2>2. t \in Holding("read") /\ HoldersCounted /\ RWTypes
    BY <2>1 DEF Holding, RWInv
  <2>3. bits.readers # 0 /\ bits.readers \in Nat /\ ~bits.write
    BY <1>0, <2>2, HoldingFacts DEF HoldersCounted
  <2>4. WriterMarks'
    BY <1>0, <2>1 DEF WriterMarks
  <2>5. SleepersKnown'
    BY <1>0, <2>1, <2>3 DEF SleepersKnown, SomebodyUnparks, WriterAwake, Sleeps
  <2>6. QED
    BY <2>4, <2>5
<1>10. CASE RW!WUnlock(t)
  <2>1. /\ lock_pc[t] = "held" /\ want[t] = "write" /\ bits' = RW!Unlocked
        /\ IF bits.parked THEN lock_pc' = [lock_pc EXCEPT ![t] = "unpark"]
                          ELSE lock_pc' = [lock_pc EXCEPT ![t] = "idle"]
        /\ UNCHANGED is_unparking
    BY <1>10 DEF RW!WUnlock, RW!GiveUp
  <2>2. QED
    BY <1>0, <2>1 DEF WriterMarks, SleepersKnown, SomebodyUnparks, Sleeps
<1>11. CASE RW!Unpark(t)
  <2>1. /\ lock_pc[t] = "unpark" /\ UNCHANGED <<bits, want>>
        /\ \E l \in {"idle", "wake"} : lock_pc' = [lock_pc EXCEPT ![t] = l]
        /\ Lot!DequeueAll(t, addr[t]) /\ addr[t] = lock
    BY <1>11 DEF RW!Unpark, RW!Woke, LotCalls, Calls
  <2>2. \A x \in Threads : ~Sleeps(x)'
    BY <1>0, <2>1, UnparkWakesAll DEF Sleeps
  <2>3. WriterMarks'
    BY <1>0, <2>1 DEF WriterMarks
  <2>4. QED
    BY <2>2, <2>3 DEF SleepersKnown
<1>12. CASE RW!Wake(t)
  BY <1>0, <1>1, <1>12 DEF RW!Wake, RW!Woke, RW!Wakeup, WriterAwake, Sleeps
<1>13. QED
  BY <1>2, <1>3, <1>4, <1>5, <1>6, <1>7, <1>8, <1>9, <1>10, <1>11, <1>12 DEF RW!Step

\* What the runs check of the lock follows.
LEMMA RWInvMeansBitsExact ==
    ASSUME LotCalls, RWInv PROVE RW!BitsExact
<1> USE DEF RWInv
<1>1. \A kind : RW!Holders(kind) = Holding(kind)
  BY DEF RW!Holders, Holding
<1>2. \A S : RW!Cardinality(S) = Cardinality(S)
  BY DEF RW!Cardinality, Cardinality
<1>3. RW!Exclusion
  <2>1. CASE bits.write
    BY <1>1, <1>2, <2>1, HoldingFacts, FS_Singleton DEF RW!Exclusion, HoldersCounted
  <2>2. CASE ~bits.write
    BY <1>1, <1>2, <2>2, FS_EmptySet DEF RW!Exclusion, HoldersCounted
  <2>3. QED
    BY <2>1, <2>2
<1>4. bits.readers > 0 <=> bits.readers # 0
  BY DEF RWTypes, RW!Bits
<1>5. WriterAwake \/ (SomebodyUnparks /\ \E t \in Threads : want[t] = "write" /\ lock_pc[t] = "parked")
        => RW!Stirring("write") # {}
  BY DEF WriterAwake, SomebodyUnparks, RW!Stirring
<1>6. RW!NoLostWakeup
  <2>1. ASSUME RW!Places(lock) # {} PROVE \E s \in Threads : Sleeps(s)
    <3>1. Lot!LotInv /\ Calls
      BY DEF LotCalls
    <3>2. PICK b \in Buckets : b = BucketOf[lock]
      OBVIOUS
    <3>3. PICK i \in DOMAIN waiters[b] : TRUE
      BY <2>1, <3>2 DEF RW!Places
    <3>4. waiters[b] \in Seq(Threads)
      BY <3>1 DEF Lot!LotInv, Lot!LotTypeOK
    <3>5. waiters[b][i] \in Threads /\ waiters[b][i] \in Lot!Queued(b)
      BY <3>4 DEF Lot!Queued, Lot!ToSet
    <3>6. parked[waiters[b][i]] # "no" /\ ~is_unparking[waiters[b][i]]
      BY <3>1, <3>5 DEF Lot!LotInv, Lot!EntriesAreLive
    <3>7. QED
      BY <3>1, <3>5, <3>6 DEF Calls, Sleeps
  <2>2. QED
    BY <1>5, <2>1 DEF RW!NoLostWakeup, SleepersKnown, SomebodyUnparks
<1>7. RW!ReadersYieldToWriter
  <2>1. SUFFICES ASSUME bits.parked, ~bits.write
                 PROVE  \/ bits.readers > 0 /\ \E t \in Threads : want[t] = "write"
                        \/ RW!Stirring("write") # {}
    BY DEF RW!ReadersYieldToWriter
  <2>2. PICK t \in Threads : want[t] = "write" /\ lock_pc[t] # "held"
    BY <2>1 DEF WriterMarks
  <2>3. lock_pc[t] \in {"loop", "reload", "parked"}
    BY <2>2 DEF RWTypes, Wants, RW!PC
  <2>4. CASE WriterAwake
    BY <1>5, <2>4
  <2>5. CASE ~WriterAwake
    <3>1. Sleeps(t)
      BY <2>2, <2>3, <2>5 DEF WriterAwake, Sleeps
    <3>2. SomebodyUnparks \/ bits.readers > 0
      BY <2>1, <2>5, <3>1 DEF SleepersKnown
    <3>3. QED
      BY <1>5, <2>2, <3>1, <3>2 DEF Sleeps
  <2>6. QED
    BY <2>4, <2>5
<1>8. QED
  BY <1>3, <1>6, <1>7 DEF RW!BitsExact

(***************************************************************************)
(* The import lock.                                                        *)
(***************************************************************************)

\* t has the PyMutex: between its acquisition and its release of it.
Has(t) == depth[t] > 0 \/ rec_pc[t] \in {"lock_store", "unlock_mutex"}

\* Who has the PyMutex owns it, and writes the two fields: while it is about
\* to store its identifier, or to release, they are those of a free mutex.
FieldsAgree ==
    /\ \A t \in Threads : Has(t) => owners_rec = {t}
    /\ \A t \in Threads : t \in owners_rec => Has(t)
    /\ \A t \in Threads :
         /\ rec_pc[t] # "run" => depth[t] = 0
         /\ rec_pc[t] \in {"lock_store", "unlock_mutex"} => thread = NoThread /\ level = 0
         /\ depth[t] > 0 => thread = t /\ depth[t] = level + 1
         /\ thread = t => depth[t] > 0
    /\ owners_rec = {} => level = 0

\* The invariant of the import lock.
RecInv == Rec!TypeOK /\ FieldsAgree

\* At first nobody has the import lock, and its fields are those of a free
\* one.
LEMMA RecInitInv == Rec!Init => RecInv
<1> SUFFICES ASSUME Rec!Init PROVE RecInv
  OBVIOUS
<1> USE RawMutexAssumption DEF Rec!Init, Rec!Mutex!Init
<1>1. Rec!TypeOK
  BY DEF Rec!TypeOK
<1>2. FieldsAgree
  BY DEF FieldsAgree, Has
<1>3. QED
  BY <1>1, <1>2 DEF RecInv

\* Every step of _PyRecursiveMutex_Lock, of its release and of the child of
\* a fork keeps the owner, the count and the PyMutex in agreement.
LEMMA RecKeepsInv == RecInv /\ Rec!Next => RecInv'
<1> SUFFICES ASSUME RecInv, Rec!Next PROVE RecInv'
  OBVIOUS
<1> USE RawMutexAssumption DEF RecInv, Rec!TypeOK, FieldsAgree, Has, Rec!Goto
<1>1. ASSUME NEW t \in Threads, Rec!Lock(t) PROVE RecInv'
  <2>1. CASE thread = t
    <3>1. /\ level' = level + 1 /\ depth' = [depth EXCEPT ![t] = @ + 1]
          /\ UNCHANGED <<rec_pc, owners_rec, thread>>
          /\ depth[t] <= MaxDepth /\ depth[t] = level + 1 /\ rec_pc[t] = "run"
      BY <1>1, <2>1 DEF Rec!Lock
    <3>2. level' \in 0..MaxDepth /\ depth' \in [Threads -> 0..(MaxDepth + 1)]
      BY <3>1
    <3>3. Rec!TypeOK'
      BY <3>1, <3>2
    <3>4. FieldsAgree'
      BY <2>1, <3>1
    <3>5. QED
      BY <3>3, <3>4
  <2>2. CASE thread # t
    BY <1>1, <2>2 DEF Rec!Lock
  <2>3. QED
    BY <2>1, <2>2
<1>2. ASSUME NEW t \in Threads, Rec!LockMutex(t) PROVE RecInv'
  BY <1>2 DEF Rec!LockMutex, Rec!Mutex!Acquire
<1>3. ASSUME NEW t \in Threads, Rec!LockStore(t) PROVE RecInv'
  BY <1>3 DEF Rec!LockStore
<1>4. ASSUME NEW t \in Threads, Rec!Unlock(t) PROVE RecInv'
  BY <1>4 DEF Rec!Unlock
<1>5. ASSUME NEW t \in Threads, Rec!UnlockMutex(t) PROVE RecInv'
  <2>1. CASE Rec!Mutex!Release(t) /\ rec_pc' = [rec_pc EXCEPT ![t] = "run"]
    BY <1>5, <2>1 DEF Rec!UnlockMutex, Rec!Mutex!Release
  <2>2. CASE \E u \in Threads :
               /\ rec_pc[u] = "lock_mutex"
               /\ Rec!Mutex!Handoff(t, u)
               /\ rec_pc' = [rec_pc EXCEPT ![t] = "run", ![u] = "lock_store"]
    BY <1>5, <2>2 DEF Rec!UnlockMutex, Rec!Mutex!Handoff
  <2>3. QED
    BY <1>5, <2>1, <2>2 DEF Rec!UnlockMutex
<1>6. ASSUME NEW t \in Threads, NEW u \in Threads, Rec!Fork(t, u) PROVE RecInv'
  BY <1>6 DEF Rec!Fork
<1>7. QED
  BY <1>1, <1>2, <1>3, <1>4, <1>5, <1>6 DEF Rec!Next, Rec!Step

\* What the runs check of the import lock follows.
LEMMA RecInvMeans == RecInv => Rec!HeldUntilOutermost /\ Rec!OwnerKnowsItself
BY DEF RecInv, FieldsAgree, Has, Rec!HeldUntilOutermost, Rec!OwnerKnowsItself

(***************************************************************************)
(* All of them.                                                            *)
(***************************************************************************)

\* The critical sections' own assumptions follow from those of the small
\* locks.
LEMMA SectionsParameters == Cs!Parameters
<1>1. NoThread \notin Nesters
  BY RawMutexAssumption
<1>2. IsFiniteSet(Nesters)
  BY FS_Subset
<1>3. Cs!IsFiniteSet(Nesters)
  BY <1>2 DEF IsFiniteSet, Cs!IsFiniteSet
<1>4. QED
  BY <1>1, <1>3 DEF Cs!Parameters

\* The sections of the proofs are those of the composition: their initial
\* states and their types ...
LEMMA SectionsSame ==
    /\ Sections!Init => Cs!Init
    /\ Cs!TypeOK => Sections!TypeOK
BY DEF Sections!Init, Cs!Init, Sections!TypeOK, Cs!TypeOK, Sections!Section, Cs!Section

\* ... and their steps.
LEMMA SectionsStepSame == Sections!Next => Cs!Next
<1>1. ASSUME NEW t \in Nesters
      PROVE  /\ Sections!Begin(t) => Cs!Begin(t)
             /\ Sections!Begin2(t) => Cs!Begin2(t)
             /\ Sections!Begin2Second(t) => Cs!Begin2Second(t)
  BY DEF Sections!Begin, Cs!Begin, Sections!Begin2, Cs!Begin2, Sections!Begin2Second, Cs!Begin2Second,
     Sections!Free, Cs!Free, Sections!Take, Cs!Take, Sections!Push, Cs!Push, Sections!BeginSlow, Cs!BeginSlow,
     Sections!Goto, Cs!Goto, Sections!InOrder, Cs!InOrder, Sections!locks, Cs!locks
<1>2. ASSUME NEW t \in Nesters
      PROVE  /\ Sections!Lock(t) => Cs!Lock(t)
             /\ Sections!Woken(t) => Cs!Woken(t)
  BY DEF Sections!Lock, Cs!Lock, Sections!Woken, Cs!Woken, Sections!Locked, Cs!Locked,
     Sections!Free, Cs!Free, Sections!Take, Cs!Take, Sections!WithTop, Cs!WithTop, Sections!Top, Cs!Top,
     Sections!Last, Cs!Last, Sections!Goto, Cs!Goto
<1>3. ASSUME NEW t \in Nesters
      PROVE  /\ Sections!Detach(t) => Cs!Detach(t)
             /\ Sections!SuspendAll(t) => Cs!SuspendAll(t)
             /\ Sections!Release(t) => Cs!Release(t)
             /\ Sections!End(t) => Cs!End(t)
  BY DEF Sections!Detach, Cs!Detach, Sections!SuspendAll, Cs!SuspendAll, Sections!Release, Cs!Release,
     Sections!End, Cs!End, Sections!Unlock, Cs!Unlock, Sections!Goto, Cs!Goto, Sections!locks, Cs!locks,
     Sections!Top, Cs!Top, Sections!Last, Cs!Last, Sections!Reverse, Cs!Reverse
<1>4. ASSUME NEW t \in Nesters
      PROVE  /\ Sections!Attach(t) => Cs!Attach(t)
             /\ Sections!Pop(t) => Cs!Pop(t)
  BY DEF Sections!Attach, Cs!Attach, Sections!Pop, Cs!Pop, Sections!Resume, Cs!Resume,
     Sections!Goto, Cs!Goto, Sections!locks, Cs!locks,
     Sections!Front, Cs!Front, Sections!Last, Cs!Last
<1>5. QED
  BY <1>1, <1>2, <1>3, <1>4 DEF Sections!Next, Cs!Next, Sections!Step, Cs!Step

\* The invariant of all the locks: the parking lot's, and each lock's own.
AllInv ==
    /\ TypeOK /\ RecInv /\ LotCalls /\ Cs!SectionsInv
    /\ which = "rw" => RWInv
    /\ which = "event" => EventInv
    /\ which = "once" => OnceInv

\* At first nobody uses any of the locks.
LEMMA AllInitInv == AllInit => AllInv
<1> SUFFICES ASSUME AllInit PROVE AllInv
  OBVIOUS
<1>1. TypeOK
  BY WordFacts DEF AllInit, Init, TypeOK, PC
<1>2. RecInv
  BY RecInitInv DEF AllInit
<1>3. Cs!SectionsInv
  BY SectionsParameters, SectionsSame, Cs!SectionsInitInv DEF AllInit
<1>4. LotCalls
  <2>1. Lot!LotInit
    BY DEF AllInit, RW!Init, RW!LotInit, Lot!LotInit
  <2>2. Lot!LotInv
    BY <2>1, Lot!InitLotInv
  <2>3. Calls
    BY <2>1, LabelFacts DEF Calls, Lot!LotInit, AllInit, RW!Init
  <2>4. QED
    BY <2>2, <2>3 DEF LotCalls
<1>5. RWInv
  <2>1. /\ bits = RW!Unlocked /\ bits.readers = 0 /\ ~bits.write /\ ~bits.parked
        /\ bits \in RW!Bits
        /\ want = [t \in Threads |-> "none"] /\ lock_pc = [t \in Threads |-> "idle"]
        /\ rw_v = [t \in Threads |-> RW!Unlocked]
    BY DEF AllInit, RW!Init, RW!Unlocked, RW!Bits
  <2>2. RWTypes /\ Wants
    BY <2>1 DEF RWTypes, Wants, RW!PC
  <2>3. Holding("read") = {} /\ Holding("write") = {}
    BY <2>1 DEF Holding
  <2>4. HoldersCounted
    BY <2>1, <2>3, FS_EmptySet DEF HoldersCounted
  <2>5. WriterMarks
    BY <2>1 DEF WriterMarks
  <2>6. SleepersKnown
    BY <2>1 DEF SleepersKnown, Sleeps
  <2>7. QED
    BY <2>2, <2>4, <2>5, <2>6 DEF RWInv
<1>6. EventInv
  BY DEF AllInit, Event!Init, Event!LotInit, EventInv, EventTypes, Event!Values, Event!PC
<1>7. OnceInv
  BY DEF AllInit, Once!Init, OnceInv, OnceTypes, Once!Values, Once!PC, Once!OneRunner,
         Once!Running, Once!ZeroMeansInitialized
<1>8. QED
  BY <1>1, <1>2, <1>3, <1>4, <1>5, <1>6, <1>7 DEF AllInv

\* What becomes of the lock that is not used: nothing.
LEMMA RecUnused == RecInv /\ UNCHANGED recVars => RecInv'
BY DEF RecInv, Rec!TypeOK, FieldsAgree, Has, recVars

\* A step that leaves the parking lot alone, ...
LEMMA LotUnused == LotCalls /\ UNCHANGED lotVars => LotCalls'
BY StutterKeepsCalls DEF lotVars, Lot!lotVars

\* ... or the sections, ...
LEMMA SectionsUnused == Cs!SectionsInv /\ UNCHANGED sectionVars => Cs!SectionsInv'
BY Cs!SectionsUnchanged DEF sectionVars, Cs!vars, Cs!locks

\* ... or the readers-writer lock, ...
LEMMA RWUnused == RWInv /\ UNCHANGED <<lotVars, rwVars>> => RWInv'
<1> SUFFICES ASSUME RWInv, UNCHANGED <<lotVars, rwVars>> PROVE RWInv'
  OBVIOUS
<1>1. UNCHANGED <<bits, want, rw_v, lock_pc, is_unparking, lot_sema, parked, to_wake>>
  BY DEF lotVars, rwVars
<1>2. RWTypes' /\ Wants' /\ WriterMarks'
  BY <1>1 DEF RWInv, RWTypes, Wants, WriterMarks
<1>3. \A kind : Holding(kind)' = Holding(kind)
  BY <1>1 DEF Holding
<1>4. HoldersCounted'
  BY <1>1, <1>3 DEF RWInv, HoldersCounted
<1>5. /\ \A t \in Threads : Sleeps(t)' <=> Sleeps(t)
      /\ SomebodyUnparks' <=> SomebodyUnparks
      /\ WriterAwake' <=> WriterAwake
  BY <1>1 DEF Sleeps, SomebodyUnparks, WriterAwake
<1>6. SleepersKnown'
  BY <1>1, <1>5 DEF RWInv, SleepersKnown
<1>7. QED
  BY <1>2, <1>4, <1>6 DEF RWInv

\* ... or the event, ...
LEMMA EventUnused == EventInv /\ UNCHANGED <<lotVars, eventVars>> => EventInv'
BY DEF EventInv, EventTypes, lotVars, eventVars

\* ... or the once flag, keeps what is known of it.
LEMMA OnceUnused == OnceInv /\ UNCHANGED <<lotVars, onceVars>> => OnceInv'
BY DEF OnceInv, OnceTypes, Once!OneRunner, Once!Running, Once!ZeroMeansInitialized,
       lotVars, onceVars

\* Every step of the lock that is used keeps its invariant.
LEMMA AllNextKeepsInv == AllInv /\ [AllNext]_allVars => AllInv'
<1> SUFFICES ASSUME AllInv, [AllNext]_allVars PROVE AllInv'
  OBVIOUS
<1>1. /\ TypeOK /\ RecInv /\ LotCalls /\ Cs!SectionsInv
      /\ which = "rw" => RWInv
      /\ which = "event" => EventInv
      /\ which = "once" => OnceInv
      /\ which' = which
  BY DEF AllInv, AllNext, allVars
<1>2. CASE UNCHANGED allVars
  <2>1. UNCHANGED <<vars, recVars, lotVars, rwVars, eventVars, onceVars, sectionVars>>
    BY <1>2 DEF allVars
  <2>2. TypeOK'
    BY <1>1, <2>1, StepKeepsTypes
  <2>3. QED
    BY <1>1, <2>1, <2>2, RecUnused, LotUnused, SectionsUnused, RWUnused, EventUnused, OnceUnused
    DEF AllInv
<1>3. CASE which = "recursive" /\ Rec!Next
           /\ UNCHANGED <<vars, lotVars, rwVars, eventVars, onceVars, sectionVars>>
  BY <1>1, <1>3, StepKeepsTypes, RecKeepsInv, LotUnused, SectionsUnused DEF AllInv
<1>4. CASE which = "raw" /\ Next
           /\ UNCHANGED <<recVars, lotVars, rwVars, eventVars, onceVars, sectionVars>>
  BY <1>1, <1>4, StepKeepsTypes, RecUnused, LotUnused, SectionsUnused DEF AllInv
<1>5. CASE which = "rw" /\ RW!Next /\ OnLot
  <2>1. RWInv' /\ LotCalls'
    <3>1. PICK t \in Threads :
             \/ \E kind \in {"read", "write"} : RW!Call(t, kind)
             \/ RW!Step(t)
             \/ RW!WaitInterrupted(t)
      BY <1>5 DEF RW!Next
    <3>2. RWTypes' /\ Wants' /\ HoldersCounted'
      BY <1>1, <1>5, <3>1, RWKeepsCounted
    <3>3. WriterMarks' /\ SleepersKnown'
      BY <1>1, <1>5, <3>1, RWKeepsKnown
    <3>4. LotCalls'
      BY <1>1, <3>1, RWKeepsCalls
    <3>5. QED
      BY <3>2, <3>3, <3>4 DEF RWInv
  <2>2. QED
    BY <1>1, <1>5, <2>1, StepKeepsTypes, RecUnused, SectionsUnused DEF AllInv, OnLot
<1>6. CASE which = "event" /\ Event!Next /\ OnLot
  <2>1. EventInv' /\ LotCalls'
    <3>1. PICK t \in Threads :
             \/ \E with_timeout \in BOOLEAN : Event!Wait(t, with_timeout)
             \/ Event!Notify(t)
             \/ Event!Step(t)
             \/ \E why \in Event!Failures : Event!WaitFails(t, why)
      BY <1>6 DEF Event!Next
    <3>2. EventInv'
      BY <1>1, <1>6, <3>1, EventKeepsInv
    <3>3. LotCalls'
      BY <1>1, <3>1, EventKeepsCalls
    <3>4. QED
      BY <3>2, <3>3
  <2>2. QED
    BY <1>1, <1>6, <2>1, StepKeepsTypes, RecUnused, SectionsUnused DEF AllInv, OnLot
<1>7. CASE which = "once" /\ Once!Next /\ OnLot
  <2>1. OnceInv' /\ LotCalls'
    <3>1. PICK t \in Threads : Once!CallOnce(t) \/ Once!Step(t) \/ Once!WaitInterrupted(t)
      BY <1>7 DEF Once!Next
    <3>2. OnceInv'
      BY <1>1, <1>7, <3>1, OnceKeepsInv
    <3>3. LotCalls'
      BY <1>1, <3>1, OnceKeepsCalls
    <3>4. QED
      BY <3>2, <3>3
  <2>2. QED
    BY <1>1, <1>7, <2>1, StepKeepsTypes, RecUnused, SectionsUnused DEF AllInv, OnLot
<1>8. CASE which = "sections" /\ Sections!Next
           /\ UNCHANGED <<vars, recVars, lotVars, rwVars, eventVars, onceVars>>
  BY <1>1, <1>8, StepKeepsTypes, RecUnused, LotUnused, SectionsStepSame, Cs!SectionsKeepInv DEF AllInv
<1>9. QED
  BY <1>2, <1>3, <1>4, <1>5, <1>6, <1>7, <1>8 DEF AllNext

\* The invariant holds of every run of every lock.
LEMMA AllInvariance == AllSpec => []AllInv
<1>1. AllSpec => AllInit /\ [][AllNext]_allVars
  BY PTL DEF AllSpec
<1>2. QED
  BY <1>1, AllInitInv, AllNextKeepsInv, PTL

\* The variables of all the locks keep their types.
THEOREM SmallLocksTypes == AllSpec => []TypesOK
<1>1. AllInv => TypesOK
  <2> SUFFICES ASSUME AllInv PROVE TypesOK
    OBVIOUS
  <2>1. TypeOK /\ Rec!TypeOK /\ Sections!TypeOK
    BY SectionsSame, Cs!SectionsInvMeansTypes DEF AllInv, RecInv
  <2>2. Lot!LotTypeOK
    BY DEF AllInv, LotCalls, Lot!LotInv
  <2>3. RW!LotTypeOK
    BY <2>2 DEF Lot!LotTypeOK, RW!LotTypeOK, Lot!ParkStates, RW!ParkStates, Lot!Failures, RW!Failures
  <2>4. Event!LotTypeOK
    BY <2>2 DEF Lot!LotTypeOK, Event!LotTypeOK, Lot!ParkStates, Event!ParkStates, Lot!Failures, Event!Failures
  <2>5. Once!LotTypeOK
    BY <2>2 DEF Lot!LotTypeOK, Once!LotTypeOK, Lot!ParkStates, Once!ParkStates, Lot!Failures, Once!Failures
  <2>6. which = "rw" => RW!TypeOK
    BY <2>3 DEF AllInv, RWInv, RWTypes, RW!TypeOK
  <2>7. which = "event" => Event!TypeOK
    BY <2>4 DEF AllInv, EventInv, EventTypes, Event!TypeOK
  <2>8. which = "once" => Once!TypeOK
    BY <2>5 DEF AllInv, OnceInv, OnceTypes, Once!TypeOK
  <2>9. QED
    BY <2>1, <2>6, <2>7, <2>8 DEF TypesOK
<1>2. QED
  BY <1>1, AllInvariance, PTL

\* The import lock is held until its outermost unlock: nobody else owns the
\* PyMutex while a thread has unlocked it less often than it has locked it.
THEOREM ImportLockIsHeld == AllSpec => []HeldUntilOutermost
<1>1. AllInv => HeldUntilOutermost
  BY RecInvMeans DEF AllInv, HeldUntilOutermost
<1>2. QED
  BY <1>1, AllInvariance, PTL

\* A thread that asks without synchronisation if it has the import lock gets
\* the right answer, in the child of a fork too.
THEOREM ImportLockKnowsOwner == AllSpec => []OwnerKnowsItself
<1>1. AllInv => OwnerKnowsItself
  BY RecInvMeans DEF AllInv, OwnerKnowsItself
<1>2. QED
  BY <1>1, AllInvariance, PTL

\* The bits of the readers-writer lock count who holds it, readers and a
\* writer exclude each other, and nobody sleeps on a lock that no holder will
\* release and no waker has set out to wake.
THEOREM RWBitsAreExact == AllSpec => []BitsExact
<1>1. AllInv => BitsExact
  BY RWInvMeansBitsExact DEF AllInv, BitsExact
<1>2. QED
  BY <1>1, AllInvariance, PTL

\* A wait for an event that was not cut short ends when the event is set.
THEOREM EventWaitMeansSet == AllSpec => []WokenMeansSet
<1>1. AllInv => WokenMeansSet
  BY DEF AllInv, EventInv, EventTypes, WokenMeansSet, Event!WokenMeansSet, Event!Failures
<1>2. QED
  BY <1>1, AllInvariance, PTL

\* The function of a once flag is run by one thread at a time, and a call that
\* returns 0 returns after it has succeeded.
THEOREM OnceRunsOnce == AllSpec => []RunsOnce
<1>1. AllInv => RunsOnce
  BY DEF AllInv, OnceInv, RunsOnce, Once!RunsOnce
<1>2. QED
  BY <1>1, AllInvariance, PTL

\* A thread that runs has the mutexes of all its active critical sections, the
\* one on top among them, whatever sections were suspended and resumed before.
THEOREM ActiveSectionsAreLocked == AllSpec => []ActiveMeansLocked
<1>1. AllInv => ActiveMeansLocked
  <2>1. Cs!ActiveMeansLocked => ActiveMeansLocked
    BY DEF Cs!ActiveMeansLocked, ActiveMeansLocked, Sections!ActiveMeansLocked,
           Cs!Top, Sections!Top, Cs!Last, Sections!Last, Cs!ToSet, Sections!ToSet
  <2>2. QED
    BY <2>1, Cs!SectionsInvMeansActive DEF AllInv
<1>2. QED
  BY <1>1, AllInvariance, PTL

\* Threads whose critical sections nest in whatever order never wait for each
\* other in a circle.
THEOREM SectionsDoNotDeadlock == AllSpec => []NoCircularWait
<1>1. AllInv => NoCircularWait
  <2>1. Cs!NoCircularWait => NoCircularWait
    BY DEF Cs!NoCircularWait, NoCircularWait, Sections!NoCircularWait, Cs!WaitsFor, Sections!WaitsFor
  <2>2. QED
    BY <2>1, Cs!SectionsInvMeansNoCircle DEF AllInv
<1>2. QED
  BY <1>1, AllInvariance, PTL

=============================================================================

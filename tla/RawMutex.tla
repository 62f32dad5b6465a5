------------------------------ MODULE RawMutex ------------------------------
(***************************************************************************)
(* _PyRawMutex (Python/lock.c, pycore_lock.h): the word-sized lock under   *)
(* the parking lot.  The word packs a LOCKED bit and a pointer to the head *)
(* of a linked stack of waiting threads, each of which sleeps on its own   *)
(* semaphore.  Every load and compare-and-swap of the word is a step of    *)
(* its own; a thread keeps the word it saw last in its local v.            *)
(*                                                                         *)
(* A wait_entry lives in the stack frame of the thread that waits, so a    *)
(* thread stands for its entry.                                            *)
(***************************************************************************)
EXTENDS Naturals, FiniteSets

CONSTANTS Threads,        \* the threads that use the mutex
          NoThread,       \* the null pointer
          Interruptible,  \* may the platform's semaphore wait return early
                          \* with Py_PARK_INTR (EINTR, a spurious wakeup)?
          SemaMax         \* the platform semaphore's maximum count: posting
                          \* beyond it is a fatal error

ASSUME RawMutexAssumption ==
         /\ NoThread \notin Threads
         /\ SemaMax \in Nat \ {0}
         /\ Interruptible \in BOOLEAN

VARIABLES word,     \* m->v: the LOCKED bit and the head of the waiters
          next,     \* waiter.next of each thread's raw_mutex_entry
          sema,     \* the count of each thread's waiter.sema
          v,        \* each thread's local copy of the word
          pc,       \* where each thread is
          next_waiter,  \* what an unlocking thread read from waiter->next
          waking    \* the waiter an unlocking thread has yet to wake

vars == <<word, next, sema, v, pc, next_waiter, waking>>

Pointer == Threads \cup {NoThread}

Word == [locked : BOOLEAN, head : Pointer]

Unlocked == [locked |-> FALSE, head |-> NoThread]

Locked == [locked |-> TRUE, head |-> NoThread]

PC == {"idle", "lock_slow", "lock_try", "lock_wait", "locked",
       "unlock_slow", "unlock_try", "unlock_pop", "unlock_wake"}

Init ==
    /\ word = Unlocked
    /\ next = [t \in Threads |-> NoThread]
    /\ sema = [t \in Threads |-> 0]
    /\ v = [t \in Threads |-> Unlocked]
    /\ pc = [t \in Threads |-> "idle"]
    /\ next_waiter = [t \in Threads |-> NoThread]
    /\ waking = [t \in Threads |-> NoThread]

Goto(t, label) == pc' = [pc EXCEPT ![t] = label]

(***************************************************************************)
(* Lock.                                                                   *)
(***************************************************************************)

\* _PyRawMutex_Lock: one compare-and-swap, then the slow path.
Lock(t) ==
    /\ pc[t] = "idle"
    /\ \/ /\ word = Unlocked
          /\ word' = Locked
          /\ Goto(t, "locked")
       \/ /\ word # Unlocked
          /\ Goto(t, "lock_slow")
          /\ UNCHANGED word
    /\ UNCHANGED <<next, sema, v, next_waiter, waking>>

\* The slow path initialises its semaphore and loads the word.
LockSlow(t) ==
    /\ pc[t] = "lock_slow"
    /\ sema' = [sema EXCEPT ![t] = 0]
    /\ v' = [v EXCEPT ![t] = word]
    /\ Goto(t, "lock_try")
    /\ UNCHANGED <<word, next, next_waiter, waking>>

\* Faulty: a plain store instead of the compare-and-swap.
LockGrabByStore(t) ==
    /\ pc[t] = "lock_try"
    /\ ~v[t].locked
    /\ word' = [v[t] EXCEPT !.locked = TRUE]
    /\ Goto(t, "locked")
    /\ UNCHANGED <<next, sema, v, next_waiter, waking>>

\* Unlocked, with or without waiters: try to grab the lock.
LockGrab(t) ==
    /\ pc[t] = "lock_try"
    /\ ~v[t].locked
    /\ \/ /\ word = v[t]
          /\ word' = [v[t] EXCEPT !.locked = TRUE]
          /\ Goto(t, "locked")
          /\ UNCHANGED v
       \/ /\ word # v[t]
          /\ v' = [v EXCEPT ![t] = word]
          /\ UNCHANGED <<word, pc>>
    /\ UNCHANGED <<next, sema, next_waiter, waking>>

\* Locked: try to push ourselves on the stack of waiters.
LockPush(t) ==
    /\ pc[t] = "lock_try"
    /\ v[t].locked
    /\ next' = [next EXCEPT ![t] = v[t].head]
    /\ \/ /\ word = v[t]
          /\ word' = [locked |-> TRUE, head |-> t]
          /\ Goto(t, "lock_wait")
          /\ UNCHANGED v
       \/ /\ word # v[t]
          /\ v' = [v EXCEPT ![t] = word]
          /\ UNCHANGED <<word, pc>>
    /\ UNCHANGED <<sema, next_waiter, waking>>

\* The semaphore wait ends: we were woken, but the lock is not ours yet.
LockWoken(t) ==
    /\ pc[t] = "lock_wait"
    /\ sema[t] > 0
    /\ sema' = [sema EXCEPT ![t] = @ - 1]
    /\ Goto(t, "lock_try")
    /\ UNCHANGED <<word, next, v, next_waiter, waking>>

\* The semaphore wait ends without a wakeup; the code ignores its result.
LockInterrupted(t) ==
    /\ Interruptible
    /\ pc[t] = "lock_wait"
    /\ sema[t] = 0
    /\ Goto(t, "lock_try")
    /\ UNCHANGED <<word, next, sema, v, next_waiter, waking>>

(***************************************************************************)
(* Unlock.                                                                 *)
(***************************************************************************)

\* _PyRawMutex_Unlock: one compare-and-swap, then the slow path.
Unlock(t) ==
    /\ pc[t] = "locked"
    /\ \/ /\ word = Locked
          /\ word' = Unlocked
          /\ Goto(t, "idle")
       \/ /\ word # Locked
          /\ Goto(t, "unlock_slow")
          /\ UNCHANGED word
    /\ UNCHANGED <<next, sema, v, next_waiter, waking>>

UnlockSlow(t) ==
    /\ pc[t] = "unlock_slow"
    /\ v' = [v EXCEPT ![t] = word]
    /\ Goto(t, "unlock_try")
    /\ UNCHANGED <<word, next, sema, next_waiter, waking>>

\* Is there a waiter?  If so, look at the entry under it; if not, unlock.
\* The second case is the code's, and never met: the first compare-and-swap
\* failed because there was a waiter, and only the owner pops one.  A word
\* that is not locked here is the fatal error of line 223: no action.
UnlockTry(t) ==
    /\ pc[t] = "unlock_try"
    /\ v[t].locked
    /\ IF v[t].head # NoThread
       THEN /\ next_waiter' = [next_waiter EXCEPT ![t] = next[v[t].head]]
            /\ Goto(t, "unlock_pop")
            /\ UNCHANGED <<word, v>>
       ELSE /\ UNCHANGED next_waiter
            /\ IF word = v[t]
               THEN word' = Unlocked /\ Goto(t, "idle") /\ UNCHANGED v
               ELSE v' = [v EXCEPT ![t] = word] /\ UNCHANGED <<word, pc>>
    /\ UNCHANGED <<next, sema, waking>>

\* Faulty: clears the whole word, forgetting the waiters under the top one.
UnlockPopClearing(t) ==
    /\ pc[t] = "unlock_pop"
    /\ word = v[t]
    /\ word' = Unlocked
    /\ waking' = [waking EXCEPT ![t] = v[t].head]
    /\ next_waiter' = [next_waiter EXCEPT ![t] = NoThread]
    /\ Goto(t, "unlock_wake")
    /\ UNCHANGED <<next, sema, v>>

\* Unlock and pop the waiter pushed last, unless others came on top of it.
UnlockPop(t) ==
    /\ pc[t] = "unlock_pop"
    /\ \/ /\ word = v[t]
          /\ word' = [locked |-> FALSE, head |-> next_waiter[t]]
          /\ waking' = [waking EXCEPT ![t] = v[t].head]
          /\ Goto(t, "unlock_wake")
          /\ UNCHANGED v
       \/ /\ word # v[t]
          /\ v' = [v EXCEPT ![t] = word]
          /\ Goto(t, "unlock_try")
          /\ UNCHANGED <<word, waking>>
    /\ next_waiter' = [next_waiter EXCEPT ![t] = NoThread]
    /\ UNCHANGED <<next, sema>>

\* Faulty: pops the waiter and forgets to post its semaphore.
UnlockWakeNobody(t) ==
    /\ pc[t] = "unlock_wake"
    /\ waking' = [waking EXCEPT ![t] = NoThread]
    /\ Goto(t, "idle")
    /\ UNCHANGED <<word, next, sema, v, next_waiter>>

\* _PySemaphore_Wakeup of the popped waiter, after the lock is free.
UnlockWake(t) ==
    /\ pc[t] = "unlock_wake"
    /\ sema[waking[t]] < SemaMax
    /\ sema' = [sema EXCEPT ![waking[t]] = @ + 1]
    /\ waking' = [waking EXCEPT ![t] = NoThread]
    /\ Goto(t, "idle")
    /\ UNCHANGED <<word, next, v, next_waiter>>

Step(t) ==
    \/ LockSlow(t) \/ LockGrab(t) \/ LockPush(t) \/ LockWoken(t)
    \/ Unlock(t) \/ UnlockSlow(t) \/ UnlockTry(t) \/ UnlockPop(t)
    \/ UnlockWake(t)

Next == \E t \in Threads : Lock(t) \/ Step(t) \/ LockInterrupted(t)

Spec == Init /\ [][Next]_vars

\* A thread inside a lock or unlock call keeps running, and a thread that
\* holds the lock releases it; nobody has to call Lock.
FairSpec == Spec /\ \A t \in Threads : WF_vars(Step(t))

(***************************************************************************)
(* Properties.                                                             *)
(***************************************************************************)

TypeOK ==
    /\ word \in Word
    /\ next \in [Threads -> Pointer]
    /\ sema \in [Threads -> Nat]
    /\ v \in [Threads -> Word]
    /\ pc \in [Threads -> PC]
    /\ next_waiter \in [Threads -> Pointer]
    /\ waking \in [Threads -> Pointer]

\* t owns the lock until its compare-and-swap clears the LOCKED bit.
Holds(t) == pc[t] \in {"locked", "unlock_slow", "unlock_try", "unlock_pop"}

\* At most one thread owns the lock, and the LOCKED bit says if one does.
MutualExclusion ==
    /\ \A t, u \in Threads : Holds(t) /\ Holds(u) => t = u
    /\ word.locked <=> \E t \in Threads : Holds(t)

owners == {t \in Threads : Holds(t)}

AL == INSTANCE AbstractLock

\* The word, its compare-and-swaps and its retries implement a lock that is
\* only ever acquired when free and released by its owner.
ImplementsLock == AL!StrictSpec

\* The entries reachable from p: the least set that holds the one p points to
\* and, with each entry, the one that is under it.
IsClosedFrom(S, p) ==
    p \in S \cup {NoThread} /\ \A t \in S : next[t] \in S \cup {NoThread}

From(p) == {t \in Threads : \A S \in SUBSET Threads : IsClosedFrom(S, p) => t \in S}

\* The stack, as a set.
Stack == From(word.head)

BeingWoken == {waking[t] : t \in Threads} \ {NoThread}

\* Every thread asleep on the mutex can still be woken, and only once: it is
\* on the stack, or popped by an unlocker that is about to post its
\* semaphore, or already posted; and only sleeping threads are reachable.
NoWaiterLost ==
    /\ Stack \cup BeingWoken \subseteq {t \in Threads : pc[t] = "lock_wait"}
    /\ \A t \in Threads : pc[t] = "lock_wait" =>
         \/ t \in Stack      /\ t \notin BeingWoken /\ sema[t] = 0
         \/ t \notin Stack   /\ t \in BeingWoken    /\ sema[t] = 0
         \/ t \notin Stack   /\ t \notin BeingWoken /\ sema[t] = 1

\* "The remaining bits are either zero or a pointer to a struct
\* raw_mutex_entry" (pycore_lock.h): the entry the word points to belongs to
\* a call of _PyRawMutex_LockSlow that has not returned.
HeadIsLive ==
    word.head # NoThread => pc[word.head] \in {"lock_try", "lock_wait"}

\* No deadlock: while threads want the lock, it is taken again and again.
LockProgress ==
    []<>((\E t \in Threads : pc[t] \in {"lock_slow", "lock_try", "lock_wait"})
            => \E t \in Threads : pc[t] = "locked")

=============================================================================

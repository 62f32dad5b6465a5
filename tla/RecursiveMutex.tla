--------------------------- MODULE RecursiveMutex ---------------------------
(***************************************************************************)
(* _PyRecursiveMutex (Python/lock.c), the import lock: a PyMutex with the  *)
(* thread that owns it and the number of times it has locked it again.     *)
(* The PyMutex is its specification, AbstractLock.  Other threads read the *)
(* thread field while the owner writes it, without synchronisation.        *)
(***************************************************************************)
EXTENDS Naturals

CONSTANTS Threads,    \* thread identifiers
          NoThread,   \* 0, the identifier of no thread
          MaxDepth    \* bound: how often a thread locks the mutex it owns

Parameters == NoThread \notin Threads /\ MaxDepth \in Nat

VARIABLES owners,   \* who owns m->mutex
          thread,   \* m->thread
          level,    \* m->level
          pc,       \* where each thread is
          depth     \* locks taken minus locks given back, by each thread

vars == <<owners, thread, level, pc, depth>>

Mutex == INSTANCE AbstractLock

Init ==
    /\ Mutex!Init
    /\ thread = NoThread
    /\ level = 0
    /\ pc = [t \in Threads |-> "run"]
    /\ depth = [t \in Threads |-> 0]

Goto(t, label) == pc' = [pc EXCEPT ![t] = label]

\* Faulty: counts no levels.
LockUncounted(t) ==
    /\ pc[t] = "run"
    /\ depth[t] <= MaxDepth
    /\ IF thread = t
       THEN depth' = [depth EXCEPT ![t] = @ + 1] /\ UNCHANGED pc
       ELSE Goto(t, "lock_mutex") /\ UNCHANGED depth
    /\ UNCHANGED <<owners, thread, level>>

\* _PyRecursiveMutex_Lock, by the owner or by another thread.
Lock(t) ==
    /\ pc[t] = "run"
    /\ depth[t] <= MaxDepth
    /\ IF thread = t
       THEN level' = level + 1 /\ depth' = [depth EXCEPT ![t] = @ + 1] /\ UNCHANGED pc
       ELSE Goto(t, "lock_mutex") /\ UNCHANGED <<level, depth>>
    /\ UNCHANGED <<owners, thread>>

\* PyMutex_Lock, when the mutex is free.
LockMutex(t) ==
    /\ pc[t] = "lock_mutex"
    /\ Mutex!Acquire(t)
    /\ Goto(t, "lock_store")
    /\ UNCHANGED <<thread, level, depth>>

\* We have the mutex: the store of our identifier, with level at zero.
LockStore(t) ==
    /\ pc[t] = "lock_store"
    /\ thread' = t
    /\ depth' = [depth EXCEPT ![t] = 1]
    /\ Goto(t, "run")
    /\ UNCHANGED <<owners, level>>

\* Faulty: counts down before it looks at the level.
UnlockUnderflowing(t) ==
    /\ pc[t] = "run"
    /\ depth[t] > 0 /\ thread = t
    /\ depth' = [depth EXCEPT ![t] = @ - 1]
    /\ level' = level - 1
    /\ IF level' > 0
       THEN UNCHANGED <<thread, pc>>
       ELSE thread' = NoThread /\ Goto(t, "unlock_mutex")
    /\ UNCHANGED owners

\* _PyRecursiveMutex_Unlock, by a thread that has locked it.  When it is
\* not the owner the code ends in a fatal error.
Unlock(t) ==
    /\ pc[t] = "run"
    /\ depth[t] > 0 /\ thread = t
    /\ depth' = [depth EXCEPT ![t] = @ - 1]
    /\ IF level > 0
       THEN level' = level - 1 /\ UNCHANGED <<thread, pc>>
       ELSE thread' = NoThread /\ Goto(t, "unlock_mutex") /\ UNCHANGED level
    /\ UNCHANGED owners

\* PyMutex_Unlock, which may hand the mutex off to a thread that waits.
UnlockMutex(t) ==
    /\ pc[t] = "unlock_mutex"
    /\ \/ Mutex!Release(t) /\ Goto(t, "run")
       \/ \E u \in Threads :
             /\ pc[u] = "lock_mutex"
             /\ Mutex!Handoff(t, u)
             /\ pc' = [pc EXCEPT ![t] = "run", ![u] = "lock_store"]
    /\ UNCHANGED <<thread, level, depth>>

\* Faulty: the child keeps the identifier its parent had.
ForkStale(t, u) ==
    /\ pc[t] = "run" /\ depth[t] > 0
    /\ owners' = {u}
    /\ pc' = [x \in Threads |-> "run"]
    /\ depth' = [x \in Threads |-> IF x = u THEN depth[t] ELSE 0]
    /\ UNCHANGED <<thread, level>>

\* The child of a fork by the thread t, which takes the import lock first
\* (PyOS_BeforeFork).  The others are gone; the identifier of t may have
\* changed to u, and _PyImport_ReInitLock stores it.
Fork(t, u) ==
    /\ pc[t] = "run" /\ depth[t] > 0
    /\ owners' = {u}
    /\ thread' = u
    /\ pc' = [x \in Threads |-> "run"]
    /\ depth' = [x \in Threads |-> IF x = u THEN depth[t] ELSE 0]
    /\ UNCHANGED level

Step(t) ==
    \/ Lock(t) \/ LockMutex(t) \/ LockStore(t)
    \/ Unlock(t) \/ UnlockMutex(t)

Next == \E t \in Threads : Step(t) \/ \E u \in Threads : Fork(t, u)

Spec == Init /\ [][Next]_vars

(***************************************************************************)
(* Properties.                                                             *)
(***************************************************************************)

TypeOK ==
    /\ owners \subseteq Threads
    /\ thread \in Threads \cup {NoThread}
    /\ level \in 0..MaxDepth
    /\ pc \in [Threads -> {"run", "lock_mutex", "lock_store", "unlock_mutex"}]
    /\ depth \in [Threads -> 0..(MaxDepth + 1)]

\* A thread that has locked the mutex more often than it has unlocked it
\* owns the PyMutex, and it alone: inner unlocks do not let others in.
HeldUntilOutermost ==
    \A t \in Threads : depth[t] > 0 => owners = {t} /\ depth[t] = level + 1

\* The unsynchronised test of the thread field is right for the thread that
\* asks: it finds its own identifier if, and only if, it has the mutex.
OwnerKnowsItself ==
    \A t \in Threads : pc[t] = "run" => (thread = t <=> depth[t] > 0)

=============================================================================

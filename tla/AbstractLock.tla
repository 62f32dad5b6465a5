---------------------------- MODULE AbstractLock ----------------------------
(***************************************************************************)
(* What a CPython lock promises to its callers, whatever its               *)
(* implementation: at most one thread owns it.  _PyRawMutex only acquires  *)
(* and releases (StrictSpec); a PyMutex may also pass its ownership        *)
(* directly from the unlocking thread to a waiter (Spec).                  *)
(***************************************************************************)
CONSTANT Threads   \* the threads that use the lock

VARIABLE owners    \* the threads that own the lock: none or one

Init == owners = {}

Acquire(t) == owners = {} /\ owners' = {t}

Release(t) == owners = {t} /\ owners' = {}

Handoff(t, u) == t # u /\ owners = {t} /\ owners' = {u}

StrictNext == \E t \in Threads : Acquire(t) \/ Release(t)

Next == StrictNext \/ \E t, u \in Threads : Handoff(t, u)

StrictSpec == Init /\ [][StrictNext]_owners

Spec == Init /\ [][Next]_owners

=============================================================================

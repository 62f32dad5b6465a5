--------------------------- MODULE BiasedRefcount ---------------------------
(***************************************************************************)
(* Biased reference counting of the free-threaded build (Python/brc.c,     *)
(* Objects/object.c): an object counts the references of the thread that   *)
(* owns it apart from those of others, and a thread that would take the    *)
(* shared count below zero asks the owner to merge the two.                *)
(*                                                                         *)
(* One object, which the collector does not track, and the threads of one  *)
(* interpreter, all in one bucket of the table.  The id of a thread that   *)
(* is gone may be the id of a new one.  A compare-and-swap that is tried   *)
(* until it succeeds is one step, since what it writes depends only on     *)
(* what it replaces.                                                       *)
(***************************************************************************)
EXTENDS Integers, FiniteSets

CONSTANTS Threads, Unowned,
          Creator,      \* the thread that creates the object
          MaxRefs       \* a bound on the references held at a time, and on those
                        \*   counted by the owner before it merges the counts

Parameters ==
    /\ IsFiniteSet(Threads) /\ Creator \in Threads /\ Unowned \notin Threads
    /\ MaxRefs \in Nat \ {0}

VARIABLES ob_tid, ob_ref_local,
          ob_ref_shared,    \* the count and the flags
          freed,            \* has the object been deallocated?
          weak,             \* does a weak reference refer to it?
          refs,             \* how many references each thread holds
          objects_to_merge, local_objects_to_merge,
                            \* how often the object is in each thread's queues
          in_table,         \* is the thread in the bucket?
          breaker,          \* _PY_EVAL_EXPLICIT_MERGE_BIT
          mutex,            \* who holds the bucket's mutex
          target,           \* whom the thread is about to queue the object for
          local,            \* the local of _Py_ExplicitMergeRefcount
          leaving,          \* is the thread in _Py_brc_remove_thread?
          pc

object == <<ob_tid, ob_ref_local, ob_ref_shared>>
queues == <<objects_to_merge, local_objects_to_merge, in_table, breaker, mutex>>
vars == <<object, freed, weak, refs, queues, target, local, leaving, pc>>

Shared(n, flags) == [count |-> n, flags |-> flags]
REF_SHARED_INIT == Shared(0, "none")
REF_MAYBE_WEAKREF == Shared(0, "weakref")
REF_MERGED == Shared(0, "merged")

Init ==
    /\ ob_tid = Creator /\ ob_ref_local = 1 /\ ob_ref_shared = REF_SHARED_INIT
    /\ freed = FALSE /\ weak = FALSE
    /\ refs = [t \in Threads |-> IF t = Creator THEN 1 ELSE 0]
    /\ objects_to_merge = [t \in Threads |-> 0]
    /\ local_objects_to_merge = [t \in Threads |-> 0]
    /\ in_table = [t \in Threads |-> TRUE]
    /\ breaker = [t \in Threads |-> FALSE]
    /\ mutex = Unowned
    /\ target = [t \in Threads |-> Unowned]
    /\ local = [t \in Threads |-> 0]
    /\ leaving = [t \in Threads |-> FALSE]
    /\ pc = [t \in Threads |-> "run"]

Goto(t, label) == pc' = [pc EXCEPT ![t] = label]

\* Where a thread goes on that has so many objects left to merge.
Back(t, n) == IF n > 0 THEN "pop" ELSE IF leaving[t] THEN "check" ELSE "run"

\* If it was the last reference it deallocates the object.
DeallocOrBack(t, last) ==
    Goto(t, IF last THEN "dealloc" ELSE Back(t, local_objects_to_merge[t]))

Add(f, t, n) == [f EXCEPT ![t] = @ + n]

\* The sum of f over the threads: the pairs that it counts.
Pairs(f) == UNION {{t} \X (1..f[t]) : t \in Threads}
Total(f) == Cardinality(Pairs(f))

(***************************************************************************)
(* What threads do with references.                                        *)
(***************************************************************************)

Counted(t) ==
    /\ Total(refs) < MaxRefs
    /\ refs' = Add(refs, t, 1)
    /\ IF ob_tid = t
       THEN /\ ob_ref_local < MaxRefs
            /\ ob_ref_local' = ob_ref_local + 1 /\ UNCHANGED ob_ref_shared
       ELSE ob_ref_shared' = [ob_ref_shared EXCEPT !.count = @ + 1] /\ UNCHANGED ob_ref_local
    /\ UNCHANGED <<ob_tid, freed, weak, queues, target, local, leaving, pc>>

\* Py_INCREF.
IncRef(t) == pc[t] = "run" /\ refs[t] > 0 /\ Counted(t)

\* _Py_TryIncref of the object of a weak reference.
TryIncRef(t) ==
    /\ pc[t] = "run" /\ weak
    /\ ob_tid = t \/ ob_ref_shared \notin {REF_SHARED_INIT, REF_MERGED}
    /\ Counted(t)

\* A thread stores a reference where another takes it.
Give(t, u) ==
    /\ pc[t] = "run" /\ refs[t] > 0
    /\ t # u /\ in_table[u] /\ ~leaving[u]
    /\ refs' = Add(Add(refs, t, -1), u, 1)
    /\ UNCHANGED <<object, freed, weak, queues, target, local, leaving, pc>>

\* _PyObject_SetMaybeWeakref for a new weak reference.
SetMaybeWeakref(t) ==
    /\ pc[t] = "run" /\ refs[t] > 0
    /\ weak' = TRUE
    /\ ob_ref_shared' = IF ob_ref_shared.flags = "none"
                        THEN [ob_ref_shared EXCEPT !.flags = "weakref"] ELSE ob_ref_shared
    /\ UNCHANGED <<ob_tid, ob_ref_local, freed, refs, queues, target, local, leaving, pc>>

\* _Py_DecRefShared: the first who would take the count of a shared object
\* below zero queues it, and the queue takes over the reference.
DecRefShared(t) ==
    LET should_queue == ob_ref_shared \in {REF_SHARED_INIT, REF_MAYBE_WEAKREF}
        new_shared == IF should_queue THEN Shared(0, "queued")
                      ELSE [ob_ref_shared EXCEPT !.count = @ - 1]
    IN  /\ ob_ref_shared' = new_shared
        /\ IF should_queue THEN Goto(t, "queue") ELSE DeallocOrBack(t, new_shared = REF_MERGED)

\* Py_DECREF.
DecRef(t) ==
    /\ pc[t] = "run" /\ refs[t] > 0
    /\ refs' = Add(refs, t, -1)
    /\ \/ /\ ob_tid = t
          /\ ob_ref_local' = ob_ref_local - 1
          /\ Goto(t, IF ob_ref_local = 1 THEN "merge_zero" ELSE "run")
          /\ UNCHANGED ob_ref_shared
       \/ ob_tid # t /\ DecRefShared(t) /\ UNCHANGED ob_ref_local
    /\ UNCHANGED <<ob_tid, freed, weak, queues, target, local, leaving>>

\* _Py_Dealloc, after which weak references are cleared.
Dealloc(t) ==
    /\ pc[t] = "dealloc"
    /\ freed' = TRUE /\ weak' = FALSE
    /\ Goto(t, Back(t, local_objects_to_merge[t]))
    /\ UNCHANGED <<object, refs, queues, target, local, leaving>>

(***************************************************************************)
(* _Py_MergeZeroLocalRefcount: the owner gives up the object.              *)
(***************************************************************************)

\* Faulty: forgets the flags, although a weak reference may be used.
MergeZeroCounting(t) ==
    /\ pc[t] = "merge_zero"
    /\ Goto(t, IF ob_ref_shared.count = 0 THEN "dealloc" ELSE "disown")
    /\ UNCHANGED <<object, freed, weak, refs, queues, target, local, leaving>>

MergeZero(t) ==
    /\ pc[t] = "merge_zero"
    /\ Goto(t, IF ob_ref_shared = REF_SHARED_INIT THEN "dealloc" ELSE "disown")
    /\ UNCHANGED <<object, freed, weak, refs, queues, target, local, leaving>>

Disown(t) ==
    /\ pc[t] = "disown"
    /\ ob_tid' = Unowned
    /\ Goto(t, "mark")
    /\ UNCHANGED <<ob_ref_local, ob_ref_shared, freed, weak, refs, queues, target, local, leaving>>

MarkMerged(t) ==
    /\ pc[t] = "mark"
    /\ ob_ref_shared' = [ob_ref_shared EXCEPT !.flags = "merged"]
    /\ DeallocOrBack(t, ob_ref_shared' = REF_MERGED)
    /\ UNCHANGED <<ob_tid, ob_ref_local, freed, weak, refs, queues, target, local, leaving>>

(***************************************************************************)
(* _Py_ExplicitMergeRefcount(op, -1): first the local count and the owner, *)
(* then the shared count.                                                  *)
(***************************************************************************)

Empty(t) ==
    /\ local' = [local EXCEPT ![t] = ob_ref_local]
    /\ ob_ref_local' = 0 /\ ob_tid' = Unowned
    /\ Goto(t, "merge")

\* The bucket's mutex, if the thread holds it, is released.
ExplicitMerge(t) ==
    LET refcnt == ob_ref_shared.count + local[t] - 1 IN
    /\ pc[t] = "merge"
    /\ ob_ref_shared' = Shared(refcnt, "merged")
    /\ local' = [local EXCEPT ![t] = 0]
    /\ mutex' = IF mutex = t THEN Unowned ELSE mutex
    /\ DeallocOrBack(t, refcnt = 0)
    /\ UNCHANGED <<ob_tid, ob_ref_local, freed, weak, refs, objects_to_merge,
                   local_objects_to_merge, in_table, breaker, target, leaving>>

(***************************************************************************)
(* _Py_brc_queue_object.                                                   *)
(***************************************************************************)

\* The owner may have merged the counts in the meantime.
QueueObject(t) ==
    /\ pc[t] = "queue"
    /\ \/ ob_tid = Unowned /\ DecRefShared(t) /\ UNCHANGED target
       \/ /\ ob_tid # Unowned
          /\ target' = [target EXCEPT ![t] = ob_tid]
          /\ Goto(t, "bucket")
          /\ UNCHANGED ob_ref_shared
    /\ UNCHANGED <<ob_tid, ob_ref_local, freed, weak, refs, queues, local, leaving>>

\* The owner is told to merge the object, if there is memory for its queue,
Push(t) ==
    /\ pc[t] = "bucket" /\ mutex = Unowned
    /\ in_table[target[t]]
    /\ \/ /\ objects_to_merge' = Add(objects_to_merge, target[t], 1)
          /\ breaker' = [breaker EXCEPT ![target[t]] = TRUE]
          /\ Goto(t, Back(t, local_objects_to_merge[t]))
       \/ Goto(t, "no_memory") /\ UNCHANGED <<objects_to_merge, breaker>>
    /\ target' = [target EXCEPT ![t] = Unowned]
    /\ UNCHANGED <<object, freed, weak, refs, local_objects_to_merge, in_table, mutex,
                   local, leaving>>

\* or has exited: nobody else can own the object while the bucket is locked.
Abandoned(t) ==
    /\ pc[t] = "bucket" /\ mutex = Unowned
    /\ ~in_table[target[t]]
    /\ mutex' = t
    /\ Empty(t)
    /\ target' = [target EXCEPT ![t] = Unowned]
    /\ UNCHANGED <<ob_ref_shared, freed, weak, refs, objects_to_merge,
                   local_objects_to_merge, in_table, breaker, leaving>>

\* Where the world can stop a thread: between two instructions, in the
\* destructor of an object, or before it has locked the bucket.
Stoppable == {"run", "dealloc", "pop", "bucket", "take", "check", "no_memory", "drop", "gone"}

WorldStops(t) == \A u \in Threads \ {t} : pc[u] \in Stoppable

\* Without memory it stops the world to merge the counts itself.
MergeStopped(t) ==
    LET refcnt == ob_ref_shared.count + ob_ref_local - 1 IN
    /\ pc[t] = "no_memory" /\ WorldStops(t)
    /\ ob_tid' = Unowned /\ ob_ref_local' = 0
    /\ ob_ref_shared' = Shared(refcnt, "merged")
    /\ DeallocOrBack(t, refcnt = 0)
    /\ UNCHANGED <<freed, weak, refs, queues, target, local, leaving>>

(***************************************************************************)
(* _Py_brc_merge_refcounts, _Py_brc_remove_thread, _Py_brc_init_thread.    *)
(***************************************************************************)

\* _Py_HandlePending.
HandlePending(t) ==
    /\ pc[t] = "run" /\ breaker[t]
    /\ breaker' = [breaker EXCEPT ![t] = FALSE]
    /\ Goto(t, "take")
    /\ UNCHANGED <<object, freed, weak, refs, objects_to_merge, local_objects_to_merge,
                   in_table, mutex, target, local, leaving>>

TakeObjects(t) ==
    LET n == local_objects_to_merge[t] + objects_to_merge[t] IN
    /\ mutex = Unowned
    /\ local_objects_to_merge' = [local_objects_to_merge EXCEPT ![t] = n]
    /\ objects_to_merge' = [objects_to_merge EXCEPT ![t] = 0]
    /\ Goto(t, Back(t, n))
    /\ UNCHANGED <<object, freed, weak, refs, in_table, breaker, mutex, target, local, leaving>>

Take(t) == pc[t] = "take" /\ TakeObjects(t)

\* merge_queued_objects; the collector may have emptied the stack.
Pop(t) ==
    /\ pc[t] = "pop"
    /\ \/ /\ local_objects_to_merge[t] > 0
          /\ local_objects_to_merge' = Add(local_objects_to_merge, t, -1)
          /\ Empty(t)
       \/ /\ local_objects_to_merge[t] = 0
          /\ Goto(t, Back(t, 0))
          /\ UNCHANGED <<ob_tid, ob_ref_local, local, local_objects_to_merge>>
    /\ UNCHANGED <<ob_ref_shared, freed, weak, refs, objects_to_merge, in_table, breaker,
                   mutex, target, leaving>>

\* PyThreadState_Clear of a thread whose frames are gone.
Clear(t) ==
    /\ pc[t] = "run" /\ refs[t] = 0
    /\ leaving' = [leaving EXCEPT ![t] = TRUE]
    /\ Goto(t, "check")
    /\ UNCHANGED <<object, freed, weak, refs, queues, target, local>>

Removed(t) ==
    /\ in_table' = [in_table EXCEPT ![t] = FALSE]
    /\ leaving' = [leaving EXCEPT ![t] = FALSE]
    /\ Goto(t, "gone")
    /\ UNCHANGED <<object, freed, weak, refs, objects_to_merge, local_objects_to_merge,
                   breaker, mutex, target, local>>

\* Faulty: leaves when it has merged what it found.
RemoveThreadAtOnce(t) == pc[t] = "check" /\ mutex = Unowned /\ Removed(t)

\* It leaves the table when nothing has been queued since it last looked.
RemoveThread(t) ==
    /\ pc[t] = "check" /\ mutex = Unowned
    /\ \/ objects_to_merge[t] = 0 /\ Removed(t)
       \/ objects_to_merge[t] > 0 /\ TakeObjects(t)

\* A new thread gets the id.
InitThread(t) ==
    /\ pc[t] = "gone" /\ mutex = Unowned
    /\ in_table' = [in_table EXCEPT ![t] = TRUE]
    /\ breaker' = [breaker EXCEPT ![t] = FALSE]
    /\ Goto(t, "run")
    /\ UNCHANGED <<object, freed, weak, refs, objects_to_merge, local_objects_to_merge,
                   mutex, target, local, leaving>>

(***************************************************************************)
(* The collector, which stops the world and merges everybody's queues.     *)
(***************************************************************************)

\* It keeps an object without references for itself,
MergeAllQueued(t) ==
    LET queued == Total(objects_to_merge) + Total(local_objects_to_merge)
        refcount == ob_ref_local + ob_ref_shared.count - queued
    IN  /\ pc[t] = "run" /\ WorldStops(t)
        /\ queued > 0
        /\ objects_to_merge' = [u \in Threads |-> 0]
        /\ local_objects_to_merge' = [u \in Threads |-> 0]
        /\ ob_tid' = Unowned /\ ob_ref_local' = 0
        /\ ob_ref_shared' = Shared(IF refcount = 0 THEN 1 ELSE refcount, "merged")
        /\ Goto(t, IF refcount = 0 THEN "drop" ELSE "run")
        /\ UNCHANGED <<freed, weak, refs, in_table, breaker, mutex, target, local, leaving>>

\* until the world has started again (cleanup_worklist).
CleanupWorklist(t) ==
    /\ pc[t] = "drop"
    /\ DecRefShared(t)
    /\ UNCHANGED <<ob_tid, ob_ref_local, freed, weak, refs, queues, target, local, leaving>>

-----------------------------------------------------------------------------

\* The steps of a thread inside a call, and its looks at the eval breaker.
Step(t) ==
    \/ MergeZero(t) \/ Disown(t) \/ MarkMerged(t) \/ Dealloc(t)
    \/ QueueObject(t) \/ Push(t) \/ Abandoned(t) \/ ExplicitMerge(t) \/ MergeStopped(t)
    \/ HandlePending(t) \/ Take(t) \/ Pop(t) \/ RemoveThread(t) \/ CleanupWorklist(t)

Next ==
    \E t \in Threads :
        \/ Step(t)
        \/ IncRef(t) \/ TryIncRef(t) \/ DecRef(t) \/ SetMaybeWeakref(t)
        \/ \E u \in Threads : Give(t, u)
        \/ Clear(t) \/ InitThread(t) \/ MergeAllQueued(t)

Spec == Init /\ [][Next]_vars
FairSpec == Spec /\ \A t \in Threads : WF_vars(Step(t))

(***************************************************************************)
(* Properties.                                                             *)
(***************************************************************************)

TypeOK ==
    /\ ob_tid \in Threads \cup {Unowned} /\ ob_ref_local \in Nat
    /\ ob_ref_shared \in [count : Int, flags : {"none", "weakref", "queued", "merged"}]
    /\ freed \in BOOLEAN /\ weak \in BOOLEAN
    /\ refs \in [Threads -> 0..MaxRefs]
    /\ objects_to_merge \in [Threads -> Nat]
    /\ local_objects_to_merge \in [Threads -> Nat]
    /\ in_table \in [Threads -> BOOLEAN] /\ breaker \in [Threads -> BOOLEAN]
    /\ mutex \in Threads \cup {Unowned}
    /\ target \in [Threads -> Threads \cup {Unowned}]
    /\ local \in [Threads -> Nat] /\ leaving \in [Threads -> BOOLEAN]

\* Calls that have taken over a reference.
Keeping == {"queue", "bucket", "no_memory", "merge", "drop"}

\* The references there are: those of threads, calls and queues.
References ==
    Total(refs) + Total(objects_to_merge) + Total(local_objects_to_merge)
        + Cardinality({t \in Threads : pc[t] \in Keeping})

\* "The true refcount is the sum of these two fields", whatever part of it a
\* thread that merges them has in its hands.
SumIsExact == ~freed => ob_ref_local + ob_ref_shared.count + Total(local) = References

\* "a zero `ob_tid` implies a merged refcount", or one that is being merged.
UnownedIsMerged ==
    ob_tid = Unowned => \/ ob_ref_shared.flags = "merged"
                        \/ \E t \in Threads : pc[t] \in {"mark", "merge"}

\* The object is deallocated once, when there are no references to it and no
\* call that uses it is left.
DeallocatedUnused ==
    LET deallocating == {t \in Threads : pc[t] = "dealloc"} IN
    freed \/ deallocating # {} =>
        /\ References = 0
        /\ Cardinality(deallocating) + (IF freed THEN 1 ELSE 0) = 1
        /\ \A t \in Threads : pc[t] \notin {"merge_zero", "disown", "mark"}

\* The reference count is exact at every moment: through references that go
\* from thread to thread, merges by the owner, by others and by the collector,
\* owners that exit and ids that are used again.
RefcountExact == TypeOK /\ SumIsExact /\ UnownedIsMerged /\ DeallocatedUnused

\* "We need to fully process any objects to merge before removing ourself": an
\* object that no thread refers to any more is deallocated.
GarbageFreed == []<>(freed \/ \E t \in Threads : refs[t] > 0)

=============================================================================

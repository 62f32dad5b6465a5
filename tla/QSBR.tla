-------------------------------- MODULE QSBR --------------------------------
(***************************************************************************)
(* Safe memory reclamation by quiescent states (Python/qsbr.c) and the     *)
(* delayed freeing built on it (Objects/obmalloc.c), in the free-threaded  *)
(* build.  Readers use the memory behind a shared pointer (the items of a  *)
(* list, the keys of a dict) without a lock.  A writer that replaces the   *)
(* pointer may free the old memory only once every attached thread has     *)
(* passed a quiescent state since.                                         *)
(*                                                                         *)
(* Every load and store of wr_seq, rd_seq and a slot's seq is a step, in   *)
(* program order; what is done under shared->mutex is one step, and so is  *)
(* what is done while the world is stopped (StopTheWorld shows that it     *)
(* stops).  The chunks of a work queue are left out: any addition to the   *)
(* queue may fill one.  The 64-bit sequence numbers do not wrap.           *)
(***************************************************************************)
EXTENDS Naturals, FiniteSets, SequencesExt

CONSTANTS Threads,       \* the thread states of an interpreter
          NoThread,
          Main,          \* the first of them
          Blocks,        \* blocks of memory
          NoBlock,
          MinArraySize,  \* MIN_ARRAY_SIZE
          DeferredLimit, \* QSBR_DEFERRED_LIMIT
          MaxSeq         \* bound: wr_seq does not pass it

Parameters ==
    /\ IsFiniteSet(Threads) /\ Main \in Threads /\ NoThread \notin Threads
    /\ NoBlock \notin Blocks
    /\ MinArraySize \in Nat \ {0} /\ DeferredLimit \in Nat \ {0} /\ MaxSeq \in Nat

VARIABLES wr_seq, rd_seq,
          array,      \* shared->array: the slots
          freelist,   \* shared->freelist: the indices of the unused slots
          qsbr,       \* the index of each thread state's slot, or 0
          shared,     \* the block behind the shared pointer
          freed,      \* the blocks that are free
          holds,      \* the block a thread reads, without a lock
          queue,      \* tstate->mem_free_queue
          interp,     \* interp->mem_free_queue: head, has_work, whether its
                      \* mutex is locked, and the thread that has it
          pc,         \* where each thread is
          resume,     \* where a detached thread goes on
          seq,        \* a thread's local copy of a sequence number
          min_seq, i, \* the locals of qsbr_poll_scan
          removed,    \* the block that a thread is about to free
          child       \* the thread state that a thread is creating

seqs == <<wr_seq, rd_seq>>
slots == <<array, freelist, qsbr>>
memory == <<shared, freed, holds>>
queues == <<queue, interp>>
locals == <<resume, seq, min_seq, i, removed, child>>
vars == <<seqs, slots, memory, queues, pc, locals>>

QSBR_OFFLINE == 0
QSBR_INITIAL == 1
QSBR_INCR == 2

Slot == [seq : Nat, tstate : Threads \cup {NoThread}, deferrals : Nat, allocated : BOOLEAN]

Unused == [seq |-> QSBR_OFFLINE, tstate |-> NoThread, deferrals |-> 0, allocated |-> FALSE]

\* The thread states without a place in the interpreter's list of threads, or
\* not attached to the interpreter: those a stopped world lets be.
Offline == {"none", "new", "detached", "parked", "deleting"}

Init ==
    /\ wr_seq = QSBR_INITIAL /\ rd_seq = QSBR_INITIAL
    /\ array = [k \in 1..MinArraySize |->
                   IF k > 1 THEN Unused
                   ELSE [Unused EXCEPT !.seq = QSBR_INITIAL, !.tstate = Main, !.allocated = TRUE]]
    /\ freelist = [k \in 1..MinArraySize - 1 |-> k + 1]
    /\ qsbr = [t \in Threads |-> IF t = Main THEN 1 ELSE 0]
    /\ shared \in Blocks
    /\ freed = Blocks \ {shared}
    /\ holds = [t \in Threads |-> NoBlock]
    /\ queue = [t \in Threads |-> <<>>]
    /\ interp = [head |-> <<>>, has_work |-> FALSE, locked |-> FALSE, mutex |-> NoThread]
    /\ pc = [t \in Threads |-> IF t = Main THEN "run" ELSE "none"]
    /\ resume = [t \in Threads |-> "run"]
    /\ seq = [t \in Threads |-> 0]
    /\ min_seq = [t \in Threads |-> 0]
    /\ i = [t \in Threads |-> 0]
    /\ removed = [t \in Threads |-> NoBlock]
    /\ child = [t \in Threads |-> NoThread]

Goto(t, label) == pc' = [pc EXCEPT ![t] = label]

Store(t, s) == array' = [array EXCEPT ![qsbr[t]].seq = s]

\* The world is stopped for t.
Stopped(t) == \A u \in Threads \ {t} : pc[u] \in Offline

(***************************************************************************)
(* The sequence number of a thread.                                        *)
(***************************************************************************)

\* _Py_qsbr_attach and _Py_qsbr_quiescent_state load the write sequence ...
Attach(t) ==
    /\ pc[t] = "detached"
    /\ seq' = [seq EXCEPT ![t] = wr_seq]
    /\ Goto(t, "attach")
    /\ UNCHANGED <<seqs, slots, memory, queues, resume, min_seq, i, removed, child>>

\* (The thread holds no pointer any more.)
QuiescentState(t) ==
    /\ pc[t] = "run"
    /\ seq' = [seq EXCEPT ![t] = wr_seq]
    /\ holds' = [holds EXCEPT ![t] = NoBlock]
    /\ Goto(t, "quiescent")
    /\ UNCHANGED <<seqs, slots, shared, freed, queues, resume, min_seq, i, removed, child>>

\* ... and store what they loaded.
Observe(t) ==
    /\ pc[t] \in {"attach", "quiescent"}
    /\ Store(t, seq[t])
    /\ seq' = [seq EXCEPT ![t] = 0]
    /\ Goto(t, IF pc[t] = "attach" THEN resume[t] ELSE "run")
    /\ UNCHANGED <<seqs, freelist, qsbr, memory, queues, resume, min_seq, i, removed, child>>

\* _Py_qsbr_detach, of a thread that detaches or that waits for a mutex.
Detach(t) ==
    /\ pc[t] \in {"run", "register"}
    /\ Store(t, QSBR_OFFLINE)
    /\ holds' = [holds EXCEPT ![t] = NoBlock]
    /\ resume' = [resume EXCEPT ![t] = pc[t]]
    /\ Goto(t, "detached")
    /\ UNCHANGED <<seqs, freelist, qsbr, shared, freed, queues, seq, min_seq, i, removed, child>>

(***************************************************************************)
(* Readers and writers of the shared pointer.                              *)
(***************************************************************************)

Read(t) ==
    /\ pc[t] = "run"
    /\ holds' = [holds EXCEPT ![t] = shared]
    /\ UNCHANGED <<seqs, slots, shared, freed, queues, pc, locals>>

\* A writer, which has the object's lock, replaces the block by a new one ...
Replace(t) ==
    /\ pc[t] = "run"
    /\ \E b \in freed :
          /\ shared' = b
          /\ freed' = freed \ {b}
    /\ removed' = [removed EXCEPT ![t] = shared]
    /\ Goto(t, "free")
    /\ UNCHANGED <<seqs, slots, holds, queues, resume, seq, min_seq, i, child>>

\* Faulty: a deferred advance returns a goal that is reached too early.
DeferredAdvanceShort(t, goal) ==
    LET n == array[qsbr[t]].deferrals + 1 IN
    IF n < DeferredLimit
    THEN /\ goal = wr_seq
         /\ array' = [array EXCEPT ![qsbr[t]].deferrals = n]
         /\ UNCHANGED wr_seq
    ELSE /\ wr_seq < MaxSeq
         /\ wr_seq' = wr_seq + QSBR_INCR
         /\ goal = wr_seq'
         /\ array' = [array EXCEPT ![qsbr[t]].deferrals = 0]

\* _Py_qsbr_deferred_advance: only one advance out of DeferredLimit is done.
DeferredAdvance(t, goal) ==
    LET n == array[qsbr[t]].deferrals + 1 IN
    IF n < DeferredLimit
    THEN /\ goal = wr_seq + QSBR_INCR
         /\ array' = [array EXCEPT ![qsbr[t]].deferrals = n]
         /\ UNCHANGED wr_seq
    ELSE /\ wr_seq < MaxSeq
         /\ wr_seq' = wr_seq + QSBR_INCR
         /\ goal = wr_seq + QSBR_INCR
         /\ array' = [array EXCEPT ![qsbr[t]].deferrals = 0]

\* ... and has free_delayed free the old one, which processes the queues if
\* it fills a chunk.
FreeDelayed(t) ==
    /\ pc[t] = "free"
    /\ \E goal \in {wr_seq, wr_seq + QSBR_INCR} :
          /\ DeferredAdvance(t, goal)
          /\ queue' = [queue EXCEPT ![t] = Append(@, [ptr |-> removed[t], goal |-> goal])]
    /\ removed' = [removed EXCEPT ![t] = NoBlock]
    /\ Goto(t, "run") \/ Goto(t, "process")
    /\ UNCHANGED <<rd_seq, freelist, qsbr, memory, interp, resume, seq, min_seq, i, child>>

\* There is no memory for a chunk: the block is freed in a stopped world.
FreeNow(t) ==
    /\ pc[t] = "free" /\ Stopped(t)
    /\ freed' = freed \cup {removed[t]}
    /\ holds' = [holds EXCEPT ![t] = NoBlock]
    /\ removed' = [removed EXCEPT ![t] = NoBlock]
    /\ Goto(t, "run")
    /\ UNCHANGED <<seqs, slots, shared, queues, resume, seq, min_seq, i, child>>

(***************************************************************************)
(* _PyMem_ProcessDelayed: a thread's own queue, then the interpreter's.    *)
(***************************************************************************)

\* t processes the interpreter's queue.
HasInterp(t) == interp.mutex = t

Work(t) == IF HasInterp(t) THEN interp.head ELSE queue[t]

\* The first item of the queue is freed.
FreeFirst(t) ==
    /\ freed' = freed \cup {Head(Work(t)).ptr}
    /\ IF HasInterp(t)
       THEN interp' = [interp EXCEPT !.head = Tail(@)] /\ UNCHANGED queue
       ELSE queue' = [queue EXCEPT ![t] = Tail(@)] /\ UNCHANGED interp

\* The threads that wait in the parking lot for the mutex of the interpreter's
\* queue.
Waiting == {u \in Threads : pc[u] = "parked"}

\* t unlocks the mutex and goes on at label; the queue is then q.  If threads
\* wait, one is woken, and is handed the locked mutex if it has waited for
\* long: it has it before it is attached again, however long that takes.
Unlock(t, label, q, more) ==
    \/ /\ Waiting = {}
       /\ interp' = [head |-> q, has_work |-> more, locked |-> FALSE, mutex |-> NoThread]
       /\ Goto(t, label)
       /\ UNCHANGED resume
    \/ \E u \in Waiting, fair \in BOOLEAN :
       /\ interp' = [head |-> q, has_work |-> more, locked |-> fair,
                     mutex |-> IF fair THEN u ELSE NoThread]
       /\ pc' = [pc EXCEPT ![t] = label, ![u] = "detached"]
       /\ resume' = [resume EXCEPT ![u] = "abandon"]

\* process_interp_queue, if there is work and the mutex is not locked; the end
\* of it; or nothing to do.
NextQueue(t) ==
    /\ UNCHANGED queue
    /\ IF HasInterp(t)
       THEN Unlock(t, "run", interp.head, interp.head # <<>>)
       ELSE IF interp.has_work /\ ~interp.locked
       THEN /\ interp' = [interp EXCEPT !.locked = TRUE, !.mutex = t]
            /\ Goto(t, "process")
            /\ UNCHANGED resume
       ELSE Goto(t, "run") /\ UNCHANGED <<interp, resume>>

\* The next item is freed if rd_seq is known to have reached its goal.
Process(t) ==
    /\ pc[t] = "process"
    /\ IF Work(t) = <<>>
       THEN NextQueue(t) /\ UNCHANGED <<freed, min_seq, i>>
       ELSE IF Head(Work(t)).goal <= rd_seq
       THEN FreeFirst(t) /\ UNCHANGED <<pc, resume, min_seq, i>>
       ELSE /\ min_seq' = [min_seq EXCEPT ![t] = wr_seq]
            /\ i' = [i EXCEPT ![t] = 1]
            /\ Goto(t, "scan")
            /\ UNCHANGED <<freed, queues, resume>>
    /\ UNCHANGED <<seqs, slots, shared, holds, seq, removed, child>>

\* qsbr_poll_scan: the minimum over the slots, one at a time.
Scan(t) ==
    LET s == array[i[t]].seq IN
    /\ pc[t] = "scan" /\ i[t] <= Len(array)
    /\ min_seq' = IF s # QSBR_OFFLINE /\ s < min_seq[t]
                  THEN [min_seq EXCEPT ![t] = s] ELSE min_seq
    /\ i' = [i EXCEPT ![t] = @ + 1]
    /\ UNCHANGED <<seqs, slots, memory, queues, pc, resume, seq, removed, child>>

\* The greater of rd_seq and the minimum is the result.
Scanned(t) ==
    /\ pc[t] = "scan" /\ i[t] > Len(array)
    /\ i' = [i EXCEPT ![t] = 0]
    /\ seq' = [seq EXCEPT ![t] = rd_seq]
    /\ Goto(t, IF rd_seq < min_seq[t] THEN "update" ELSE "polled")
    /\ UNCHANGED <<seqs, slots, memory, queues, resume, min_seq, removed, child>>

\* "It's okay if the compare-exchange failed: another thread updated it".
Update(t) ==
    /\ pc[t] = "update"
    /\ rd_seq' = IF rd_seq = seq[t] THEN min_seq[t] ELSE rd_seq
    /\ seq' = [seq EXCEPT ![t] = min_seq[t]]
    /\ Goto(t, "polled")
    /\ UNCHANGED <<wr_seq, slots, memory, queues, resume, min_seq, i, removed, child>>

\* The item is freed, or it and those behind it stay for later.
Polled(t) ==
    /\ pc[t] = "polled"
    /\ IF Head(Work(t)).goal <= seq[t]
       THEN FreeFirst(t) /\ Goto(t, "process") /\ UNCHANGED resume
       ELSE NextQueue(t) /\ UNCHANGED freed
    /\ seq' = [seq EXCEPT ![t] = 0]
    /\ min_seq' = [min_seq EXCEPT ![t] = 0]
    /\ UNCHANGED <<seqs, slots, shared, holds, i, removed, child>>

(***************************************************************************)
(* The collector.                                                          *)
(***************************************************************************)

\* The items of a queue before the first that has to wait.
Ready(q, s) ==
    LET waits == {k \in DOMAIN q : q[k].goal > s} IN
    IF waits = {} THEN q ELSE SubSeq(q, 1, Min(waits) - 1)

Rest(q, s) == SubSeq(q, Len(Ready(q, s)) + 1, Len(q))

Ptrs(q) == {q[k].ptr : k \in DOMAIN q}

\* The queues of the threads of S, one after the other.
Merged(S) ==
    LET order == SetToSeq(S) IN FlattenSeq([k \in DOMAIN order |-> queue[order[k]]])

\* The minimum a scan finds when no other thread moves.
Minimum(slot, limit) ==
    Min({limit} \cup ({slot[k].seq : k \in DOMAIN slot} \ {QSBR_OFFLINE}))

\* The collector's poll of the goals of q, in a stopped world.
PollAll(q, slot, limit) ==
    IF \A k \in DOMAIN q : q[k].goal <= rd_seq THEN rd_seq
    ELSE Max({rd_seq, Minimum(slot, limit)})

\* process_interp_queue in a stopped world: an attached thread does not have
\* the mutex then, but one that is not may have been handed it.
TakesInterp == interp.has_work /\ ~interp.locked

\* Faulty: the thread that collects does not report its quiescent state.
ProcessDelayedFreesUnobserved(t) ==
    LET own == queue[t] \o Merged(Threads \ {t})
        now == wr_seq + QSBR_INCR
        rd == PollAll(IF TakesInterp THEN own \o interp.head ELSE own, array, now)
        left == Rest(interp.head, rd)
    IN  /\ wr_seq' = now
        /\ UNCHANGED array
        /\ rd_seq' = rd
        /\ queue' = [u \in Threads |-> IF u = t THEN Rest(own, rd) ELSE <<>>]
        /\ IF TakesInterp
           THEN /\ freed' = freed \cup Ptrs(Ready(own, rd)) \cup Ptrs(Ready(interp.head, rd))
                /\ Unlock(t, "run", left, left # <<>>)
           ELSE /\ freed' = freed \cup Ptrs(Ready(own, rd))
                /\ UNCHANGED <<interp, pc, resume>>

\* process_delayed_frees advances the write sequence, observes it, takes over
\* the queues of all threads and processes them, all in a stopped world; the
\* interpreter's queue too, unless its mutex is locked.
ProcessDelayedFrees(t) ==
    LET own == queue[t] \o Merged(Threads \ {t})
        now == wr_seq + QSBR_INCR
        slot == [array EXCEPT ![qsbr[t]].seq = now]
        rd == PollAll(IF TakesInterp THEN own \o interp.head ELSE own, slot, now)
        left == Rest(interp.head, rd)
    IN  /\ wr_seq' = now
        /\ array' = slot
        /\ rd_seq' = rd
        /\ queue' = [u \in Threads |-> IF u = t THEN Rest(own, rd) ELSE <<>>]
        /\ IF TakesInterp
           THEN /\ freed' = freed \cup Ptrs(Ready(own, rd)) \cup Ptrs(Ready(interp.head, rd))
                /\ Unlock(t, "run", left, left # <<>>)
           ELSE /\ freed' = freed \cup Ptrs(Ready(own, rd))
                /\ UNCHANGED <<interp, pc, resume>>

EndCollection(t) ==
    /\ pc[t] = "run" /\ Stopped(t) /\ wr_seq < MaxSeq
    /\ ProcessDelayedFrees(t)
    /\ holds' = [holds EXCEPT ![t] = NoBlock]
    /\ UNCHANGED <<freelist, qsbr, shared, seq, min_seq, i, removed, child>>

(***************************************************************************)
(* The slots: thread states come and go.                                   *)
(***************************************************************************)

\* grow_thread_array and initialize_new_array.
Grown ==
    LET old == Len(array)
        size == Max({2 * old, MinArraySize})
    IN [k \in 1..size |-> IF k <= old THEN array[k] ELSE Unused]

\* The slots of S, pushed one after the other.
Pushed(S) == [k \in 1..Cardinality(S) |-> CHOOSE n \in S : Cardinality({m \in S : m >= n}) = k]

NewFreelist(slot) == Pushed({k \in DOMAIN slot : ~slot[k].allocated})

\* _Py_qsbr_reserve pops a slot off the freelist, for a new thread state u.
Allocate(t, u, slot, free) ==
    /\ array' = [slot EXCEPT ![Head(free)].allocated = TRUE]
    /\ freelist' = Tail(free)
    /\ qsbr' = [qsbr EXCEPT ![u] = Head(free)]
    /\ pc' = [pc EXCEPT ![t] = "register", ![u] = "new"]
    /\ child' = [child EXCEPT ![t] = u]

\* If there is none, t stops the world and grows the array.
Reserve(t) ==
    /\ pc[t] = "run"
    /\ \E u \in Threads :
          /\ pc[u] = "none"
          /\ IF freelist # <<>> THEN Allocate(t, u, array, freelist)
             ELSE Stopped(t) /\ Allocate(t, u, Grown, NewFreelist(Grown))
    /\ UNCHANGED <<seqs, memory, queues, resume, seq, min_seq, i, removed>>

\* _Py_qsbr_register: the new thread may then attach.
Register(t) ==
    /\ pc[t] = "register"
    /\ array' = [array EXCEPT ![qsbr[child[t]]].tstate = child[t]]
    /\ pc' = [pc EXCEPT ![t] = "run", ![child[t]] = "detached"]
    /\ child' = [child EXCEPT ![t] = NoThread]
    /\ resume' = [resume EXCEPT ![child[t]] = "run"]
    /\ UNCHANGED <<seqs, freelist, qsbr, memory, queues, seq, min_seq, i, removed>>

\* Faulty: the items are left in the queue of the thread too.
MergeKeeping(t) ==
    /\ UNCHANGED queue
    /\ Unlock(t, "cleared", interp.head \o queue[t], TRUE)

\* The interpreter's queue takes over the items of the thread's.
Merge(t) ==
    /\ queue' = [queue EXCEPT ![t] = <<>>]
    /\ Unlock(t, "cleared", interp.head \o queue[t], TRUE)

\* PyMutex_Lock, which detaches the thread while it waits, and what is done
\* with the mutex.
MergeQueue(t) ==
    IF interp.locked /\ interp.mutex # t
    THEN Store(t, QSBR_OFFLINE) /\ Goto(t, "parked") /\ UNCHANGED <<queues, resume>>
    ELSE Merge(t) /\ UNCHANGED array

\* PyThreadState_Clear ends with _PyMem_AbandonDelayed.
AbandonDelayed(t) ==
    /\ pc[t] = "run"
    /\ holds' = [holds EXCEPT ![t] = NoBlock]
    /\ IF queue[t] = <<>>
       THEN Goto(t, "cleared") /\ UNCHANGED <<array, queues, resume>>
       ELSE MergeQueue(t)
    /\ UNCHANGED <<seqs, freelist, qsbr, shared, freed, seq, min_seq, i, removed, child>>

\* The thread was woken and is attached: it was handed the mutex, or tries
\* again.  (A collector may have emptied its queue.)
AbandonWoken(t) ==
    /\ pc[t] = "abandon"
    /\ MergeQueue(t)
    /\ UNCHANGED <<seqs, freelist, qsbr, memory, seq, min_seq, i, removed, child>>

\* Faulty: the thread goes without a word.
DeleteCurrentAttached(t) ==
    /\ pc[t] = "cleared"
    /\ Goto(t, "deleting")
    /\ UNCHANGED <<seqs, slots, memory, queues, locals>>

\* _PyThreadState_DeleteCurrent.
DeleteCurrent(t) ==
    /\ pc[t] = "cleared"
    /\ Store(t, QSBR_OFFLINE)
    /\ Goto(t, "deleting")
    /\ UNCHANGED <<seqs, freelist, qsbr, memory, queues, locals>>

\* _Py_qsbr_unregister.
Unregister(t) ==
    /\ pc[t] = "deleting"
    /\ array' = [array EXCEPT ![qsbr[t]].tstate = NoThread, ![qsbr[t]].allocated = FALSE]
    /\ freelist' = <<qsbr[t]>> \o freelist
    /\ qsbr' = [qsbr EXCEPT ![t] = 0]
    /\ Goto(t, "none")
    /\ UNCHANGED <<seqs, memory, queues, locals>>

\* The slots of the threads that are gone.
Orphans(t) == {k \in DOMAIN array : k # qsbr[t] /\ array[k].allocated}

\* The child of a fork: _Py_qsbr_after_fork takes back the slots of the other
\* threads ...
TakeBackSlots(t) ==
    /\ pc[t] = "run" /\ Stopped(t)
    /\ freelist' = Pushed(Orphans(t)) \o freelist
    /\ qsbr' = [u \in Threads |-> IF u = t THEN qsbr[t] ELSE 0]
    /\ resume' = [u \in Threads |-> "run"]
    /\ child' = [u \in Threads |-> NoThread]
    /\ UNCHANGED <<seqs, shared, freed, seq, min_seq, i, removed>>

WithoutOrphans(t) ==
    [k \in DOMAIN array |-> IF k \notin Orphans(t) THEN array[k]
        ELSE [array[k] EXCEPT !.tstate = NoThread, !.allocated = FALSE]]

\* ... whose states are then cleared.  A mutex that one of them was handed
\* stays locked.
AfterFork(t) ==
    LET left == Merged(Threads \ {t}) IN
    /\ TakeBackSlots(t)
    /\ interp.locked => left = <<>>
    /\ array' = WithoutOrphans(t)
    /\ interp' = [interp EXCEPT !.head = @ \o left, !.has_work = left # <<>> \/ @,
                               !.mutex = NoThread]
    /\ queue' = [u \in Threads |-> IF u = t THEN queue[t] ELSE <<>>]
    /\ pc' = [u \in Threads |-> IF u = t THEN "run" ELSE "none"]
    /\ UNCHANGED holds

\* Nobody is there to unlock it: the child, which clears a state with items
\* left in its queue, waits for ever.
AfterForkWaits(t) ==
    /\ TakeBackSlots(t)
    /\ interp.locked /\ Merged(Threads \ {t}) # <<>>
    /\ array' = [WithoutOrphans(t) EXCEPT ![qsbr[t]].seq = QSBR_OFFLINE]
    /\ interp' = [interp EXCEPT !.mutex = NoThread]
    /\ pc' = [u \in Threads |-> IF u = t THEN "parked" ELSE "none"]
    /\ holds' = [holds EXCEPT ![t] = NoBlock]
    /\ UNCHANGED queue

Next ==
    \E t \in Threads :
        \/ Attach(t) \/ QuiescentState(t) \/ Observe(t) \/ Detach(t)
        \/ Read(t) \/ Replace(t) \/ FreeDelayed(t) \/ FreeNow(t)
        \/ Process(t) \/ Scan(t) \/ Scanned(t) \/ Update(t) \/ Polled(t)
        \/ EndCollection(t)
        \/ Reserve(t) \/ Register(t) \/ DeleteCurrent(t) \/ Unregister(t)
        \/ AbandonDelayed(t) \/ AbandonWoken(t)
        \/ AfterFork(t) \/ AfterForkWaits(t)

Spec == Init /\ [][Next]_vars

(***************************************************************************)
(* Properties.                                                             *)
(***************************************************************************)

TypeOK ==
    /\ wr_seq \in Nat /\ rd_seq \in Nat
    /\ array \in Seq(Slot) /\ freelist \in Seq(DOMAIN array)
    /\ qsbr \in [Threads -> 0..Len(array)]
    /\ shared \in Blocks /\ freed \subseteq Blocks
    /\ holds \in [Threads -> Blocks \cup {NoBlock}]
    /\ queue \in [Threads -> Seq([ptr : Blocks, goal : Nat])]
    /\ interp \in [head : Seq([ptr : Blocks, goal : Nat]), has_work : BOOLEAN,
                   locked : BOOLEAN, mutex : Threads \cup {NoThread}]
    /\ removed \in [Threads -> Blocks \cup {NoBlock}]
    /\ child \in [Threads -> Threads \cup {NoThread}]

\* "it safe to reclaim any memory tagged with the goal" once the goal is
\* reached: no thread that is in the middle of reading a block finds that it
\* is free, however the scan of the slots and the attaching, detaching and
\* quiescent threads interleave.
NoUseAfterFree ==
    \A t \in Threads : holds[t] # NoBlock => holds[t] \notin freed

Pending == FlattenSeq(<<interp.head, Merged(Threads)>>)

\* A block that was removed is freed once: it is in one queue, once, and no
\* longer free or shared, whoever takes over the queue of whom.
FreedOnce ==
    /\ IsInjective([k \in DOMAIN Pending |-> Pending[k].ptr])
    /\ Ptrs(Pending) \cap (freed \cup {shared}) = {}

\* "already attached", "thread state must be detached": each thread state has
\* a slot of its own that points back to it, and an unused slot, which a scan
\* reads all the same, is offline and on the freelist.
SlotsOwned ==
    /\ TypeOK
    /\ \A t \in Threads : qsbr[t] # 0 =>
          /\ array[qsbr[t]].allocated
          /\ array[qsbr[t]].tstate = IF pc[t] = "new" THEN NoThread ELSE t
          /\ pc[t] \in {"new", "detached", "parked", "attach", "deleting"} =>
                array[qsbr[t]].seq = QSBR_OFFLINE
    /\ IsInjective(freelist)
    /\ ToSet(freelist) = DOMAIN array \ {qsbr[t] : t \in Threads}
    /\ \A k \in ToSet(freelist) : ~array[k].allocated /\ array[k].seq = QSBR_OFFLINE

\* t was handed the mutex while it waited, and is not attached yet.
HandedOff(t) == interp.mutex = t /\ pc[t] = "detached" /\ resume[t] = "abandon"

\* "process all of the pending delayed free requests at once": after the
\* collector's pause nothing that was removed before it is left in a thread's
\* queue, and the interpreter's queue is empty but in one case: its mutex had
\* been handed to a thread that the pause keeps from running, or to one that a
\* fork lost.  What is left then is announced by has_work.
OnlyHandedOffIsLeft ==
    [][\A t \in Threads : EndCollection(t) =>
          /\ Merged(Threads)' = <<>>
          /\ interp'.head # <<>> =>
                /\ interp'.has_work
                /\ interp.locked
                /\ interp.mutex = NoThread \/ \E u \in Threads : HandedOff(u)]_vars

=============================================================================

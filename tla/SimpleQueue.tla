---------------------------- MODULE SimpleQueue ----------------------------
(***************************************************************************)
(* _queue.SimpleQueue (Modules/_queuemodule.c): an unbounded FIFO queue    *)
(* over the parking lot.  put hands its item to the first thread asleep on *)
(* the queue's has_threads_waiting, or stores it in a ring buffer.         *)
(*                                                                         *)
(* The GIL, or the queue's critical section in the free-threaded build,    *)
(* makes a call one step up to the semaphore wait: Park gives it up once   *)
(* the thread is queued.  The wakeup that ends a put is a step of its own. *)
(*                                                                         *)
(* An item is the number of the put that brought it to its queue.          *)
(***************************************************************************)
EXTENDS ParkingLot

CONSTANTS InitialCapacity,   \* INITIAL_RING_BUF_CAPACITY
          MaxPuts            \* bound: the puts on each queue

ASSUME SimpleQueueAssumption ==
         /\ InitialCapacity \in Nat \ {0}
         /\ MaxPuts \in [Addrs -> Nat]

VARIABLES has_threads_waiting,   \* of each queue
          buf,       \* its ring buffer
          puts,      \* how many items were ever put on it
          taken,     \* how many of them left the queue for a thread
          returned,  \* the items its gets have returned
          pc,        \* where each thread is
          blocks,    \* how long its get waits: not, until a deadline, for ever
          item       \* the slot of its get that a put writes to

queueVars == <<has_threads_waiting, buf, puts, taken, returned>>
vars == <<lotVars, addr, queueVars, pc, blocks, item>>

NoItem == 0

(***************************************************************************)
(* RingBuf.                                                                *)
(***************************************************************************)

NewRingBuf == [items |-> [i \in 0..(InitialCapacity-1) |-> NoItem],
               put_idx |-> 0, get_idx |-> 0, num_items |-> 0]

Cap(b) == Cardinality(DOMAIN b.items)

At(b, idx) == b.items[(b.get_idx + idx) % Cap(b)]

IsEmpty(b) == b.num_items = 0

\* Faulty: copies the array as it lies, though its content may wrap around.
ResizedInPlace(b, capacity) ==
    [items |-> [i \in 0..(capacity-1) |-> IF i < Cap(b) THEN b.items[i] ELSE NoItem],
     get_idx |-> 0, put_idx |-> b.num_items, num_items |-> b.num_items]

\* resize_ringbuf: first what lies from get_idx to the end of the array, then
\* what wrapped around to its start.
Resized(b, capacity) ==
    LET tail_size == IF b.num_items < Cap(b) - b.get_idx THEN b.num_items
                                                         ELSE Cap(b) - b.get_idx
    IN [items |-> [i \in 0..(capacity-1) |->
                     IF i < tail_size THEN b.items[b.get_idx + i]
                     ELSE IF i < b.num_items THEN b.items[i - tail_size]
                     ELSE NoItem],
        get_idx |-> 0, put_idx |-> b.num_items, num_items |-> b.num_items]

IsFull(b) == b.num_items = Cap(b)

\* RingBuf_Put into a buffer that is not full.
Stored(b, x) == [b EXCEPT !.items[b.put_idx] = x,
                          !.put_idx = (@ + 1) % Cap(b),
                          !.num_items = @ + 1]

\* The buffers RingBuf_Get may take its item from: one less than a quarter
\* full shrinks by half, unless that fails for want of memory.
Shrunk(b) ==
    LET half == IF Cap(b) \div 2 < InitialCapacity THEN InitialCapacity ELSE Cap(b) \div 2
    IN IF b.num_items < Cap(b) \div 4 /\ half # Cap(b) THEN {b, Resized(b, half)} ELSE {b}

\* RingBuf_Get: what is left of the buffer.
Removed(b) == [b EXCEPT !.items[b.get_idx] = NoItem,
                        !.get_idx = (@ + 1) % Cap(b),
                        !.num_items = @ - 1]

(***************************************************************************)
(* The queue.                                                              *)
(***************************************************************************)

Init ==
    /\ LotInit
    /\ has_threads_waiting = [q \in Addrs |-> FALSE]
    /\ buf = [q \in Addrs |-> NewRingBuf]
    /\ puts = [q \in Addrs |-> 0]
    /\ taken = [q \in Addrs |-> 0]
    /\ returned = [q \in Addrs |-> {}]
    /\ pc = [t \in Threads |-> "idle"]
    /\ blocks = [t \in Threads |-> "no"]
    /\ item = [t \in Threads |-> NoItem]

Goto(t, label) == pc' = [pc EXCEPT ![t] = label]

\* The locals of a get die with it.
Return(t) ==
    /\ Goto(t, "idle")
    /\ addr' = [addr EXCEPT ![t] = NoAddr]
    /\ blocks' = [blocks EXCEPT ![t] = "no"]
    /\ item' = [item EXCEPT ![t] = NoItem]

Gives(q, x) == returned' = [returned EXCEPT ![q] = @ \cup {x}]

Get(t, q, how) ==
    /\ pc[t] = "idle"
    /\ addr' = [addr EXCEPT ![t] = q]
    /\ blocks' = [blocks EXCEPT ![t] = how]
    /\ Goto(t, "loop")
    /\ UNCHANGED <<lotVars, queueVars, item>>

\* There is an item in the buffer.
GetItem(t) ==
    LET q == addr[t] IN
    /\ pc[t] = "loop"
    /\ ~IsEmpty(buf[q])
    /\ \E b \in Shrunk(buf[q]) :
          /\ Gives(q, At(b, 0))
          /\ buf' = [buf EXCEPT ![q] = Removed(b)]
    /\ taken' = [taken EXCEPT ![q] = @ + 1]
    /\ Return(t)
    /\ UNCHANGED <<lotVars, has_threads_waiting, puts>>

\* There is none, and the get may not wait, or not any longer: Empty.
GetEmpty(t) ==
    /\ pc[t] = "loop"
    /\ IsEmpty(buf[addr[t]])
    /\ blocks[t] # "forever"
    /\ Return(t)
    /\ UNCHANGED <<lotVars, queueVars>>

\* Faulty: leaves it to the next put to find that somebody waits.
GetParkSilently(t) ==
    /\ pc[t] = "loop"
    /\ IsEmpty(buf[addr[t]])
    /\ blocks[t] # "no"
    /\ Enqueue(t) /\ Goto(t, "parked")
    /\ UNCHANGED <<addr, queueVars, blocks, item>>

\* The flag is set and the thread is queued.
GetPark(t) ==
    /\ pc[t] = "loop"
    /\ IsEmpty(buf[addr[t]])
    /\ blocks[t] # "no"
    /\ has_threads_waiting' = [has_threads_waiting EXCEPT ![addr[t]] = TRUE]
    /\ Enqueue(t) /\ Goto(t, "parked")
    /\ UNCHANGED <<addr, buf, puts, taken, returned, blocks, item>>

\* The semaphore wait ends without a wakeup.
WaitFails(t, why) ==
    /\ pc[t] = "parked"
    /\ why = "TIMEOUT" => blocks[t] = "deadline"
    /\ ParkFails(t, why)
    /\ UNCHANGED <<addr, queueVars, pc, blocks, item>>

\* Park returns: Py_PARK_OK with the item, Py_PARK_TIMEOUT and the get raises
\* Empty, or Py_PARK_INTR and it looks at the signals.
GetParked(t) ==
    /\ pc[t] = "parked"
    /\ \/ ParkOK(t) /\ Gives(addr[t], item[t]) /\ Return(t)
       \/ ParkCancelled(t, "TIMEOUT") /\ Return(t) /\ UNCHANGED returned
       \/ /\ ParkCancelled(t, "INTR") /\ Goto(t, "signals")
          /\ UNCHANGED <<addr, blocks, item, returned>>
       \/ ParkRechecked(t) /\ UNCHANGED <<addr, blocks, item, pc, returned>>
    /\ UNCHANGED <<has_threads_waiting, buf, puts, taken>>

\* Py_MakePendingCalls: a handler that raises ends the get.
GetSignals(t) ==
    /\ pc[t] = "signals"
    /\ \/ Return(t)
       \/ Goto(t, "loop") /\ UNCHANGED <<addr, blocks, item>>
    /\ UNCHANGED <<lotVars, queueVars>>

\* put: the flag is set, and somebody waits on the queue: maybe_handoff_item
\* gives the first one the item.
PutHandOff(t, q) ==
    /\ pc[t] = "idle" /\ puts[q] < MaxPuts[q]
    /\ has_threads_waiting[q]
    /\ \E i \in DOMAIN waiters[BucketOf[q]] :
          /\ IsFirstPlace(q, i)
          /\ Dequeue(t, q, i)
          /\ item' = [item EXCEPT ![waiters[BucketOf[q]][i]] = puts[q] + 1]
    /\ has_threads_waiting' = [has_threads_waiting EXCEPT ![q] = HasMoreWaiters(q)]
    /\ puts' = [puts EXCEPT ![q] = @ + 1]
    /\ taken' = [taken EXCEPT ![q] = @ + 1]
    /\ Goto(t, "wake")
    /\ UNCHANGED <<addr, buf, returned, blocks>>

\* put: nobody waits, whatever the flag said, which is FALSE from now on.  The
\* item is stored, in a buffer twice as large if it has to be, or lost to a
\* MemoryError.
PutBuffer(t, q) ==
    /\ pc[t] = "idle" /\ puts[q] < MaxPuts[q]
    /\ has_threads_waiting[q] => Places(q) = {}
    /\ has_threads_waiting' = [has_threads_waiting EXCEPT ![q] = FALSE]
    /\ \/ /\ buf' = [buf EXCEPT ![q] =
                       Stored(IF IsFull(@) THEN Resized(@, Cap(@) * 2) ELSE @, puts[q] + 1)]
          /\ puts' = [puts EXCEPT ![q] = @ + 1]
       \/ IsFull(buf[q]) /\ UNCHANGED <<buf, puts>>
    /\ UNCHANGED <<lotVars, addr, taken, returned, pc, blocks, item>>

\* The end of the put that handed its item off.
PutWake(t) ==
    /\ pc[t] = "wake"
    /\ Wakeup(t)
    /\ Goto(t, "idle")
    /\ UNCHANGED <<addr, queueVars, blocks, item>>

Step(t) ==
    \/ GetItem(t) \/ GetEmpty(t) \/ GetPark(t) \/ GetParked(t) \/ GetSignals(t)
    \/ PutWake(t)

Next ==
    \E t \in Threads :
        \/ \E q \in Addrs : \/ \E how \in {"no", "deadline", "forever"} : Get(t, q, how)
                            \/ PutHandOff(t, q) \/ PutBuffer(t, q)
        \/ \E why \in Failures : WaitFails(t, why)
        \/ Step(t)

Spec == Init /\ [][Next]_vars

(***************************************************************************)
(* Properties.                                                             *)
(***************************************************************************)

RingBufs(b) ==
    /\ b.put_idx \in DOMAIN b.items /\ b.get_idx \in DOMAIN b.items
    /\ b.num_items \in 0..Cap(b)

TypeOK ==
    /\ LotTypeOK
    /\ has_threads_waiting \in [Addrs -> BOOLEAN]
    /\ \A q \in Addrs : RingBufs(buf[q])
    /\ puts \in [Addrs -> Nat]
    /\ taken \in [Addrs -> Nat]
    /\ returned \in [Addrs -> SUBSET (Nat \ {NoItem})]
    /\ pc \in [Threads -> {"idle", "loop", "parked", "signals", "wake"}]
    /\ blocks \in [Threads -> {"no", "deadline", "forever"}]
    /\ item \in [Threads -> Nat]

\* "Simple, unbounded, reentrant FIFO queue": whether items go through the
\* buffer, growing and shrinking around its wrapped content, or past it from
\* hand to hand, what is left in the buffer is what was put last, in order.
FirstInFirstOut ==
    \A q \in Addrs :
        /\ buf[q].num_items = puts[q] - taken[q]
        /\ \A i \in 0..(buf[q].num_items - 1) : At(buf[q], i) = taken[q] + i + 1

Holding(q) == {t \in Threads : addr[t] = q /\ item[t] # NoItem}

\* Every item that left the queue went to one get, which has returned it or
\* will: to none whose wait timed out or was interrupted, however the
\* failure raced the put, and no wakeup comes without an item (the assertion
\* after Py_PARK_OK).
EachItemOnce ==
    /\ \A t \in Threads : is_unparking[t] <=> item[t] # NoItem
    /\ \A q \in Addrs :
          /\ {item[t] : t \in Holding(q)} \cup returned[q] = 1..taken[q]
          /\ {item[t] : t \in Holding(q)} \cap returned[q] = {}
          /\ \A t, u \in Holding(q) : item[t] = item[u] => t = u

\* Items are delivered once each, in order.
ItemsDelivered == TypeOK /\ FirstInFirstOut /\ EachItemOnce

\* No get sleeps through a put: the flag that put decides by is set while
\* anybody is queued, though it is cleared by a counter that other queues
\* share, and the buffer has nothing the sleeper could have had.
NoIdleGetter ==
    \A q \in Addrs :
        Places(q) # {} => has_threads_waiting[q] /\ IsEmpty(buf[q])

=============================================================================

----------------------------- MODULE ParkingLot -----------------------------
(***************************************************************************)
(* The parking lot (Python/parking_lot.c): threads sleep on the address of *)
(* a word.  A hash table of buckets holds the queues of sleepers; addresses*)
(* that hash alike share a bucket, its queue and its num_waiters counter.  *)
(*                                                                         *)
(* This module has the state of the parking lot and its steps; a lock that *)
(* is built on it EXTENDS the module and conjoins each step with what the  *)
(* caller does in it.  Everything the code does while it holds a bucket's  *)
(* raw mutex is one step: the queue, the counter and is_unparking are only *)
(* touched under that mutex (RawMutex shows that it excludes), and each    *)
(* such section touches the caller's word at most once.  The wakeups that  *)
(* follow the section are steps of their own, and so are a sleeper's three *)
(* ways out: woken, timed out or interrupted, and the race of the two.     *)
(*                                                                         *)
(* A wait_entry lives in the frame of the parked thread, so the thread     *)
(* stands for its entry.                                                   *)
(***************************************************************************)
EXTENDS Naturals, SequencesExt

CONSTANTS Threads,    \* the threads
          Addrs,      \* the addresses they park on
          NoAddr,     \* the address of a thread that works on none
          Buckets,    \* the buckets of the hash table
          BucketOf    \* the bucket an address hashes to

ASSUME ParkingLotAssumption ==
         /\ BucketOf \in [Addrs -> Buckets]
         /\ NoAddr \notin Addrs

VARIABLES addr,          \* the address a thread's call works on; wait.addr
          waiters,       \* each bucket's queue of wait entries
          num_waiters,   \* each bucket's counter of its queue
          is_unparking,  \* wait.is_unparking
          sema,          \* the count of wait.sema
          parked,        \* where a thread is inside _PyParkingLot_Park
          to_wake        \* the dequeued entries a thread has yet to wake

lotVars == <<waiters, num_waiters, is_unparking, sema, parked, to_wake>>

\* Why a semaphore wait fails.
Failures == {"TIMEOUT", "INTR"}

\* Asleep in the first wait (line 323); back from it with a failure and about
\* to look at is_unparking (329); waiting for the wakeup on its way (335).
ParkStates == {"no", "asleep", "draining"} \cup Failures

LotInit ==
    /\ waiters = [b \in Buckets |-> <<>>]
    /\ num_waiters = [b \in Buckets |-> 0]
    /\ addr = [t \in Threads |-> NoAddr]
    /\ is_unparking = [t \in Threads |-> FALSE]
    /\ sema = [t \in Threads |-> 0]
    /\ parked = [t \in Threads |-> "no"]
    /\ to_wake = [t \in Threads |-> <<>>]

(***************************************************************************)
(* _PyParkingLot_Park.                                                     *)
(***************************************************************************)

\* The word had the expected value: the entry joins its bucket's queue.
Enqueue(t) ==
    LET b == BucketOf[addr[t]] IN
    /\ parked[t] = "no"
    /\ waiters' = [waiters EXCEPT ![b] = Append(@, t)]
    /\ num_waiters' = [num_waiters EXCEPT ![b] = @ + 1]
    /\ parked' = [parked EXCEPT ![t] = "asleep"]
    /\ UNCHANGED <<is_unparking, sema, to_wake>>

\* A semaphore wait, the first or the one that drains, consumes the wakeup:
\* Park returns Py_PARK_OK, and the entry dies with the call.
ParkOK(t) ==
    /\ parked[t] \in {"asleep", "draining"}
    /\ sema[t] > 0
    /\ sema' = [sema EXCEPT ![t] = @ - 1]
    /\ is_unparking' = [is_unparking EXCEPT ![t] = FALSE]
    /\ parked' = [parked EXCEPT ![t] = "no"]
    /\ UNCHANGED <<waiters, num_waiters, to_wake>>

\* The first wait fails.  A post may still come in before the recheck.
ParkFails(t, why) ==
    /\ parked[t] = "asleep"
    /\ parked' = [parked EXCEPT ![t] = why]
    /\ UNCHANGED <<waiters, num_waiters, is_unparking, sema, to_wake>>

\* Faulty: does not wait for the wakeup.
ParkRecheckedHasty(t) ==
    /\ parked[t] \in Failures
    /\ is_unparking[t]
    /\ parked' = [parked EXCEPT ![t] = "no"]
    /\ UNCHANGED <<waiters, num_waiters, is_unparking, sema, to_wake>>

\* Somebody dequeued us in the meantime: the wakeup must be waited for.
ParkRechecked(t) ==
    /\ parked[t] \in Failures
    /\ is_unparking[t]
    /\ parked' = [parked EXCEPT ![t] = "draining"]
    /\ UNCHANGED <<waiters, num_waiters, is_unparking, sema, to_wake>>

\* Nobody did: the entry leaves the queue and Park returns why.
ParkCancelled(t, why) ==
    LET b == BucketOf[addr[t]] IN
    /\ parked[t] = why
    /\ ~is_unparking[t]
    /\ \E i \in DOMAIN waiters[b] :
          waiters[b][i] = t /\ waiters' = [waiters EXCEPT ![b] = RemoveAt(@, i)]
    /\ num_waiters' = [num_waiters EXCEPT ![b] = @ - 1]
    /\ parked' = [parked EXCEPT ![t] = "no"]
    /\ UNCHANGED <<is_unparking, sema, to_wake>>

(***************************************************************************)
(* _PyParkingLot_Unpark and _PyParkingLot_UnparkAll.                       *)
(***************************************************************************)

\* The places in a's bucket of the entries that wait on a.
Places(a) == {i \in DOMAIN waiters[BucketOf[a]] : addr[waiters[BucketOf[a]][i]] = a}

\* dequeue: the entry at place i leaves the queue, and u has to wake it.
Dequeue(u, a, i) ==
    LET b == BucketOf[a]
        w == waiters[b][i]
    IN  /\ waiters' = [waiters EXCEPT ![b] = RemoveAt(@, i)]
        /\ num_waiters' = [num_waiters EXCEPT ![b] = @ - 1]
        /\ is_unparking' = [is_unparking EXCEPT ![w] = TRUE]
        /\ to_wake' = [to_wake EXCEPT ![u] = <<w>>]
        /\ UNCHANGED <<sema, parked>>

IsFirstPlace(a, i) == i \in Places(a) /\ \A j \in Places(a) : i <= j

\* has_more_waiters: the counter of the bucket, whatever their addresses,
\* once one waiter is dequeued.
HasMoreWaiters(a) == num_waiters[BucketOf[a]] - 1 > 0

\* The elements of s at the places I, in order.
Entries(s, I) ==
    [k \in 1..Cardinality(I) |->
        s[CHOOSE i \in I : Cardinality({j \in I : j < i}) = k - 1]]

\* dequeue_all: every entry that waits on a leaves the queue, in order.
DequeueAll(u, a) ==
    LET b == BucketOf[a]
        all == Entries(waiters[b], Places(a))
    IN  /\ waiters' = [waiters EXCEPT ![b] = Entries(@, DOMAIN @ \ Places(a))]
        /\ num_waiters' = [num_waiters EXCEPT ![b] = @ - Len(all)]
        /\ is_unparking' = [t \in Threads |-> t \in ToSet(all) \/ is_unparking[t]]
        /\ to_wake' = [to_wake EXCEPT ![u] = all]
        /\ UNCHANGED <<sema, parked>>

\* _PySemaphore_Wakeup of the next dequeued entry, outside the bucket's lock.
Wakeup(u) ==
    /\ to_wake[u] # <<>>
    /\ sema' = [sema EXCEPT ![Head(to_wake[u])] = @ + 1]
    /\ to_wake' = [to_wake EXCEPT ![u] = Tail(@)]
    /\ UNCHANGED <<waiters, num_waiters, is_unparking, parked>>

(***************************************************************************)
(* Properties of the parking lot, whatever is built on it.                 *)
(***************************************************************************)

LotTypeOK ==
    /\ waiters \in [Buckets -> Seq(Threads)]
    /\ num_waiters \in [Buckets -> Nat]
    /\ addr \in [Threads -> Addrs \cup {NoAddr}]
    /\ is_unparking \in [Threads -> BOOLEAN]
    /\ sema \in [Threads -> Nat]
    /\ parked \in [Threads -> ParkStates]
    /\ to_wake \in [Threads -> Seq(Threads)]

Queued(b) == ToSet(waiters[b])

ToBeWoken(u) == ToSet(to_wake[u])

\* num_waiters counts its queue, and an entry is in one queue, once: that of
\* the bucket of the address it waits on.
QueuesConsistent ==
    \A b \in Buckets :
        /\ num_waiters[b] = Len(waiters[b])
        /\ IsInjective(waiters[b])
        /\ \A t \in Queued(b) : addr[t] \in Addrs /\ BucketOf[addr[t]] = b

\* The entries that other threads can reach, through a bucket's queue or a
\* list of entries to wake, are those of calls of Park that have not
\* returned: no queue and no waker is left with the entry of a dead frame,
\* whatever the race of a timeout and an unpark.
EntriesAreLive ==
    /\ \A b \in Buckets : \A t \in Queued(b) : parked[t] # "no" /\ ~is_unparking[t]
    /\ \A u \in Threads : \A t \in ToBeWoken(u) : parked[t] # "no" /\ is_unparking[t]

\* A parked thread can be woken, and a thread is woken only once: it is
\* queued, or on the list of one waker, or posted.
ParkedCanBeWoken ==
    /\ \A t \in Threads : parked[t] # "no" =>
          \/ ~is_unparking[t] /\ sema[t] = 0 /\ \E b \in Buckets : t \in Queued(b)
          \/ is_unparking[t] /\ sema[t] = 0 /\ \E u \in Threads : t \in ToBeWoken(u)
          \/ is_unparking[t] /\ sema[t] = 1
    /\ \A u \in Threads : /\ IsInjective(to_wake[u])
                          /\ \A t \in ToBeWoken(u) :
                               sema[t] = 0 /\ \A w \in Threads \ {u} : t \notin ToBeWoken(w)

\* Between two calls of Park there is nothing left of the entry.
NothingLeft == \A t \in Threads : parked[t] = "no" => ~is_unparking[t] /\ sema[t] = 0

\* The inductive invariant of the parking lot.
LotInv ==
    LotTypeOK /\ QueuesConsistent /\ EntriesAreLive /\ ParkedCanBeWoken /\ NothingLeft

=============================================================================

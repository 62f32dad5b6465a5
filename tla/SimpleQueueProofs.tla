--------------------------- MODULE SimpleQueueProofs ---------------------------
(***************************************************************************)
(* SimpleQueue, for any number of threads, queues and buckets and any      *)
(* initial capacity: items are delivered once each and in order, through   *)
(* the ring buffer or past it, and no get sleeps while there is an item.   *)
(***************************************************************************)
EXTENDS SimpleQueue, ParkingLotProofs, FiniteSetTheorems

(***************************************************************************)
(* The ring buffer.                                                        *)
(***************************************************************************)

\* An index wraps around once at most.
LEMMA WrapsOnce ==
    ASSUME NEW cap \in Nat \ {0}, NEW x \in 0..(2 * cap - 1)
    PROVE  x % cap = IF x < cap THEN x ELSE x - cap
<1>1. CASE x < cap
  BY <1>1
<1>2. CASE x >= cap
  BY <1>2
<1>3. QED
  BY <1>1, <1>2

\* The place of the i-th item after index g in an array of cap.
Place(cap, g, i) == IF g + i < cap THEN g + i ELSE g + i - cap

\* The place of an element, with the end wrapped around.
LEMMA PlaceFacts ==
    ASSUME NEW cap \in Nat \ {0}, NEW g \in 0..(cap-1), NEW i \in 0..cap
    PROVE  Place(cap, g, i) \in 0..(cap-1) /\ (g + i) % cap = Place(cap, g, i)
<1>1. g + i \in 0..(2 * cap - 1)
  OBVIOUS
<1>2. (g + i) % cap = Place(cap, g, i)
  <2>1. \A x \in 0..(2 * cap - 1) : x % cap = IF x < cap THEN x ELSE x - cap
    BY WrapsOnce
  <2>2. QED
    BY <1>1, <2>1 DEF Place
<1>3. QED
  BY <1>2 DEF Place

RingFields == {"items", "put_idx", "get_idx", "num_items"}

\* b is a ring buffer of capacity cap.
IsRing(b, cap) ==
    /\ cap \in Nat \ {0}
    /\ DOMAIN b = RingFields
    /\ b.items \in [0..(cap-1) -> Nat]
    /\ b.get_idx \in 0..(cap-1)
    /\ b.num_items \in 0..cap
    /\ b.put_idx = Place(cap, b.get_idx, b.num_items)

\* The capacity of a ring.
LEMMA RingCap ==
    ASSUME NEW b, NEW cap, IsRing(b, cap)
    PROVE  Cap(b) = cap
<1>1. DOMAIN b.items = 0..(cap - 1) /\ cap \in Nat \ {0}
  BY DEF IsRing
<1>2. Cardinality(0..(cap - 1)) = cap
  BY <1>1, FS_Interval
<1>3. QED
  BY <1>1, <1>2 DEF Cap

\* The places of a ring.
LEMMA RingPlaces ==
    ASSUME NEW b, NEW cap, IsRing(b, cap)
    PROVE  \A i \in 0..(cap-1) : /\ Place(cap, b.get_idx, i) \in 0..(cap-1)
                                 /\ At(b, i) = b.items[Place(cap, b.get_idx, i)]
<1>1. cap \in Nat \ {0} /\ b.get_idx \in 0..(cap-1)
  BY DEF IsRing
<1>2. TAKE i \in 0..(cap-1)
<1>3. i \in 0..cap
  BY <1>1
<1>4. /\ Place(cap, b.get_idx, i) \in 0..(cap-1)
      /\ (b.get_idx + i) % cap = Place(cap, b.get_idx, i)
  BY <1>1, <1>3, PlaceFacts
<1>5. QED
  BY <1>4, RingCap DEF At

\* The items of b are the n that come after from, in order.
Has(b, from, n) ==
    /\ \E cap \in Nat \ {0} : IsRing(b, cap)
    /\ b.num_items = n
    /\ \A i \in 0..(n-1) : At(b, i) = from + i + 1

\* A new ring has nothing in it.
LEMMA NewRing == Has(NewRingBuf, 0, 0)
<1> DEFINE b == NewRingBuf
<1>1. /\ b.items = [i \in 0..(InitialCapacity-1) |-> 0] /\ b.put_idx = 0
      /\ b.get_idx = 0 /\ b.num_items = 0
      /\ DOMAIN b = RingFields
  BY DEF NewRingBuf, NoItem, RingFields
<1> HIDE DEF b
<1>2. InitialCapacity \in Nat \ {0} /\ 0 \in 0..(InitialCapacity-1)
  BY SimpleQueueAssumption
<1>3. Place(InitialCapacity, 0, 0) = 0
  BY <1>2 DEF Place
<1>4. IsRing(b, InitialCapacity)
  BY <1>1, <1>2, <1>3 DEF IsRing
<1>5. Has(b, 0, 0)
  BY <1>1, <1>2, <1>4 DEF Has
<1>6. QED
  BY <1>5 DEF b

\* RingBuf_Put, into a buffer that is not full.
LEMMA StoredFacts ==
    ASSUME NEW from \in Nat, NEW n \in Nat, NEW b, Has(b, from, n), ~IsFull(b)
    PROVE  Has(Stored(b, from + n + 1), from, n + 1)
<1> DEFINE c == Stored(b, from + n + 1)
           g == b.get_idx
           p == b.put_idx
<1>1. PICK cap \in Nat \ {0} : IsRing(b, cap)
  BY DEF Has
<1>2. Cap(b) = cap /\ b.num_items = n /\ n \in 0..(cap-1)
  <2>1. b.num_items \in 0..cap /\ b.num_items = n
    BY <1>1 DEF IsRing, Has
  <2>2. QED
    BY <1>1, <2>1, RingCap DEF IsFull
<1>3. g \in 0..(cap-1) /\ b.items \in [0..(cap-1) -> Nat] /\ p = Place(cap, g, n)
  BY <1>1, <1>2 DEF IsRing
<1>4. /\ c.items = [b.items EXCEPT ![p] = from + n + 1]
      /\ c.put_idx = (p + 1) % cap
      /\ c.get_idx = g /\ c.num_items = n + 1
      /\ DOMAIN c = RingFields
  BY <1>1, <1>2 DEF Stored, IsRing, RingFields
<1> HIDE DEF c, g, p
<1>5. p \in 0..(cap-1)
  BY <1>2, <1>3, PlaceFacts
<1>6. c.put_idx = Place(cap, g, n + 1)
  <2>1. 1 \in 0..cap
    OBVIOUS
  <2>2. c.put_idx = Place(cap, p, 1)
    BY <1>4, <1>5, <2>1, PlaceFacts
  <2>3. QED
    BY <1>2, <1>3, <1>5, <2>2 DEF Place
<1>7. IsRing(c, cap)
  <2>1. c.items \in [0..(cap-1) -> Nat]
    BY <1>3, <1>4, <1>5, from + n + 1 \in Nat
  <2>2. c.num_items \in 0..cap
    BY <1>2, <1>4
  <2>3. QED
    BY <1>3, <1>4, <1>6, <2>1, <2>2 DEF IsRing
<1>8. ASSUME NEW i \in 0..n
      PROVE  At(c, i) = from + i + 1
  <2>1. i \in 0..(cap-1) /\ c.get_idx = b.get_idx /\ c.get_idx = g
    BY <1>2, <1>4 DEF g
  <2>2. /\ At(c, i) = c.items[Place(cap, g, i)] /\ Place(cap, g, i) \in 0..(cap-1)
        /\ At(b, i) = b.items[Place(cap, g, i)]
    BY <1>1, <1>7, <2>1, RingPlaces
  <2>3. CASE i = n
    BY <1>3, <1>4, <1>5, <2>2, <2>3
  <2>4. CASE i # n
    <3>1. Place(cap, g, i) # p
      BY <1>2, <1>3, <2>1, <2>4 DEF Place
    <3>2. At(b, i) = from + i + 1
      BY <2>4 DEF Has
    <3>3. QED
      BY <1>3, <1>4, <2>2, <3>1, <3>2
  <2>5. QED
    BY <2>3, <2>4
<1>9. QED
  BY <1>4, <1>7, <1>8 DEF Has, c

\* resize_ringbuf, to a capacity with room for more than there is.
LEMMA ResizedFacts ==
    ASSUME NEW from \in Nat, NEW n \in Nat, NEW b, Has(b, from, n),
           NEW capacity \in Nat, n < capacity
    PROVE  /\ Has(Resized(b, capacity), from, n)
           /\ Cap(Resized(b, capacity)) = capacity
<1> DEFINE c == Resized(b, capacity)
           g == b.get_idx
           tail_size == IF b.num_items < Cap(b) - b.get_idx THEN b.num_items
                                                            ELSE Cap(b) - b.get_idx
<1>1. PICK cap \in Nat \ {0} : IsRing(b, cap)
  BY DEF Has
<1>2. Cap(b) = cap /\ b.num_items = n /\ n \in 0..cap
  BY <1>1, RingCap DEF Has, IsRing
<1>3. g \in 0..(cap-1) /\ b.items \in [0..(cap-1) -> Nat]
  BY <1>1 DEF IsRing
<1>4. tail_size = IF n < cap - g THEN n ELSE cap - g
  BY <1>2
<1>5. /\ c.items = [i \in 0..(capacity-1) |->
                     IF i < tail_size THEN b.items[g + i]
                     ELSE IF i < n THEN b.items[i - tail_size]
                     ELSE NoItem]
      /\ c.get_idx = 0 /\ c.put_idx = n /\ c.num_items = n
      /\ DOMAIN c = RingFields
  BY <1>2 DEF Resized, RingFields
<1>6. ASSUME NEW i \in 0..(cap-1)
      PROVE  At(b, i) = b.items[Place(cap, g, i)] /\ Place(cap, g, i) \in 0..(cap-1)
  BY <1>1, <1>6, RingPlaces
<1> HIDE DEF c, tail_size, g
<1>7. ASSUME NEW i \in 0..(n-1)
      PROVE  /\ i \in 0..(capacity-1) /\ i \in 0..(cap-1)
             /\ c.items[i] = b.items[Place(cap, g, i)]
  <2>1. i \in 0..(capacity-1) /\ i \in 0..(cap-1)
    BY <1>2
  <2>2. c.items[i] = IF i < tail_size THEN b.items[g + i] ELSE b.items[i - tail_size]
    BY <1>5, <2>1
  <2>3. CASE i < tail_size
    <3>1. Place(cap, g, i) = g + i
      BY <1>3, <1>4, <2>1, <2>3 DEF Place
    <3>2. QED
      BY <2>1, <2>2, <2>3, <3>1
  <2>4. CASE ~(i < tail_size)
    <3>1. Place(cap, g, i) = i - tail_size
      BY <1>3, <1>4, <2>1, <2>4 DEF Place
    <3>2. QED
      BY <2>1, <2>2, <2>4, <3>1
  <2>5. QED
    BY <2>3, <2>4
<1>8. ASSUME NEW i \in 0..(capacity-1)
      PROVE  c.items[i] \in Nat
  <2>1. CASE i < n
    <3>1. i \in 0..(n-1)
      BY <2>1
    <3>2. QED
      BY <1>3, <1>6, <1>7, <3>1
  <2>2. CASE ~(i < n)
    <3>1. ~(i < tail_size)
      BY <1>2, <1>3, <1>4, <2>2
    <3>2. c.items[i] = NoItem
      BY <1>5, <2>2, <3>1
    <3>3. QED
      BY <3>2 DEF NoItem
  <2>3. QED
    BY <2>1, <2>2
<1>9. IsRing(c, capacity)
  <2>1. Place(capacity, 0, n) = n
    BY DEF Place
  <2>2. c.items \in [0..(capacity-1) -> Nat]
    BY <1>5, <1>8
  <2>3. n \in 0..capacity /\ 0 \in 0..(capacity-1) /\ capacity \in Nat \ {0}
    OBVIOUS
  <2>4. QED
    BY <1>5, <2>1, <2>2, <2>3 DEF IsRing
<1>10. ASSUME NEW i \in 0..(n-1)
       PROVE  At(c, i) = from + i + 1
  <2> c.get_idx = 0 /\ i \in 0..(capacity-1)
    BY <1>5, <1>7
  <2>1. At(c, i) = c.items[Place(capacity, 0, i)]
    BY <1>9, RingPlaces
  <2>2. Place(capacity, 0, i) = i
    BY DEF Place
  <2>3. At(b, i) = from + i + 1
    BY DEF Has
  <2>4. QED
    BY <1>6, <1>7, <2>1, <2>2, <2>3
<1>11. capacity \in Nat \ {0}
  OBVIOUS
<1>12. Has(c, from, n)
  BY <1>5, <1>9, <1>10, <1>11 DEF Has
<1>13. QED
  BY <1>9, <1>12, RingCap DEF c

\* RingBuf_Get takes the oldest.
LEMMA RemovedFacts ==
    ASSUME NEW from \in Nat, NEW n \in Nat \ {0}, NEW b, Has(b, from, n)
    PROVE  At(b, 0) = from + 1 /\ Has(Removed(b), from + 1, n - 1)
<1> DEFINE c == Removed(b)
           g == b.get_idx
<1>1. PICK cap \in Nat \ {0} : IsRing(b, cap)
  BY DEF Has
<1>2. Cap(b) = cap /\ b.num_items = n /\ n \in 0..cap
  BY <1>1, RingCap DEF Has, IsRing
<1>3. /\ g \in 0..(cap-1) /\ b.items \in [0..(cap-1) -> Nat]
      /\ b.put_idx = Place(cap, g, n)
  BY <1>1, <1>2 DEF IsRing
<1>4. /\ c.items = [b.items EXCEPT ![g] = NoItem]
      /\ c.get_idx = (g + 1) % cap
      /\ c.put_idx = b.put_idx /\ c.num_items = n - 1
      /\ DOMAIN c = RingFields
  BY <1>1, <1>2 DEF Removed, IsRing, RingFields
<1> HIDE DEF c, g
<1>5. c.get_idx = Place(cap, g, 1) /\ c.get_idx \in 0..(cap-1)
  <2>1. 1 \in 0..cap
    OBVIOUS
  <2>2. (g + 1) % cap = Place(cap, g, 1) /\ Place(cap, g, 1) \in 0..(cap-1)
    BY <1>3, <2>1, PlaceFacts
  <2>3. QED
    BY <1>4, <2>2
<1>6. ASSUME NEW i \in 0..(n-1)
      PROVE  Place(cap, c.get_idx, i) = Place(cap, g, i + 1)
  BY <1>2, <1>3, <1>5 DEF Place
<1>7. IsRing(c, cap)
  <2>1. n - 1 \in 0..(n-1) /\ (n - 1) + 1 = n
    OBVIOUS
  <2>2. c.put_idx = Place(cap, c.get_idx, n - 1)
    BY <1>3, <1>4, <1>6, <2>1
  <2>3. c.items \in [0..(cap-1) -> Nat]
    BY <1>3, <1>4 DEF NoItem
  <2>4. c.num_items \in 0..cap
    BY <1>2, <1>4
  <2>5. QED
    BY <1>4, <1>5, <2>2, <2>3, <2>4 DEF IsRing
<1>8. ASSUME NEW i \in 0..(n-1)
      PROVE  At(b, i) = from + i + 1
  BY DEF Has
<1>9. ASSUME NEW i \in 0..(n-2)
      PROVE  At(c, i) = (from + 1) + i + 1
  <2>1. i \in 0..(cap-1) /\ i + 1 \in 0..(cap-1) /\ i \in 0..(n-1) /\ i + 1 \in 0..(n-1)
    BY <1>2
  <2>2. /\ At(c, i) = c.items[Place(cap, g, i + 1)]
        /\ At(b, i + 1) = b.items[Place(cap, g, i + 1)]
        /\ Place(cap, g, i + 1) \in 0..(cap-1)
    BY <1>1, <1>6, <1>7, <2>1, RingPlaces DEF g
  <2>3. Place(cap, g, i + 1) # g
    BY <1>2, <1>3, <2>1 DEF Place
  <2>4. At(b, i + 1) = from + (i + 1) + 1
    BY <1>8, <2>1
  <2>5. c.items[Place(cap, g, i + 1)] = b.items[Place(cap, g, i + 1)]
    BY <1>3, <1>4, <2>2, <2>3
  <2>6. QED
    BY <2>2, <2>4, <2>5
<1>10. At(b, 0) = from + 1
  BY <1>8
<1>11. (n - 1) - 1 = n - 2
  OBVIOUS
<1>12. QED
  BY <1>4, <1>7, <1>9, <1>10, <1>11 DEF Has, c

\* What a get shrinks keeps its items.
LEMMA ShrunkFacts ==
    ASSUME NEW from \in Nat, NEW n \in Nat \ {0}, NEW b, Has(b, from, n),
           NEW c \in Shrunk(b)
    PROVE  Has(c, from, n)
<1> DEFINE half == IF Cap(b) \div 2 < InitialCapacity THEN InitialCapacity ELSE Cap(b) \div 2
<1>1. Cap(b) \in Nat \ {0} /\ b.num_items = n
  BY RingCap DEF Has
<1>2. CASE c = b
  BY <1>2
<1>3. CASE c # b
  <2>1. n < Cap(b) \div 4 /\ c = Resized(b, half)
    BY <1>1, <1>3 DEF Shrunk
  <2>2. Cap(b) \div 4 <= Cap(b) \div 2 /\ Cap(b) \div 2 \in Nat /\ Cap(b) \div 4 \in Nat
    BY <1>1
  <2>3. half \in Nat /\ n < half
    BY <2>1, <2>2, SimpleQueueAssumption
  <2> HIDE DEF half
  <2>4. QED
    BY <2>1, <2>3, ResizedFacts
<1>4. QED
  BY <1>2, <1>3

(***************************************************************************)
(* The inductive invariant.                                                *)
(***************************************************************************)

\* The parts of TypeOK but the ring buffers.
Types ==
    /\ has_threads_waiting \in [Addrs -> BOOLEAN]
    /\ puts \in [Addrs -> Nat]
    /\ taken \in [Addrs -> Nat]
    /\ returned \in [Addrs -> SUBSET (Nat \ {NoItem})]
    /\ pc \in [Threads -> {"idle", "loop", "parked", "signals", "wake"}]
    /\ blocks \in [Threads -> {"no", "deadline", "forever"}]
    /\ item \in [Threads -> Nat]

\* Where a thread is inside a get or a put.
PlacesAgree ==
    \A t \in Threads :
        /\ pc[t] = "parked" <=> parked[t] # "no"
        /\ IF pc[t] \in {"loop", "parked", "signals"} THEN addr[t] \in Addrs
                                                      ELSE addr[t] = NoAddr
        /\ IF pc[t] = "wake" THEN \E w \in Threads : to_wake[t] = <<w>>
                             ELSE to_wake[t] = <<>>

\* Each buffer has the items put last.
Buffers ==
    /\ DOMAIN buf = Addrs
    /\ \A q \in Addrs : /\ puts[q] - taken[q] \in Nat
                        /\ Has(buf[q], taken[q], puts[q] - taken[q])

\* An entry in a queue is known to the flag, and has missed no item.
SleepersKnown ==
    \A b \in Buckets : \A x \in Queued(b) :
        has_threads_waiting[addr[x]] /\ IsEmpty(buf[addr[x]])

IInv == Types /\ LotInv /\ PlacesAgree /\ Buffers /\ SleepersKnown /\ EachItemOnce

\* At first the queues are empty.
LEMMA InitIInv == Init => IInv
<1> SUFFICES ASSUME Init PROVE IInv
  OBVIOUS
<1>1. LotInv
  BY InitLotInv DEF Init
<1>2. Types
  BY DEF Init, Types, NoItem
<1>3. PlacesAgree
  BY DEF Init, LotInit, PlacesAgree
<1>4. Buffers
  BY NewRing DEF Init, Buffers
<1>5. SleepersKnown
  BY DEF Init, LotInit, SleepersKnown, Queued, ToSet
<1>6. EachItemOnce
  BY DEF Init, LotInit, EachItemOnce, Holding
<1>7. QED
  BY <1>1, <1>2, <1>3, <1>4, <1>5, <1>6 DEF IInv

\* The parts of the invariant.
LEMMA IInvFacts ==
    ASSUME IInv
    PROVE  /\ Types /\ LotInv /\ LotTypeOK /\ PlacesAgree /\ Buffers /\ SleepersKnown
           /\ EachItemOnce /\ EntriesAreLive /\ QueuesConsistent /\ ParkedCanBeWoken
           /\ NothingLeft
           /\ \A t \in Threads : parked[t] = "no" =>
                 item[t] = NoItem /\ \A b \in Buckets : t \notin Queued(b)
           /\ \A b \in Buckets : Queued(b) \subseteq Threads
<1>1. LotInv /\ EachItemOnce /\ LotTypeOK /\ NothingLeft /\ EntriesAreLive
  BY DEF IInv, LotInv
<1>2. \A t \in Threads : parked[t] = "no" => item[t] = NoItem
  BY <1>1 DEF NothingLeft, EachItemOnce
<1>3. QED
  BY <1>1, <1>2, QueuedAreThreads DEF IInv, LotInv, EntriesAreLive

\* A thread that a wakeup has reached was dequeued by somebody.
LEMMA PostedIsUnparking ==
    ASSUME IInv, NEW t \in Threads, ParkOK(t)
    PROVE  is_unparking[t]
<1>1. parked[t] # "no" /\ sema[t] > 0 /\ ParkedCanBeWoken
  BY IInvFacts DEF ParkOK
<1>2. sema[t] # 0
  BY <1>1
<1>3. QED
  BY <1>1, <1>2 DEF ParkedCanBeWoken

\* The steps of t.
Moves(t) ==
    \/ \E q \in Addrs : \/ \E how \in {"no", "deadline", "forever"} : Get(t, q, how)
                        \/ PutHandOff(t, q) \/ PutBuffer(t, q)
    \/ \E why \in Failures : WaitFails(t, why)
    \/ Step(t)

\* The thread a put hands its item to.
LEMMA FirstSleeper ==
    ASSUME IInv, NEW t \in Threads, NEW q \in Addrs, PutHandOff(t, q)
    PROVE  \E i \in Places(q), w \in Threads :
              /\ w = waiters[BucketOf[q]][i] /\ w \in Queued(BucketOf[q])
              /\ addr[w] = q /\ parked[w] # "no" /\ ~is_unparking[w] /\ w # t
              /\ Dequeue(t, q, i)
              /\ item' = [item EXCEPT ![w] = puts[q] + 1]
              /\ puts[q] = taken[q]
<1>1. PICK i \in DOMAIN waiters[BucketOf[q]] :
        /\ i \in Places(q)
        /\ Dequeue(t, q, i)
        /\ item' = [item EXCEPT ![waiters[BucketOf[q]][i]] = puts[q] + 1]
  BY DEF PutHandOff, IsFirstPlace
<1> DEFINE w == waiters[BucketOf[q]][i]
<1>2. BucketOf[q] \in Buckets
  BY ParkingLotAssumption
<1>3. w \in Threads /\ w \in Queued(BucketOf[q]) /\ addr[w] = q
  <2>1. waiters[BucketOf[q]] \in Seq(Threads)
    BY <1>2, IInvFacts DEF LotTypeOK
  <2>2. QED
    BY <1>1, <2>1, ElementFacts DEF Queued, Places
<1>4. parked[w] # "no" /\ ~is_unparking[w]
  BY <1>2, <1>3, IInvFacts DEF EntriesAreLive
<1>5. w # t
  BY <1>4, IInvFacts DEF PutHandOff, PlacesAgree
<1>6. IsEmpty(buf[q])
  BY <1>2, <1>3, IInvFacts DEF SleepersKnown
<1>7. puts[q] = taken[q]
  <2>1. buf[q].num_items = puts[q] - taken[q]
    BY IInvFacts DEF Buffers, Has
  <2>2. puts[q] \in Nat /\ taken[q] \in Nat
    BY IInvFacts DEF Types
  <2>3. QED
    BY <1>6, <2>1, <2>2 DEF IsEmpty
<1>8. QED
  BY <1>1, <1>3, <1>4, <1>5, <1>7

\* The types are kept.
LEMMA MovesKeepTypes ==
    ASSUME IInv, NEW t \in Threads, Moves(t) PROVE Types'
<1>1. Types /\ LotTypeOK /\ Buffers
  BY IInvFacts
<1> USE DEF Types, Goto, queueVars
<1>2. ASSUME NEW q \in Addrs, NEW how \in {"no", "deadline", "forever"}, Get(t, q, how)
      PROVE  Types'
  BY <1>1, <1>2 DEF Get
<1>3. CASE GetItem(t)
  <2>1. addr[t] \in Addrs
    BY <1>3, IInvFacts DEF GetItem, PlacesAgree
  <2>2. PICK b \in Shrunk(buf[addr[t]]) :
          returned' = [returned EXCEPT ![addr[t]] = returned[addr[t]] \cup {At(b, 0)}]
    BY <1>3 DEF GetItem, Gives
  <2>3. At(b, 0) = taken[addr[t]] + 1
    <3> DEFINE q == addr[t]
    <3>1. /\ taken[q] \in Nat /\ puts[q] - taken[q] \in Nat \ {0}
          /\ Has(buf[q], taken[q], puts[q] - taken[q])
      BY <1>1, <1>3, <2>1 DEF Buffers, GetItem, IsEmpty, Has
    <3>2. Has(b, taken[q], puts[q] - taken[q])
      BY <2>2, <3>1, ShrunkFacts
    <3>3. QED
      BY <3>1, <3>2, RemovedFacts
  <2>4. returned' \in [Addrs -> SUBSET (Nat \ {NoItem})]
    BY <1>1, <2>1, <2>2, <2>3 DEF NoItem
  <2>5. /\ taken' = [taken EXCEPT ![addr[t]] = taken[addr[t]] + 1] /\ Return(t)
        /\ UNCHANGED <<has_threads_waiting, puts>>
    BY <1>3 DEF GetItem
  <2>6. QED
    BY <1>1, <2>1, <2>4, <2>5 DEF Return, NoItem
<1>4. CASE GetEmpty(t) \/ GetSignals(t)
  BY <1>1, <1>4 DEF GetEmpty, GetSignals, Return, NoItem
<1>5. CASE GetPark(t)
  BY <1>1, <1>5 DEF GetPark
<1>6. CASE GetParked(t)
  <2>1. addr[t] \in Addrs
    BY <1>6, IInvFacts DEF GetParked, PlacesAgree
  <2>2. CASE ParkOK(t) /\ Gives(addr[t], item[t]) /\ Return(t)
    <3>1. item[t] \in Nat \ {NoItem}
      <4>1. is_unparking[t]
        BY <2>2, PostedIsUnparking
      <4>2. QED
        BY <1>1, <4>1, IInvFacts DEF EachItemOnce
    <3>2. returned' \in [Addrs -> SUBSET (Nat \ {NoItem})]
      BY <1>1, <2>1, <2>2, <3>1 DEF Gives
    <3>3. QED
      BY <1>1, <1>6, <2>2, <3>2 DEF GetParked, Return, NoItem
  <2>3. CASE UNCHANGED returned
    BY <1>1, <1>6, <2>3 DEF GetParked, Return, NoItem
  <2>4. QED
    BY <1>6, <2>2, <2>3 DEF GetParked
<1>7. CASE PutWake(t)
  BY <1>1, <1>7 DEF PutWake
<1>8. ASSUME NEW q \in Addrs, PutHandOff(t, q) PROVE Types'
  <2>1. PICK w \in Threads : item' = [item EXCEPT ![w] = puts[q] + 1]
    BY <1>8, FirstSleeper
  <2>2. HasMoreWaiters(q) \in BOOLEAN
    BY DEF HasMoreWaiters
  <2>3. /\ has_threads_waiting' = [has_threads_waiting EXCEPT ![q] = HasMoreWaiters(q)]
        /\ puts' = [puts EXCEPT ![q] = puts[q] + 1]
        /\ taken' = [taken EXCEPT ![q] = taken[q] + 1]
        /\ pc' = [pc EXCEPT ![t] = "wake"]
        /\ UNCHANGED <<returned, blocks>>
    BY <1>8 DEF PutHandOff
  <2>4. puts[q] + 1 \in Nat /\ taken[q] + 1 \in Nat
    BY <1>1
  <2> HIDE DEF Goto
  <2>5. QED
    BY <1>1, <2>1, <2>2, <2>3, <2>4
<1>9. ASSUME NEW q \in Addrs, PutBuffer(t, q) PROVE Types'
  BY <1>1, <1>9 DEF PutBuffer
<1>10. ASSUME NEW why \in Failures, WaitFails(t, why) PROVE Types'
  BY <1>1, <1>10 DEF WaitFails
<1>11. QED
  BY <1>2, <1>3, <1>4, <1>5, <1>6, <1>7, <1>8, <1>9, <1>10 DEF Moves, Step

\* The address of a thread outside Park may change.
LEMMA AddrMoves ==
    ASSUME IInv, NEW t \in Threads,
           \/ UNCHANGED addr
           \/ parked'[t] = "no" /\ \E a \in Addrs \cup {NoAddr} : addr' = [addr EXCEPT ![t] = a]
    PROVE  AddrKept
BY IInvFacts DEF LotTypeOK, AddrKept

\* Every move keeps the parking lot's invariant.
LEMMA MovesKeepLotInv ==
    ASSUME IInv, NEW t \in Threads, Moves(t) PROVE LotInv'
<1>1. LotInv /\ LotTypeOK /\ PlacesAgree
  BY IInvFacts
<1>2. ASSUME UNCHANGED lotVars, pc[t] # "parked", UNCHANGED addr \/ Return(t)
      PROVE  LotInv'
  <2>1. parked'[t] = "no"
    BY <1>1, <1>2 DEF PlacesAgree, lotVars
  <2>2. AddrKept
    BY <1>2, <2>1, AddrMoves DEF Return
  <2>3. QED
    BY <1>1, <1>2, <2>2, OutsideKeepsLotInv
<1>3. ASSUME NEW q \in Addrs, NEW how \in {"no", "deadline", "forever"}, Get(t, q, how)
      PROVE  LotInv'
  <2>1. parked'[t] = "no"
    BY <1>1, <1>3 DEF PlacesAgree, lotVars, Get
  <2>2. AddrKept
    BY <1>3, <2>1, AddrMoves DEF Get
  <2>3. QED
    BY <1>1, <1>3, <2>2, OutsideKeepsLotInv DEF Get
<1>4. CASE GetItem(t) \/ GetEmpty(t) \/ GetSignals(t)
  BY <1>2, <1>4 DEF GetItem, GetEmpty, GetSignals
<1>5. CASE GetPark(t)
  <2>1. addr[t] \in Addrs
    BY <1>1, <1>5 DEF GetPark, PlacesAgree
  <2>2. QED
    BY <1>1, <1>5, <2>1, EnqueueKeepsLotInv DEF GetPark
<1>6. CASE GetParked(t)
  <2>1. addr[t] \in Addrs
    BY <1>1, <1>6 DEF GetParked, PlacesAgree
  <2>2. CASE ParkOK(t) /\ Return(t)
    <3>1. parked'[t] = "no"
      BY <1>1, <2>2 DEF ParkOK, LotTypeOK
    <3>2. AddrKept
      BY <2>2, <3>1, AddrMoves DEF Return
    <3>3. QED
      BY <1>1, <2>2, <3>2, ParkOKKeepsLotInv
  <2>3. CASE \E why \in Failures : ParkCancelled(t, why) /\ (Return(t) \/ UNCHANGED addr)
    <3>1. PICK why \in Failures : ParkCancelled(t, why) /\ (Return(t) \/ UNCHANGED addr)
      BY <2>3
    <3>2. parked'[t] = "no"
      BY <1>1, <3>1 DEF ParkCancelled, LotTypeOK
    <3>3. AddrKept
      BY <3>1, <3>2, AddrMoves DEF Return
    <3>4. QED
      BY <1>1, <2>1, <3>1, <3>3, ParkCancelledKeepsLotInv
  <2>4. CASE ParkRechecked(t) /\ UNCHANGED addr
    BY <1>1, <2>4, AddrMoves, ParkRecheckedKeepsLotInv
  <2>5. QED
    BY <1>6, <2>2, <2>3, <2>4 DEF GetParked, Failures
<1>7. CASE PutWake(t)
  BY <1>1, <1>7, AddrMoves, WakeupKeepsLotInv DEF PutWake
<1>8. ASSUME NEW q \in Addrs, PutHandOff(t, q) PROVE LotInv'
  <2>1. to_wake[t] = <<>> /\ UNCHANGED addr
    BY <1>1, <1>8 DEF PutHandOff, PlacesAgree
  <2>2. PICK i \in Places(q) : Dequeue(t, q, i)
    BY <1>8, FirstSleeper
  <2>3. QED
    BY <1>1, <2>1, <2>2, AddrMoves, DequeueKeepsLotInv
<1>9. ASSUME NEW q \in Addrs, PutBuffer(t, q) PROVE LotInv'
  BY <1>1, <1>2, <1>9 DEF PutBuffer
<1>10. ASSUME NEW why \in Failures, WaitFails(t, why) PROVE LotInv'
  BY <1>1, <1>10, AddrMoves, ParkFailsKeepsLotInv DEF WaitFails
<1>11. QED
  BY <1>3, <1>4, <1>5, <1>6, <1>7, <1>8, <1>9, <1>10 DEF Moves, Step

\* A thread is in the parking lot where its program point says.
LEMMA MovesKeepPlaces ==
    ASSUME IInv, NEW t \in Threads, Moves(t) PROVE PlacesAgree'
<1>1. Types /\ LotTypeOK /\ PlacesAgree /\ NoAddr \notin Addrs
  BY IInvFacts, ParkingLotAssumption
<1> USE DEF Types, LotTypeOK, PlacesAgree, Goto, Return, lotVars
<1>2. ASSUME NEW q \in Addrs, NEW how \in {"no", "deadline", "forever"}, Get(t, q, how)
      PROVE  PlacesAgree'
  BY <1>1, <1>2 DEF Get
<1>3. CASE GetItem(t)
  BY <1>1, <1>3 DEF GetItem
<1>4. CASE GetEmpty(t)
  BY <1>1, <1>4 DEF GetEmpty
<1>5. CASE GetSignals(t)
  BY <1>1, <1>5 DEF GetSignals
<1>6. CASE GetPark(t)
  BY <1>1, <1>6 DEF GetPark, Enqueue
<1>7. CASE GetParked(t)
  <2>1. pc[t] = "parked" /\ UNCHANGED to_wake
    BY <1>7 DEF GetParked, ParkOK, ParkCancelled, ParkRechecked
  <2>2. CASE Return(t) /\ parked' = [parked EXCEPT ![t] = "no"]
    BY <1>1, <2>1, <2>2
  <2>3. CASE Goto(t, "signals") /\ UNCHANGED addr /\ parked' = [parked EXCEPT ![t] = "no"]
    BY <1>1, <2>1, <2>3
  <2>4. CASE UNCHANGED <<addr, pc>> /\ parked' = [parked EXCEPT ![t] = "draining"]
    BY <1>1, <2>1, <2>4
  <2>5. QED
    BY <1>7, <2>2, <2>3, <2>4 DEF GetParked, ParkOK, ParkCancelled, ParkRechecked
<1>8. CASE PutWake(t)
  <2>1. PICK w \in Threads : to_wake[t] = <<w>>
    BY <1>1, <1>8 DEF PutWake
  <2>2. to_wake' = [to_wake EXCEPT ![t] = <<>>]
    BY <1>8, <2>1 DEF PutWake, Wakeup
  <2>3. pc[t] = "wake" /\ pc' = [pc EXCEPT ![t] = "idle"] /\ UNCHANGED <<addr, parked>>
    BY <1>8 DEF PutWake, Wakeup
  <2>4. QED
    BY <1>1, <2>2, <2>3
<1>9. ASSUME NEW q \in Addrs, PutHandOff(t, q) PROVE PlacesAgree'
  <2>1. PICK w \in Threads : to_wake' = [to_wake EXCEPT ![t] = <<w>>] /\ UNCHANGED parked
    BY <1>9, FirstSleeper DEF Dequeue
  <2>2. QED
    BY <1>1, <1>9, <2>1 DEF PutHandOff
<1>10. ASSUME NEW q \in Addrs, PutBuffer(t, q) PROVE PlacesAgree'
  BY <1>1, <1>10 DEF PutBuffer
<1>11. ASSUME NEW why \in Failures, WaitFails(t, why) PROVE PlacesAgree'
  BY <1>1, <1>11 DEF WaitFails, ParkFails, Failures
<1>12. QED
  BY <1>2, <1>3, <1>4, <1>5, <1>6, <1>7, <1>8, <1>9, <1>10, <1>11 DEF Moves, Step

\* A buffer has what was put last, in order.
LEMMA MovesKeepBuffers ==
    ASSUME IInv, NEW t \in Threads, Moves(t) PROVE Buffers'
<1>1. Types /\ Buffers
  BY IInvFacts
<1>2. CASE UNCHANGED <<buf, puts, taken>>
  BY <1>1, <1>2 DEF Buffers
<1>3. CASE GetItem(t)
  <2> DEFINE q == addr[t]
             n == puts[q] - taken[q]
  <2>1. q \in Addrs
    BY <1>3, IInvFacts DEF GetItem, PlacesAgree
  <2>2. PICK b \in Shrunk(buf[q]) : buf' = [buf EXCEPT ![q] = Removed(b)]
    BY <1>3 DEF GetItem
  <2>3. taken' = [taken EXCEPT ![q] = taken[q] + 1] /\ puts' = puts
    BY <1>3 DEF GetItem
  <2>4. taken[q] \in Nat /\ puts[q] \in Nat /\ n \in Nat \ {0} /\ Has(buf[q], taken[q], n)
    BY <1>1, <1>3, <2>1 DEF Types, Buffers, GetItem, IsEmpty, Has
  <2> HIDE DEF n
  <2>5. Has(Removed(b), taken[q] + 1, n - 1)
    BY <2>4, ShrunkFacts, RemovedFacts
  <2>6. n - 1 = puts[q] - (taken[q] + 1) /\ n - 1 \in Nat
    BY <2>4 DEF n
  <2>7. QED
    BY <1>1, <2>1, <2>2, <2>3, <2>5, <2>6 DEF Types, Buffers
<1>4. ASSUME NEW q \in Addrs, PutHandOff(t, q) PROVE Buffers'
  <2>1. puts[q] = taken[q] /\ buf' = buf
    BY <1>4, FirstSleeper DEF PutHandOff
  <2>2. puts' = [puts EXCEPT ![q] = puts[q] + 1] /\ taken' = [taken EXCEPT ![q] = taken[q] + 1]
    BY <1>4 DEF PutHandOff
  <2>3. puts[q] \in Nat /\ puts[q] - taken[q] = 0 /\ (puts[q] + 1) - (taken[q] + 1) = 0
    BY <1>1, <2>1 DEF Types
  <2>4. Has(buf[q], taken[q] + 1, 0)
    BY <1>1, <2>3 DEF Buffers, Has
  <2>5. QED
    BY <1>1, <2>1, <2>2, <2>3, <2>4 DEF Types, Buffers
<1>5. ASSUME NEW q \in Addrs, PutBuffer(t, q) PROVE Buffers'
  <2> DEFINE n == puts[q] - taken[q]
             b == IF IsFull(buf[q]) THEN Resized(buf[q], Cap(buf[q]) * 2) ELSE buf[q]
  <2>1. CASE UNCHANGED <<buf, puts>>
    BY <1>2, <1>5, <2>1 DEF PutBuffer
  <2>2. CASE /\ buf' = [buf EXCEPT ![q] = Stored(b, puts[q] + 1)]
             /\ puts' = [puts EXCEPT ![q] = puts[q] + 1]
    <3>1. taken[q] \in Nat /\ puts[q] \in Nat /\ n \in Nat /\ Has(buf[q], taken[q], n)
      BY <1>1 DEF Types, Buffers
    <3>2. PICK cap \in Nat \ {0} : IsRing(buf[q], cap)
      BY <3>1 DEF Has
    <3>3. Cap(buf[q]) = cap /\ n \in 0..cap
      BY <3>1, <3>2, RingCap DEF IsRing, Has
    <3> HIDE DEF n
    <3>4. Has(b, taken[q], n) /\ ~IsFull(b)
      <4>1. CASE IsFull(buf[q])
        <5>1. cap * 2 \in Nat /\ n < cap * 2
          BY <3>3
        <5>2. /\ Has(Resized(buf[q], cap * 2), taken[q], n)
              /\ Cap(Resized(buf[q], cap * 2)) = cap * 2
          BY <3>1, <5>1, ResizedFacts
        <5>3. QED
          BY <3>3, <4>1, <5>1, <5>2 DEF IsFull, Has
      <4>2. CASE ~IsFull(buf[q])
        BY <3>1, <4>2
      <4>3. QED
        BY <4>1, <4>2
    <3> HIDE DEF b
    <3>5. taken[q] + n + 1 = puts[q] + 1 /\ (puts[q] + 1) - taken[q] = n + 1 /\ n + 1 \in Nat
      BY <3>1 DEF n
    <3>6. Has(Stored(b, puts[q] + 1), taken[q], n + 1)
      BY <3>1, <3>4, <3>5, StoredFacts
    <3>7. taken' = taken
      BY <1>5 DEF PutBuffer
    <3>8. QED
      BY <1>1, <2>2, <3>5, <3>6, <3>7 DEF Types, Buffers
  <2>3. QED
    BY <1>5, <2>1, <2>2 DEF PutBuffer
<1>6. QED
  BY <1>2, <1>3, <1>4, <1>5
  DEF Moves, Step, Get, GetEmpty, GetPark, GetParked, GetSignals, PutWake, WaitFails, queueVars

(***************************************************************************)
(* The sleepers.                                                           *)
(***************************************************************************)

\* When no thread is queued and queued threads keep their address, the flag
\* and the buffer only have to stay as they are for the addresses they wait on.
LEMMA SleepersStay ==
    ASSUME IInv, \A b \in Buckets : ToSet(waiters'[b]) \subseteq Queued(b),
           \A b \in Buckets : \A x \in ToSet(waiters'[b]) :
              /\ addr'[x] = addr[x]
              /\ has_threads_waiting'[addr[x]] = has_threads_waiting[addr[x]]
              /\ buf'[addr[x]] = buf[addr[x]]
    PROVE  SleepersKnown'
BY IInvFacts DEF SleepersKnown, Queued, IsEmpty

\* Whoever sleeps in get is known to those who put.
LEMMA MovesKeepSleepers ==
    ASSUME IInv, NEW t \in Threads, Moves(t) PROVE SleepersKnown'
<1>1. /\ Types /\ LotTypeOK /\ PlacesAgree /\ QueuesConsistent /\ Buffers /\ SleepersKnown
      /\ \A b \in Buckets : Queued(b) \subseteq Threads
  BY IInvFacts
<1>2. ASSUME parked[t] = "no", addr' = [addr EXCEPT ![t] = addr'[t]] \/ UNCHANGED addr
      PROVE  \A b \in Buckets : \A x \in Queued(b) : addr'[x] = addr[x]
  <2>1. \A b \in Buckets : \A x \in Queued(b) : x # t /\ x \in Threads
    BY <1>2, IInvFacts
  <2>2. QED
    BY <1>1, <1>2, <2>1 DEF LotTypeOK
<1>3. ASSUME UNCHANGED waiters, UNCHANGED <<has_threads_waiting, buf>>,
             \A b \in Buckets : \A x \in Queued(b) : addr'[x] = addr[x]
      PROVE  SleepersKnown'
  <2>1. \A b \in Buckets : ToSet(waiters'[b]) = Queued(b)
    BY <1>3 DEF Queued
  <2>2. QED
    BY <1>3, <2>1, SleepersStay
<1>4. ASSUME NEW q \in Addrs, NEW how \in {"no", "deadline", "forever"}, Get(t, q, how)
      PROVE  SleepersKnown'
  <2>1. parked[t] = "no" /\ UNCHANGED <<waiters, has_threads_waiting, buf>>
    BY <1>1, <1>4 DEF PlacesAgree, Get, lotVars, queueVars
  <2>2. addr' = [addr EXCEPT ![t] = addr'[t]]
    BY <1>1, <1>4 DEF Get, LotTypeOK
  <2>3. QED
    BY <1>2, <1>3, <2>1, <2>2
<1>5. CASE GetEmpty(t) \/ GetSignals(t)
  <2>1. parked[t] = "no" /\ UNCHANGED <<waiters, has_threads_waiting, buf>>
    BY <1>1, <1>5 DEF PlacesAgree, GetEmpty, GetSignals, lotVars, queueVars
  <2>2. addr' = [addr EXCEPT ![t] = addr'[t]] \/ UNCHANGED addr
    BY <1>1, <1>5 DEF GetEmpty, GetSignals, Return, LotTypeOK
  <2>3. QED
    BY <1>2, <1>3, <2>1, <2>2
<1>6. CASE GetItem(t)
  <2>1. parked[t] = "no" /\ UNCHANGED waiters /\ ~IsEmpty(buf[addr[t]]) /\ addr[t] \in Addrs
    BY <1>1, <1>6 DEF PlacesAgree, GetItem, lotVars
  <2>2. addr' = [addr EXCEPT ![t] = addr'[t]] /\ UNCHANGED has_threads_waiting
    BY <1>1, <1>6 DEF GetItem, Return, LotTypeOK
  <2>3. \E b : buf' = [buf EXCEPT ![addr[t]] = b]
    BY <1>6 DEF GetItem
  <2>4. \A b \in Buckets : \A x \in Queued(b) : addr[x] # addr[t] /\ addr[x] \in Addrs
    BY <1>1, <2>1 DEF SleepersKnown, QueuesConsistent
  <2>5. \A b \in Buckets : \A x \in Queued(b) : buf'[addr[x]] = buf[addr[x]]
    BY <1>1, <2>3, <2>4 DEF Buffers
  <2>6. \A b \in Buckets : ToSet(waiters'[b]) = Queued(b)
    BY <2>1 DEF Queued
  <2>7. QED
    BY <1>2, <2>1, <2>2, <2>5, <2>6, SleepersStay
<1>7. CASE GetPark(t)
  <2> DEFINE q == addr[t]
             c == BucketOf[q]
  <2>1. q \in Addrs /\ c \in Buckets
    BY <1>1, <1>7, ParkingLotAssumption DEF GetPark, PlacesAgree
  <2>2. /\ waiters' = [waiters EXCEPT ![c] = Append(waiters[c], t)]
        /\ has_threads_waiting' = [has_threads_waiting EXCEPT ![q] = TRUE]
        /\ IsEmpty(buf[q]) /\ UNCHANGED <<addr, buf>> /\ parked[t] = "no"
    BY <1>7 DEF GetPark, Enqueue
  <2>3. waiters[c] \in Seq(Threads) /\ IsInjective(waiters[c]) /\ t \notin Queued(c)
    BY <1>1, <2>1, <2>2, IInvFacts DEF LotTypeOK, QueuesConsistent
  <2>4. ToSet(waiters'[c]) = Queued(c) \cup {t}
    BY <1>1, <2>1, <2>2, <2>3, AppendFacts DEF LotTypeOK, Queued
  <2>5. \A b \in Buckets : b # c => ToSet(waiters'[b]) = Queued(b)
    BY <1>1, <2>2 DEF LotTypeOK, Queued
  <2>6. \A b \in Buckets : \A x \in Queued(b) : addr[x] \in Addrs
    BY <1>1 DEF QueuesConsistent
  <2>7. ASSUME NEW b \in Buckets, NEW x \in ToSet(waiters'[b])
        PROVE  has_threads_waiting'[addr'[x]] /\ IsEmpty(buf'[addr'[x]])
    <3>1. CASE x = t
      BY <1>1, <2>1, <2>2, <3>1 DEF Types
    <3>2. CASE x # t
      <4>1. x \in Queued(b)
        BY <2>4, <2>5, <2>7, <3>2
      <4>2. has_threads_waiting[addr[x]] /\ IsEmpty(buf[addr[x]]) /\ addr[x] \in Addrs
        BY <1>1, <2>6, <4>1 DEF SleepersKnown
      <4>3. QED
        BY <1>1, <2>2, <4>2 DEF Types
    <3>3. QED
      BY <3>1, <3>2
  <2>8. QED
    BY <2>7 DEF SleepersKnown, Queued, IsEmpty
<1>8. CASE GetParked(t)
  <2>1. pc[t] = "parked" /\ parked[t] # "no" /\ addr[t] \in Addrs /\ BucketOf[addr[t]] \in Buckets
    BY <1>1, <1>8, ParkingLotAssumption DEF GetParked, PlacesAgree
  <2>2. UNCHANGED <<has_threads_waiting, buf>>
    BY <1>8 DEF GetParked
  <2>3. ASSUME \A b \in Buckets : ToSet(waiters'[b]) \subseteq Queued(b) \ {t},
               Return(t) \/ UNCHANGED addr
        PROVE  SleepersKnown'
    <3>1. \A b \in Buckets : \A x \in ToSet(waiters'[b]) : addr'[x] = addr[x]
      BY <1>1, <2>3 DEF Return, LotTypeOK
    <3>2. QED
      BY <2>2, <2>3, <3>1, SleepersStay
  <2>4. CASE ParkOK(t) /\ Return(t)
    <3>1. is_unparking[t]
      BY <2>4, PostedIsUnparking
    <3>2. \A b \in Buckets : t \notin Queued(b)
      BY <3>1, IInvFacts DEF EntriesAreLive
    <3>3. \A b \in Buckets : ToSet(waiters'[b]) \subseteq Queued(b) \ {t}
      BY <2>4, <3>2 DEF ParkOK, Queued
    <3>4. QED
      BY <2>3, <2>4, <3>3
  <2>5. CASE \E why \in Failures : ParkCancelled(t, why) /\ (Return(t) \/ UNCHANGED addr)
    <3> DEFINE c == BucketOf[addr[t]]
    <3>1. PICK i \in DOMAIN waiters[c] : /\ waiters[c][i] = t
                                         /\ waiters' = [waiters EXCEPT ![c] = RemoveAt(@, i)]
      BY <2>5 DEF ParkCancelled
    <3>2. waiters[c] \in Seq(Threads) /\ IsInjective(waiters[c])
      BY <1>1, <2>1 DEF LotTypeOK, QueuesConsistent
    <3>3. ToSet(waiters'[c]) = Queued(c) \ {t}
      BY <1>1, <2>1, <3>1, <3>2, RemoveAtFacts DEF LotTypeOK, Queued
    <3>4. \A b \in Buckets : b # c => ToSet(waiters'[b]) = Queued(b) /\ t \notin Queued(b)
      BY <1>1, <3>1 DEF LotTypeOK, Queued, QueuesConsistent
    <3>5. \A b \in Buckets : ToSet(waiters'[b]) \subseteq Queued(b) \ {t}
      BY <3>3, <3>4
    <3>6. QED
      BY <2>3, <2>5, <3>5
  <2>6. CASE ParkRechecked(t) /\ UNCHANGED addr
    BY <1>3, <2>2, <2>6 DEF ParkRechecked
  <2>7. QED
    BY <1>8, <2>4, <2>5, <2>6 DEF GetParked, Failures
<1>9. CASE PutWake(t)
  BY <1>3, <1>9 DEF PutWake, Wakeup, queueVars
<1>10. ASSUME NEW why \in Failures, WaitFails(t, why) PROVE SleepersKnown'
  BY <1>3, <1>10 DEF WaitFails, ParkFails, queueVars
<1>11. ASSUME NEW q \in Addrs, PutHandOff(t, q) PROVE SleepersKnown'
  <2> DEFINE c == BucketOf[q]
  <2>1. PICK i \in Places(q), w \in Threads : w = waiters[c][i] /\ Dequeue(t, q, i)
    BY <1>11, FirstSleeper
  <2>2. c \in Buckets /\ i \in DOMAIN waiters[c] /\ BucketOf[q] = c
    BY ParkingLotAssumption DEF Places
  <2>3. waiters[c] \in Seq(Threads) /\ IsInjective(waiters[c]) /\ num_waiters[c] = Len(waiters[c])
    BY <1>1, <2>2 DEF LotTypeOK, QueuesConsistent
  <2>4. waiters' = [waiters EXCEPT ![c] = RemoveAt(waiters[c], i)]
    BY <2>1 DEF Dequeue
  <2>5. /\ ToSet(waiters'[c]) = Queued(c) \ {w} /\ Len(waiters'[c]) = Len(waiters[c]) - 1
        /\ waiters'[c] \in Seq(Threads)
    BY <1>1, <2>1, <2>2, <2>3, <2>4, RemoveAtFacts DEF LotTypeOK, Queued
  <2>6. \A b \in Buckets : b # c => ToSet(waiters'[b]) = Queued(b)
    BY <1>1, <2>4 DEF LotTypeOK, Queued
  <2>7. /\ has_threads_waiting' = [has_threads_waiting EXCEPT ![q] = HasMoreWaiters(q)]
        /\ UNCHANGED <<addr, buf>>
    BY <1>11 DEF PutHandOff
  <2>8. ASSUME ToSet(waiters'[c]) # {} PROVE HasMoreWaiters(q)
    <3>1. waiters'[c] # <<>>
      BY <2>8 DEF ToSet
    <3>2. Len(waiters'[c]) \in Nat /\ Len(waiters'[c]) # 0 /\ Len(waiters[c]) \in Nat
      BY <2>3, <2>5, <3>1, LenProperties, EmptySeq
    <3>3. num_waiters[BucketOf[q]] = Len(waiters[c])
      BY <2>3
    <3>4. \A m, n \in Nat : m = n - 1 /\ m # 0 => n - 1 > 0
      OBVIOUS
    <3>5. QED
      BY <2>5, <3>2, <3>3, <3>4 DEF HasMoreWaiters
  <2>9. \A b \in Buckets : \A x \in ToSet(waiters'[b]) :
           /\ x \in Queued(b) /\ addr[x] \in Addrs /\ BucketOf[addr[x]] = b
           /\ has_threads_waiting[addr[x]] /\ IsEmpty(buf[addr[x]])
    BY <1>1, <2>5, <2>6 DEF QueuesConsistent, SleepersKnown
  <2>10. ASSUME NEW b \in Buckets, NEW x \in ToSet(waiters'[b])
         PROVE  has_threads_waiting'[addr[x]]
    <3>1. CASE addr[x] = q
      BY <1>1, <2>7, <2>8, <2>9, <2>10, <3>1 DEF Types
    <3>2. CASE addr[x] # q
      BY <1>1, <2>7, <2>9, <2>10, <3>2 DEF Types
    <3>3. QED
      BY <3>1, <3>2
  <2>11. QED
    BY <2>7, <2>9, <2>10 DEF SleepersKnown, Queued, IsEmpty
<1>12. ASSUME NEW q \in Addrs, PutBuffer(t, q) PROVE SleepersKnown'
  <2>1. /\ has_threads_waiting[q] => Places(q) = {}
        /\ has_threads_waiting' = [has_threads_waiting EXCEPT ![q] = FALSE]
        /\ UNCHANGED <<waiters, addr>>
        /\ buf' = buf \/ \E b : buf' = [buf EXCEPT ![q] = b]
    BY <1>12 DEF PutBuffer, lotVars
  <2>2. ASSUME NEW b \in Buckets, NEW x \in Queued(b)
        PROVE  addr[x] \in Addrs /\ addr[x] # q
    <3>1. addr[x] \in Addrs /\ BucketOf[addr[x]] = b /\ has_threads_waiting[addr[x]]
      BY <1>1, <2>2 DEF QueuesConsistent, SleepersKnown
    <3>2. PICK i \in DOMAIN waiters[b] : x = waiters[b][i]
      BY <2>2 DEF Queued, ToSet
    <3>3. addr[x] = q => i \in Places(q)
      BY <3>1, <3>2 DEF Places
    <3>4. QED
      BY <2>1, <3>1, <3>3
  <2>3. \A b \in Buckets : \A x \in Queued(b) :
           /\ has_threads_waiting'[addr[x]] = has_threads_waiting[addr[x]]
           /\ buf'[addr[x]] = buf[addr[x]]
    BY <1>1, <2>1, <2>2 DEF Types, Buffers
  <2>4. \A b \in Buckets : ToSet(waiters'[b]) = Queued(b)
    BY <2>1 DEF Queued
  <2>5. QED
    BY <2>1, <2>3, <2>4, SleepersStay
<1>13. QED
  BY <1>4, <1>5, <1>6, <1>7, <1>8, <1>9, <1>10, <1>11, <1>12 DEF Moves, Step

(***************************************************************************)
(* The items that left the queue.                                          *)
(***************************************************************************)

\* EachItemOnce, of one queue: x is a number of an item, whoever has it.
Given(q) ==
    /\ \A x : x \in 1..taken[q] <=> x \in returned[q] \/ \E u \in Holding(q) : item[u] = x
    /\ \A u \in Holding(q) : item[u] \notin returned[q]
    /\ \A u, w \in Holding(q) : item[u] = item[w] => u = w

\* Each item is in one place, queue by queue.
LEMMA GivenOnce ==
    EachItemOnce <=> /\ \A u \in Threads : is_unparking[u] <=> item[u] # NoItem
                     /\ \A a \in Addrs : Given(a)
<1>1. ASSUME NEW q \in Addrs
      PROVE  ({item[u] : u \in Holding(q)} \cup returned[q] = 1..taken[q])
                <=> \A x : x \in 1..taken[q] <=> x \in returned[q] \/ \E u \in Holding(q) : item[u] = x
  OBVIOUS
<1>2. ASSUME NEW q \in Addrs
      PROVE  ({item[u] : u \in Holding(q)} \cap returned[q] = {})
                <=> \A u \in Holding(q) : item[u] \notin returned[q]
  OBVIOUS
<1>3. QED
  BY <1>1, <1>2 DEF EachItemOnce, Given

\* An item that leaves the buffer of q, or comes to it from a put, goes to a
\* get that returns it or to a thread u that had none.
LEMMA OneMoreGiven ==
    ASSUME NEW q \in Addrs, NEW n \in Nat, NEW R, NEW R2, NEW H, NEW H2, NEW it, NEW it2,
           \A x : x \in 1..n <=> x \in R \/ \E u \in H : it[u] = x,
           \A u \in H : it[u] \notin R,
           \A u, w \in H : it[u] = it[w] => u = w,
           \/ R2 = R \cup {n + 1} /\ H2 = H
           \/ R2 = R /\ \E w : w \notin H /\ H2 = H \cup {w} /\ it2[w] = n + 1,
           \A u \in H : it2[u] = it[u]
    PROVE  /\ \A x : x \in 1..(n+1) <=> x \in R2 \/ \E u \in H2 : it2[u] = x
           /\ \A u \in H2 : it2[u] \notin R2
           /\ \A u, w \in H2 : it2[u] = it2[w] => u = w
<1>1. \A x : x \in 1..(n+1) <=> x \in 1..n \/ x = n + 1
  OBVIOUS
<1>2. n + 1 \notin 1..n
  OBVIOUS
<1>3. n + 1 \notin R /\ \A u \in H : it[u] # n + 1
  BY <1>2
<1>4. CASE R2 = R \cup {n + 1} /\ H2 = H
  BY <1>1, <1>3, <1>4
<1>5. CASE R2 = R /\ \E w : w \notin H /\ H2 = H \cup {w} /\ it2[w] = n + 1
  BY <1>1, <1>3, <1>5
<1>6. QED
  BY <1>4, <1>5

\* Each item stays in one place.
LEMMA MovesKeepItems ==
    ASSUME IInv, NEW t \in Threads, Moves(t) PROVE EachItemOnce'
<1>1. /\ Types /\ LotTypeOK /\ PlacesAgree /\ EachItemOnce
      /\ \A u \in Threads : is_unparking[u] <=> item[u] # NoItem
      /\ \A q \in Addrs : Given(q)
      /\ \A u \in Threads : parked[u] = "no" => item[u] = NoItem
  BY IInvFacts, GivenOnce
\* A thread without an item comes and goes, and nothing else happens.
<1>2. ASSUME item[t] = NoItem, UNCHANGED <<is_unparking, taken, returned>>,
             \A u \in Threads : u # t => item'[u] = item[u] /\ addr'[u] = addr[u],
             item'[t] = NoItem
      PROVE  EachItemOnce'
  <2>1. \A u \in Threads : is_unparking'[u] <=> item'[u] # NoItem
    BY <1>1, <1>2
  <2>2. \A q \in Addrs : Holding(q)' = Holding(q)
    BY <1>2 DEF Holding
  <2>3. \A q \in Addrs : \A u \in Holding(q) : item'[u] = item[u]
    BY <1>2 DEF Holding
  <2>4. \A q \in Addrs : Given(q)'
    BY <1>1, <1>2, <2>2, <2>3 DEF Given
  <2>5. (EachItemOnce <=> /\ \A u \in Threads : is_unparking[u] <=> item[u] # NoItem
                          /\ \A a \in Addrs : Given(a))'
    BY GivenOnce, PTL
  <2>6. QED
    BY <2>1, <2>4, <2>5
\* What happens, happens to the items of q.
<1>3. ASSUME NEW q \in Addrs, Given(q)', NEW n, NEW R,
             taken' = [taken EXCEPT ![q] = n], returned' = [returned EXCEPT ![q] = R],
             \A a \in Addrs : a # q => Holding(a)' = Holding(a),
             \A a \in Addrs : a # q => \A u \in Holding(a) : item'[u] = item[u],
             \A u \in Threads : is_unparking'[u] <=> item'[u] # NoItem
      PROVE  EachItemOnce'
  <2>1. ASSUME NEW a \in Addrs, a # q PROVE Given(a)'
    <3>1. Holding(a)' = Holding(a) /\ taken'[a] = taken[a] /\ returned'[a] = returned[a]
      BY <1>1, <1>3, <2>1 DEF Types
    <3>2. \A u \in Holding(a) : item'[u] = item[u]
      BY <1>3, <2>1
    <3>3. QED
      BY <1>1, <3>1, <3>2 DEF Given
  <2>2. \A a \in Addrs : Given(a)'
    BY <1>3, <2>1
  <2>3. (EachItemOnce <=> /\ \A u \in Threads : is_unparking[u] <=> item[u] # NoItem
                          /\ \A a \in Addrs : Given(a))'
    BY GivenOnce, PTL
  <2>4. QED
    BY <1>3, <2>2, <2>3
<1>4. ASSUME NEW q \in Addrs, NEW how \in {"no", "deadline", "forever"}, Get(t, q, how)
      PROVE  EachItemOnce'
  BY <1>1, <1>2, <1>4 DEF Get, PlacesAgree, LotTypeOK, lotVars, queueVars
<1>5. CASE GetEmpty(t) \/ GetSignals(t)
  <2>1. item[t] = NoItem /\ UNCHANGED <<is_unparking, taken, returned>>
    BY <1>1, <1>5 DEF PlacesAgree, GetEmpty, GetSignals, lotVars, queueVars
  <2>2. \/ UNCHANGED <<addr, item>>
        \/ addr' = [addr EXCEPT ![t] = NoAddr] /\ item' = [item EXCEPT ![t] = NoItem]
    BY <1>5 DEF GetEmpty, GetSignals, Return
  <2>3. QED
    BY <1>1, <1>2, <2>1, <2>2 DEF LotTypeOK, Types
<1>6. CASE GetItem(t)
  <2> addr[t] \in Addrs
    BY <1>1, <1>6 DEF GetItem, PlacesAgree
  <2> PICK q \in Addrs : q = addr[t]
    OBVIOUS
  <2> DEFINE n == taken[q]
             R == returned[q]
             R2 == returned'[q]
             H == Holding(q)
             H2 == Holding(q)'
  <2>1. item[t] = NoItem /\ n \in Nat
    BY <1>1, <1>6 DEF GetItem, PlacesAgree, Types
  <2>2. PICK b \in Shrunk(buf[q]) : returned' = [returned EXCEPT ![q] = returned[q] \cup {At(b, 0)}]
    BY <1>6 DEF GetItem, Gives
  <2>3. At(b, 0) = n + 1
    <3>1. /\ puts[q] - taken[q] \in Nat \ {0}
          /\ Has(buf[q], taken[q], puts[q] - taken[q])
      BY <1>6, <2>1, IInvFacts DEF Buffers, GetItem, IsEmpty, Has
    <3>2. Has(b, taken[q], puts[q] - taken[q])
      BY <2>1, <2>2, <3>1, ShrunkFacts
    <3>3. QED
      BY <2>1, <3>1, <3>2, RemovedFacts
  <2>4. /\ taken' = [taken EXCEPT ![q] = n + 1] /\ UNCHANGED is_unparking
        /\ addr' = [addr EXCEPT ![t] = NoAddr] /\ item' = [item EXCEPT ![t] = NoItem]
    BY <1>6 DEF GetItem, Return, lotVars
  <2>5. /\ \A u \in Threads : u # t => item'[u] = item[u] /\ addr'[u] = addr[u]
        /\ item'[t] = NoItem
    BY <1>1, <2>1, <2>4 DEF Types, LotTypeOK
  <2>6. \A a \in Addrs : Holding(a)' = Holding(a) /\ \A u \in Holding(a) : item'[u] = item[u]
    BY <2>1, <2>5 DEF Holding
  <2>7. \A u \in Threads : is_unparking'[u] <=> item'[u] # NoItem
    BY <1>1, <2>1, <2>4, <2>5
  <2>8. taken'[q] = n + 1 /\ R2 = R \cup {n + 1}
    BY <1>1, <2>2, <2>3, <2>4 DEF Types
  <2>9. /\ \A x : x \in 1..n <=> x \in R \/ \E u \in H : item[u] = x
        /\ \A u \in H : item[u] \notin R
        /\ \A u, w \in H : item[u] = item[w] => u = w
    BY <1>1 DEF Given
  <2>10. H2 = H /\ \A u \in H : item'[u] = item[u]
    BY <2>6
  <2> HIDE DEF R, R2, H, H2, n
  <2>11. /\ \A x : x \in 1..(n+1) <=> x \in R2 \/ \E u \in H2 : item'[u] = x
         /\ \A u \in H2 : item'[u] \notin R2
         /\ \A u, w \in H2 : item'[u] = item'[w] => u = w
    BY <2>1, <2>8, <2>9, <2>10, OneMoreGiven
  <2>12. Given(q)'
    BY <2>8, <2>11 DEF Given, R2, H2
  <2>13. QED
    BY <1>3, <2>2, <2>4, <2>6, <2>7, <2>12
<1>7. CASE GetPark(t)
  BY <1>1, <1>2, <1>7 DEF GetPark, Enqueue
<1>8. CASE GetParked(t)
  <2>1. addr[t] \in Addrs /\ taken' = taken
    BY <1>1, <1>8 DEF GetParked, PlacesAgree
  <2>2. CASE ParkOK(t) /\ Gives(addr[t], item[t]) /\ Return(t)
    <3> PICK q \in Addrs : q = addr[t]
      BY <2>1
    <3>1. /\ is_unparking[t] /\ is_unparking' = [is_unparking EXCEPT ![t] = FALSE]
          /\ returned' = [returned EXCEPT ![q] = returned[q] \cup {item[t]}]
          /\ addr' = [addr EXCEPT ![t] = NoAddr] /\ item' = [item EXCEPT ![t] = NoItem]
      BY <2>2, PostedIsUnparking DEF ParkOK, Gives, Return
    <3>2. item[t] # NoItem /\ t \in Holding(q)
      BY <1>1, <3>1 DEF Holding
    <3>3. /\ \A u \in Threads : u # t => item'[u] = item[u] /\ addr'[u] = addr[u]
          /\ item'[t] = NoItem /\ addr'[t] # q
      BY <1>1, <3>1, ParkingLotAssumption DEF Types, LotTypeOK
    <3>4. Holding(q)' = Holding(q) \ {t}
      BY <3>3 DEF Holding
    <3>5. \A a \in Addrs : a # q => Holding(a)' = Holding(a) /\ t \notin Holding(a)
      BY <3>3 DEF Holding
    <3>6. \A a \in Addrs : \A u \in Holding(a)' : item'[u] = item[u] /\ u # t
      BY <3>3 DEF Holding
    <3>7. \A u \in Threads : is_unparking'[u] <=> item'[u] # NoItem
      BY <1>1, <3>1, <3>3 DEF LotTypeOK
    <3>8. taken'[q] = taken[q] /\ returned'[q] = returned[q] \cup {item[t]}
      BY <1>1, <2>1, <3>1 DEF Types
    <3>9. Given(q) 
      BY <1>1
    <3>10. Given(q)'
      <4>1. \A u \in Holding(q)' : u \in Holding(q) /\ u # t /\ item'[u] = item[u]
        BY <3>4, <3>6
      <4>2. ASSUME NEW u \in Holding(q), u # t
            PROVE  u \in Holding(q)' /\ item'[u] = item[u]
        <5>1. u \in Holding(q)'
          BY <3>4, <4>2
        <5>2. QED
          BY <4>1, <5>1
      <4>3. \A x : x \in 1..taken'[q] <=> x \in returned'[q] \/ \E u \in Holding(q)' : item'[u] = x
        BY <3>2, <3>8, <3>9, <4>1, <4>2 DEF Given
      <4>4. \A u \in Holding(q)' : item'[u] \notin returned'[q]
        BY <3>2, <3>8, <3>9, <4>1 DEF Given
      <4>5. \A u, w \in Holding(q)' : item'[u] = item'[w] => u = w
        BY <3>9, <4>1 DEF Given
      <4>6. QED
        BY <4>3, <4>4, <4>5 DEF Given
    <3>11. taken' = [taken EXCEPT ![q] = taken[q]]
      BY <1>1, <2>1 DEF Types
    <3>12. \A a \in Addrs : a # q => \A u \in Holding(a) : item'[u] = item[u]
      BY <3>3, <3>5 DEF Holding
    <3>13. QED
      BY <1>3, <3>1, <3>5, <3>7, <3>10, <3>11, <3>12
  <2>3. CASE \E why \in Failures : ParkCancelled(t, why) /\ UNCHANGED returned
                                 /\ (Return(t) \/ UNCHANGED <<addr, item>>)
    <3>1. item[t] = NoItem /\ UNCHANGED is_unparking
      BY <1>1, <2>3 DEF ParkCancelled
    <3>2. \/ UNCHANGED <<addr, item>>
          \/ addr' = [addr EXCEPT ![t] = NoAddr] /\ item' = [item EXCEPT ![t] = NoItem]
      BY <2>3 DEF Return
    <3>3. QED
      BY <1>1, <1>2, <2>1, <2>3, <3>1, <3>2 DEF LotTypeOK, Types
  <2>4. CASE ParkRechecked(t) /\ UNCHANGED <<addr, item, returned>>
    <3>1. UNCHANGED is_unparking
      BY <2>4 DEF ParkRechecked
    <3>2. QED
      BY <2>1, <2>4, <3>1, IInvFacts DEF EachItemOnce, Holding
  <2>5. QED
    BY <1>8, <2>2, <2>3, <2>4 DEF GetParked, Failures
<1>9. CASE PutWake(t)
  BY <1>9, IInvFacts DEF PutWake, Wakeup, queueVars, EachItemOnce, Holding
<1>10. ASSUME NEW why \in Failures, WaitFails(t, why) PROVE EachItemOnce'
  BY <1>10, IInvFacts DEF WaitFails, ParkFails, queueVars, EachItemOnce, Holding
<1>11. ASSUME NEW q \in Addrs, PutBuffer(t, q) PROVE EachItemOnce'
  BY <1>11, IInvFacts DEF PutBuffer, lotVars, EachItemOnce, Holding
<1>12. ASSUME NEW q \in Addrs, PutHandOff(t, q) PROVE EachItemOnce'
  <2> DEFINE n == taken[q]
             R == returned[q]
             R2 == returned'[q]
             H == Holding(q)
             H2 == Holding(q)'
  <2>1. PICK i \in Places(q), w \in Threads :
           /\ w = waiters[BucketOf[q]][i] /\ addr[w] = q /\ ~is_unparking[w]
           /\ Dequeue(t, q, i)
           /\ item' = [item EXCEPT ![w] = n + 1]
    BY <1>12, FirstSleeper
  <2>2. /\ taken' = [taken EXCEPT ![q] = n + 1] /\ UNCHANGED <<addr, returned>>
        /\ is_unparking' = [is_unparking EXCEPT ![w] = TRUE] /\ n \in Nat
    BY <1>1, <1>12, <2>1 DEF PutHandOff, Dequeue, Types
  <2>3. /\ item[w] = NoItem /\ item'[w] = n + 1 /\ n + 1 # NoItem
        /\ \A u \in Threads : u # w => item'[u] = item[u]
    BY <1>1, <2>1, <2>2 DEF Types, NoItem
  <2>4. w \notin H /\ H2 = H \cup {w} /\ \A u \in H : item'[u] = item[u]
    BY <2>1, <2>2, <2>3 DEF Holding
  <2>5. \A a \in Addrs : a # q => Holding(a)' = Holding(a) /\ \A u \in Holding(a) : item'[u] = item[u]
    BY <2>1, <2>2, <2>3 DEF Holding
  <2>6. \A u \in Threads : is_unparking'[u] <=> item'[u] # NoItem
    BY <1>1, <2>2, <2>3 DEF LotTypeOK
  <2>7. taken'[q] = n + 1 /\ R2 = R /\ returned' = [returned EXCEPT ![q] = R]
    BY <1>1, <2>2 DEF Types
  <2>8. /\ \A x : x \in 1..n <=> x \in R \/ \E u \in H : item[u] = x
        /\ \A u \in H : item[u] \notin R
        /\ \A u, v \in H : item[u] = item[v] => u = v
    BY <1>1 DEF Given
  <2> HIDE DEF R, R2, H, H2, n
  <2>9. /\ \A x : x \in 1..(n+1) <=> x \in R2 \/ \E u \in H2 : item'[u] = x
        /\ \A u \in H2 : item'[u] \notin R2
        /\ \A u, v \in H2 : item'[u] = item'[v] => u = v
    BY <2>2, <2>3, <2>4, <2>7, <2>8, OneMoreGiven
  <2>10. Given(q)'
    BY <2>7, <2>9 DEF Given, R2, H2
  <2>11. QED
    BY <1>3, <2>2, <2>5, <2>6, <2>7, <2>10
<1>13. QED
  BY <1>4, <1>5, <1>6, <1>7, <1>8, <1>9, <1>10, <1>11, <1>12 DEF Moves, Step

(***************************************************************************)
(* The theorems.                                                           *)
(***************************************************************************)

\* Every step keeps the invariant.
LEMMA NextKeepsIInv == IInv /\ [Next]_vars => IInv'
<1> SUFFICES ASSUME IInv, [Next]_vars PROVE IInv'
  OBVIOUS
<1>1. ASSUME NEW t \in Threads, Moves(t) PROVE IInv'
  BY <1>1, MovesKeepTypes, MovesKeepLotInv, MovesKeepPlaces, MovesKeepBuffers, MovesKeepSleepers,
     MovesKeepItems DEF IInv
<1>2. CASE UNCHANGED vars
  <2>1. Types' /\ PlacesAgree' /\ Buffers' /\ SleepersKnown' /\ EachItemOnce'
    BY <1>2, IInvFacts DEF vars, lotVars, queueVars, Types, PlacesAgree, Buffers, SleepersKnown,
       Queued, EachItemOnce, Holding
  <2>2. LotInv'
    <3>1. UNCHANGED addr /\ UNCHANGED lotVars
      BY <1>2 DEF vars
    <3>2. AddrKept
      BY <3>1, IInvFacts DEF AddrKept, LotTypeOK
    <3>3. QED
      BY <3>1, <3>2, IInvFacts, OutsideKeepsLotInv
  <2>3. QED
    BY <2>1, <2>2 DEF IInv
<1>3. QED
  BY <1>1, <1>2 DEF Next, Moves

\* The invariant holds in every state.
LEMMA SpecKeepsIInv == Spec => []IInv
<1>1. QED
  BY InitIInv, NextKeepsIInv, PTL DEF Spec

\* SimpleQueue, "Simple, unbounded, reentrant FIFO queue": whatever the
\* interleaving of puts, gets, timeouts and signals, the growth and shrinking
\* of the buffer, and the queues that share a bucket, an item is delivered to
\* one get, and in the order of the puts.
THEOREM SimpleQueueDelivers == Spec => []ItemsDelivered
<1>1. IInv => ItemsDelivered
  <2> SUFFICES ASSUME IInv PROVE ItemsDelivered
    OBVIOUS
  <2>1. ASSUME NEW q \in Addrs
        PROVE  /\ RingBufs(buf[q])
               /\ buf[q].num_items = puts[q] - taken[q]
               /\ \A i \in 0..(buf[q].num_items - 1) : At(buf[q], i) = taken[q] + i + 1
    <3>1. Has(buf[q], taken[q], puts[q] - taken[q])
      BY IInvFacts DEF Buffers
    <3>2. PICK cap \in Nat \ {0} : IsRing(buf[q], cap)
      BY <3>1 DEF Has
    <3>3. /\ DOMAIN buf[q].items = 0..(cap-1) /\ Cap(buf[q]) = cap
          /\ buf[q].get_idx \in 0..(cap-1) /\ buf[q].num_items \in 0..cap
          /\ buf[q].put_idx = Place(cap, buf[q].get_idx, buf[q].num_items)
      BY <3>2, RingCap DEF IsRing
    <3>4. buf[q].put_idx \in 0..(cap-1)
      BY <3>3, PlaceFacts
    <3>5. QED
      BY <3>1, <3>3, <3>4 DEF Has, RingBufs
  <2>2. TypeOK
    BY <2>1, IInvFacts DEF TypeOK, Types
  <2>3. QED
    BY <2>1, <2>2, IInvFacts DEF ItemsDelivered, FirstInFirstOut
<1>2. QED
  BY <1>1, SpecKeepsIInv, PTL

\* No get sleeps through a put: while an entry is queued the flag that put
\* decides by is set, and the buffer is empty.
THEOREM SimpleQueueWakes == Spec => []NoIdleGetter
<1>1. IInv => NoIdleGetter
  <2> SUFFICES ASSUME IInv, NEW q \in Addrs, NEW i \in Places(q)
               PROVE  has_threads_waiting[q] /\ IsEmpty(buf[q])
    BY DEF NoIdleGetter
  <2>1. BucketOf[q] \in Buckets
    BY ParkingLotAssumption
  <2>2. /\ waiters[BucketOf[q]][i] \in Queued(BucketOf[q])
        /\ addr[waiters[BucketOf[q]][i]] = q
    BY <2>1, IInvFacts, ElementFacts DEF LotTypeOK, Places, Queued
  <2>3. QED
    BY <2>1, <2>2, IInvFacts DEF SleepersKnown
<1>2. QED
  BY <1>1, SpecKeepsIInv, PTL

\* The parking lot under the queues keeps its invariant.
THEOREM SimpleQueueLotInv == Spec => []LotInv
<1>1. IInv => LotInv
  BY IInvFacts
<1>2. QED
  BY <1>1, SpecKeepsIInv, PTL

===============================================================================

-------------------------- MODULE ParkingLotProofs --------------------------
(***************************************************************************)
(* The steps of the parking lot keep its invariant, for any number of      *)
(* threads, addresses and buckets, and whatever lock is built on it.       *)
(***************************************************************************)
EXTENDS ParkingLot, SequenceTheorems, FiniteSetTheorems, TLAPS

USE ParkingLotAssumption

(***************************************************************************)
(* The queues as sets: what Append, RemoveAt and Tail do to the elements   *)
(* of a sequence without repetitions.                                      *)
(***************************************************************************)

\* What is appended to a sequence without repetition.
LEMMA AppendFacts ==
    ASSUME NEW S, NEW s \in Seq(S), NEW e \in S, IsInjective(s), e \notin ToSet(s)
    PROVE  /\ Append(s, e) \in Seq(S)
           /\ Len(Append(s, e)) = Len(s) + 1
           /\ IsInjective(Append(s, e))
           /\ ToSet(Append(s, e)) = ToSet(s) \cup {e}
<1> DEFINE r == Append(s, e)
<1>1. /\ r \in Seq(S)
      /\ Len(r) = Len(s) + 1
      /\ \A i \in 1..Len(s) : r[i] = s[i]
      /\ r[Len(s) + 1] = e
      /\ Len(s) \in Nat
  OBVIOUS
<1>2. DOMAIN s = 1..Len(s) /\ DOMAIN r = 1..(Len(s) + 1)
  BY <1>1
<1>3. IsInjective(r)
  <2> SUFFICES ASSUME NEW i \in DOMAIN r, NEW j \in DOMAIN r, r[i] = r[j]
               PROVE  i = j
    BY DEF IsInjective
  <2>1. CASE i \in 1..Len(s) /\ j \in 1..Len(s)
    BY <1>1, <1>2, <2>1 DEF IsInjective
  <2>2. CASE i = Len(s) + 1 \/ j = Len(s) + 1
    BY <1>1, <1>2, <2>2 DEF ToSet
  <2>3. QED
    BY <1>1, <1>2, <2>1, <2>2
<1>4. ToSet(r) = ToSet(s) \cup {e}
  <2>1. ASSUME NEW x \in ToSet(r) PROVE x \in ToSet(s) \cup {e}
    BY <1>1, <1>2, <2>1 DEF ToSet
  <2>2. ASSUME NEW x \in ToSet(s) PROVE x \in ToSet(r)
    BY <1>1, <1>2, <2>2 DEF ToSet
  <2>3. e \in ToSet(r)
    BY <1>1, <1>2 DEF ToSet
  <2>4. QED
    BY <2>1, <2>2, <2>3
<1>5. QED
  BY <1>1, <1>3, <1>4

\* What is left when one element goes.
LEMMA RemoveAtFacts ==
    ASSUME NEW S, NEW s \in Seq(S), NEW i \in DOMAIN s, IsInjective(s)
    PROVE  /\ RemoveAt(s, i) \in Seq(S)
           /\ Len(RemoveAt(s, i)) = Len(s) - 1
           /\ IsInjective(RemoveAt(s, i))
           /\ ToSet(RemoveAt(s, i)) = ToSet(s) \ {s[i]}
           /\ Len(s) - 1 \in Nat
           /\ s[i] \in S
<1> DEFINE r == RemoveAt(s, i)
           front == SubSeq(s, 1, i - 1)
           back == SubSeq(s, i + 1, Len(s))
<1>1. Len(s) \in Nat /\ DOMAIN s = 1..Len(s) /\ i \in 1..Len(s)
  BY LenProperties
<1>2. /\ front \in Seq(S)
      /\ Len(front) = i - 1
      /\ \A j \in 1..(i-1) : front[j] = s[j]
  <2>1. \A j \in 1..(i-1) : s[j] \in S
    BY <1>1, ElementOfSeq
  <2>2. 1 \in Int /\ i - 1 \in Int
    BY <1>1
  <2> HIDE DEF front
  <2>3. /\ front \in Seq(S)
        /\ Len(front) = IF 1 <= i-1 THEN i-1-1+1 ELSE 0
        /\ \A j \in 1..(i-1-1+1) : front[j] = s[1+j-1]
    BY <2>1, <2>2, SubSeqProperties DEF front
  <2>4. QED
    BY <1>1, <2>3
<1>3. /\ back \in Seq(S)
      /\ Len(back) = Len(s) - i
      /\ \A j \in 1..(Len(s)-i) : back[j] = s[i+j]
  <2>1. \A j \in (i+1)..Len(s) : s[j] \in S
    BY <1>1, ElementOfSeq
  <2>2. i + 1 \in Int /\ Len(s) \in Int
    BY <1>1
  <2> HIDE DEF back
  <2>3. /\ back \in Seq(S)
        /\ Len(back) = IF i+1 <= Len(s) THEN Len(s)-(i+1)+1 ELSE 0
        /\ \A j \in 1..(Len(s)-(i+1)+1) : back[j] = s[i+1+j-1]
    BY <2>1, <2>2, SubSeqProperties DEF back
  <2>4. Len(back) = Len(s) - i
    BY <1>1, <2>3
  <2>5. ASSUME NEW j \in 1..(Len(s)-i) PROVE back[j] = s[i+j]
    <3>1. j \in 1..(Len(s)-(i+1)+1) /\ i+1+j-1 = i+j
      BY <1>1
    <3>2. QED
      BY <2>3, <3>1
  <2>6. QED
    BY <2>3, <2>4, <2>5
<1>4. /\ r \in Seq(S)
      /\ Len(r) = Len(s) - 1
      /\ \A j \in 1..(Len(s)-1) : r[j] = IF j < i THEN s[j] ELSE s[j+1]
  <2> HIDE DEF front, back
  <2>1. r = front \o back
    BY DEF RemoveAt, front, back
  <2>2. /\ front \o back \in Seq(S)
        /\ Len(front \o back) = Len(front) + Len(back)
        /\ \A j \in 1..(Len(front) + Len(back)) :
             (front \o back)[j] = IF j <= Len(front) THEN front[j] ELSE back[j - Len(front)]
    BY <1>2, <1>3, ConcatProperties
  <2> HIDE DEF r
  <2>3. Len(r) = Len(s) - 1 /\ r \in Seq(S)
    BY <1>1, <1>2, <1>3, <2>1, <2>2
  <2>4. ASSUME NEW j \in 1..(Len(s)-1)
        PROVE  r[j] = IF j < i THEN s[j] ELSE s[j+1]
    <3>1. CASE j < i
      BY <1>1, <1>2, <1>3, <2>1, <2>2, <3>1
    <3>2. CASE ~(j < i)
      <4>1. j - (i-1) \in 1..(Len(s)-i) /\ i + (j - (i-1)) = j + 1
        BY <1>1, <3>2
      <4>2. r[j] = back[j - (i-1)]
        BY <1>1, <1>2, <1>3, <2>1, <2>2, <3>2
      <4>3. QED
        BY <1>3, <3>2, <4>1, <4>2
    <3>3. QED
      BY <3>1, <3>2
  <2>5. QED
    BY <2>3, <2>4
<1>5. DOMAIN r = 1..(Len(s) - 1)
  BY <1>1, <1>4, LenProperties
<1> HIDE DEF r
<1>6. IsInjective(r)
  <2> SUFFICES ASSUME NEW j \in DOMAIN r, NEW k \in DOMAIN r, r[j] = r[k]
               PROVE  j = k
    BY DEF IsInjective
  <2> DEFINE at(n) == IF n < i THEN n ELSE n + 1
  <2>1. ASSUME NEW n \in 1..(Len(s)-1) PROVE at(n) \in 1..Len(s) /\ r[n] = s[at(n)]
    BY <1>1, <1>4
  <2>2. at(j) = at(k)
    BY <1>1, <1>5, <2>1 DEF IsInjective
  <2>3. QED
    BY <1>1, <1>5, <2>2
<1>7. ToSet(r) = ToSet(s) \ {s[i]}
  <2>1. ASSUME NEW x \in ToSet(r) PROVE x \in ToSet(s) \ {s[i]}
    <3>1. PICK j \in 1..(Len(s)-1) : x = r[j]
      BY <1>5, <2>1 DEF ToSet
    <3>2. PICK k \in 1..Len(s) : x = s[k] /\ k # i
      BY <1>1, <1>4, <3>1
    <3>3. QED
      BY <1>1, <3>2 DEF ToSet, IsInjective
  <2>2. ASSUME NEW x \in ToSet(s) \ {s[i]} PROVE x \in ToSet(r)
    <3>1. PICK k \in 1..Len(s) : x = s[k] /\ k # i
      BY <1>1, <2>2 DEF ToSet
    <3>2. CASE k < i
      BY <1>1, <1>4, <1>5, <3>1, <3>2 DEF ToSet
    <3>3. CASE k > i
      <4>1. k - 1 \in 1..(Len(s)-1) /\ ~(k - 1 < i) /\ (k - 1) + 1 = k
        BY <1>1, <3>1, <3>3
      <4>2. r[k-1] = s[k]
        BY <1>4, <4>1
      <4>3. QED
        BY <1>5, <3>1, <4>1, <4>2 DEF ToSet
    <3>4. QED
      BY <1>1, <3>1, <3>2, <3>3
  <2>3. QED
    BY <2>1, <2>2
<1>8. QED
  BY <1>1, <1>4, <1>6, <1>7, ElementOfSeq DEF r

\* What is left when the first element goes.
LEMMA TailFacts ==
    ASSUME NEW S, NEW s \in Seq(S), s # <<>>, IsInjective(s)
    PROVE  /\ Tail(s) \in Seq(S)
           /\ IsInjective(Tail(s))
           /\ ToSet(Tail(s)) = ToSet(s) \ {Head(s)}
           /\ Head(s) \in ToSet(s)
           /\ Head(s) \in S
<1> DEFINE r == Tail(s)
<1>1. /\ r \in Seq(S)
      /\ Len(r) = Len(s) - 1
      /\ \A i \in 1..Len(r) : r[i] = s[i+1]
      /\ Head(s) \in S
  BY HeadTailProperties
<1>2. Len(s) \in Nat /\ Len(s) > 0 /\ DOMAIN s = 1..Len(s) /\ DOMAIN r = 1..Len(r)
  BY <1>1, EmptySeq, LenProperties
<1>3. Head(s) = s[1]
  OBVIOUS
<1> HIDE DEF r
<1>4. IsInjective(r)
  <2>1. \A i \in 1..Len(r) : i + 1 \in 1..Len(s)
    BY <1>1, <1>2
  <2>2. ASSUME NEW i \in 1..Len(r), NEW j \in 1..Len(r), r[i] = r[j] PROVE i = j
    <3>1. i + 1 = j + 1
      BY <1>1, <1>2, <2>1, <2>2 DEF IsInjective
    <3>2. QED
      BY <1>1, <1>2, <3>1
  <2>3. QED
    BY <1>2, <2>2 DEF IsInjective
<1>5. ToSet(r) = ToSet(s) \ {Head(s)}
  <2>1. ASSUME NEW x \in ToSet(r) PROVE x \in ToSet(s) \ {Head(s)}
    BY <1>1, <1>2, <1>3, <2>1 DEF ToSet, IsInjective
  <2>2. ASSUME NEW x \in ToSet(s) \ {Head(s)} PROVE x \in ToSet(r)
    <3>1. PICK k \in 1..Len(s) : x = s[k] /\ k # 1
      BY <1>2, <1>3, <2>2 DEF ToSet
    <3>2. k - 1 \in 1..Len(r) /\ (k - 1) + 1 = k
      BY <1>1, <1>2, <3>1
    <3>3. QED
      BY <1>1, <1>2, <3>1, <3>2 DEF ToSet
  <2>3. QED
    BY <2>1, <2>2
<1>6. Head(s) \in ToSet(s)
  BY <1>2, <1>3 DEF ToSet
<1>7. QED
  BY <1>1, <1>4, <1>5, <1>6 DEF r

\* Sequences of one element and of none.
LEMMA SingletonFacts ==
    ASSUME NEW S, NEW e \in S
    PROVE  /\ <<e>> \in Seq(S) /\ IsInjective(<<e>>) /\ ToSet(<<e>>) = {e}
           /\ <<e>> # <<>>
           /\ <<>> \in Seq(S) /\ IsInjective(<<>>) /\ ToSet(<<>>) = {}
BY DEF IsInjective, ToSet

\* An element of a sequence is in its set.
LEMMA ElementFacts ==
    ASSUME NEW S, NEW s \in Seq(S), NEW i \in DOMAIN s
    PROVE  s[i] \in S /\ s[i] \in ToSet(s)
BY LenProperties, ElementOfSeq DEF ToSet

\* The elements of s at the places I are those, each once, and no others: the
\* k-th place of I is the one with k - 1 places of I before it.
LEMMA EntriesFacts ==
    ASSUME NEW S, NEW s \in Seq(S), IsInjective(s), NEW I \in SUBSET DOMAIN s
    PROVE  /\ Entries(s, I) \in Seq(S)
           /\ Len(Entries(s, I)) = Cardinality(I) /\ Cardinality(I) \in Nat
           /\ Cardinality(I) <= Len(s)
           /\ IsInjective(Entries(s, I))
           /\ ToSet(Entries(s, I)) = {s[i] : i \in I}
<1> DEFINE Before(i) == {j \in I : j < i}
           rank(i) == Cardinality(Before(i))
           n == Cardinality(I)
           place(k) == CHOOSE i \in I : rank(i) = k - 1
<1>1. /\ DOMAIN s = 1..Len(s) /\ Len(s) \in Nat
      /\ IsFiniteSet(1..Len(s)) /\ Cardinality(1..Len(s)) = Len(s)
  <2>1. DOMAIN s = 1..Len(s) /\ Len(s) \in Nat
    BY LenProperties
  <2>2. 1 \in Int /\ Len(s) \in Int
    BY <2>1
  <2>3. IsFiniteSet(1..Len(s)) /\ Cardinality(1..Len(s)) = IF 1 > Len(s) THEN 0 ELSE Len(s)-1+1
    BY <2>2, FS_Interval
  <2>4. QED
    BY <2>1, <2>3
<1>2. IsFiniteSet(I) /\ n \in Nat /\ n <= Len(s) /\ I \subseteq Int
  BY <1>1, FS_Subset, FS_CardinalityType
<1>3. ASSUME NEW A \in SUBSET I, NEW i \in I \ A, NEW B \in SUBSET A
      PROVE  /\ Cardinality(A) \in Nat /\ Cardinality(A) < n
             /\ Cardinality(B) \in Nat /\ Cardinality(B) <= Cardinality(A)
  <2>1. IsFiniteSet(A) /\ Cardinality(A) <= n /\ A # I
    BY <1>2, <1>3, FS_Subset
  <2>2. IsFiniteSet(B) /\ Cardinality(B) <= Cardinality(A)
    BY <2>1, FS_Subset
  <2>3. Cardinality(A) \in Nat /\ Cardinality(B) \in Nat
    BY <2>1, <2>2, FS_CardinalityType
  <2>4. Cardinality(A) # n
    BY <1>2, <2>1, FS_Subset
  <2>5. QED
    BY <1>2, <2>1, <2>2, <2>3, <2>4
<1>4. ASSUME NEW i \in I PROVE rank(i) \in 0..(n-1)
  <2>1. Before(i) \in SUBSET I /\ i \in I \ Before(i)
    BY <1>2
  <2>2. Cardinality(Before(i)) \in Nat /\ Cardinality(Before(i)) < n
    BY <1>3, <2>1
  <2>3. QED
    BY <1>2, <2>2
<1>5. ASSUME NEW i \in I, NEW j \in I, i < j PROVE rank(i) < rank(j)
  <2>1. /\ Before(i) \in SUBSET Before(j) /\ i \in Before(j) /\ i \notin Before(i)
        /\ Before(j) \in SUBSET I
    BY <1>2, <1>5
  <2>2. IsFiniteSet(Before(j))
    BY <1>2, <2>1, FS_Subset
  <2>3. Cardinality(Before(i)) <= Cardinality(Before(j)) /\ Cardinality(Before(i)) # Cardinality(Before(j))
    BY <2>1, <2>2, FS_Subset
  <2>4. Cardinality(Before(i)) \in Int /\ Cardinality(Before(j)) \in Int
    BY <1>4
  <2>5. QED
    BY <2>3, <2>4
<1>6. ASSUME NEW i \in I, NEW j \in I, rank(i) = rank(j) PROVE i = j
  <2> HIDE DEF rank
  <2>1. i \in Int /\ j \in Int /\ rank(i) \in Int /\ rank(j) \in Int
    BY <1>2, <1>4
  <2>2. QED
    BY <1>5, <1>6, <2>1
<1>7. ASSUME NEW k \in 1..n PROVE \E i \in I : rank(i) = k - 1
  <2> SUFFICES ASSUME \A i \in I : rank(i) # k - 1 PROVE FALSE
    OBVIOUS
  <2> HIDE DEF rank
  <2> DEFINE T == (0..(n-1)) \ {k - 1}
             f == [i \in I |-> rank(i)]
  <2>1. IsFiniteSet(T) /\ Cardinality(T) = n - 1
    <3>1. 0 \in Int /\ n - 1 \in Int /\ k - 1 \in 0..(n-1) /\ n > 0
      BY <1>2
    <3>2. IsFiniteSet(0..(n-1)) /\ Cardinality(0..(n-1)) = n
      <4>1. IsFiniteSet(0..(n-1)) /\ Cardinality(0..(n-1)) = IF 0 > n-1 THEN 0 ELSE n-1-0+1
        BY <3>1, FS_Interval
      <4>2. QED
        BY <1>2, <3>1, <4>1
    <3>3. /\ IsFiniteSet((0..(n-1)) \ {k - 1})
          /\ Cardinality((0..(n-1)) \ {k - 1}) =
               IF k - 1 \in 0..(n-1) THEN Cardinality(0..(n-1)) - 1 ELSE Cardinality(0..(n-1))
      BY <3>2, FS_RemoveElement
    <3>4. QED
      BY <3>1, <3>2, <3>3
  <2>2. f \in [I -> T]
    BY <1>4
  <2>3. Cardinality(T) < Cardinality(I)
    BY <1>2, <2>1
  <2>4. PICK i \in I, j \in I : i # j /\ f[i] = f[j]
    <3> HIDE DEF f, T
    <3>1. QED
      BY <1>2, <2>1, <2>2, <2>3, FS_PigeonHole
  <2>5. QED
    BY <1>6, <2>4
<1>8. ASSUME NEW k \in 1..n PROVE place(k) \in I /\ rank(place(k)) = k - 1
  <2> HIDE DEF rank
  <2>1. QED
    BY <1>7
<1> DEFINE e == Entries(s, I)
<1>9. DOMAIN e = 1..n /\ \A k \in 1..n : e[k] = s[place(k)]
  BY DEF Entries
<1> HIDE DEF rank, place, n, e
<1>10. \A i \in I : s[i] \in S
  BY ElementOfSeq, <1>1
<1>11. e \in Seq(S) /\ Len(e) = n
  <2>1. e = [k \in 1..n |-> s[place(k)]]
    BY DEF e, Entries, place, rank, n
  <2>2. \A k \in 1..n : s[place(k)] \in S
    BY <1>8, <1>10
  <2>3. QED
    BY <1>2, <2>1, <2>2
<1>12. IsInjective(e)
  <2> SUFFICES ASSUME NEW k \in 1..n, NEW m \in 1..n, e[k] = e[m] PROVE k = m
    BY <1>9 DEF IsInjective
  <2>1. place(k) = place(m)
    BY <1>8, <1>9 DEF IsInjective
  <2>2. k - 1 = m - 1
    BY <1>8, <2>1
  <2>3. QED
    BY <1>2, <2>2
<1>13. ToSet(e) = {s[i] : i \in I}
  <2>1. ASSUME NEW k \in 1..n PROVE e[k] \in {s[i] : i \in I}
    BY <1>8, <1>9
  <2>2. ASSUME NEW i \in I PROVE \E k \in 1..n : e[k] = s[i]
    <3>1. rank(i) + 1 \in 1..n
      BY <1>2, <1>4
    <3>2. rank(place(rank(i) + 1)) = rank(i)
      <4>1. rank(place(rank(i) + 1)) = rank(i) + 1 - 1 /\ rank(i) \in Int
        BY <1>4, <1>8, <3>1
      <4>2. QED
        BY <4>1
    <3>3. place(rank(i) + 1) = i
      BY <1>6, <1>8, <3>1, <3>2
    <3>4. QED
      BY <1>9, <3>1, <3>3
  <2>3. QED
    BY <1>9, <2>1, <2>2 DEF ToSet
<1>14. QED
  BY <1>2, <1>11, <1>12, <1>13 DEF e, n

(***************************************************************************)
(* The steps.                                                              *)
(***************************************************************************)

\* What a caller's step may do to the addresses: nothing, for a thread that
\* is parked after it.
AddrKept ==
    /\ addr' \in [Threads -> Addrs \cup {NoAddr}]
    /\ \A t \in Threads : parked'[t] # "no" => addr'[t] = addr[t]

\* The entries of a queue, and of a list of those to wake, are threads.
LEMMA QueuedAreThreads ==
    ASSUME LotTypeOK
    PROVE  /\ \A b \in Buckets : Queued(b) \subseteq Threads
           /\ \A u \in Threads : ToBeWoken(u) \subseteq Threads
<1>1. ASSUME NEW s \in Seq(Threads) PROVE ToSet(s) \subseteq Threads
  BY ElementFacts DEF ToSet
<1>2. QED
  BY <1>1 DEF LotTypeOK, Queued, ToBeWoken

\* At first the parking lot is empty.
LEMMA InitLotInv == LotInit => LotInv
<1> SUFFICES ASSUME LotInit PROVE LotInv
  OBVIOUS
<1> USE DEF LotInit
<1>1. ASSUME NEW S PROVE <<>> \in Seq(S) /\ IsInjective(<<>>) /\ ToSet(<<>>) = {} /\ Len(<<>>) = 0
  BY DEF IsInjective, ToSet
<1>2. LotTypeOK
  BY <1>1 DEF LotTypeOK, ParkStates
<1>3. QueuesConsistent
  BY <1>1 DEF QueuesConsistent, Queued
<1>4. EntriesAreLive
  BY <1>1 DEF EntriesAreLive, Queued, ToBeWoken
<1>5. ParkedCanBeWoken /\ NothingLeft
  BY <1>1 DEF ParkedCanBeWoken, NothingLeft, ToBeWoken
<1>6. QED
  BY <1>2, <1>3, <1>4, <1>5 DEF LotInv

\* A step outside the parking lot.
LEMMA OutsideKeepsLotInv ==
    ASSUME LotInv, AddrKept, UNCHANGED lotVars PROVE LotInv'
<1> USE DEF lotVars, AddrKept
<1>1. LotTypeOK'
  BY DEF LotInv, LotTypeOK
<1>2. QueuesConsistent'
  <2>1. \A b \in Buckets : Queued(b)' = Queued(b)
    BY DEF Queued
  <2>2. \A b \in Buckets : \A t \in Queued(b) : addr'[t] = addr[t]
    BY QueuedAreThreads DEF LotInv, EntriesAreLive
  <2>3. QED
    BY <2>1, <2>2 DEF LotInv, QueuesConsistent
<1>3. EntriesAreLive'
  BY DEF LotInv, EntriesAreLive, Queued, ToBeWoken
<1>4. ParkedCanBeWoken'
  <2>1. \A b \in Buckets : Queued(b)' = Queued(b)
    BY DEF Queued
  <2>2. \A u \in Threads : ToBeWoken(u)' = ToBeWoken(u) /\ to_wake'[u] = to_wake[u]
    BY DEF ToBeWoken
  <2>3. QED
    BY <2>1, <2>2 DEF LotInv, ParkedCanBeWoken
<1>5. NothingLeft'
  BY DEF LotInv, NothingLeft
<1>6. QED
  BY <1>1, <1>2, <1>3, <1>4, <1>5 DEF LotInv

\* A thread joins the queue.
LEMMA EnqueueKeepsLotInv ==
    ASSUME LotInv, NEW t \in Threads, addr[t] \in Addrs, Enqueue(t), UNCHANGED addr
    PROVE  LotInv'
<1>0. PICK b \in Buckets : b = BucketOf[addr[t]]
  BY ParkingLotAssumption
<1>1. /\ waiters' = [waiters EXCEPT ![b] = Append(@, t)]
      /\ num_waiters' = [num_waiters EXCEPT ![b] = @ + 1]
      /\ parked' = [parked EXCEPT ![t] = "asleep"]
      /\ parked[t] = "no"
      /\ UNCHANGED <<addr, is_unparking, sema, to_wake>>
  BY <1>0 DEF Enqueue
<1>2. LotTypeOK /\ QueuesConsistent /\ EntriesAreLive /\ ParkedCanBeWoken /\ NothingLeft
  BY DEF LotInv
<1>3. \A c \in Buckets : t \notin Queued(c)
  BY <1>1, <1>2 DEF EntriesAreLive
<1>4. PICK q \in Seq(Threads) :
          q = Append(waiters[b], t) /\ Len(q) = Len(waiters[b]) + 1
          /\ IsInjective(q) /\ ToSet(q) = ToSet(waiters[b]) \cup {t}
  BY <1>2, <1>3, AppendFacts DEF LotTypeOK, QueuesConsistent, Queued
<1>5. waiters' = [waiters EXCEPT ![b] = q]
  BY <1>1, <1>4
<1>6. waiters'[b] = q /\ \A c \in Buckets : c # b => waiters'[c] = waiters[c]
  BY <1>2, <1>5 DEF LotTypeOK
<1>7. \A x \in Threads : x # t => parked'[x] = parked[x]
  BY <1>1, <1>2 DEF LotTypeOK
<1>8. parked'[t] = "asleep" /\ ~is_unparking[t] /\ sema[t] = 0
  BY <1>1, <1>2 DEF LotTypeOK, NothingLeft
<1>9. LotTypeOK'
  <2>1. waiters' \in [Buckets -> Seq(Threads)]
    BY <1>2, <1>5 DEF LotTypeOK
  <2>2. num_waiters' \in [Buckets -> Nat]
    BY <1>1, <1>2 DEF LotTypeOK
  <2>3. parked' \in [Threads -> ParkStates]
    BY <1>1, <1>2 DEF LotTypeOK, ParkStates
  <2>4. QED
    BY <1>1, <1>2, <2>1, <2>2, <2>3 DEF LotTypeOK
<1>10. QueuesConsistent'
  <2> SUFFICES ASSUME NEW c \in Buckets
               PROVE  /\ num_waiters'[c] = Len(waiters'[c])
                      /\ IsInjective(waiters'[c])
                      /\ \A x \in ToSet(waiters'[c]) : addr[x] \in Addrs /\ BucketOf[addr[x]] = c
    BY <1>1 DEF QueuesConsistent, Queued
  <2>1. CASE c = b
    <3>1. num_waiters'[c] = num_waiters[b] + 1
      BY <1>1, <1>2, <2>1 DEF LotTypeOK
    <3>2. QED
      BY <1>0, <1>2, <1>4, <1>6, <2>1, <3>1 DEF QueuesConsistent, Queued
  <2>2. CASE c # b
    <3>1. num_waiters'[c] = num_waiters[c]
      BY <1>1, <1>2, <2>2 DEF LotTypeOK
    <3>2. QED
      BY <1>2, <1>6, <2>2, <3>1 DEF QueuesConsistent, Queued
  <2>3. QED
    BY <2>1, <2>2
<1>11. EntriesAreLive'
  <2>1. ASSUME NEW c \in Buckets, NEW x \in ToSet(waiters'[c])
        PROVE  parked'[x] # "no" /\ ~is_unparking'[x]
    <3>1. x = t \/ x \in ToSet(waiters[c])
      BY <1>4, <1>6, <2>1
    <3>2. CASE x = t
      BY <1>1, <1>8, <3>2
    <3>3. CASE x # t
      BY <1>1, <1>2, <1>7, <3>1, <3>3, QueuedAreThreads DEF EntriesAreLive, Queued
    <3>4. QED
      BY <3>2, <3>3
  <2>2. ASSUME NEW u \in Threads, NEW x \in ToSet(to_wake[u])
        PROVE  parked'[x] # "no" /\ is_unparking'[x]
    <3>1. x \in Threads /\ parked[x] # "no" /\ is_unparking[x]
      BY <1>2, <2>2, QueuedAreThreads DEF EntriesAreLive, ToBeWoken
    <3>2. QED
      BY <1>1, <1>7, <3>1
  <2>3. QED
    BY <1>1, <2>1, <2>2 DEF EntriesAreLive, Queued, ToBeWoken
<1>12. ParkedCanBeWoken'
  <2>1. ASSUME NEW x \in Threads, parked'[x] # "no"
        PROVE  \/ ~is_unparking[x] /\ sema[x] = 0 /\ \E c \in Buckets : x \in ToSet(waiters'[c])
               \/ is_unparking[x] /\ sema[x] = 0 /\ \E u \in Threads : x \in ToSet(to_wake[u])
               \/ is_unparking[x] /\ sema[x] = 1
    <3>1. CASE x = t
      <4>1. x \in ToSet(waiters'[b])
        BY <1>4, <1>6, <3>1
      <4>2. QED
        BY <1>8, <3>1, <4>1
    <3>2. CASE x # t
      <4>1. parked[x] # "no"
        BY <1>7, <2>1, <3>2
      <4>2. \A c \in Buckets : x \in ToSet(waiters[c]) => x \in ToSet(waiters'[c])
        BY <1>4, <1>6
      <4>3. QED
        BY <1>2, <4>1, <4>2 DEF ParkedCanBeWoken, Queued, ToBeWoken
    <3>3. QED
      BY <3>1, <3>2
  <2>2. QED
    BY <1>1, <1>2, <2>1 DEF ParkedCanBeWoken, Queued, ToBeWoken
<1>13. NothingLeft'
  BY <1>1, <1>2, <1>7, <1>8 DEF NothingLeft
<1>14. QED
  BY <1>9, <1>10, <1>11, <1>12, <1>13 DEF LotInv

\* The queues do not change.
LEMMA QueuesKept ==
    ASSUME LotInv, AddrKept, UNCHANGED <<waiters, num_waiters>>,
           \A b \in Buckets : \A x \in Queued(b) : parked'[x] # "no"
    PROVE  QueuesConsistent'
<1>1. \A b \in Buckets : \A x \in Queued(b) : x \in Threads
  BY QueuedAreThreads DEF LotInv
<1>2. \A b \in Buckets : \A x \in Queued(b) : addr'[x] = addr[x]
  BY <1>1 DEF AddrKept
<1>3. QED
  BY <1>2 DEF LotInv, QueuesConsistent, Queued

\* A thread goes on with its call of Park, or returns woken from it.
LEMMA ParkMovesKeepsLotInv ==
    ASSUME LotInv, AddrKept, NEW t \in Threads, NEW s \in ParkStates \ {"no"},
           parked[t] # "no", parked' = [parked EXCEPT ![t] = s],
           UNCHANGED <<waiters, num_waiters, is_unparking, sema, to_wake>>
    PROVE  LotInv'
<1>1. LotTypeOK /\ QueuesConsistent /\ EntriesAreLive /\ ParkedCanBeWoken /\ NothingLeft
  BY DEF LotInv
<1>2. \A x \in Threads : parked'[x] # "no" <=> parked[x] # "no"
  BY <1>1 DEF LotTypeOK
<1>3. LotTypeOK'
  BY <1>1 DEF LotTypeOK, AddrKept
<1>4. \A b \in Buckets : \A x \in Queued(b) : x \in Threads /\ parked'[x] # "no"
  BY <1>1, <1>2, QueuedAreThreads DEF EntriesAreLive
<1>5. QueuesConsistent'
  BY <1>4, QueuesKept
<1>6. EntriesAreLive'
  <2>1. \A u \in Threads : \A x \in ToBeWoken(u) : x \in Threads /\ parked'[x] # "no" /\ is_unparking[x]
    BY <1>1, <1>2, QueuedAreThreads DEF EntriesAreLive
  <2>2. QED
    BY <1>1, <1>4, <2>1 DEF EntriesAreLive, Queued, ToBeWoken
<1>7. ParkedCanBeWoken'
  BY <1>1, <1>2 DEF ParkedCanBeWoken, Queued, ToBeWoken
<1>8. NothingLeft'
  BY <1>1, <1>2 DEF NothingLeft
<1>9. QED
  BY <1>3, <1>5, <1>6, <1>7, <1>8 DEF LotInv

\* The first wait fails: the entry stays where it is until the recheck.
LEMMA ParkFailsKeepsLotInv ==
    ASSUME LotInv, AddrKept, NEW t \in Threads, NEW why \in Failures, ParkFails(t, why)
    PROVE  LotInv'
BY ParkMovesKeepsLotInv DEF ParkFails, ParkStates, Failures

\* A wait that has failed finds that its entry was dequeued: the wakeup is on its way.
LEMMA ParkRecheckedKeepsLotInv ==
    ASSUME LotInv, AddrKept, NEW t \in Threads, ParkRechecked(t)
    PROVE  LotInv'
BY ParkMovesKeepsLotInv DEF ParkRechecked, ParkStates, Failures

\* A thread is woken.
LEMMA ParkOKKeepsLotInv ==
    ASSUME LotInv, AddrKept, NEW t \in Threads, ParkOK(t)
    PROVE  LotInv'
<1>1. LotTypeOK /\ QueuesConsistent /\ EntriesAreLive /\ ParkedCanBeWoken /\ NothingLeft
  BY DEF LotInv
<1>2. /\ parked[t] # "no"
      /\ sema[t] > 0
      /\ sema' = [sema EXCEPT ![t] = @ - 1]
      /\ is_unparking' = [is_unparking EXCEPT ![t] = FALSE]
      /\ parked' = [parked EXCEPT ![t] = "no"]
      /\ UNCHANGED <<waiters, num_waiters, to_wake>>
  BY DEF ParkOK
<1>3. is_unparking[t] /\ sema[t] = 1
  BY <1>1, <1>2 DEF ParkedCanBeWoken, LotTypeOK
<1>4. /\ parked'[t] = "no" /\ ~is_unparking'[t] /\ sema'[t] = 0
      /\ \A x \in Threads : x # t => /\ parked'[x] = parked[x]
                                     /\ is_unparking'[x] = is_unparking[x]
                                     /\ sema'[x] = sema[x]
  BY <1>1, <1>2, <1>3 DEF LotTypeOK
<1>5. \A b \in Buckets : \A x \in Queued(b) : x \in Threads /\ x # t
  BY <1>1, <1>3, QueuedAreThreads DEF EntriesAreLive
<1>6. \A u \in Threads : \A x \in ToBeWoken(u) : x \in Threads /\ x # t
  BY <1>1, <1>3, QueuedAreThreads DEF ParkedCanBeWoken
<1>7. LotTypeOK'
  <2>1. sema' \in [Threads -> Nat]
    BY <1>1, <1>2, <1>3 DEF LotTypeOK
  <2>2. parked' \in [Threads -> ParkStates] /\ is_unparking' \in [Threads -> BOOLEAN]
    BY <1>1, <1>2 DEF LotTypeOK, ParkStates
  <2>3. QED
    BY <1>1, <1>2, <2>1, <2>2 DEF LotTypeOK, AddrKept
<1>8. QueuesConsistent'
  <2>1. \A b \in Buckets : \A x \in Queued(b) : parked'[x] # "no"
    BY <1>1, <1>4, <1>5 DEF EntriesAreLive
  <2>2. QED
    BY <1>2, <2>1, QueuesKept
<1>9. EntriesAreLive'
  BY <1>1, <1>2, <1>4, <1>5, <1>6 DEF EntriesAreLive, Queued, ToBeWoken
<1>10. ParkedCanBeWoken'
  <2>1. ASSUME NEW x \in Threads, parked'[x] # "no"
        PROVE  \/ ~is_unparking'[x] /\ sema'[x] = 0 /\ \E c \in Buckets : x \in Queued(c)
               \/ is_unparking'[x] /\ sema'[x] = 0 /\ \E u \in Threads : x \in ToBeWoken(u)
               \/ is_unparking'[x] /\ sema'[x] = 1
    BY <1>1, <1>4, <2>1 DEF ParkedCanBeWoken
  <2>2. \A u \in Threads : \A x \in ToBeWoken(u) : sema'[x] = 0
    BY <1>1, <1>4, <1>6 DEF ParkedCanBeWoken
  <2>3. QED
    BY <1>1, <1>2, <2>1, <2>2 DEF ParkedCanBeWoken, Queued, ToBeWoken
<1>11. NothingLeft'
  BY <1>1, <1>4 DEF NothingLeft
<1>12. QED
  BY <1>7, <1>8, <1>9, <1>10, <1>11 DEF LotInv

\* An entry leaves its queue, and with it the queues altogether.
LEMMA EntryLeavesQueue ==
    ASSUME LotInv, NEW b \in Buckets, NEW i \in DOMAIN waiters[b],
           waiters' = [waiters EXCEPT ![b] = RemoveAt(@, i)],
           num_waiters' = [num_waiters EXCEPT ![b] = @ - 1],
           \A x \in Threads : x # waiters[b][i] /\ parked[x] # "no" => addr'[x] = addr[x]
    PROVE  /\ waiters' \in [Buckets -> Seq(Threads)]
           /\ num_waiters' \in [Buckets -> Nat]
           /\ waiters[b][i] \in Threads
           /\ \A c \in Buckets : ToSet(waiters'[c]) = ToSet(waiters[c]) \ {waiters[b][i]}
           /\ QueuesConsistent'
<1>1. LotTypeOK /\ QueuesConsistent /\ EntriesAreLive
  BY DEF LotInv
<1>2. PICK q \in Seq(Threads) :
          /\ q = RemoveAt(waiters[b], i)
          /\ Len(q) = Len(waiters[b]) - 1 /\ Len(q) \in Nat
          /\ IsInjective(q) /\ ToSet(q) = ToSet(waiters[b]) \ {waiters[b][i]}
          /\ waiters[b][i] \in Threads
          /\ waiters[b][i] \in ToSet(waiters[b])
  BY <1>1, RemoveAtFacts, ElementFacts DEF LotTypeOK, QueuesConsistent
<1>3. PICK w \in Threads : w = waiters[b][i]
  BY <1>2
<1>4. waiters' = [waiters EXCEPT ![b] = q]
  BY <1>2
<1>5. waiters'[b] = q /\ \A c \in Buckets : c # b => waiters'[c] = waiters[c]
  BY <1>1, <1>4 DEF LotTypeOK
<1>6. waiters' \in [Buckets -> Seq(Threads)]
  BY <1>1, <1>4 DEF LotTypeOK
<1>7. /\ num_waiters'[b] = num_waiters[b] - 1
      /\ \A c \in Buckets : c # b => num_waiters'[c] = num_waiters[c]
  BY <1>1 DEF LotTypeOK
<1>8. num_waiters[b] = Len(waiters[b])
  BY <1>1 DEF QueuesConsistent
<1>9. num_waiters' \in [Buckets -> Nat]
  BY <1>1, <1>2, <1>8 DEF LotTypeOK
<1>10. \A c \in Buckets : ToSet(waiters'[c]) = ToSet(waiters[c]) \ {w}
  <2> SUFFICES ASSUME NEW c \in Buckets
               PROVE  ToSet(waiters'[c]) = ToSet(waiters[c]) \ {w}
    OBVIOUS
  <2>1. CASE c = b
    BY <1>2, <1>3, <1>5, <2>1
  <2>2. CASE c # b
    <3>1. \A d \in Buckets : \A x \in ToSet(waiters[d]) : BucketOf[addr[x]] = d
      BY <1>1 DEF QueuesConsistent, Queued
    <3>2. w \in ToSet(waiters[b])
      BY <1>2, <1>3
    <3>3. w \notin ToSet(waiters[c])
      BY <2>2, <3>1, <3>2
    <3>4. ToSet(waiters[c]) \ {w} = ToSet(waiters[c])
      BY <3>3
    <3>5. QED
      BY <1>5, <2>2, <3>4
  <2>3. QED
    BY <2>1, <2>2
<1>11. QueuesConsistent'
  <2> SUFFICES ASSUME NEW c \in Buckets
               PROVE  /\ num_waiters'[c] = Len(waiters'[c])
                      /\ IsInjective(waiters'[c])
                      /\ \A x \in ToSet(waiters'[c]) : addr'[x] \in Addrs /\ BucketOf[addr'[x]] = c
    BY DEF QueuesConsistent, Queued
  <2>1. num_waiters'[c] = Len(waiters'[c]) /\ IsInjective(waiters'[c])
    <3>1. CASE c = b
      BY <1>2, <1>5, <1>7, <1>8, <3>1
    <3>2. CASE c # b
      BY <1>1, <1>5, <1>7, <3>2 DEF QueuesConsistent
    <3>3. QED
      BY <3>1, <3>2
  <2>2. ASSUME NEW x \in ToSet(waiters'[c])
        PROVE  addr'[x] \in Addrs /\ BucketOf[addr'[x]] = c
    <3>1. x \in ToSet(waiters[c]) /\ x # w
      BY <1>10, <2>2
    <3>2. x \in Threads /\ parked[x] # "no" /\ addr[x] \in Addrs /\ BucketOf[addr[x]] = c
      BY <1>1, <3>1, QueuedAreThreads DEF EntriesAreLive, QueuesConsistent, Queued
    <3>3. QED
      BY <1>3, <3>1, <3>2
  <2>3. QED
    BY <2>1, <2>2
<1>12. QED
  BY <1>3, <1>6, <1>9, <1>10, <1>11

\* A thread leaves the queue by itself.
LEMMA ParkCancelledKeepsLotInv ==
    ASSUME LotInv, AddrKept, NEW t \in Threads, NEW why \in Failures,
           addr[t] \in Addrs, ParkCancelled(t, why)
    PROVE  LotInv'
<1>1. LotTypeOK /\ QueuesConsistent /\ EntriesAreLive /\ ParkedCanBeWoken /\ NothingLeft
  BY DEF LotInv
<1>2. PICK b \in Buckets : b = BucketOf[addr[t]]
  BY ParkingLotAssumption
<1>3. PICK i \in DOMAIN waiters[b] :
          waiters[b][i] = t /\ waiters' = [waiters EXCEPT ![b] = RemoveAt(@, i)]
  BY <1>2 DEF ParkCancelled
<1>4. /\ parked[t] # "no"
      /\ ~is_unparking[t]
      /\ num_waiters' = [num_waiters EXCEPT ![b] = @ - 1]
      /\ parked' = [parked EXCEPT ![t] = "no"]
      /\ UNCHANGED <<is_unparking, sema, to_wake>>
  BY <1>2 DEF ParkCancelled, Failures
<1>5. parked'[t] = "no" /\ \A x \in Threads : x # t => parked'[x] = parked[x]
  BY <1>1, <1>4 DEF LotTypeOK
<1>6. \A x \in Threads : x # waiters[b][i] /\ parked[x] # "no" => addr'[x] = addr[x]
  BY <1>3, <1>5 DEF AddrKept
<1>7. /\ waiters' \in [Buckets -> Seq(Threads)]
      /\ num_waiters' \in [Buckets -> Nat]
      /\ \A c \in Buckets : ToSet(waiters'[c]) = ToSet(waiters[c]) \ {t}
      /\ QueuesConsistent'
  BY <1>3, <1>4, <1>6, EntryLeavesQueue
<1>8. LotTypeOK'
  <2>1. parked' \in [Threads -> ParkStates]
    BY <1>1, <1>4 DEF LotTypeOK, ParkStates
  <2>2. QED
    BY <1>1, <1>4, <1>7, <2>1 DEF LotTypeOK, AddrKept
<1>9. \A u \in Threads : \A x \in ToBeWoken(u) : x \in Threads /\ x # t
  BY <1>1, <1>4, QueuedAreThreads DEF EntriesAreLive
<1>10. EntriesAreLive'
  <2>1. ASSUME NEW c \in Buckets, NEW x \in ToSet(waiters'[c])
        PROVE  parked'[x] # "no" /\ ~is_unparking'[x]
    <3>1. x \in ToSet(waiters[c]) /\ x # t
      BY <1>7, <2>1
    <3>2. QED
      BY <1>1, <1>4, <1>5, <3>1, QueuedAreThreads DEF EntriesAreLive, Queued
  <2>2. \A u \in Threads : \A x \in ToBeWoken(u) : parked'[x] # "no" /\ is_unparking'[x]
    BY <1>1, <1>4, <1>5, <1>9 DEF EntriesAreLive
  <2>3. QED
    BY <1>4, <2>1, <2>2 DEF EntriesAreLive, Queued, ToBeWoken
<1>11. ParkedCanBeWoken'
  <2>1. ASSUME NEW x \in Threads, parked'[x] # "no"
        PROVE  \/ ~is_unparking[x] /\ sema[x] = 0 /\ \E c \in Buckets : x \in ToSet(waiters'[c])
               \/ is_unparking[x] /\ sema[x] = 0 /\ \E u \in Threads : x \in ToSet(to_wake[u])
               \/ is_unparking[x] /\ sema[x] = 1
    <3>1. x # t /\ parked[x] # "no"
      BY <1>5, <2>1
    <3>2. \A c \in Buckets : x \in ToSet(waiters[c]) => x \in ToSet(waiters'[c])
      BY <1>7, <3>1
    <3>3. QED
      BY <1>1, <3>1, <3>2 DEF ParkedCanBeWoken, Queued, ToBeWoken
  <2>2. QED
    BY <1>1, <1>4, <2>1 DEF ParkedCanBeWoken, Queued, ToBeWoken
<1>12. NothingLeft'
  <2>1. sema[t] = 0
    BY <1>1, <1>4 DEF ParkedCanBeWoken
  <2>2. QED
    BY <1>1, <1>4, <1>5, <2>1 DEF NothingLeft
<1>13. QED
  BY <1>7, <1>8, <1>10, <1>11, <1>12 DEF LotInv

\* An unparking thread takes an entry that waits on the address.
LEMMA DequeueKeepsLotInv ==
    ASSUME LotInv, AddrKept, NEW u \in Threads, NEW a \in Addrs, NEW i \in Places(a),
           to_wake[u] = <<>>, Dequeue(u, a, i)
    PROVE  LotInv'
<1>1. LotTypeOK /\ QueuesConsistent /\ EntriesAreLive /\ ParkedCanBeWoken /\ NothingLeft
  BY DEF LotInv
<1>2. PICK b \in Buckets : b = BucketOf[a]
  BY ParkingLotAssumption
<1>3. i \in DOMAIN waiters[b]
  BY <1>2 DEF Places
<1>4. PICK w \in Threads : w = waiters[b][i] /\ w \in ToSet(waiters[b])
  BY <1>1, <1>3, ElementFacts DEF LotTypeOK
<1>5. /\ waiters' = [waiters EXCEPT ![b] = RemoveAt(@, i)]
      /\ num_waiters' = [num_waiters EXCEPT ![b] = @ - 1]
      /\ is_unparking' = [is_unparking EXCEPT ![w] = TRUE]
      /\ to_wake' = [to_wake EXCEPT ![u] = <<w>>]
      /\ UNCHANGED <<sema, parked>>
  BY <1>2, <1>4 DEF Dequeue
<1>6. \A x \in Threads : x # waiters[b][i] /\ parked[x] # "no" => addr'[x] = addr[x]
  BY <1>5 DEF AddrKept
<1>7. /\ waiters' \in [Buckets -> Seq(Threads)]
      /\ num_waiters' \in [Buckets -> Nat]
      /\ \A c \in Buckets : ToSet(waiters'[c]) = ToSet(waiters[c]) \ {w}
      /\ QueuesConsistent'
  BY <1>3, <1>4, <1>5, <1>6, EntryLeavesQueue
<1>8. parked[w] # "no" /\ ~is_unparking[w]
  BY <1>1, <1>4 DEF EntriesAreLive, Queued
<1>9. sema[w] = 0
  BY <1>1, <1>8 DEF ParkedCanBeWoken
<1>10. is_unparking'[w] /\ \A x \in Threads : x # w => is_unparking'[x] = is_unparking[x]
  BY <1>1, <1>5 DEF LotTypeOK
<1>11. <<w>> \in Seq(Threads) /\ IsInjective(<<w>>) /\ ToSet(<<w>>) = {w} /\ ToSet(<<>>) = {}
  BY SingletonFacts
<1>12. to_wake'[u] = <<w>> /\ \A y \in Threads : y # u => to_wake'[y] = to_wake[y]
  BY <1>1, <1>5 DEF LotTypeOK
<1>13. /\ ToSet(to_wake'[u]) = {w}
       /\ \A y \in Threads : y # u => ToSet(to_wake'[y]) = ToSet(to_wake[y])
  BY <1>11, <1>12
<1>14. \A y \in Threads : \A x \in ToSet(to_wake[y]) :
          x \in Threads /\ x # w /\ parked[x] # "no" /\ is_unparking[x]
  BY <1>1, <1>8, QueuedAreThreads DEF EntriesAreLive, ToBeWoken
<1>15. LotTypeOK'
  <2>1. is_unparking' \in [Threads -> BOOLEAN] /\ to_wake' \in [Threads -> Seq(Threads)]
    BY <1>1, <1>5, <1>11 DEF LotTypeOK
  <2>2. QED
    BY <1>1, <1>5, <1>7, <2>1 DEF LotTypeOK, AddrKept
<1>16. EntriesAreLive'
  <2>1. ASSUME NEW c \in Buckets, NEW x \in ToSet(waiters'[c])
        PROVE  parked'[x] # "no" /\ ~is_unparking'[x]
    <3>1. x \in ToSet(waiters[c]) /\ x # w
      BY <1>7, <2>1
    <3>2. QED
      BY <1>1, <1>5, <1>10, <3>1, QueuedAreThreads DEF EntriesAreLive, Queued
  <2>2. ASSUME NEW y \in Threads, NEW x \in ToSet(to_wake'[y])
        PROVE  parked'[x] # "no" /\ is_unparking'[x]
    <3>1. CASE x = w
      BY <1>5, <1>8, <1>10, <3>1
    <3>2. CASE x # w
      BY <1>5, <1>10, <1>13, <1>14, <2>2, <3>2
    <3>3. QED
      BY <3>1, <3>2
  <2>3. QED
    BY <2>1, <2>2 DEF EntriesAreLive, Queued, ToBeWoken
<1>17. ParkedCanBeWoken'
  <2>1. ASSUME NEW x \in Threads, parked[x] # "no"
        PROVE  \/ ~is_unparking'[x] /\ sema[x] = 0 /\ \E c \in Buckets : x \in ToSet(waiters'[c])
               \/ is_unparking'[x] /\ sema[x] = 0 /\ \E y \in Threads : x \in ToSet(to_wake'[y])
               \/ is_unparking'[x] /\ sema[x] = 1
    <3>1. CASE x = w
      BY <1>9, <1>10, <1>13, <3>1
    <3>2. CASE x # w
      <4>1. \A c \in Buckets : x \in ToSet(waiters[c]) => x \in ToSet(waiters'[c])
        BY <1>7, <3>2
      <4>2. \A y \in Threads : x \in ToSet(to_wake[y]) => x \in ToSet(to_wake'[y])
        BY <1>11, <1>13
      <4>3. QED
        BY <1>1, <1>10, <2>1, <3>2, <4>1, <4>2 DEF ParkedCanBeWoken, Queued, ToBeWoken
    <3>3. QED
      BY <3>1, <3>2
  <2>2. ASSUME NEW y \in Threads
        PROVE  /\ IsInjective(to_wake'[y])
               /\ \A x \in ToSet(to_wake'[y]) :
                    sema[x] = 0 /\ \A z \in Threads \ {y} : x \notin ToSet(to_wake'[z])
    <3>1. CASE y = u
      BY <1>9, <1>11, <1>12, <1>13, <1>14, <3>1
    <3>2. CASE y # u
      BY <1>1, <1>12, <1>13, <1>14, <3>2 DEF ParkedCanBeWoken, ToBeWoken
    <3>3. QED
      BY <3>1, <3>2
  <2>3. QED
    BY <1>5, <2>1, <2>2 DEF ParkedCanBeWoken, Queued, ToBeWoken
<1>18. NothingLeft'
  BY <1>1, <1>5, <1>8, <1>10 DEF NothingLeft
<1>19. QED
  BY <1>7, <1>15, <1>16, <1>17, <1>18 DEF LotInv

\* dequeue_all: the entries that wait on a leave the queue of its bucket, and
\* are u's to wake.
LEMMA DequeueAllFacts ==
    ASSUME LotInv, NEW u \in Threads, NEW a \in Addrs, DequeueAll(u, a)
    PROVE  /\ waiters' \in [Buckets -> Seq(Threads)]
           /\ \A c \in Buckets : IsInjective(waiters'[c])
           /\ \A c \in Buckets : \A x \in Threads :
                 x \in Queued(c)' <=> x \in Queued(c) /\ addr[x] # a
           /\ num_waiters' \in [Buckets -> Nat]
           /\ \A c \in Buckets : num_waiters'[c] = Len(waiters'[c])
           /\ is_unparking' \in [Threads -> BOOLEAN] /\ to_wake' \in [Threads -> Seq(Threads)]
           /\ IsInjective(to_wake'[u])
           /\ \A x \in Threads :
                 x \in ToSet(to_wake'[u]) <=> addr[x] = a /\ \E c \in Buckets : x \in Queued(c)
           /\ \A y \in Threads : y # u => to_wake'[y] = to_wake[y]
           /\ \A x \in Threads : is_unparking'[x] <=> is_unparking[x] \/ x \in ToSet(to_wake'[u])
           /\ UNCHANGED <<sema, parked>>
<1>1. LotTypeOK /\ QueuesConsistent
  BY DEF LotInv
<1>2. PICK b \in Buckets : b = BucketOf[a]
  BY ParkingLotAssumption
<1> DEFINE s == waiters[b]
           all == Entries(s, Places(a))
           rest == Entries(s, (DOMAIN s) \ Places(a))
<1>3. s \in Seq(Threads) /\ IsInjective(s) /\ num_waiters[b] = Len(s) /\ Len(s) \in Nat
  BY <1>1, LenProperties DEF LotTypeOK, QueuesConsistent
<1>4. Places(a) = {i \in DOMAIN s : addr[s[i]] = a}
  BY <1>2 DEF Places
<1>5. /\ all \in Seq(Threads) /\ Len(all) = Cardinality(Places(a))
      /\ IsInjective(all) /\ ToSet(all) = {s[i] : i \in Places(a)}
  <2>1. Places(a) \in SUBSET DOMAIN s
    BY <1>4
  <2>2. QED
    BY <1>3, <2>1, EntriesFacts
<1>6. /\ rest \in Seq(Threads) /\ Len(rest) = Cardinality((DOMAIN s) \ Places(a))
      /\ IsInjective(rest) /\ ToSet(rest) = {s[i] : i \in (DOMAIN s) \ Places(a)}
  <2>1. (DOMAIN s) \ Places(a) \in SUBSET DOMAIN s
    OBVIOUS
  <2>2. QED
    BY <1>3, <2>1, EntriesFacts
<1>7. Len(s) - Len(all) = Len(rest) /\ Len(rest) \in Nat
  <2>1. DOMAIN s = 1..Len(s) /\ Places(a) \in SUBSET DOMAIN s
    BY <1>3, <1>4, LenProperties
  <2>2. 1 \in Int /\ Len(s) \in Int
    BY <1>3
  <2>3. IsFiniteSet(1..Len(s)) /\ Cardinality(1..Len(s)) = IF 1 > Len(s) THEN 0 ELSE Len(s)-1+1
    BY <2>2, FS_Interval
  <2>4. /\ IsFiniteSet(DOMAIN s) /\ Cardinality(DOMAIN s) = Len(s)
    BY <1>3, <2>1, <2>3
  <2>5. IsFiniteSet(Places(a))
    BY <2>1, <2>4, FS_Subset
  <2>6. Cardinality((DOMAIN s) \ Places(a))
          = Cardinality(DOMAIN s) - Cardinality((DOMAIN s) \cap Places(a))
    BY <2>4, <2>5, FS_Difference
  <2>7. (DOMAIN s) \cap Places(a) = Places(a)
    BY <2>1
  <2>8. Len(all) \in Nat /\ Len(rest) \in Nat
    BY <1>5, <1>6, LenProperties
  <2>9. QED
    BY <1>3, <1>5, <1>6, <2>4, <2>6, <2>7, <2>8
<1>8. ToSet(s) = {s[i] : i \in DOMAIN s}
  BY DEF ToSet
<1>9. /\ waiters' = [waiters EXCEPT ![b] = rest]
      /\ num_waiters' = [num_waiters EXCEPT ![b] = Len(s) - Len(all)]
      /\ is_unparking' = [t \in Threads |-> t \in ToSet(all) \/ is_unparking[t]]
      /\ to_wake' = [to_wake EXCEPT ![u] = all]
      /\ UNCHANGED <<sema, parked>>
  BY <1>1, <1>2, <1>3 DEF DequeueAll, LotTypeOK
<1> HIDE DEF s, all, rest
<1>10. waiters'[b] = rest /\ \A c \in Buckets : c # b => waiters'[c] = waiters[c]
  BY <1>1, <1>9 DEF LotTypeOK
<1>11. to_wake'[u] = all /\ \A y \in Threads : y # u => to_wake'[y] = to_wake[y]
  BY <1>1, <1>9 DEF LotTypeOK
<1>12. \A x \in Threads : x \in ToSet(all) <=> x \in ToSet(s) /\ addr[x] = a
  BY <1>4, <1>5, <1>8
<1>13. \A x \in Threads : x \in ToSet(rest) <=> x \in ToSet(s) /\ addr[x] # a
  BY <1>3, <1>4, <1>6, <1>8 DEF IsInjective
\* The entries that wait on a are in the queue of its bucket.
<1>14. \A c \in Buckets : \A x \in Threads : x \in ToSet(waiters[c]) /\ addr[x] = a => c = b
  BY <1>1, <1>2 DEF QueuesConsistent, Queued
<1>15. \A c \in Buckets : \A x \in Threads : x \in ToSet(waiters'[c]) <=> x \in ToSet(waiters[c]) /\ addr[x] # a
  BY <1>10, <1>13, <1>14 DEF s
<1>16. \A x \in Threads : x \in ToSet(all) <=> addr[x] = a /\ \E c \in Buckets : x \in ToSet(waiters[c])
  BY <1>12, <1>14 DEF s
<1>17. waiters' \in [Buckets -> Seq(Threads)] /\ \A c \in Buckets : IsInjective(waiters'[c])
  BY <1>1, <1>6, <1>9, <1>10 DEF LotTypeOK, QueuesConsistent
<1>18. num_waiters' \in [Buckets -> Nat] /\ \A c \in Buckets : num_waiters'[c] = Len(waiters'[c])
  <2>1. num_waiters' = [num_waiters EXCEPT ![b] = Len(rest)]
    BY <1>7, <1>9
  <2>2. num_waiters' \in [Buckets -> Nat]
    BY <1>1, <1>7, <2>1 DEF LotTypeOK
  <2>3. num_waiters'[b] = Len(waiters'[b])
    BY <1>1, <1>10, <2>1 DEF LotTypeOK
  <2>4. ASSUME NEW c \in Buckets, c # b PROVE num_waiters'[c] = Len(waiters'[c])
    <3>1. num_waiters'[c] = num_waiters[c] /\ waiters'[c] = waiters[c]
      BY <1>1, <1>10, <2>1, <2>4 DEF LotTypeOK
    <3>2. num_waiters[c] = Len(waiters[c])
      BY <1>1 DEF QueuesConsistent
    <3>3. QED
      BY <3>1, <3>2
  <2>5. QED
    BY <2>2, <2>3, <2>4
<1>19. is_unparking' \in [Threads -> BOOLEAN] /\ to_wake' \in [Threads -> Seq(Threads)]
  <2>1. is_unparking' \in [Threads -> BOOLEAN]
    BY <1>1, <1>9, Zenon DEF LotTypeOK
  <2>2. QED
    BY <1>1, <1>5, <1>9, <2>1 DEF LotTypeOK
<1>20. \A x \in Threads : is_unparking'[x] <=> is_unparking[x] \/ x \in ToSet(to_wake'[u])
  BY <1>9, <1>11
<1>21. QED
  BY <1>5, <1>9, <1>11, <1>15, <1>16, <1>17, <1>18, <1>19, <1>20 DEF Queued

\* So the invariant of the parking lot holds after it.
LEMMA DequeueAllKeepsLotInv ==
    ASSUME LotInv, AddrKept, NEW u \in Threads, NEW a \in Addrs, to_wake[u] = <<>>,
           DequeueAll(u, a)
    PROVE  LotInv'
<1>1. LotTypeOK /\ QueuesConsistent /\ EntriesAreLive /\ ParkedCanBeWoken /\ NothingLeft
  BY DEF LotInv
<1> DEFINE woken == ToSet(to_wake'[u])
<1>2. /\ waiters' \in [Buckets -> Seq(Threads)]
      /\ \A c \in Buckets : IsInjective(waiters'[c])
      /\ \A c \in Buckets : \A x \in Threads :
            x \in Queued(c)' <=> x \in Queued(c) /\ addr[x] # a
      /\ num_waiters' \in [Buckets -> Nat]
      /\ \A c \in Buckets : num_waiters'[c] = Len(waiters'[c])
      /\ is_unparking' \in [Threads -> BOOLEAN] /\ to_wake' \in [Threads -> Seq(Threads)]
      /\ IsInjective(to_wake'[u])
      /\ \A x \in Threads : x \in woken <=> addr[x] = a /\ \E c \in Buckets : x \in Queued(c)
      /\ \A y \in Threads : y # u => to_wake'[y] = to_wake[y]
      /\ \A x \in Threads : is_unparking'[x] <=> is_unparking[x] \/ x \in woken
      /\ UNCHANGED <<sema, parked>>
  BY DequeueAllFacts
<1> HIDE DEF woken
<1>3. LotTypeOK'
  BY <1>1, <1>2 DEF LotTypeOK, AddrKept
<1>4. /\ \A c \in Buckets : Queued(c) \subseteq Threads /\ Queued(c)' \subseteq Threads
      /\ \A y \in Threads : ToBeWoken(y) \subseteq Threads /\ ToBeWoken(y)' \subseteq Threads
  <2>1. (LotTypeOK => /\ \A c \in Buckets : Queued(c) \subseteq Threads
                      /\ \A y \in Threads : ToBeWoken(y) \subseteq Threads)'
    <3>1. LotTypeOK => /\ \A c \in Buckets : Queued(c) \subseteq Threads
                       /\ \A y \in Threads : ToBeWoken(y) \subseteq Threads
      BY QueuedAreThreads
    <3>2. QED
      BY <1>3, ElementFacts DEF LotTypeOK, Queued, ToBeWoken, ToSet
  <2>2. QED
    BY <1>1, <1>3, <2>1, QueuedAreThreads
\* Who is queued is parked, and has not been dequeued.
<1>5. \A c \in Buckets : \A x \in Queued(c) : parked[x] # "no" /\ ~is_unparking[x] /\ sema[x] = 0
  BY <1>1, <1>4 DEF EntriesAreLive, ParkedCanBeWoken
<1>6. /\ ToBeWoken(u)' = woken /\ \A y \in Threads : y # u => ToBeWoken(y)' = ToBeWoken(y)
      /\ woken \subseteq Threads /\ ToBeWoken(u) = {}
  BY <1>2, <1>4, SingletonFacts DEF ToBeWoken, woken
<1>7. \A y \in Threads : \A x \in ToBeWoken(y) : parked[x] # "no" /\ is_unparking[x] /\ x \notin woken
  BY <1>1, <1>2, <1>4, <1>5 DEF EntriesAreLive
<1>8. QueuesConsistent'
  <2>1. ASSUME NEW c \in Buckets, NEW x \in Queued(c)'
        PROVE  addr'[x] \in Addrs /\ BucketOf[addr'[x]] = c
    <3>1. x \in Threads /\ x \in Queued(c)
      BY <1>2, <1>4
    <3>2. addr'[x] = addr[x]
      BY <1>2, <1>5, <3>1 DEF AddrKept
    <3>3. QED
      BY <1>1, <3>1, <3>2 DEF QueuesConsistent
  <2>2. QED
    BY <1>2, <2>1 DEF QueuesConsistent
<1>9. EntriesAreLive'
  <2>1. ASSUME NEW c \in Buckets, NEW x \in Queued(c)' PROVE parked'[x] # "no" /\ ~is_unparking'[x]
    BY <1>2, <1>4, <1>5
  <2>2. ASSUME NEW y \in Threads, NEW x \in ToBeWoken(y)' PROVE parked'[x] # "no" /\ is_unparking'[x]
    <3>1. CASE y = u
      BY <1>2, <1>5, <1>6, <3>1
    <3>2. CASE y # u
      BY <1>2, <1>4, <1>6, <1>7, <3>2
    <3>3. QED
      BY <3>1, <3>2
  <2>3. QED
    BY <2>1, <2>2 DEF EntriesAreLive
<1>10. ParkedCanBeWoken'
  <2>1. ASSUME NEW x \in Threads, parked[x] # "no"
        PROVE  \/ ~is_unparking'[x] /\ sema[x] = 0 /\ \E c \in Buckets : x \in Queued(c)'
               \/ is_unparking'[x] /\ sema[x] = 0 /\ \E y \in Threads : x \in ToBeWoken(y)'
               \/ is_unparking'[x] /\ sema[x] = 1
    <3>1. CASE x \in woken
      BY <1>2, <1>5, <1>6, <3>1
    <3>2. CASE x \notin woken
      <4>1. \A c \in Buckets : x \in Queued(c) => x \in Queued(c)'
        BY <1>2, <3>2
      <4>2. \A y \in Threads : x \in ToBeWoken(y) => x \in ToBeWoken(y)'
        BY <1>6
      <4>3. is_unparking'[x] <=> is_unparking[x]
        BY <1>2, <3>2
      <4>4. QED
        BY <1>1, <2>1, <4>1, <4>2, <4>3 DEF ParkedCanBeWoken
    <3>3. QED
      BY <3>1, <3>2
  <2>2. ASSUME NEW y \in Threads
        PROVE  /\ IsInjective(to_wake'[y])
               /\ \A x \in ToBeWoken(y)' :
                    sema[x] = 0 /\ \A z \in Threads \ {y} : x \notin ToBeWoken(z)'
    <3>1. CASE y = u
      BY <1>2, <1>5, <1>6, <1>7, <3>1
    <3>2. CASE y # u
      <4>1. IsInjective(to_wake'[y])
        BY <1>1, <1>2, <3>2 DEF ParkedCanBeWoken
      <4>2. ToBeWoken(y)' = ToBeWoken(y)
        BY <1>6, <3>2
      <4>3. ASSUME NEW x \in ToBeWoken(y)', NEW z \in Threads \ {y}
            PROVE  x \notin ToBeWoken(z)'
        <5>1. x \in ToBeWoken(y) /\ x \notin ToBeWoken(z) /\ x \notin woken
          BY <1>1, <1>7, <4>2 DEF ParkedCanBeWoken
        <5>2. QED
          BY <1>6, <5>1
      <4>4. \A x \in ToBeWoken(y)' : sema[x] = 0
        BY <1>1, <4>2 DEF ParkedCanBeWoken
      <4>5. QED
        BY <4>1, <4>3, <4>4
    <3>3. QED
      BY <3>1, <3>2
  <2>3. QED
    BY <1>2, <2>1, <2>2 DEF ParkedCanBeWoken
<1>11. NothingLeft'
  <2>1. \A x \in Threads : x \in woken => parked[x] # "no"
    BY <1>2, <1>5
  <2>2. QED
    BY <1>1, <1>2, <2>1 DEF NothingLeft
<1>12. QED
  BY <1>3, <1>8, <1>9, <1>10, <1>11 DEF LotInv

\* An unparking thread posts the semaphore of its next entry.
LEMMA WakeupKeepsLotInv ==
    ASSUME LotInv, AddrKept, NEW u \in Threads, Wakeup(u)
    PROVE  LotInv'
<1>1. LotTypeOK /\ QueuesConsistent /\ EntriesAreLive /\ ParkedCanBeWoken /\ NothingLeft
  BY DEF LotInv
<1>2. to_wake[u] \in Seq(Threads) /\ to_wake[u] # <<>> /\ IsInjective(to_wake[u])
  BY <1>1 DEF Wakeup, LotTypeOK, ParkedCanBeWoken
<1>3. PICK w \in Threads, q \in Seq(Threads) :
          /\ w = Head(to_wake[u]) /\ q = Tail(to_wake[u])
          /\ w \in ToSet(to_wake[u])
          /\ IsInjective(q) /\ ToSet(q) = ToSet(to_wake[u]) \ {w}
  BY <1>2, TailFacts
<1>4. /\ sema' = [sema EXCEPT ![w] = @ + 1]
      /\ to_wake' = [to_wake EXCEPT ![u] = q]
      /\ UNCHANGED <<waiters, num_waiters, is_unparking, parked>>
  BY <1>3 DEF Wakeup
<1>5. parked[w] # "no" /\ is_unparking[w] /\ sema[w] = 0
      /\ \A y \in Threads \ {u} : w \notin ToSet(to_wake[y])
  BY <1>1, <1>3 DEF EntriesAreLive, ParkedCanBeWoken, ToBeWoken
<1>6. sema'[w] = 1 /\ \A x \in Threads : x # w => sema'[x] = sema[x]
  BY <1>1, <1>4, <1>5 DEF LotTypeOK
<1>7. to_wake'[u] = q /\ \A y \in Threads : y # u => to_wake'[y] = to_wake[y]
  BY <1>1, <1>4 DEF LotTypeOK
<1>8. \A y \in Threads : ToSet(to_wake'[y]) = ToSet(to_wake[y]) \ {w}
  <2> SUFFICES ASSUME NEW y \in Threads
               PROVE  ToSet(to_wake'[y]) = ToSet(to_wake[y]) \ {w}
    OBVIOUS
  <2>1. CASE y = u
    BY <1>3, <1>7, <2>1
  <2>2. CASE y # u
    BY <1>5, <1>7, <2>2
  <2>3. QED
    BY <2>1, <2>2
<1>9. LotTypeOK'
  BY <1>1, <1>4 DEF LotTypeOK, AddrKept
<1>10. QueuesConsistent'
  BY <1>1, <1>4, QueuesKept DEF EntriesAreLive
<1>11. EntriesAreLive'
  BY <1>1, <1>4, <1>8 DEF EntriesAreLive, Queued, ToBeWoken
<1>12. ParkedCanBeWoken'
  <2>1. ASSUME NEW x \in Threads, parked[x] # "no"
        PROVE  \/ ~is_unparking[x] /\ sema'[x] = 0 /\ \E c \in Buckets : x \in ToSet(waiters[c])
               \/ is_unparking[x] /\ sema'[x] = 0 /\ \E y \in Threads : x \in ToSet(to_wake'[y])
               \/ is_unparking[x] /\ sema'[x] = 1
    <3>1. CASE x = w
      BY <1>5, <1>6, <3>1
    <3>2. CASE x # w
      <4>1. \A y \in Threads : x \in ToSet(to_wake[y]) => x \in ToSet(to_wake'[y])
        BY <1>8, <3>2
      <4>2. QED
        BY <1>1, <1>6, <2>1, <3>2, <4>1 DEF ParkedCanBeWoken, Queued, ToBeWoken
    <3>3. QED
      BY <3>1, <3>2
  <2>2. ASSUME NEW y \in Threads
        PROVE  /\ IsInjective(to_wake'[y])
               /\ \A x \in ToSet(to_wake'[y]) :
                    sema'[x] = 0 /\ \A z \in Threads \ {y} : x \notin ToSet(to_wake'[z])
    <3>1. IsInjective(to_wake'[y])
      BY <1>1, <1>3, <1>7 DEF ParkedCanBeWoken
    <3>2. ASSUME NEW x \in ToSet(to_wake'[y])
          PROVE  sema'[x] = 0 /\ \A z \in Threads \ {y} : x \notin ToSet(to_wake'[z])
      <4>1. x \in ToSet(to_wake[y]) /\ x # w /\ x \in Threads
        BY <1>1, <1>8, <3>2, QueuedAreThreads DEF ToBeWoken
      <4>2. sema[x] = 0 /\ \A z \in Threads \ {y} : x \notin ToSet(to_wake[z])
        BY <1>1, <4>1 DEF ParkedCanBeWoken, ToBeWoken
      <4>3. sema'[x] = 0
        BY <1>6, <4>1, <4>2
      <4>4. \A z \in Threads \ {y} : x \notin ToSet(to_wake'[z])
        BY <1>8, <4>2
      <4>5. QED
        BY <4>3, <4>4
    <3>3. QED
      BY <3>1, <3>2
  <2>3. QED
    BY <1>4, <2>1, <2>2 DEF ParkedCanBeWoken, Queued, ToBeWoken
<1>13. NothingLeft'
  BY <1>1, <1>4, <1>5, <1>6 DEF NothingLeft
<1>14. QED
  BY <1>9, <1>10, <1>11, <1>12, <1>13 DEF LotInv

=============================================================================

-------------------------- MODULE ThreadStateProofs ---------------------------
(***************************************************************************)
(* Thread states.  First, the reclamation of memory, for any number of     *)
(* threads and blocks: no thread that reads a block finds it free, every   *)
(* removed block is freed once, and every thread state has one slot.       *)
(* Then a stop-the-world request, for any number of threads and            *)
(* interpreters: the threads of its scope are counted out exactly once     *)
(* each, and while the world is stopped every one of them is suspended.    *)
(***************************************************************************)
EXTENDS MCThreadStates, SequenceTheorems, FiniteSetTheorems, WellFoundedInduction, TLAPS

\* What the library says of sizes holds of those that QSBR reaches.
LEMMA Sizes == \A S : Reclaim!Cardinality(S) = Cardinality(S)
BY DEF Cardinality, Reclaim!Cardinality

\* There are finitely many threads, of which one is the first.
LEMMA ReclaimersAre == /\ IsFiniteSet(Reclaimers) /\ t1 \in Reclaimers /\ NoThread \notin Reclaimers
                       /\ NoBlock \notin Blocks
                       /\ MinArraySize \in Nat \ {0} /\ DeferredLimit \in Nat \ {0} /\ MaxSeq \in Nat
BY ReclaimAssumption DEF Reclaim!Parameters, IsFiniteSet, Reclaim!IsFiniteSet

(***************************************************************************)
(* Reclamation: the inductive invariant.                                   *)
(***************************************************************************)

\* What a queue has, and that no block is in it twice.
Item == [ptr : Blocks, goal : Nat]
Distinct(q) == \A j, k \in DOMAIN q : q[j].ptr = q[k].ptr => j = k

\* The queues of the threads, and the interpreter's.
QueuePlaces == Reclaimers \cup {NoThread}
QueuesOf(q, h) == [w \in QueuePlaces |-> IF w = NoThread THEN h ELSE q[w]]
Queues == QueuesOf(queue, interp.head)
Queued == UNION {Reclaim!ToSet(Queues[w]) : w \in QueuePlaces}

\* The items of different queues, and of one, are different blocks.
Apart(q, S) ==
    /\ \A u \in S : Distinct(q[u])
    /\ \A u, v \in S : u # v => Reclaim!Ptrs(q[u]) \cap Reclaim!Ptrs(q[v]) = {}

\* Where a thread is in its queue, where it is attached, and where not.
Processing == {"process", "scan", "update", "polled"}
Active == {"run", "register", "free", "quiescent", "abandon", "cleared"} \cup Processing
Inactive == {"new", "detached", "parked", "attach", "deleting"}
PC == Active \cup Inactive \cup {"none"}

\* The types of QSBR and of the locals of its threads.  The interpreter's
\* queue: a thread that has the mutex has it locked, and items are announced.
ReclaimTypes ==
    /\ Reclaim!TypeOK
    /\ interp.mutex # NoThread => interp.locked
    /\ interp.head # <<>> => interp.has_work
    /\ q_pc \in [Reclaimers -> PC] /\ resume \in [Reclaimers -> {"run", "register", "abandon"}]
    /\ seq \in [Reclaimers -> Nat] /\ min_seq \in [Reclaimers -> Nat] /\ i \in [Reclaimers -> Nat]

\* What is in the slot of a thread.
SlotOf(t) ==
    LET slot == array[qsbr[t]] IN
    /\ slot.allocated
    /\ slot.tstate = IF q_pc[t] = "new" THEN NoThread ELSE t
    /\ q_pc[t] \in Inactive => slot.seq = Reclaim!QSBR_OFFLINE
    /\ q_pc[t] \in Active => slot.seq # Reclaim!QSBR_OFFLINE /\ slot.seq <= wr_seq

\* A thread state has a slot of its own, and nobody has the others.
Slots ==
    /\ \A t \in Reclaimers : qsbr[t] = 0 <=> q_pc[t] = "none"
    /\ \A t, u \in Reclaimers : qsbr[t] = qsbr[u] /\ qsbr[t] # 0 => t = u
    /\ \A t \in Reclaimers : qsbr[t] # 0 => SlotOf(t)
    /\ Reclaim!IsInjective(freelist)
    /\ Reclaim!ToSet(freelist) = DOMAIN array \ {qsbr[t] : t \in Reclaimers}
    /\ \A k \in Reclaim!ToSet(freelist) : array[k].seq = Reclaim!QSBR_OFFLINE /\ array[k].tstate = NoThread /\ ~array[k].allocated

\* No thread is ahead of the write sequence.
LocalsOf(t) ==
    /\ q_pc[t] \in {"attach", "quiescent"} => 1 <= seq[t]
    /\ q_pc[t] \in {"attach", "quiescent", "update", "polled"} => seq[t] <= wr_seq
    /\ q_pc[t] \in {"scan", "update"} => min_seq[t] <= wr_seq
    /\ q_pc[t] = "scan" => 1 <= i[t]
    /\ q_pc[t] \in {"scan", "update", "polled"} => Reclaim!Work(t) # <<>>
    /\ interp.mutex = t => \/ q_pc[t] \in Processing \cup {"abandon"}
                           \/ q_pc[t] \in {"detached", "attach"} /\ resume[t] = "abandon"
    /\ q_pc[t] = "free" <=> removed[t] # NoBlock

Locals == 1 <= wr_seq /\ rd_seq <= wr_seq /\ \A t \in Reclaimers : LocalsOf(t)

\* A thread is creating another, which waits for it.
Creating(t) == q_pc[t] = "register" \/ (q_pc[t] \in {"detached", "attach"} /\ resume[t] = "register")

Children ==
    /\ \A t \in Reclaimers : child[t] # NoThread <=> Creating(t)
    /\ \A t \in Reclaimers : child[t] # NoThread => q_pc[child[t]] = "new"
    /\ \A t, u \in Reclaimers : child[t] = child[u] /\ child[t] # NoThread => t = u

\* A block is in one place.
Kept ==
    /\ Apart(Queues, QueuePlaces)
    /\ shared \notin freed
    /\ \A x \in Queued : x.ptr \notin freed /\ x.ptr # shared /\ x.goal <= wr_seq + Reclaim!QSBR_INCR
    /\ \A t \in Reclaimers : removed[t] # NoBlock =>
          /\ removed[t] \notin freed /\ removed[t] # shared
          /\ \A x \in Queued : x.ptr # removed[t]
          /\ \A u \in Reclaimers : removed[t] = removed[u] => t = u

\* Nobody has found that t has passed the goal, nor will.
NotPassed(t, goal) ==
    /\ array[qsbr[t]].seq < goal /\ rd_seq < goal
    /\ \A p \in Reclaimers :
          /\ q_pc[p] = "scan" /\ qsbr[t] < i[p] => min_seq[p] < goal
          /\ q_pc[p] = "update" => min_seq[p] < goal
          /\ q_pc[p] = "polled" => seq[p] < goal

\* A block that a thread holds is not free, and the thread has not passed its goal.
Held ==
    \A t \in Reclaimers : holds[t] # NoBlock =>
       /\ q_pc[t] \in Active \ {"quiescent", "cleared", "abandon"}
       /\ holds[t] \notin freed
       /\ \A x \in Queued : x.ptr = holds[t] => NotPassed(t, x.goal)

ReclaimInv == ReclaimTypes /\ Slots /\ Locals /\ Children /\ Kept /\ Held

\* Every set of numbers has a least one.
LEMMA LeastNat ==
    ASSUME NEW S \in SUBSET Nat, S # {}
    PROVE  \E n \in S : \A m \in S : n <= m
<1>1. PICK n \in S : \A m \in S : ~(<<m, n>> \in OpToRel(<, Nat))
  BY NatLessThanWellFounded, WFMin
<1>2. ASSUME NEW m \in S PROVE n <= m
  <2>1. <<m, n>> \in Nat \X Nat /\ <<m, n>>[1] = m /\ <<m, n>>[2] = n
    OBVIOUS
  <2>2. ~(<<m, n>>[1] < <<m, n>>[2])
    BY <1>1, <2>1, Zenon DEF OpToRel
  <2>3. QED
    BY <2>1, <2>2
<1>3. QED
  BY <1>2

\* FlattenSeq puts one sequence after the other: its steps are a function there is.
LEMMA FlattenSteps ==
    ASSUME NEW T, NEW s \in Seq(Seq(T)), s # <<>>
    PROVE  \E f : /\ f = [n \in 1..Len(s) |-> IF n = 1 THEN s[n] ELSE f[n - 1] \o s[n]]
                  /\ Reclaim!FlattenSeq(s) = f[Len(s)]
<1> DEFINE Is(f, n) == f = [k \in 1..n |-> IF k = 1 THEN s[k] ELSE f[k - 1] \o s[k]]
           Bad == {n \in 1..Len(s) : ~ \E f : Is(f, n)}
<1>1. Len(s) \in Nat \ {0}
  OBVIOUS
<1>2. Bad = {}
  <2>1. SUFFICES ASSUME Bad # {} PROVE FALSE
    OBVIOUS
  <2>2. Bad \in SUBSET Nat
    <3>1. 1..Len(s) \in SUBSET Nat
      BY <1>1
    <3>2. QED
      BY <3>1
  <2>3. PICK n \in Bad : \A m \in Bad : n <= m
    <3> HIDE DEF Bad
    <3>1. QED
      BY <2>1, <2>2, LeastNat
  <2>4. n \in 1..Len(s)
    OBVIOUS
  <2>5. CASE n = 1
    <3>1. Is([k \in 1..1 |-> s[k]], 1)
      OBVIOUS
    <3>2. QED
      BY <2>5, <3>1
  <2>6. CASE n # 1
    <3>1. n - 1 \in 1..Len(s) /\ n - 1 \notin Bad
      <4>1. n - 1 \in 1..Len(s) /\ ~(n <= n - 1)
        BY <1>1, <2>4, <2>6
      <4> HIDE DEF Bad
      <4>2. QED
        BY <2>3, <4>1
    <3>2. PICK f : Is(f, n - 1)
      BY <3>1
    <3> DEFINE g == [k \in 1..n |-> IF k = n THEN f[n - 1] \o s[n] ELSE f[k]]
    <3>3. \A k \in 1..n - 1 : g[k] = f[k] /\ (k # 1 => k - 1 \in 1..n - 1)
      BY <2>4
    <3>4. \A k \in 1..n : g[k] = IF k = 1 THEN s[k] ELSE g[k - 1] \o s[k]
      <4>1. n \in Nat /\ n - 1 \in 1..n - 1
        BY <1>1, <2>4, <2>6
      <4>2. ASSUME NEW k \in 1..n, k # n PROVE g[k] = IF k = 1 THEN s[k] ELSE g[k - 1] \o s[k]
        <5>1. k \in 1..n - 1
          BY <4>1, <4>2
        <5>2. f[k] = IF k = 1 THEN s[k] ELSE f[k - 1] \o s[k]
          BY <3>2, <5>1
        <5>3. k # 1 => g[k - 1] = f[k - 1]
          BY <3>3, <5>1
        <5> HIDE DEF g
        <5>4. QED
          BY <3>3, <5>1, <5>2, <5>3
      <4>3. g[n] = g[n - 1] \o s[n]
        <5>1. n \in 1..n
          BY <4>1, <2>4
        <5>2. g[n] = f[n - 1] \o s[n]
          BY <5>1
        <5>3. g[n - 1] = f[n - 1]
          BY <3>3, <4>1
        <5> HIDE DEF g
        <5>4. QED
          BY <5>2, <5>3
      <4> HIDE DEF g
      <4>4. QED
        BY <2>6, <4>2, <4>3
    <3>5. Is(g, n)
      BY <3>4
    <3>6. QED
      BY <3>5
  <2>7. QED
    BY <2>5, <2>6
<1>3. Len(s) \in 1..Len(s)
  BY <1>1
<1>4. \E f : Is(f, Len(s))
  BY <1>2, <1>3
<1>5. Is(CHOOSE f : Is(f, Len(s)), Len(s))
  BY <1>4
<1>6. Reclaim!FlattenSeq(s) = (CHOOSE f : Is(f, Len(s)))[Len(s)]
  BY <1>1 DEF Reclaim!FlattenSeq
<1>7. QED
  BY <1>5, <1>6

\* The blocks of a queue are those of its items.
LEMMA PtrsAre ==
    ASSUME NEW q
    PROVE  Reclaim!Ptrs(q) = {x.ptr : x \in Reclaim!ToSet(q)}
BY DEF Reclaim!Ptrs, Reclaim!ToSet

\* What two queues are, one after the other.
LEMMA Concat ==
    ASSUME NEW a \in Seq(Item), NEW b \in Seq(Item)
    PROVE  /\ a \o b \in Seq(Item)
           /\ Reclaim!ToSet(a \o b) = Reclaim!ToSet(a) \cup Reclaim!ToSet(b)
           /\ Reclaim!Ptrs(a \o b) = Reclaim!Ptrs(a) \cup Reclaim!Ptrs(b)
           /\ Distinct(a) /\ Distinct(b) /\ Reclaim!Ptrs(a) \cap Reclaim!Ptrs(b) = {} => Distinct(a \o b)
<1>1. /\ a \o b \in Seq(Item) /\ DOMAIN (a \o b) = 1..Len(a) + Len(b)
      /\ DOMAIN a = 1..Len(a) /\ DOMAIN b = 1..Len(b) /\ Len(a) \in Nat /\ Len(b) \in Nat
  OBVIOUS
<1>2. \A k \in 1..Len(a) + Len(b) : (a \o b)[k] = IF k <= Len(a) THEN a[k] ELSE b[k - Len(a)]
  OBVIOUS
<1>3. \A k \in 1..Len(a) : k \in 1..Len(a) + Len(b) /\ (a \o b)[k] = a[k]
  BY <1>1, <1>2
<1>4. \A k \in 1..Len(b) : Len(a) + k \in 1..Len(a) + Len(b) /\ (a \o b)[Len(a) + k] = b[k]
  <2>1. SUFFICES ASSUME NEW k \in 1..Len(b)
                 PROVE  Len(a) + k \in 1..Len(a) + Len(b) /\ (a \o b)[Len(a) + k] = b[k]
    OBVIOUS
  <2>2. Len(a) + k \in 1..Len(a) + Len(b) /\ ~(Len(a) + k <= Len(a)) /\ Len(a) + k - Len(a) = k
    BY <1>1
  <2>3. QED
    BY <1>2, <2>2
<1>5. ASSUME NEW k \in 1..Len(a) + Len(b)
      PROVE  \/ k \in 1..Len(a) /\ (a \o b)[k] = a[k]
             \/ k - Len(a) \in 1..Len(b) /\ ~(k \in 1..Len(a)) /\ (a \o b)[k] = b[k - Len(a)]
  <2>1. k \in 1..Len(a) \/ (k - Len(a) \in 1..Len(b) /\ ~(k <= Len(a)) /\ ~(k \in 1..Len(a)))
    BY <1>1
  <2>2. QED
    BY <1>2, <1>3, <2>1
<1>6. Reclaim!ToSet(a \o b) = Reclaim!ToSet(a) \cup Reclaim!ToSet(b)
  <2>1. ASSUME NEW x PROVE x \in Reclaim!ToSet(a \o b) => x \in Reclaim!ToSet(a) \cup Reclaim!ToSet(b)
    BY <1>1, <1>5 DEF Reclaim!ToSet
  <2>2. ASSUME NEW x \in Reclaim!ToSet(a) PROVE x \in Reclaim!ToSet(a \o b)
    BY <1>1, <1>3 DEF Reclaim!ToSet
  <2>3. ASSUME NEW x \in Reclaim!ToSet(b) PROVE x \in Reclaim!ToSet(a \o b)
    BY <1>1, <1>4 DEF Reclaim!ToSet
  <2>4. QED
    BY <2>1, <2>2, <2>3
<1>7. Reclaim!Ptrs(a \o b) = Reclaim!Ptrs(a) \cup Reclaim!Ptrs(b)
  BY <1>6, PtrsAre
<1>8. ASSUME Distinct(a), Distinct(b), Reclaim!Ptrs(a) \cap Reclaim!Ptrs(b) = {} PROVE Distinct(a \o b)
  <2>1. SUFFICES ASSUME NEW j \in 1..Len(a) + Len(b), NEW k \in 1..Len(a) + Len(b),
                        (a \o b)[j].ptr = (a \o b)[k].ptr
                 PROVE  j = k
    BY <1>1 DEF Distinct
  <2>2. ASSUME NEW m \in 1..Len(a), NEW n \in 1..Len(b) PROVE a[m].ptr # b[n].ptr
    BY <1>1, <1>8 DEF Reclaim!Ptrs
  <2>3. CASE j \in 1..Len(a) /\ k \in 1..Len(a)
    BY <1>1, <1>3, <1>8, <2>1, <2>3 DEF Distinct
  <2>4. CASE j \in 1..Len(a) /\ k \notin 1..Len(a)
    BY <1>3, <1>5, <2>1, <2>2, <2>4
  <2>5. CASE j \notin 1..Len(a) /\ k \in 1..Len(a)
    BY <1>3, <1>5, <2>1, <2>2, <2>5
  <2>6. CASE j \notin 1..Len(a) /\ k \notin 1..Len(a)
    <3>1. /\ j - Len(a) \in DOMAIN b /\ (a \o b)[j] = b[j - Len(a)]
          /\ k - Len(a) \in DOMAIN b /\ (a \o b)[k] = b[k - Len(a)]
      BY <1>1, <1>5, <2>6
    <3>2. j - Len(a) = k - Len(a)
      BY <1>8, <2>1, <3>1 DEF Distinct
    <3>3. QED
      BY <1>1, <3>2
  <2>7. QED
    BY <2>3, <2>4, <2>5, <2>6
<1>9. QED
  BY <1>1, <1>6, <1>7, <1>8

\* All the items of queues that are put one after the other, and each once.
LEMMA Flattened ==
    ASSUME NEW s \in Seq(Seq(Item))
    PROVE  /\ Reclaim!FlattenSeq(s) \in Seq(Item)
           /\ \A x : x \in Reclaim!ToSet(Reclaim!FlattenSeq(s)) <=> \E k \in DOMAIN s : x \in Reclaim!ToSet(s[k])
           /\ (/\ \A k \in DOMAIN s : Distinct(s[k])
               /\ \A j, k \in DOMAIN s : j # k => Reclaim!Ptrs(s[j]) \cap Reclaim!Ptrs(s[k]) = {})
              => Distinct(Reclaim!FlattenSeq(s))
<1> DEFINE Separate == /\ \A k \in DOMAIN s : Distinct(s[k])
                    /\ \A j, k \in DOMAIN s : j # k => Reclaim!Ptrs(s[j]) \cap Reclaim!Ptrs(s[k]) = {}
<1>1. CASE s = <<>>
  <2>1. Reclaim!FlattenSeq(s) = <<>> /\ DOMAIN s = {} /\ DOMAIN <<>> = {}
    BY <1>1 DEF Reclaim!FlattenSeq
  <2>2. QED
    BY <2>1 DEF Reclaim!ToSet, Distinct
<1>2. CASE s # <<>>
  <2>1. PICK f : /\ f = [n \in 1..Len(s) |-> IF n = 1 THEN s[n] ELSE f[n - 1] \o s[n]]
                 /\ Reclaim!FlattenSeq(s) = f[Len(s)]
    BY <1>2, FlattenSteps, Zenon
  <2>2. Len(s) \in Nat /\ Len(s) \in 1..Len(s) /\ DOMAIN s = 1..Len(s) /\ \A k \in 1..Len(s) : s[k] \in Seq(Item)
    BY <1>2
  <2> DEFINE Good(n) == /\ f[n] \in Seq(Item)
                        /\ \A x : x \in Reclaim!ToSet(f[n]) <=> \E k \in 1..n : x \in Reclaim!ToSet(s[k])
                        /\ Separate => Distinct(f[n])
             Bad == {n \in 1..Len(s) : ~Good(n)}
  <2>3. Bad \in SUBSET Nat
    <3>1. 1..Len(s) \in SUBSET Nat
      BY <2>2
    <3> HIDE DEF Good
    <3>2. QED
      BY <3>1
  <2>4. f[1] = s[1]
    BY <2>1, <2>2
  <2>5. Good(1)
    <3>1. 1 \in 1..Len(s) /\ \A k \in 1..1 : k = 1
      BY <2>2
    <3>2. f[1] \in Seq(Item) /\ (Separate => Distinct(f[1]))
      BY <2>2, <2>4, <3>1
    <3>3. ASSUME NEW x PROVE x \in Reclaim!ToSet(f[1]) <=> \E k \in 1..1 : x \in Reclaim!ToSet(s[k])
      BY <2>4, <3>1
    <3>4. QED
      BY <3>2, <3>3
  <2>6. ASSUME NEW n \in 1..Len(s), n # 1, Good(n - 1) PROVE Good(n)
    <3>1. n \in Nat /\ n - 1 \in 1..Len(s) /\ n - 1 \in 1..n /\ n \in 1..n /\ 1..n = (1..n - 1) \cup {n}
          /\ n \notin 1..n - 1 /\ 1..n \subseteq 1..Len(s)
      BY <2>2, <2>6
    <3>2. f[n] = f[n - 1] \o s[n]
      BY <2>1, <2>6
    <3>3. f[n - 1] \in Seq(Item) /\ s[n] \in Seq(Item)
      BY <2>2, <2>6
    <3>4. f[n] \in Seq(Item) /\ Reclaim!ToSet(f[n]) = Reclaim!ToSet(f[n - 1]) \cup Reclaim!ToSet(s[n])
      BY <3>2, <3>3, Concat
    <3>5. ASSUME NEW x PROVE x \in Reclaim!ToSet(f[n]) <=> \E k \in 1..n : x \in Reclaim!ToSet(s[k])
      <4>1. x \in Reclaim!ToSet(f[n - 1]) <=> \E k \in 1..n - 1 : x \in Reclaim!ToSet(s[k])
        BY <2>6
      <4>2. QED
        BY <3>1, <3>4, <4>1, Zenon
    <3>6. ASSUME Separate PROVE Distinct(f[n])
      <4>1. Distinct(f[n - 1]) /\ Distinct(s[n])
        BY <2>2, <2>6, <3>6
      <4>2. ASSUME NEW x \in Reclaim!ToSet(f[n - 1]) PROVE x.ptr \notin Reclaim!Ptrs(s[n])
        <5>1. PICK k \in 1..n - 1 : x \in Reclaim!ToSet(s[k])
          BY <2>6, Zenon
        <5>2. k # n /\ k \in DOMAIN s /\ n \in DOMAIN s
          BY <2>2, <3>1
        <5>3. x.ptr \in Reclaim!Ptrs(s[k])
          BY <5>1, PtrsAre
        <5>4. Reclaim!Ptrs(s[k]) \cap Reclaim!Ptrs(s[n]) = {}
          BY <3>6, <5>2
        <5>5. QED
          BY <5>3, <5>4
      <4>3. Reclaim!Ptrs(f[n - 1]) \cap Reclaim!Ptrs(s[n]) = {}
        BY <4>2, PtrsAre
      <4>4. QED
        BY <3>2, <3>3, <4>1, <4>3, Concat
    <3>7. QED
      BY <3>4, <3>5, <3>6
  <2>7. Bad = {}
    <3> HIDE DEF Good
    <3>1. SUFFICES ASSUME Bad # {} PROVE FALSE
      OBVIOUS
    <3>2. PICK n \in Bad : \A m \in Bad : n <= m
      <4> HIDE DEF Bad
      <4>1. QED
        BY <2>3, <3>1, LeastNat
    <3>3. n \in 1..Len(s) /\ n # 1 /\ ~Good(n)
      BY <2>5
    <3>4. n - 1 \in 1..Len(s) /\ ~(n <= n - 1)
      BY <2>2, <3>3
    <3>5. n - 1 \notin Bad
      <4> HIDE DEF Bad
      <4>1. QED
        BY <3>2, <3>4
    <3>6. QED
      BY <2>6, <3>3, <3>4, <3>5
  <2>8. Good(Len(s))
    <3> HIDE DEF Good
    <3>1. QED
      BY <2>2, <2>7
  <2>9. QED
    BY <2>1, <2>2, <2>8
<1>3. QED
  BY <1>1, <1>2

\* A finite set in some order, with each member once.
LEMMA SeqOfSet ==
    ASSUME NEW S, IsFiniteSet(S)
    PROVE  /\ Reclaim!SetToSeq(S) \in [1..Cardinality(S) -> S] /\ Cardinality(S) \in Nat
           /\ Reclaim!IsInjective(Reclaim!SetToSeq(S))
           /\ \A x \in S : \E k \in 1..Cardinality(S) : Reclaim!SetToSeq(S)[k] = x
<1>1. /\ Cardinality(S) \in Nat
      /\ \E g \in [1..Cardinality(S) -> S] : Reclaim!IsInjective(g)
  BY FS_CardinalityType DEF ExistsBijection, Bijection, Injection, IsInjective, Reclaim!IsInjective
<1>2. Reclaim!SetToSeq(S) \in [1..Cardinality(S) -> S] /\ Reclaim!IsInjective(Reclaim!SetToSeq(S))
  BY <1>1, Sizes DEF Reclaim!SetToSeq
<1>3. Cardinality(1..Cardinality(S)) = Cardinality(S)
  BY <1>1, FS_Interval
<1>4. Reclaim!SetToSeq(S) \in Surjection(1..Cardinality(S), S)
  <2>1. Reclaim!SetToSeq(S) \in Injection(1..Cardinality(S), S)
    BY <1>2 DEF Injection, IsInjective, Reclaim!IsInjective
  <2>2. QED
    BY <1>3, <2>1, FS_Injection
<1>5. QED
  BY <1>1, <1>2, <1>4 DEF Surjection

\* The queues of S, one after the other.
MergedOf(q, S) ==
    LET order == Reclaim!SetToSeq(S) IN Reclaim!FlattenSeq([k \in DOMAIN order |-> q[order[k]]])

\* Merging the queues of threads keeps what is in them.
LEMMA MergedItems ==
    ASSUME NEW q \in [Reclaimers -> Seq(Item)], NEW S \in SUBSET Reclaimers, IsFiniteSet(S)
    PROVE  /\ MergedOf(q, S) \in Seq(Item)
           /\ \A x : x \in Reclaim!ToSet(MergedOf(q, S)) <=> \E u \in S : x \in Reclaim!ToSet(q[u])
           /\ Apart(q, S) => Distinct(MergedOf(q, S))
<1> DEFINE order == Reclaim!SetToSeq(S)
           s == [k \in DOMAIN order |-> q[order[k]]]
<1>1. /\ order \in [1..Cardinality(S) -> S] /\ Cardinality(S) \in Nat
      /\ \A j, k \in 1..Cardinality(S) : order[j] = order[k] => j = k
      /\ \A u \in S : \E k \in 1..Cardinality(S) : order[k] = u
  BY SeqOfSet DEF Reclaim!IsInjective
<1> HIDE DEF order
<1>2. /\ s \in Seq(Seq(Item)) /\ DOMAIN s = 1..Cardinality(S)
      /\ \A k \in DOMAIN s : s[k] = q[order[k]] /\ order[k] \in S
  <2>1. DOMAIN order = 1..Cardinality(S) /\ \A k \in 1..Cardinality(S) : order[k] \in S
    BY <1>1
  <2>2. \A k \in 1..Cardinality(S) : q[order[k]] \in Seq(Item)
    BY <2>1
  <2>3. s = [k \in 1..Cardinality(S) |-> q[order[k]]]
    BY <2>1
  <2>4. s \in Seq(Seq(Item))
    BY <1>1, <2>2, <2>3
  <2>5. QED
    BY <2>1, <2>3, <2>4
<1>3. MergedOf(q, S) = Reclaim!FlattenSeq(s)
  BY DEF MergedOf, order
<1> HIDE DEF s
<1>4. /\ Reclaim!FlattenSeq(s) \in Seq(Item)
      /\ \A x : x \in Reclaim!ToSet(Reclaim!FlattenSeq(s)) <=> \E k \in DOMAIN s : x \in Reclaim!ToSet(s[k])
      /\ (/\ \A k \in DOMAIN s : Distinct(s[k])
          /\ \A j, k \in DOMAIN s : j # k => Reclaim!Ptrs(s[j]) \cap Reclaim!Ptrs(s[k]) = {})
         => Distinct(Reclaim!FlattenSeq(s))
  BY <1>2, Flattened
<1>5. ASSUME NEW x PROVE x \in Reclaim!ToSet(Reclaim!FlattenSeq(s)) <=> \E u \in S : x \in Reclaim!ToSet(q[u])
  <2>1. ASSUME NEW k \in DOMAIN s, x \in Reclaim!ToSet(s[k]) PROVE \E u \in S : x \in Reclaim!ToSet(q[u])
    BY <1>2, <2>1
  <2>2. ASSUME NEW u \in S, x \in Reclaim!ToSet(q[u]) PROVE \E k \in DOMAIN s : x \in Reclaim!ToSet(s[k])
    <3>1. PICK k \in 1..Cardinality(S) : order[k] = u
      BY <1>1
    <3>2. k \in DOMAIN s /\ s[k] = q[u]
      BY <1>2, <3>1
    <3>3. QED
      BY <2>2, <3>2
  <2>3. QED
    BY <1>4, <2>1, <2>2
<1>6. ASSUME Apart(q, S) PROVE Distinct(Reclaim!FlattenSeq(s))
  <2>1. \A k \in DOMAIN s : Distinct(s[k])
    BY <1>2, <1>6 DEF Apart
  <2>2. ASSUME NEW j \in DOMAIN s, NEW k \in DOMAIN s, j # k PROVE Reclaim!Ptrs(s[j]) \cap Reclaim!Ptrs(s[k]) = {}
    <3>1. order[j] # order[k]
      BY <1>1, <1>2, <2>2
    <3>2. QED
      BY <1>2, <1>6, <3>1 DEF Apart
  <2>3. QED
    BY <1>4, <2>1, <2>2
<1>7. QED
  BY <1>3, <1>4, <1>5, <1>6

\* Each of the slots of a set is pushed, and once.
LEMMA PushedSlots ==
    ASSUME NEW S \in SUBSET Nat, IsFiniteSet(S)
    PROVE  /\ Reclaim!Pushed(S) \in Seq(S) /\ Reclaim!IsInjective(Reclaim!Pushed(S))
           /\ Reclaim!ToSet(Reclaim!Pushed(S)) = S
<1> DEFINE From(n) == {m \in S : m >= n}
           rank == [n \in S |-> Cardinality(From(n))]
           size == Cardinality(S)
<1>1. size \in Nat /\ IsFiniteSet(1..size) /\ Cardinality(1..size) = size
  BY FS_CardinalityType, FS_Interval
<1>2. ASSUME NEW n \in S
      PROVE  /\ IsFiniteSet(From(n)) /\ From(n) \in SUBSET S /\ n \in From(n)
             /\ Cardinality(From(n)) \in 1..size
  <2>1. From(n) \in SUBSET S /\ n \in From(n)
    OBVIOUS
  <2>2. IsFiniteSet(From(n)) /\ Cardinality(From(n)) <= size
    BY <2>1, FS_Subset
  <2>3. Cardinality(From(n)) \in Nat /\ Cardinality(From(n)) # 0
    BY <2>1, <2>2, FS_CardinalityType, FS_EmptySet
  <2>4. QED
    BY <1>1, <2>1, <2>2, <2>3
<1>3. ASSUME NEW a \in S, NEW b \in S, a < b PROVE Cardinality(From(a)) # Cardinality(From(b))
  <2>0. a \in Nat /\ b \in Nat /\ \A m \in S : m \in Nat
    OBVIOUS
  <2>3. \A m \in S : m >= b => m >= a
    BY <1>3, <2>0
  <2>4. a >= a /\ ~(a >= b)
    BY <1>3, <2>0
  <2>1. From(b) \in SUBSET From(a) /\ a \in From(a) /\ a \notin From(b)
    BY <2>3, <2>4
  <2>2. QED
    BY <1>2, <2>1, FS_Subset
<1>4. \A a, b \in S : Cardinality(From(a)) = Cardinality(From(b)) => a = b
  <2>1. ASSUME NEW a \in S, NEW b \in S, a # b PROVE a < b \/ b < a
    BY <2>1
  <2> HIDE DEF From
  <2>2. QED
    BY <1>3, <2>1
<1>5. rank \in Injection(S, 1..size)
  BY <1>2, <1>4 DEF Injection, IsInjective, Reclaim!IsInjective
<1>6. rank \in Surjection(S, 1..size)
  BY <1>1, <1>5, FS_Injection
<1>7. \A k \in 1..size : \E n \in S : Cardinality(From(n)) = k
  BY <1>6 DEF Surjection
<1>8. Reclaim!Pushed(S) = [k \in 1..size |-> CHOOSE n \in S : Reclaim!Cardinality(From(n)) = k]
  <2>1. Reclaim!Cardinality(S) = size
    BY Sizes
  <2>2. QED
    BY <2>1 DEF Reclaim!Pushed
<1>9. \A k \in 1..size : Reclaim!Pushed(S)[k] \in S /\ Cardinality(From(Reclaim!Pushed(S)[k])) = k
  <2>1. \A k \in 1..size : \E n \in S : Reclaim!Cardinality(From(n)) = k
    BY <1>7, Sizes
  <2>2. \A k \in 1..size : Reclaim!Pushed(S)[k] \in S /\ Reclaim!Cardinality(From(Reclaim!Pushed(S)[k])) = k
    BY <1>8, <2>1
  <2>3. QED
    BY <2>2, Sizes
<1> HIDE DEF From
<1>10. Reclaim!Pushed(S) \in Seq(S) /\ DOMAIN Reclaim!Pushed(S) = 1..size
  BY <1>1, <1>8, <1>9
<1>11. Reclaim!IsInjective(Reclaim!Pushed(S))
  BY <1>9, <1>10 DEF Reclaim!IsInjective
<1>12. ASSUME NEW n \in S PROVE n \in Reclaim!ToSet(Reclaim!Pushed(S))
  <2>1. PICK k \in 1..size : Cardinality(From(n)) = k
    BY <1>2
  <2>2. Reclaim!Pushed(S)[k] = n
    BY <1>4, <1>9, <2>1
  <2>3. QED
    BY <1>10, <2>2 DEF Reclaim!ToSet
<1>13. Reclaim!ToSet(Reclaim!Pushed(S)) \subseteq S
  BY <1>9, <1>10 DEF Reclaim!ToSet
<1>14. QED
  BY <1>10, <1>11, <1>12, <1>13

\* The minimum of a set of numbers is one of them, and none is less.
LEMMA LeastIs ==
    ASSUME NEW S \in SUBSET Nat, S # {}
    PROVE  Reclaim!Min(S) \in S /\ \A n \in S : Reclaim!Min(S) <= n
BY LeastNat DEF Reclaim!Min

\* A collection frees a queue all of whose goals are reached, and leaves nothing.
LEMMA AllReady ==
    ASSUME NEW q \in Seq(Item), NEW s \in Nat, \A x \in Reclaim!ToSet(q) : x.goal <= s
    PROVE  Reclaim!Ready(q, s) = q /\ Reclaim!Rest(q, s) = <<>>
<1>1. ASSUME NEW k \in DOMAIN q PROVE ~(q[k].goal > s)
  <2>1. q[k] \in Item /\ q[k] \in Reclaim!ToSet(q)
    BY DEF Reclaim!ToSet
  <2>2. QED
    BY <2>1 DEF Item
<1>2. {k \in DOMAIN q : q[k].goal > s} = {}
  BY <1>1
<1>3. Reclaim!Ready(q, s) = q
  BY <1>2 DEF Reclaim!Ready
<1>4. SubSeq(q, Len(q) + 1, Len(q)) = <<>>
  OBVIOUS
<1>5. QED
  BY <1>3, <1>4 DEF Reclaim!Rest

\* What a scan of all slots finds when no thread moves.
LEMMA MinimumIs ==
    ASSUME NEW slot \in Seq(Reclaim!Slot), NEW limit \in Nat
    PROVE  /\ Reclaim!Minimum(slot, limit) \in Nat /\ Reclaim!Minimum(slot, limit) <= limit
           /\ (\A k \in DOMAIN slot : slot[k].seq \in {Reclaim!QSBR_OFFLINE, limit}) => Reclaim!Minimum(slot, limit) = limit
<1> DEFINE S == {limit} \cup ({slot[k].seq : k \in DOMAIN slot} \ {Reclaim!QSBR_OFFLINE})
<1>1. S \in SUBSET Nat /\ limit \in S
  <2>1. ASSUME NEW k \in DOMAIN slot PROVE slot[k].seq \in Nat
    <3>1. slot[k] \in Reclaim!Slot
      OBVIOUS
    <3>2. QED
      BY <3>1 DEF Reclaim!Slot
  <2>2. QED
    BY <2>1
<1>2. Reclaim!Min(S) \in S /\ \A n \in S : Reclaim!Min(S) <= n
  <2> HIDE DEF S
  <2>1. QED
    BY <1>1, LeastIs
<1>3. Reclaim!Minimum(slot, limit) = Reclaim!Min(S)
  BY DEF Reclaim!Minimum
<1>4. (\A k \in DOMAIN slot : slot[k].seq \in {Reclaim!QSBR_OFFLINE, limit}) => S = {limit}
  OBVIOUS
<1> HIDE DEF S
<1>5. QED
  BY <1>1, <1>2, <1>3, <1>4

\* The greater of two numbers.
LEMMA GreaterIs ==
    ASSUME NEW a \in Nat, NEW b \in Nat
    PROVE  Reclaim!Max({a, b}) = IF a >= b THEN a ELSE b
<1>1. \A x \in {a, b} : (\A y \in {a, b} : x >= y) <=> x = IF a >= b THEN a ELSE b
  OBVIOUS
<1>2. QED
  BY <1>1 DEF Reclaim!Max

\* The slot of a thread that has one.
LEMMA SlotFacts ==
    ASSUME ReclaimTypes, NEW t \in Reclaimers, qsbr[t] # 0
    PROVE  /\ qsbr[t] \in DOMAIN array /\ array[qsbr[t]] \in Reclaim!Slot
           /\ array[qsbr[t]].seq \in Nat
<1>1. array \in Seq(Reclaim!Slot) /\ qsbr[t] \in 0..Len(array)
  BY DEF ReclaimTypes, Reclaim!TypeOK
<1>2. qsbr[t] \in DOMAIN array
  BY <1>1
<1>3. array[qsbr[t]] \in Reclaim!Slot
  BY <1>1, <1>2
<1>4. QED
  BY <1>2, <1>3 DEF Reclaim!Slot

\* One slot is written to.
LEMMA SlotChange ==
    ASSUME NEW a \in Seq(Reclaim!Slot), NEW k \in DOMAIN a, NEW x \in Reclaim!Slot, NEW b,
           b = [a EXCEPT ![k] = x]
    PROVE  /\ b \in Seq(Reclaim!Slot) /\ DOMAIN b = DOMAIN a /\ Len(b) = Len(a)
           /\ b[k] = x /\ \A j \in DOMAIN a \ {k} : b[j] = a[j]
OBVIOUS

\* The queues as functions.
LEMMA QueuesTyped ==
    ASSUME NEW q \in [Reclaimers -> Seq(Item)], NEW h \in Seq(Item)
    PROVE  /\ QueuesOf(q, h) \in [QueuePlaces -> Seq(Item)]
           /\ QueuesOf(q, h)[NoThread] = h
           /\ \A t \in Reclaimers : QueuesOf(q, h)[t] = q[t]
           /\ NoThread \in QueuePlaces /\ NoThread \notin Reclaimers /\ Reclaimers \subseteq QueuePlaces
BY ReclaimersAre DEF QueuesOf, QueuePlaces

\* The queues of the threads and that of the interpreter, as one function.
LEMMA QueuesAre ==
    ASSUME ReclaimTypes
    PROVE  /\ Queues \in [QueuePlaces -> Seq(Item)]
           /\ Queues[NoThread] = interp.head
           /\ \A t \in Reclaimers : Queues[t] = queue[t]
           /\ \A x \in Queued : x \in Item /\ x.goal \in Nat /\ x.ptr \in Blocks
<1>1. queue \in [Reclaimers -> Seq(Item)] /\ interp.head \in Seq(Item)
  BY DEF ReclaimTypes, Reclaim!TypeOK, Item
<1>2. /\ Queues \in [QueuePlaces -> Seq(Item)]
      /\ Queues[NoThread] = interp.head
      /\ \A t \in Reclaimers : Queues[t] = queue[t]
  BY <1>1, QueuesTyped DEF Queues
<1>3. ASSUME NEW x \in Queued PROVE x \in Item
  <2>1. PICK w \in QueuePlaces : x \in Reclaim!ToSet(Queues[w])
    BY DEF Queued
  <2>2. Queues[w] \in Seq(Item)
    BY <1>2
  <2>3. QED
    BY <2>1, <2>2 DEF Reclaim!ToSet
<1>4. QED
  BY <1>2, <1>3 DEF Item

\* A thread that waits for the interpreter's queue is woken.
Woken(u) == q_pc[u] = "parked" /\ q_pc'[u] = "detached" /\ resume'[u] = "abandon"

\* The slots, when only threads move that have none or whose slots they fit.
LEMMA SlotsKept ==
    ASSUME ReclaimTypes, Slots, UNCHANGED Reclaim!slots, wr_seq' \in Nat, wr_seq <= wr_seq',
           \A t \in Reclaimers :
              \/ q_pc'[t] = q_pc[t]
              \/ q_pc[t] \in Active /\ q_pc'[t] \in Active
              \/ q_pc[t] \in Inactive \ {"new"} /\ q_pc'[t] \in Inactive \ {"new"}
    PROVE  Slots'
<1>1. ASSUME NEW t \in Reclaimers PROVE qsbr'[t] = 0 <=> q_pc'[t] = "none"
  BY DEF Slots, Reclaim!slots, Active, Inactive, Processing
<1>2. ASSUME NEW t \in Reclaimers, qsbr'[t] # 0 PROVE SlotOf(t)'
  <2>1. SlotOf(t) /\ array[qsbr[t]].seq \in Nat /\ array' = array /\ qsbr' = qsbr
    BY <1>2, SlotFacts DEF Slots, Reclaim!slots
  <2>2. /\ q_pc'[t] = "new" <=> q_pc[t] = "new"
        /\ q_pc'[t] \in Inactive => q_pc[t] \in Inactive
        /\ q_pc'[t] \in Active => q_pc[t] \in Active
    BY DEF Active, Inactive, Processing
  <2>3. wr_seq \in Nat
    BY DEF ReclaimTypes, Reclaim!TypeOK
  <2>4. QED
    BY <2>1, <2>2, <2>3 DEF SlotOf
<1>3. QED
  BY <1>1, <1>2 DEF Slots, Reclaim!slots

\* The locals of a thread that does nothing.
LEMMA LocalsKept ==
    ASSUME ReclaimTypes, Locals, NEW u \in Reclaimers, wr_seq' \in Nat, wr_seq <= wr_seq',
           q_pc'[u] = q_pc[u], seq'[u] = seq[u], min_seq'[u] = min_seq[u], i'[u] = i[u],
           removed'[u] = removed[u], resume'[u] = resume[u],
           q_pc[u] \in {"scan", "update", "polled"} => Reclaim!Work(u)' = Reclaim!Work(u),
           interp'.mutex = u => interp.mutex = u
    PROVE  LocalsOf(u)'
<1>1. LocalsOf(u) /\ seq[u] \in Nat /\ min_seq[u] \in Nat /\ wr_seq \in Nat
  BY DEF ReclaimTypes, Reclaim!TypeOK, Locals
<1>2. q_pc[u] \in {"scan", "update", "polled"} => Reclaim!Work(u)' # <<>>
  BY <1>1 DEF LocalsOf
<1>3. QED
  BY <1>1, <1>2 DEF LocalsOf

\* No thread state is being created, or goes on being created.
LEMMA ChildrenKept ==
    ASSUME Children, UNCHANGED child,
           \A t \in Reclaimers : /\ Creating(t)' <=> Creating(t)
                                 /\ q_pc[t] = "new" => q_pc'[t] = "new",
           ReclaimTypes
    PROVE  Children'
<1>1. \A t \in Reclaimers : child[t] # NoThread => child[t] \in Reclaimers
  BY DEF ReclaimTypes, Reclaim!TypeOK
<1>2. QED
  BY <1>1 DEF Children

\* The queues lose items, which are freed.
LEMMA KeptShrinks ==
    ASSUME ReclaimTypes, Kept, Apart(Queues', QueuePlaces), Queued' \subseteq Queued,
           UNCHANGED <<shared, removed>>, wr_seq' \in Nat, wr_seq <= wr_seq',
           \A b \in freed' \ freed : /\ \E x \in Queued : x.ptr = b
                                     /\ \A x \in Queued' : x.ptr # b
    PROVE  Kept'
<1>1. \A x \in Queued : x.goal \in Nat
  BY QueuesAre
<1>2. wr_seq \in Nat
  BY DEF ReclaimTypes, Reclaim!TypeOK
<1>3. shared' \notin freed'
  BY DEF Kept
<1>4. ASSUME NEW x \in Queued'
      PROVE  x.ptr \notin freed' /\ x.ptr # shared' /\ x.goal <= wr_seq' + Reclaim!QSBR_INCR
  <2>1. x \in Queued /\ x.goal \in Nat
    BY <1>1
  <2>2. x.ptr \notin freed /\ x.ptr # shared /\ x.goal <= wr_seq + Reclaim!QSBR_INCR
    BY <2>1 DEF Kept
  <2>3. x.goal <= wr_seq' + Reclaim!QSBR_INCR
    BY <1>2, <2>1, <2>2 DEF Reclaim!QSBR_INCR
  <2>4. QED
    BY <2>2, <2>3
<1>5. ASSUME NEW t \in Reclaimers, removed'[t] # NoBlock
      PROVE  /\ removed'[t] \notin freed' /\ removed'[t] # shared'
             /\ \A x \in Queued' : x.ptr # removed'[t]
             /\ \A u \in Reclaimers : removed'[t] = removed'[u] => t = u
  BY <1>5 DEF Kept
<1>6. QED
  BY <1>3, <1>4, <1>5 DEF Kept

\* The blocks stay where they are, and the write sequence does not go back.
LEMMA KeptKept ==
    ASSUME ReclaimTypes, Kept, UNCHANGED <<queue, interp, shared, freed, removed>>,
           wr_seq' \in Nat, wr_seq <= wr_seq'
    PROVE  Kept' /\ Queued' = Queued
<1>1. Queues' = Queues
  BY DEF Queues, QueuesOf
<1>2. Queued' = Queued
  BY <1>1 DEF Queued
<1>3. Apart(Queues', QueuePlaces)
  BY <1>1 DEF Kept
<1>4. QED
  BY <1>2, <1>3, KeptShrinks

\* The threads that hold a block, when nobody takes another and no scan
\* gets any further.
LEMMA HeldKept ==
    ASSUME ReclaimTypes, Slots, Held, Queued' \subseteq Queued,
           \A t \in Reclaimers : holds'[t] # NoBlock =>
              /\ holds'[t] = holds[t] /\ holds[t] \notin freed' \ freed
              /\ q_pc'[t] \in Active \ {"quiescent", "cleared", "abandon"}
              /\ \A goal \in Nat : NotPassed(t, goal) => NotPassed(t, goal)'
    PROVE  Held'
<1>1. \A x \in Queued : x.goal \in Nat
  BY QueuesAre
<1>2. ASSUME NEW t \in Reclaimers, holds'[t] # NoBlock
      PROVE  /\ q_pc'[t] \in Active \ {"quiescent", "cleared", "abandon"}
             /\ holds'[t] \notin freed'
             /\ \A x \in Queued' : x.ptr = holds'[t] => NotPassed(t, x.goal)'
  <2>1. /\ holds'[t] = holds[t] /\ q_pc'[t] \in Active \ {"quiescent", "cleared", "abandon"}
        /\ \A goal \in Nat : NotPassed(t, goal) => NotPassed(t, goal)'
        /\ holds[t] \notin freed'
    BY <1>2 DEF Held
  <2>2. ASSUME NEW x \in Queued', x.ptr = holds'[t] PROVE NotPassed(t, x.goal)'
    <3>1. x \in Queued /\ x.goal \in Nat
      BY <1>1
    <3>2. NotPassed(t, x.goal)
      BY <1>2, <2>1, <2>2, <3>1 DEF Held
    <3>3. QED
      BY <2>1, <3>1, <3>2
  <2>3. QED
    BY <2>1, <2>2
<1>3. QED
  BY <1>2 DEF Held

\* The goals of a holder stay ahead when t is the only one to scan, or polls.
LEMMA NotPassedKept ==
    ASSUME NEW t \in Reclaimers, NEW u \in Reclaimers, NEW goal \in Nat, NotPassed(u, goal),
           array'[qsbr'[u]].seq = array[qsbr[u]].seq, qsbr'[u] = qsbr[u], rd_seq' < goal,
           \A p \in Reclaimers \ {t} : /\ q_pc'[p] = q_pc[p] \/ q_pc'[p] = "detached"
                                       /\ min_seq'[p] = min_seq[p] /\ i'[p] = i[p] /\ seq'[p] = seq[p],
           q_pc'[t] = "scan" /\ qsbr[u] < i'[t] => min_seq'[t] < goal,
           q_pc'[t] = "update" => min_seq'[t] < goal,
           q_pc'[t] = "polled" => seq'[t] < goal
    PROVE  NotPassed(u, goal)'
BY DEF NotPassed

\* The holders when t moves: the others may only let go.
LEMMA HeldMoves ==
    ASSUME ReclaimInv, NEW t \in Reclaimers, Queued' \subseteq Queued,
           \A u \in Reclaimers \ {t} :
              /\ q_pc'[u] = q_pc[u] \/ (q_pc[u] = "parked" /\ q_pc'[u] = "detached")
              /\ min_seq'[u] = min_seq[u] /\ i'[u] = i[u] /\ seq'[u] = seq[u],
           \A u \in Reclaimers : holds'[u] # NoBlock =>
              /\ holds'[u] = holds[u] /\ holds[u] \notin freed' \ freed
              /\ qsbr'[u] = qsbr[u] /\ array'[qsbr'[u]].seq = array[qsbr[u]].seq,
           holds'[t] # NoBlock => q_pc'[t] \in Active \ {"quiescent", "cleared", "abandon"},
           \A u \in Reclaimers, goal \in Nat :
              holds[u] # NoBlock /\ NotPassed(u, goal) =>
                 /\ rd_seq' < goal
                 /\ q_pc'[t] = "scan" /\ qsbr[u] < i'[t] => min_seq'[t] < goal
                 /\ q_pc'[t] = "update" => min_seq'[t] < goal
                 /\ q_pc'[t] = "polled" => seq'[t] < goal
    PROVE  Held'
<1>1. ASSUME NEW u \in Reclaimers, holds'[u] # NoBlock
      PROVE  /\ holds'[u] = holds[u] /\ holds[u] \notin freed' \ freed
             /\ q_pc'[u] \in Active \ {"quiescent", "cleared", "abandon"}
             /\ \A goal \in Nat : NotPassed(u, goal) => NotPassed(u, goal)'
  <2>1. holds'[u] = holds[u] /\ holds[u] \notin freed' \ freed
    BY <1>1
  <2>2. q_pc'[u] \in Active \ {"quiescent", "cleared", "abandon"}
    BY <1>1, <2>1 DEF ReclaimInv, Held, Active, Processing
  <2>3. ASSUME NEW goal \in Nat, NotPassed(u, goal) PROVE NotPassed(u, goal)'
    BY <1>1, <2>1, <2>3, NotPassedKept
  <2>4. QED
    BY <2>1, <2>2, <2>3
<1>2. QED
  BY <1>1, HeldKept DEF ReclaimInv

\* A thread moves, and changes no slot.
LEMMA Moves ==
    ASSUME ReclaimInv, NEW t \in Reclaimers, ReclaimTypes',
           UNCHANGED <<wr_seq, Reclaim!slots, child>>,
           Kept', Queued' \subseteq Queued,
           \A u \in Reclaimers \ {t} :
              /\ seq'[u] = seq[u] /\ min_seq'[u] = min_seq[u] /\ i'[u] = i[u]
              /\ holds'[u] = holds[u] /\ removed'[u] = removed[u]
              /\ \/ /\ q_pc'[u] = q_pc[u] /\ resume'[u] = resume[u]
                    /\ Reclaim!Work(u)' = Reclaim!Work(u) /\ (interp'.mutex = u => interp.mutex = u)
                 \/ Woken(u),
           \/ q_pc'[t] = q_pc[t]
           \/ q_pc[t] \in Active /\ q_pc'[t] \in Active
           \/ q_pc[t] \in Inactive \ {"new"} /\ q_pc'[t] \in Inactive \ {"new"},
           Creating(t)' <=> Creating(t),
           LocalsOf(t)', rd_seq' <= wr_seq,
           \/ holds'[t] = NoBlock
           \/ holds'[t] = holds[t] /\ q_pc'[t] \in Active \ {"quiescent", "cleared", "abandon"},
           \A u \in Reclaimers : holds[u] # NoBlock => holds[u] \notin freed' \ freed,
           \A u \in Reclaimers, goal \in Nat :
              holds[u] # NoBlock /\ NotPassed(u, goal) =>
                 /\ rd_seq' < goal
                 /\ q_pc'[t] = "scan" /\ qsbr[u] < i'[t] => min_seq'[t] < goal
                 /\ q_pc'[t] = "update" => min_seq'[t] < goal
                 /\ q_pc'[t] = "polled" => seq'[t] < goal
    PROVE  ReclaimInv'
<1>1. wr_seq \in Nat /\ wr_seq' \in Nat /\ wr_seq <= wr_seq'
  BY DEF ReclaimInv, ReclaimTypes, Reclaim!TypeOK
<1>2. Slots'
  <2>1. \A u \in Reclaimers :
           \/ q_pc'[u] = q_pc[u]
           \/ q_pc[u] \in Active /\ q_pc'[u] \in Active
           \/ q_pc[u] \in Inactive \ {"new"} /\ q_pc'[u] \in Inactive \ {"new"}
    BY DEF Woken, Inactive
  <2>2. QED
    BY <1>1, <2>1, SlotsKept DEF ReclaimInv
<1>3. Locals'
  <2>1. ASSUME NEW u \in Reclaimers \ {t} PROVE LocalsOf(u)'
    <3>1. CASE Woken(u)
      <4>1. removed'[u] = NoBlock /\ q_pc'[u] = "detached" /\ resume'[u] = "abandon"
        BY <3>1 DEF ReclaimInv, Locals, LocalsOf, Woken
      <4>2. QED
        BY <4>1 DEF LocalsOf
    <3>2. CASE ~Woken(u)
      BY <1>1, <3>2, LocalsKept DEF ReclaimInv
    <3>3. QED
      BY <3>1, <3>2
  <2>2. QED
    BY <2>1 DEF ReclaimInv, Locals
<1>4. Children'
  <2>1. \A u \in Reclaimers : /\ Creating(u)' <=> Creating(u)
                              /\ q_pc[u] = "new" => q_pc'[u] = "new"
    BY DEF Creating, Active, Inactive, Processing, Woken
  <2>2. QED
    BY <2>1, ChildrenKept DEF ReclaimInv
<1>5. Held'
  <2>1. \A u \in Reclaimers : holds'[u] # NoBlock => holds'[u] = holds[u]
    OBVIOUS
  <2>2. \A u \in Reclaimers : qsbr'[u] = qsbr[u] /\ array'[qsbr'[u]].seq = array[qsbr[u]].seq
    BY DEF Reclaim!slots
  <2>3. \A u \in Reclaimers \ {t} : q_pc'[u] = q_pc[u] \/ (q_pc[u] = "parked" /\ q_pc'[u] = "detached")
    BY DEF Woken
  <2>4. QED
    BY <2>1, <2>2, <2>3, HeldMoves
<1>6. QED
  BY <1>2, <1>3, <1>4, <1>5 DEF ReclaimInv

\* It changes no queue and no block either.
LEMMA OnlyMoves ==
    ASSUME ReclaimInv, NEW t \in Reclaimers,
           UNCHANGED <<wr_seq, shared, freed, removed, queue>>,
           interp'.head = interp.head,
           \A u \in Reclaimers \ {t} : interp'.mutex = u <=> interp.mutex = u
    PROVE  /\ Kept' /\ Queued' \subseteq Queued
           /\ \A u \in Reclaimers \ {t} : /\ removed'[u] = removed[u] /\ Reclaim!Work(u)' = Reclaim!Work(u)
                                          /\ interp'.mutex = u => interp.mutex = u
           /\ \A u \in Reclaimers : holds[u] # NoBlock => holds[u] \notin freed' \ freed
<1>1. Queues' = Queues
  BY DEF Queues, QueuesOf
<1>2. Queued' = Queued
  BY <1>1 DEF Queued
<1>3. wr_seq \in Nat /\ wr_seq' \in Nat /\ wr_seq <= wr_seq'
  BY DEF ReclaimInv, ReclaimTypes, Reclaim!TypeOK
<1>4. Kept'
  BY <1>1, <1>2, <1>3, KeptShrinks DEF ReclaimInv, Kept
<1>5. \A u \in Reclaimers \ {t} : Reclaim!Work(u)' = Reclaim!Work(u)
  BY DEF Reclaim!Work, Reclaim!HasInterp
<1>6. QED
  BY <1>2, <1>4, <1>5

\* A thread that attaches loads the write sequence.
LEMMA AttachKeeps ==
    ASSUME ReclaimInv, NEW t \in Reclaimers, Reclaim!Attach(t)
    PROVE  ReclaimInv'
<1>1. ReclaimTypes'
  BY DEF Reclaim!Attach, Reclaim!Goto, ReclaimInv, ReclaimTypes, Reclaim!TypeOK, PC, Inactive, Reclaim!seqs, Reclaim!slots, Reclaim!memory, Reclaim!queues
<1>2. UNCHANGED <<wr_seq, rd_seq, Reclaim!slots, queue, interp, shared, freed, holds, removed, child>>
  BY DEF Reclaim!Attach, Reclaim!seqs, Reclaim!memory, Reclaim!queues
<1>3. \A u \in Reclaimers \ {t} :
           /\ q_pc'[u] = q_pc[u] /\ seq'[u] = seq[u] /\ min_seq'[u] = min_seq[u]
           /\ i'[u] = i[u] /\ resume'[u] = resume[u]
  BY DEF Reclaim!Attach, Reclaim!Goto, ReclaimInv, ReclaimTypes
<1>4. q_pc[t] = "detached" /\ q_pc'[t] = "attach" /\ seq'[t] = wr_seq /\ resume'[t] = resume[t]
  BY DEF Reclaim!Attach, Reclaim!Goto, ReclaimInv, ReclaimTypes
<1>5. LocalsOf(t)'
  <2>1. wr_seq \in Nat /\ 1 <= wr_seq
    BY DEF ReclaimInv, ReclaimTypes, Reclaim!TypeOK, Locals
  <2>2. (interp.mutex = t => resume[t] = "abandon") /\ removed[t] = NoBlock
    BY <1>4 DEF ReclaimInv, Locals, LocalsOf, Processing
  <2>3. QED
    BY <1>2, <1>4, <2>1, <2>2 DEF LocalsOf
<1>6. holds'[t] = NoBlock
  BY <1>2, <1>4 DEF ReclaimInv, Held, Active, Processing
<1>7. Creating(t)' <=> Creating(t)
  BY <1>4 DEF Creating
<1>8. rd_seq' <= wr_seq /\ \A u \in Reclaimers, goal \in Nat : NotPassed(u, goal) => rd_seq' < goal
  BY <1>2 DEF ReclaimInv, Locals, NotPassed
<1>9. q_pc[t] \in Inactive \ {"new"} /\ q_pc'[t] \in Inactive \ {"new"}
  BY <1>4 DEF Inactive
<1>10. QED
  BY <1>1, <1>2, <1>3, <1>4, <1>5, <1>6, <1>7, <1>8, <1>9, OnlyMoves, Moves

\* So does a thread in a quiescent state, which holds no block any more.
LEMMA QuiescentStateKeeps ==
    ASSUME ReclaimInv, NEW t \in Reclaimers, Reclaim!QuiescentState(t)
    PROVE  ReclaimInv'
<1>1. ReclaimTypes'
  BY DEF Reclaim!QuiescentState, Reclaim!Goto, ReclaimInv, ReclaimTypes, Reclaim!TypeOK, PC, Active, Reclaim!seqs, Reclaim!slots, Reclaim!queues
<1>2. UNCHANGED <<wr_seq, rd_seq, Reclaim!slots, queue, interp, shared, freed, removed, child>>
  BY DEF Reclaim!QuiescentState, Reclaim!seqs, Reclaim!queues
<1>3. \A u \in Reclaimers \ {t} :
           /\ q_pc'[u] = q_pc[u] /\ seq'[u] = seq[u] /\ min_seq'[u] = min_seq[u]
           /\ i'[u] = i[u] /\ resume'[u] = resume[u] /\ holds'[u] = holds[u]
  BY DEF Reclaim!QuiescentState, Reclaim!Goto, ReclaimInv, ReclaimTypes, Reclaim!TypeOK
<1>4. q_pc[t] = "run" /\ q_pc'[t] = "quiescent" /\ seq'[t] = wr_seq /\ holds'[t] = NoBlock
  BY DEF Reclaim!QuiescentState, Reclaim!Goto, ReclaimInv, ReclaimTypes, Reclaim!TypeOK
<1>5. LocalsOf(t)'
  <2>1. wr_seq \in Nat /\ 1 <= wr_seq
    BY DEF ReclaimInv, ReclaimTypes, Reclaim!TypeOK, Locals
  <2>2. interp.mutex # t /\ removed[t] = NoBlock
    BY <1>4 DEF ReclaimInv, Locals, LocalsOf, Processing
  <2>3. QED
    BY <1>2, <1>4, <2>1, <2>2 DEF LocalsOf
<1>6. Creating(t)' <=> Creating(t)
  BY <1>4 DEF Creating
<1>7. rd_seq' <= wr_seq /\ \A u \in Reclaimers, goal \in Nat : NotPassed(u, goal) => rd_seq' < goal
  BY <1>2 DEF ReclaimInv, Locals, NotPassed
<1>8. q_pc[t] \in Active /\ q_pc'[t] \in Active
  BY <1>4 DEF Active
<1>9. QED
  BY <1>1, <1>2, <1>3, <1>4, <1>5, <1>6, <1>7, <1>8, OnlyMoves, Moves

\* The scan looks at one more slot: its minimum is no greater than that slot's number.
LEMMA ScanKeeps ==
    ASSUME ReclaimInv, NEW t \in Reclaimers, Reclaim!Scan(t)
    PROVE  ReclaimInv'
<1> DEFINE s == array[i[t]].seq
<1>0. i[t] \in DOMAIN array /\ s \in Nat
  <2>1. i[t] \in Nat /\ 1 <= i[t] /\ i[t] <= Len(array) /\ array \in Seq(Reclaim!Slot)
    BY DEF Reclaim!Scan, ReclaimInv, Locals, LocalsOf, ReclaimTypes, Reclaim!TypeOK
  <2>2. i[t] \in DOMAIN array
    BY <2>1
  <2>3. array[i[t]] \in Reclaim!Slot
    BY <2>1, <2>2
  <2>4. QED
    BY <2>2, <2>3 DEF Reclaim!Slot
<1>1. /\ q_pc[t] = "scan" /\ UNCHANGED <<q_pc, seq, resume>>
      /\ UNCHANGED <<wr_seq, rd_seq, Reclaim!slots, queue, interp, shared, freed, holds, removed, child>>
      /\ i' = [i EXCEPT ![t] = @ + 1]
      /\ min_seq' = IF s # Reclaim!QSBR_OFFLINE /\ s < min_seq[t]
                    THEN [min_seq EXCEPT ![t] = s] ELSE min_seq
  BY DEF Reclaim!Scan, Reclaim!seqs, Reclaim!memory, Reclaim!queues
<1>2. /\ i \in [Reclaimers -> Nat] /\ min_seq \in [Reclaimers -> Nat] /\ i'[t] = i[t] + 1
      /\ min_seq'[t] = IF s # Reclaim!QSBR_OFFLINE /\ s < min_seq[t] THEN s ELSE min_seq[t]
      /\ \A u \in Reclaimers \ {t} : min_seq'[u] = min_seq[u] /\ i'[u] = i[u]
  BY <1>1 DEF ReclaimInv, ReclaimTypes
<1>3. ReclaimTypes'
  <2>1. i' \in [Reclaimers -> Nat] /\ min_seq' \in [Reclaimers -> Nat]
    BY <1>0, <1>1, <1>2
  <2>2. QED
    BY <1>1, <2>1 DEF ReclaimInv, ReclaimTypes, Reclaim!TypeOK, Reclaim!slots
<1>4. min_seq'[t] \in Nat /\ min_seq'[t] <= min_seq[t] /\ (s # Reclaim!QSBR_OFFLINE => min_seq'[t] <= s)
  BY <1>0, <1>2
<1>5. LocalsOf(t)'
  <2>1. min_seq[t] <= wr_seq /\ wr_seq \in Nat /\ min_seq[t] \in Nat /\ i[t] \in Nat
    BY <1>1, <1>2 DEF ReclaimInv, Locals, LocalsOf, ReclaimTypes, Reclaim!TypeOK
  <2>2. min_seq'[t] <= wr_seq' /\ 1 <= i'[t]
    BY <1>1, <1>2, <1>4, <2>1
  <2>3. QED
    BY <1>1, <2>2 DEF ReclaimInv, Locals, LocalsOf, Reclaim!Work, Reclaim!HasInterp
<1>6. ASSUME NEW u \in Reclaimers, NEW goal \in Nat, holds[u] # NoBlock, NotPassed(u, goal)
      PROVE  rd_seq' < goal /\ (q_pc'[t] = "scan" /\ qsbr[u] < i'[t] => min_seq'[t] < goal)
  <2>1. rd_seq < goal /\ (qsbr[u] < i[t] => min_seq[t] < goal) /\ array[qsbr[u]].seq < goal
    BY <1>1, <1>6 DEF NotPassed
  <2>2. q_pc[u] \in Active
    BY <1>6 DEF ReclaimInv, Held
  <2>3. qsbr[u] # 0 /\ qsbr[u] \in Nat
    BY <2>2 DEF ReclaimInv, Slots, Active, Processing, ReclaimTypes, Reclaim!TypeOK
  <2>4. array[qsbr[u]].seq # Reclaim!QSBR_OFFLINE
    BY <2>2, <2>3 DEF ReclaimInv, Slots, SlotOf
  <2>5. CASE qsbr[u] < i[t]
    BY <1>1, <1>2, <1>4, <2>1, <2>5
  <2>6. CASE qsbr[u] = i[t]
    BY <1>0, <1>1, <1>4, <2>1, <2>4, <2>6
  <2>7. CASE qsbr[u] > i[t]
    <3>1. ~(qsbr[u] < i'[t])
      BY <1>2, <2>3, <2>7
    <3>2. QED
      BY <1>1, <2>1, <3>1
  <2>8. QED
    BY <1>2, <2>3, <2>5, <2>6, <2>7
<1>7. /\ Creating(t)' <=> Creating(t)
      /\ holds[t] # NoBlock => q_pc'[t] \in Active \ {"quiescent", "cleared", "abandon"}
      /\ rd_seq' <= wr_seq
  BY <1>1 DEF Creating, ReclaimInv, Held, Locals
<1> HIDE DEF s
<1>8. q_pc'[t] # "update" /\ q_pc'[t] # "polled"
  BY <1>1
<1>9. QED
  BY <1>1, <1>2, <1>3, <1>5, <1>6, <1>7, <1>8, OnlyMoves, Moves

\* A scan that is over has looked at every slot: its minimum has passed no holder.
LEMMA ScannedKeeps ==
    ASSUME ReclaimInv, NEW t \in Reclaimers, Reclaim!Scanned(t)
    PROVE  ReclaimInv'
<1>1. ReclaimTypes'
  BY DEF Reclaim!Scanned, Reclaim!Goto, ReclaimInv, ReclaimTypes, Reclaim!TypeOK, PC, Active, Processing, Reclaim!seqs, Reclaim!slots, Reclaim!memory, Reclaim!queues
<1>2. UNCHANGED <<wr_seq, rd_seq, Reclaim!slots, queue, interp, shared, freed, holds, removed, child>>
  BY DEF Reclaim!Scanned, Reclaim!seqs, Reclaim!memory, Reclaim!queues
<1>3. \A u \in Reclaimers \ {t} :
           /\ q_pc'[u] = q_pc[u] /\ seq'[u] = seq[u] /\ min_seq'[u] = min_seq[u]
           /\ i'[u] = i[u] /\ resume'[u] = resume[u]
  BY DEF Reclaim!Scanned, Reclaim!Goto, ReclaimInv, ReclaimTypes
<1>4. /\ q_pc[t] = "scan" /\ i[t] > Len(array) /\ seq'[t] = rd_seq /\ min_seq'[t] = min_seq[t]
      /\ q_pc'[t] \in {"update", "polled"}
  BY DEF Reclaim!Scanned, Reclaim!Goto, ReclaimInv, ReclaimTypes
<1>5. LocalsOf(t)'
  BY <1>2, <1>4 DEF ReclaimInv, Locals, LocalsOf, Processing, Reclaim!Work, Reclaim!HasInterp
<1>6. ASSUME NEW u \in Reclaimers, NEW goal \in Nat, holds[u] # NoBlock, NotPassed(u, goal)
      PROVE  rd_seq' < goal /\ min_seq'[t] < goal /\ seq'[t] < goal
  <2>1. qsbr[u] \in 0..Len(array) /\ i[t] \in Nat /\ Len(array) \in Nat
    BY DEF ReclaimInv, ReclaimTypes, Reclaim!TypeOK
  <2>2. qsbr[u] < i[t]
    BY <1>4, <2>1
  <2>3. QED
    BY <1>2, <1>4, <1>6, <2>2 DEF NotPassed
<1>7. /\ Creating(t)' <=> Creating(t)
      /\ rd_seq' <= wr_seq
      /\ q_pc'[t] \in Active \ {"quiescent", "cleared", "abandon"} /\ q_pc[t] \in Active
  BY <1>2, <1>4 DEF Creating, ReclaimInv, Locals, Active, Processing
<1>8. \A u \in Reclaimers, goal \in Nat : holds[u] # NoBlock /\ NotPassed(u, goal) =>
         /\ rd_seq' < goal
         /\ q_pc'[t] = "scan" /\ qsbr[u] < i'[t] => min_seq'[t] < goal
         /\ q_pc'[t] = "update" => min_seq'[t] < goal
         /\ q_pc'[t] = "polled" => seq'[t] < goal
  BY <1>6
<1>9. /\ Kept' /\ Queued' \subseteq Queued
      /\ \A u \in Reclaimers \ {t} : /\ removed'[u] = removed[u] /\ Reclaim!Work(u)' = Reclaim!Work(u)
                                     /\ interp'.mutex = u => interp.mutex = u
      /\ \A u \in Reclaimers : holds[u] # NoBlock => holds[u] \notin freed' \ freed
  BY <1>2, OnlyMoves
<1>10. QED
  BY <1>1, <1>2, <1>3, <1>5, <1>7, <1>8, <1>9, Moves

\* The read sequence becomes the minimum of a scan that is over.
LEMMA UpdateKeeps ==
    ASSUME ReclaimInv, NEW t \in Reclaimers, Reclaim!Update(t)
    PROVE  ReclaimInv'
<1>1. ReclaimTypes'
  BY DEF Reclaim!Update, Reclaim!Goto, ReclaimInv, ReclaimTypes, Reclaim!TypeOK, PC, Active, Processing, Reclaim!seqs, Reclaim!slots, Reclaim!memory, Reclaim!queues
<1>2. UNCHANGED <<wr_seq, Reclaim!slots, queue, interp, shared, freed, holds, removed, child>>
  BY DEF Reclaim!Update, Reclaim!memory, Reclaim!queues
<1>3. \A u \in Reclaimers \ {t} :
           /\ q_pc'[u] = q_pc[u] /\ seq'[u] = seq[u] /\ min_seq'[u] = min_seq[u]
           /\ i'[u] = i[u] /\ resume'[u] = resume[u]
  BY DEF Reclaim!Update, Reclaim!Goto, ReclaimInv, ReclaimTypes
<1>4. /\ q_pc[t] = "update" /\ seq'[t] = min_seq[t] /\ q_pc'[t] = "polled"
      /\ rd_seq' \in {rd_seq, min_seq[t]}
  BY DEF Reclaim!Update, Reclaim!Goto, ReclaimInv, ReclaimTypes
<1>5. LocalsOf(t)' /\ rd_seq' <= wr_seq
  BY <1>2, <1>4 DEF ReclaimInv, Locals, LocalsOf, Processing, Reclaim!Work, Reclaim!HasInterp
<1>6. ASSUME NEW u \in Reclaimers, NEW goal \in Nat, holds[u] # NoBlock, NotPassed(u, goal)
      PROVE  rd_seq' < goal /\ seq'[t] < goal
  BY <1>4, <1>6 DEF NotPassed
<1>7. /\ Creating(t)' <=> Creating(t)
      /\ q_pc'[t] \in Active \ {"quiescent", "cleared", "abandon"} /\ q_pc[t] \in Active
  BY <1>4 DEF Creating, Active, Processing
<1>8. q_pc'[t] # "scan" /\ q_pc'[t] # "update"
  BY <1>4
<1>9. QED
  BY <1>1, <1>2, <1>3, <1>4, <1>5, <1>6, <1>7, <1>8, OnlyMoves, Moves

\* What is left of a queue.
LEMMA TailFacts ==
    ASSUME NEW q \in Seq(Item), q # <<>>
    PROVE  /\ Tail(q) \in Seq(Item) /\ Reclaim!ToSet(Tail(q)) \subseteq Reclaim!ToSet(q)
           /\ Head(q) \in Reclaim!ToSet(q)
           /\ Distinct(q) => Distinct(Tail(q)) /\ \A x \in Reclaim!ToSet(Tail(q)) : x.ptr # Head(q).ptr
<1>1. /\ Len(q) \in Nat \ {0} /\ DOMAIN q = 1..Len(q) /\ Head(q) = q[1] /\ 1 \in 1..Len(q)
      /\ Tail(q) \in Seq(Item) /\ DOMAIN Tail(q) = 1..Len(q) - 1
      /\ \A k \in 1..Len(q) - 1 : k + 1 \in 1..Len(q) /\ Tail(q)[k] = q[k + 1]
  OBVIOUS
<1>2. Reclaim!ToSet(Tail(q)) \subseteq Reclaim!ToSet(q) /\ Head(q) \in Reclaim!ToSet(q)
  BY <1>1 DEF Reclaim!ToSet
<1>3. ASSUME Distinct(q) PROVE Distinct(Tail(q)) /\ \A x \in Reclaim!ToSet(Tail(q)) : x.ptr # Head(q).ptr
  <2>1. ASSUME NEW j \in 1..Len(q) - 1, NEW k \in 1..Len(q) - 1, Tail(q)[j].ptr = Tail(q)[k].ptr
        PROVE  j = k
    <3>1. j + 1 = k + 1
      BY <1>1, <1>3, <2>1 DEF Distinct
    <3>2. QED
      BY <1>1, <3>1
  <2>2. ASSUME NEW k \in 1..Len(q) - 1 PROVE Tail(q)[k].ptr # Head(q).ptr
    <3>1. k + 1 # 1
      BY <1>1
    <3>2. QED
      BY <1>1, <1>3, <3>1 DEF Distinct
  <2>3. QED
    BY <1>1, <2>1, <2>2 DEF Distinct, Reclaim!ToSet
<1>4. QED
  BY <1>1, <1>2, <1>3

\* The first item of a queue is freed.
LEMMA QueueFrees ==
    ASSUME ReclaimInv, NEW w \in QueuePlaces, Queues[w] # <<>>,
           Queues' = [Queues EXCEPT ![w] = Tail(@)],
           freed' = freed \cup {Head(Queues[w]).ptr},
           UNCHANGED <<shared, removed, wr_seq>>
    PROVE  Kept' /\ Queued' \subseteq Queued /\ Head(Queues[w]) \in Queued
<1>1. /\ Queues \in [QueuePlaces -> Seq(Item)] /\ Queues[w] \in Seq(Item)
      /\ Apart(Queues, QueuePlaces)
  BY QueuesAre DEF ReclaimInv, Kept
<1>2. /\ Tail(Queues[w]) \in Seq(Item) /\ Reclaim!ToSet(Tail(Queues[w])) \subseteq Reclaim!ToSet(Queues[w])
      /\ Head(Queues[w]) \in Reclaim!ToSet(Queues[w])
      /\ Distinct(Tail(Queues[w]))
      /\ \A x \in Reclaim!ToSet(Tail(Queues[w])) : x.ptr # Head(Queues[w]).ptr
  BY <1>1, TailFacts DEF Apart
<1>3. Queues'[w] = Tail(Queues[w]) /\ \A v \in QueuePlaces \ {w} : Queues'[v] = Queues[v]
  BY <1>1
<1>4. \A v \in QueuePlaces : Reclaim!ToSet(Queues'[v]) \subseteq Reclaim!ToSet(Queues[v]) /\ Distinct(Queues'[v])
  BY <1>1, <1>2, <1>3 DEF Apart
<1>5. \A v \in QueuePlaces : Reclaim!Ptrs(Queues'[v]) \subseteq Reclaim!Ptrs(Queues[v])
  BY <1>4, PtrsAre
<1>6. Apart(Queues', QueuePlaces)
  BY <1>1, <1>4, <1>5 DEF Apart
<1>7. Queued' \subseteq Queued
  BY <1>4 DEF Queued
<1>8. Head(Queues[w]) \in Queued
  BY <1>2 DEF Queued
<1>9. ASSUME NEW x \in Queued' PROVE x.ptr # Head(Queues[w]).ptr
  <2>1. PICK v \in QueuePlaces : x \in Reclaim!ToSet(Queues'[v])
    BY DEF Queued
  <2>2. CASE v = w
    BY <1>2, <1>3, <2>1, <2>2
  <2>3. CASE v # w
    <3>1. x.ptr \in Reclaim!Ptrs(Queues[v]) /\ Head(Queues[w]).ptr \in Reclaim!Ptrs(Queues[w])
      BY <1>2, <1>3, <2>1, <2>3, PtrsAre
    <3>2. Reclaim!Ptrs(Queues[v]) \cap Reclaim!Ptrs(Queues[w]) = {}
      BY <1>1, <2>3 DEF Apart
    <3>3. QED
      BY <3>1, <3>2
  <2>4. QED
    BY <2>2, <2>3
<1>10. wr_seq \in Nat /\ wr_seq' \in Nat /\ wr_seq <= wr_seq'
  BY DEF ReclaimInv, ReclaimTypes, Reclaim!TypeOK
<1>11. QED
  BY <1>6, <1>7, <1>8, <1>9, <1>10, KeptShrinks DEF ReclaimInv

\* The queue that a thread processes.
PlaceOf(t) == IF Reclaim!HasInterp(t) THEN NoThread ELSE t

\* The first item of the queue that a thread processes is queued.
LEMMA WorkIs ==
    ASSUME ReclaimTypes, NEW t \in Reclaimers
    PROVE  /\ Reclaim!Work(t) = Queues[PlaceOf(t)] /\ PlaceOf(t) \in QueuePlaces /\ Reclaim!Work(t) \in Seq(Item)
           /\ Reclaim!Work(t) # <<>> => Head(Reclaim!Work(t)) \in Queued
<1>1. /\ queue \in [Reclaimers -> Seq(Item)] /\ interp.head \in Seq(Item)
      /\ Queues[NoThread] = interp.head /\ \A u \in Reclaimers : Queues[u] = queue[u]
  BY QueuesAre DEF ReclaimTypes, Reclaim!TypeOK, Item
<1>2. Reclaim!Work(t) = Queues[PlaceOf(t)] /\ PlaceOf(t) \in QueuePlaces /\ Reclaim!Work(t) \in Seq(Item)
  BY <1>1 DEF PlaceOf, Reclaim!Work, QueuePlaces
<1>3. ASSUME Reclaim!Work(t) # <<>> PROVE Head(Reclaim!Work(t)) \in Queued
  <2>1. Head(Reclaim!Work(t)) \in Reclaim!ToSet(Reclaim!Work(t))
    BY <1>2, <1>3, TailFacts
  <2>2. QED
    BY <1>2, <2>1 DEF Queued
<1>4. QED
  BY <1>2, <1>3

\* The first item of a queue leaves it and its block is free, with nobody holding it.
LEMMA FreeFirstFacts ==
    ASSUME ReclaimInv, NEW t \in Reclaimers, Reclaim!FreeFirst(t), Reclaim!Work(t) # <<>>,
           UNCHANGED <<shared, removed, wr_seq>>,
           \A u \in Reclaimers : holds[u] # NoBlock => holds[u] # Head(Reclaim!Work(t)).ptr
    PROVE  /\ Kept' /\ Queued' \subseteq Queued
           /\ \A u \in Reclaimers \ {t} : removed'[u] = removed[u] /\ Reclaim!Work(u)' = Reclaim!Work(u)
           /\ interp'.mutex = interp.mutex /\ interp'.locked = interp.locked
           /\ interp'.head # <<>> => interp'.has_work
           /\ \A u \in Reclaimers : holds[u] # NoBlock => holds[u] \notin freed' \ freed
           /\ freed' \subseteq Blocks /\ queue' \in [Reclaimers -> Seq(Item)]
           /\ interp' \in [head : Seq(Item), has_work : BOOLEAN, locked : BOOLEAN, mutex : Reclaimers \cup {NoThread}]
<1> DEFINE w == PlaceOf(t)
<1>1. /\ queue \in [Reclaimers -> Seq(Item)]
      /\ interp \in [head : Seq(Item), has_work : BOOLEAN, locked : BOOLEAN, mutex : Reclaimers \cup {NoThread}]
      /\ freed \subseteq Blocks
  BY DEF ReclaimInv, ReclaimTypes, Reclaim!TypeOK, Item
<1>2. /\ Queues[NoThread] = interp.head /\ \A u \in Reclaimers : Queues[u] = queue[u]
      /\ \A x \in Queued : x \in Item /\ x.ptr \in Blocks
      /\ Queues \in [QueuePlaces -> Seq(Item)] /\ NoThread \notin Reclaimers /\ NoThread \in QueuePlaces
      /\ Reclaimers \subseteq QueuePlaces
  BY <1>1, QueuesAre, QueuesTyped DEF ReclaimInv
<1>3. w \in QueuePlaces /\ Queues[w] = Reclaim!Work(t) /\ Reclaim!Work(t) \in Seq(Item)
  BY <1>1, <1>2 DEF PlaceOf, Reclaim!Work
<1>4. Tail(Reclaim!Work(t)) \in Seq(Item)
  BY <1>3
<1>5. /\ queue' = IF Reclaim!HasInterp(t) THEN queue ELSE [queue EXCEPT ![t] = Tail(@)]
      /\ interp' = IF Reclaim!HasInterp(t) THEN [interp EXCEPT !.head = Tail(@)] ELSE interp
      /\ freed' = freed \cup {Head(Reclaim!Work(t)).ptr}
  BY DEF Reclaim!FreeFirst
<1>6. queue' \in [Reclaimers -> Seq(Item)]
  BY <1>1, <1>4, <1>5 DEF Reclaim!Work
<1>7. /\ interp' \in [head : Seq(Item), has_work : BOOLEAN, locked : BOOLEAN, mutex : Reclaimers \cup {NoThread}]
      /\ interp'.mutex = interp.mutex /\ interp'.locked = interp.locked /\ interp'.has_work = interp.has_work
      /\ interp'.head = IF Reclaim!HasInterp(t) THEN Tail(interp.head) ELSE interp.head
  BY <1>1, <1>4, <1>5 DEF Reclaim!Work
<1>8. Queues' = QueuesOf(queue', interp'.head)
  BY DEF Queues, QueuesOf
<1>9. /\ Queues' \in [QueuePlaces -> Seq(Item)] /\ Queues'[NoThread] = interp'.head
      /\ \A u \in Reclaimers : Queues'[u] = queue'[u]
  <2> DEFINE h == interp'.head
  <2>1. h \in Seq(Item)
    BY <1>7
  <2> HIDE DEF h
  <2>2. /\ QueuesOf(queue', h) \in [QueuePlaces -> Seq(Item)] /\ QueuesOf(queue', h)[NoThread] = h
        /\ \A u \in Reclaimers : QueuesOf(queue', h)[u] = queue'[u]
    BY <1>6, <2>1, QueuesTyped
  <2>3. Queues' = QueuesOf(queue', h)
    BY <1>8 DEF h
  <2>4. QED
    BY <2>2, <2>3 DEF h
<1>10. Queues'[w] = Tail(Queues[w])
  BY <1>1, <1>2, <1>5, <1>7, <1>9 DEF PlaceOf
<1>11. ASSUME NEW v \in QueuePlaces, v # w PROVE Queues'[v] = Queues[v]
  BY <1>1, <1>2, <1>5, <1>7, <1>9, <1>11 DEF PlaceOf, QueuePlaces
<1>12. Queues' = [Queues EXCEPT ![w] = Tail(@)]
  BY <1>2, <1>9, <1>10, <1>11
<1>13. Kept' /\ Queued' \subseteq Queued /\ Head(Reclaim!Work(t)) \in Queued
  <2> HIDE DEF w
  <2>1. QED
    BY <1>3, <1>5, <1>12, QueueFrees
<1>14. \A u \in Reclaimers \ {t} : Reclaim!Work(u)' = Reclaim!Work(u)
  BY <1>1, <1>5, <1>7 DEF Reclaim!Work, Reclaim!HasInterp
<1>15. interp'.head # <<>> => interp'.has_work
  <2>1. interp'.head # <<>> => interp.head # <<>>
    BY <1>7 DEF Reclaim!Work
  <2>2. QED
    BY <1>7, <2>1 DEF ReclaimInv, ReclaimTypes
<1>16. QED
  BY <1>1, <1>2, <1>5, <1>6, <1>7, <1>13, <1>14, <1>15

\* A thread unlocks the interpreter's queue: another may be woken.
LEMMA UnlockFacts ==
    ASSUME ReclaimInv, NEW t \in Reclaimers, NEW label \in PC, NEW q \in Seq(Item), NEW more \in BOOLEAN,
           Reclaim!Unlock(t, label, q, more), q_pc[t] # "parked"
    PROVE  /\ interp' \in [head : Seq(Item), has_work : BOOLEAN, locked : BOOLEAN, mutex : Reclaimers \cup {NoThread}]
           /\ interp'.head = q /\ interp'.has_work = more /\ interp'.mutex # t
           /\ interp'.mutex # NoThread => interp'.locked
           /\ q_pc' \in [Reclaimers -> PC] /\ q_pc'[t] = label
           /\ resume' \in [Reclaimers -> {"run", "register", "abandon"}] /\ resume'[t] = resume[t]
           /\ \A u \in Reclaimers \ {t} :
                 \/ q_pc'[u] = q_pc[u] /\ resume'[u] = resume[u] /\ interp'.mutex # u
                 \/ Woken(u)
<1>1. /\ q_pc \in [Reclaimers -> PC] /\ resume \in [Reclaimers -> {"run", "register", "abandon"}]
      /\ NoThread \notin Reclaimers
  BY ReclaimersAre DEF ReclaimInv, ReclaimTypes
<1>2. CASE /\ interp' = [head |-> q, has_work |-> more, locked |-> FALSE, mutex |-> NoThread]
           /\ Reclaim!Goto(t, label) /\ UNCHANGED resume
  BY <1>1, <1>2 DEF Reclaim!Goto
<1>3. ASSUME NEW u \in Reclaim!Waiting, NEW fair \in BOOLEAN,
             interp' = [head |-> q, has_work |-> more, locked |-> fair, mutex |-> IF fair THEN u ELSE NoThread],
             q_pc' = [q_pc EXCEPT ![t] = label, ![u] = "detached"],
             resume' = [resume EXCEPT ![u] = "abandon"]
      PROVE  /\ interp' \in [head : Seq(Item), has_work : BOOLEAN, locked : BOOLEAN, mutex : Reclaimers \cup {NoThread}]
             /\ interp'.head = q /\ interp'.has_work = more /\ interp'.mutex # t
             /\ interp'.mutex # NoThread => interp'.locked
             /\ q_pc' \in [Reclaimers -> PC] /\ q_pc'[t] = label
             /\ resume' \in [Reclaimers -> {"run", "register", "abandon"}] /\ resume'[t] = resume[t]
             /\ \A v \in Reclaimers \ {t} :
                   \/ q_pc'[v] = q_pc[v] /\ resume'[v] = resume[v] /\ interp'.mutex # v
                   \/ Woken(v)
  <2>1. u \in Reclaimers /\ q_pc[u] = "parked" /\ u # t
    BY DEF Reclaim!Waiting
  <2>2. /\ interp' \in [head : Seq(Item), has_work : BOOLEAN, locked : BOOLEAN, mutex : Reclaimers \cup {NoThread}]
        /\ interp'.head = q /\ interp'.has_work = more /\ interp'.mutex \in {u, NoThread}
        /\ interp'.mutex # NoThread => interp'.locked
    BY <1>3, <2>1
  <2>3. /\ q_pc' \in [Reclaimers -> PC] /\ q_pc'[t] = label /\ q_pc'[u] = "detached"
        /\ \A v \in Reclaimers \ {t, u} : q_pc'[v] = q_pc[v]
    BY <1>1, <1>3, <2>1 DEF PC, Inactive
  <2>4. /\ resume' \in [Reclaimers -> {"run", "register", "abandon"}] /\ resume'[u] = "abandon"
        /\ \A v \in Reclaimers \ {u} : resume'[v] = resume[v]
    BY <1>1, <1>3, <2>1
  <2>5. QED
    BY <1>1, <2>1, <2>2, <2>3, <2>4 DEF Woken
<1>4. QED
  BY <1>2, <1>3 DEF Reclaim!Unlock

\* A thread is through with a queue.
LEMMA NextQueueFacts ==
    ASSUME ReclaimInv, NEW t \in Reclaimers, Reclaim!NextQueue(t), q_pc[t] \in Processing,
           UNCHANGED <<wr_seq, shared, freed, removed>>
    PROVE  /\ interp' \in [head : Seq(Item), has_work : BOOLEAN, locked : BOOLEAN, mutex : Reclaimers \cup {NoThread}]
           /\ interp'.mutex # NoThread => interp'.locked
           /\ interp'.head # <<>> => interp'.has_work
           /\ queue' = queue /\ Kept' /\ Queued' \subseteq Queued
           /\ q_pc' \in [Reclaimers -> PC] /\ q_pc'[t] \in {"run", "process"}
           /\ resume' \in [Reclaimers -> {"run", "register", "abandon"}] /\ resume'[t] = resume[t]
           /\ interp'.mutex = t => q_pc'[t] = "process"
           /\ \A u \in Reclaimers \ {t} :
                 \/ /\ q_pc'[u] = q_pc[u] /\ resume'[u] = resume[u]
                    /\ Reclaim!Work(u)' = Reclaim!Work(u) /\ (interp'.mutex = u => interp.mutex = u)
                 \/ Woken(u)
<1>1. /\ interp \in [head : Seq(Item), has_work : BOOLEAN, locked : BOOLEAN, mutex : Reclaimers \cup {NoThread}]
      /\ q_pc \in [Reclaimers -> PC] /\ resume \in [Reclaimers -> {"run", "register", "abandon"}]
      /\ NoThread \notin Reclaimers /\ q_pc[t] # "parked"
      /\ interp.mutex # NoThread => interp.locked
      /\ interp.head # <<>> => interp.has_work
  BY ReclaimersAre DEF ReclaimInv, ReclaimTypes, Reclaim!TypeOK, Item, Processing
<1>2. queue' = queue
  BY DEF Reclaim!NextQueue
<1>3. /\ interp' \in [head : Seq(Item), has_work : BOOLEAN, locked : BOOLEAN, mutex : Reclaimers \cup {NoThread}]
      /\ interp'.head = interp.head
      /\ interp'.mutex # NoThread => interp'.locked
      /\ interp'.head # <<>> => interp'.has_work
      /\ q_pc' \in [Reclaimers -> PC] /\ q_pc'[t] \in {"run", "process"}
      /\ resume' \in [Reclaimers -> {"run", "register", "abandon"}] /\ resume'[t] = resume[t]
      /\ interp'.mutex = t => q_pc'[t] = "process"
      /\ \A u \in Reclaimers \ {t} :
            \/ q_pc'[u] = q_pc[u] /\ resume'[u] = resume[u] /\ (interp'.mutex = u <=> interp.mutex = u)
            \/ Woken(u)
  <2>1. CASE Reclaim!HasInterp(t)
    <3> DEFINE more == interp.head # <<>>
    <3>1. Reclaim!Unlock(t, "run", interp.head, more) /\ interp.mutex = t
      BY <2>1 DEF Reclaim!NextQueue, Reclaim!HasInterp
    <3>2. more \in BOOLEAN /\ interp.head \in Seq(Item) /\ "run" \in PC
      BY <1>1 DEF PC, Active
    <3> HIDE DEF more
    <3>3. /\ interp' \in [head : Seq(Item), has_work : BOOLEAN, locked : BOOLEAN, mutex : Reclaimers \cup {NoThread}]
          /\ interp'.head = interp.head /\ interp'.has_work = more /\ interp'.mutex # t
          /\ interp'.mutex # NoThread => interp'.locked
          /\ q_pc' \in [Reclaimers -> PC] /\ q_pc'[t] = "run"
          /\ resume' \in [Reclaimers -> {"run", "register", "abandon"}] /\ resume'[t] = resume[t]
          /\ \A u \in Reclaimers \ {t} :
                \/ q_pc'[u] = q_pc[u] /\ resume'[u] = resume[u] /\ interp'.mutex # u
                \/ Woken(u)
      BY <1>1, <3>1, <3>2, UnlockFacts
    <3>4. QED
      BY <3>1, <3>3 DEF more
  <2>2. CASE ~Reclaim!HasInterp(t) /\ interp.has_work /\ ~interp.locked
    <3>1. /\ interp' = [interp EXCEPT !.locked = TRUE, !.mutex = t] /\ q_pc' = [q_pc EXCEPT ![t] = "process"]
          /\ UNCHANGED resume
      BY <2>2 DEF Reclaim!NextQueue, Reclaim!Goto
    <3>2. interp.mutex = NoThread
      BY <1>1, <2>2
    <3>3. QED
      BY <1>1, <2>2, <3>1, <3>2 DEF PC, Active, Processing
  <2>3. CASE ~Reclaim!HasInterp(t) /\ ~(interp.has_work /\ ~interp.locked)
    BY <1>1, <2>3 DEF Reclaim!NextQueue, Reclaim!HasInterp, Reclaim!Goto, PC, Active
  <2>4. QED
    BY <2>1, <2>2, <2>3
<1>4. Queues' = Queues
  BY <1>2, <1>3 DEF Queues, QueuesOf
<1>5. Queued' = Queued
  BY <1>4 DEF Queued
<1>6. wr_seq \in Nat /\ wr_seq' \in Nat /\ wr_seq <= wr_seq'
  BY DEF ReclaimInv, ReclaimTypes, Reclaim!TypeOK
<1>7. Kept'
  BY <1>4, <1>5, <1>6, KeptShrinks DEF ReclaimInv, Kept
<1>8. ASSUME NEW u \in Reclaimers \ {t}, interp'.mutex = u <=> interp.mutex = u
      PROVE  Reclaim!Work(u)' = Reclaim!Work(u)
  BY <1>2, <1>3, <1>8 DEF Reclaim!Work, Reclaim!HasInterp
<1>9. QED
  BY <1>2, <1>3, <1>5, <1>7, <1>8

\* A thread gets on with its queue.
LEMMA ProcessKeeps ==
    ASSUME ReclaimInv, NEW t \in Reclaimers, Reclaim!Process(t)
    PROVE  ReclaimInv'
<1>1. /\ q_pc[t] = "process"
      /\ UNCHANGED <<wr_seq, rd_seq, Reclaim!slots, shared, holds, seq, removed, child>>
  BY DEF Reclaim!Process, Reclaim!seqs
<1>2. /\ q_pc \in [Reclaimers -> PC] /\ i \in [Reclaimers -> Nat] /\ min_seq \in [Reclaimers -> Nat]
      /\ wr_seq \in Nat /\ rd_seq \in Nat /\ rd_seq <= wr_seq
      /\ removed[t] = NoBlock
      /\ \A u \in Reclaimers, goal \in Nat : NotPassed(u, goal) => rd_seq < goal
  BY <1>1 DEF ReclaimInv, ReclaimTypes, Reclaim!TypeOK, Locals, LocalsOf, NotPassed
<1>3. CASE Reclaim!Work(t) = <<>>
  <2>1. Reclaim!NextQueue(t) /\ UNCHANGED <<freed, min_seq, i>>
    BY <1>3 DEF Reclaim!Process
  <2>2. /\ interp' \in [head : Seq(Item), has_work : BOOLEAN, locked : BOOLEAN, mutex : Reclaimers \cup {NoThread}]
        /\ interp'.mutex # NoThread => interp'.locked
        /\ interp'.head # <<>> => interp'.has_work
        /\ queue' = queue /\ Kept' /\ Queued' \subseteq Queued
        /\ q_pc' \in [Reclaimers -> PC] /\ q_pc'[t] \in {"run", "process"}
        /\ resume' \in [Reclaimers -> {"run", "register", "abandon"}] /\ resume'[t] = resume[t]
        /\ interp'.mutex = t => q_pc'[t] = "process"
        /\ \A u \in Reclaimers \ {t} :
              \/ /\ q_pc'[u] = q_pc[u] /\ resume'[u] = resume[u]
                 /\ Reclaim!Work(u)' = Reclaim!Work(u) /\ (interp'.mutex = u => interp.mutex = u)
              \/ Woken(u)
    BY <1>1, <2>1, NextQueueFacts DEF Processing
  <2>3. ReclaimTypes'
    BY <1>1, <2>1, <2>2 DEF ReclaimInv, ReclaimTypes, Reclaim!TypeOK, Item, Reclaim!slots
  <2>4. LocalsOf(t)'
    BY <1>1, <1>2, <2>2 DEF LocalsOf, Processing
  <2>5. /\ Creating(t)' <=> Creating(t)
        /\ q_pc'[t] \in Active \ {"quiescent", "cleared", "abandon"} /\ q_pc[t] \in Active
        /\ q_pc'[t] \notin {"scan", "update", "polled"}
    BY <1>1, <2>2 DEF Creating, Active, Processing
  <2>6. QED
    BY <1>1, <1>2, <2>1, <2>2, <2>3, <2>4, <2>5, Moves
<1>4. CASE Reclaim!Work(t) # <<>> /\ Head(Reclaim!Work(t)).goal <= rd_seq
  <2>1. Reclaim!FreeFirst(t) /\ UNCHANGED <<q_pc, resume, min_seq, i>>
    BY <1>4 DEF Reclaim!Process
  <2>2. Head(Reclaim!Work(t)) \in Queued
    BY <1>4, WorkIs DEF ReclaimInv
  <2>3. ASSUME NEW u \in Reclaimers, holds[u] # NoBlock PROVE holds[u] # Head(Reclaim!Work(t)).ptr
    <3>1. Head(Reclaim!Work(t)).goal \in Nat
      BY <2>2, QueuesAre DEF ReclaimInv
    <3>2. SUFFICES ASSUME holds[u] = Head(Reclaim!Work(t)).ptr PROVE FALSE
      OBVIOUS
    <3>3. rd_seq < Head(Reclaim!Work(t)).goal
      BY <2>2, <2>3, <3>2 DEF ReclaimInv, Held, NotPassed
    <3>4. QED
      BY <1>2, <1>4, <3>1, <3>3
  <2>4. /\ Kept' /\ Queued' \subseteq Queued
        /\ \A u \in Reclaimers \ {t} : removed'[u] = removed[u] /\ Reclaim!Work(u)' = Reclaim!Work(u)
        /\ interp'.mutex = interp.mutex /\ interp'.locked = interp.locked
        /\ interp'.head # <<>> => interp'.has_work
        /\ \A u \in Reclaimers : holds[u] # NoBlock => holds[u] \notin freed' \ freed
        /\ freed' \subseteq Blocks /\ queue' \in [Reclaimers -> Seq(Item)]
        /\ interp' \in [head : Seq(Item), has_work : BOOLEAN, locked : BOOLEAN, mutex : Reclaimers \cup {NoThread}]
    BY <1>1, <1>4, <2>1, <2>3, FreeFirstFacts
  <2>5. ReclaimTypes'
    BY <1>1, <2>1, <2>4 DEF ReclaimInv, ReclaimTypes, Reclaim!TypeOK, Item, Reclaim!slots
  <2>6. LocalsOf(t)'
    BY <1>1, <1>2, <2>1 DEF LocalsOf, Processing
  <2>7. /\ Creating(t)' <=> Creating(t)
        /\ q_pc'[t] \in Active \ {"quiescent", "cleared", "abandon"} /\ q_pc'[t] = q_pc[t]
        /\ q_pc'[t] \notin {"scan", "update", "polled"}
    BY <1>1, <2>1 DEF Creating, Active, Processing
  <2>8. QED
    BY <1>1, <1>2, <2>1, <2>4, <2>5, <2>6, <2>7, Moves
<1>5. CASE Reclaim!Work(t) # <<>> /\ ~(Head(Reclaim!Work(t)).goal <= rd_seq)
  <2>1. /\ min_seq' = [min_seq EXCEPT ![t] = wr_seq] /\ i' = [i EXCEPT ![t] = 1]
        /\ q_pc' = [q_pc EXCEPT ![t] = "scan"] /\ UNCHANGED <<freed, queue, interp, resume>>
    BY <1>5 DEF Reclaim!Process, Reclaim!Goto, Reclaim!queues
  <2>2. /\ q_pc'[t] = "scan" /\ i'[t] = 1 /\ min_seq'[t] = wr_seq
        /\ \A u \in Reclaimers \ {t} : q_pc'[u] = q_pc[u] /\ i'[u] = i[u] /\ min_seq'[u] = min_seq[u]
    BY <1>2, <2>1
  <2>3. ReclaimTypes'
    <3>1. q_pc' \in [Reclaimers -> PC] /\ i' \in [Reclaimers -> Nat] /\ min_seq' \in [Reclaimers -> Nat]
      BY <1>2, <2>1 DEF PC, Active, Processing
    <3>2. QED
      BY <1>1, <2>1, <3>1 DEF ReclaimInv, ReclaimTypes, Reclaim!TypeOK, Reclaim!slots
  <2>4. LocalsOf(t)'
    BY <1>1, <1>2, <1>5, <2>1, <2>2 DEF LocalsOf, Processing, Reclaim!Work, Reclaim!HasInterp
  <2>5. ASSUME NEW u \in Reclaimers, holds[u] # NoBlock PROVE ~(qsbr[u] < i'[t])
    <3>1. q_pc[u] \in Active
      BY <2>5 DEF ReclaimInv, Held
    <3>2. qsbr[u] # 0
      BY <3>1 DEF ReclaimInv, Slots, Active, Processing
    <3>3. qsbr[u] \in Nat
      BY DEF ReclaimInv, ReclaimTypes, Reclaim!TypeOK
    <3>4. QED
      BY <2>2, <3>2, <3>3
  <2>6. /\ Creating(t)' <=> Creating(t)
        /\ q_pc'[t] \in Active \ {"quiescent", "cleared", "abandon"} /\ q_pc[t] \in Active
        /\ q_pc'[t] \notin {"update", "polled"}
    BY <1>1, <2>2 DEF Creating, Active, Processing
  <2>7. QED
    BY <1>1, <1>2, <2>1, <2>2, <2>3, <2>4, <2>5, <2>6, OnlyMoves, Moves
<1>6. QED
  BY <1>3, <1>4, <1>5

\* It knows now whether the first item may be freed.
LEMMA PolledKeeps ==
    ASSUME ReclaimInv, NEW t \in Reclaimers, Reclaim!Polled(t)
    PROVE  ReclaimInv'
<1>1. /\ q_pc[t] = "polled"
      /\ UNCHANGED <<wr_seq, rd_seq, Reclaim!slots, shared, holds, i, removed, child>>
      /\ seq' = [seq EXCEPT ![t] = 0] /\ min_seq' = [min_seq EXCEPT ![t] = 0]
  BY DEF Reclaim!Polled, Reclaim!seqs
<1>2. /\ q_pc \in [Reclaimers -> PC] /\ seq \in [Reclaimers -> Nat] /\ min_seq \in [Reclaimers -> Nat]
      /\ wr_seq \in Nat /\ rd_seq \in Nat /\ rd_seq <= wr_seq
      /\ removed[t] = NoBlock /\ Reclaim!Work(t) # <<>>
      /\ \A u \in Reclaimers, goal \in Nat : NotPassed(u, goal) => rd_seq < goal
  BY <1>1 DEF ReclaimInv, ReclaimTypes, Reclaim!TypeOK, Locals, LocalsOf, NotPassed
<1>3. /\ seq' \in [Reclaimers -> Nat] /\ min_seq' \in [Reclaimers -> Nat]
      /\ \A u \in Reclaimers \ {t} : seq'[u] = seq[u] /\ min_seq'[u] = min_seq[u]
  BY <1>1, <1>2
<1>4. CASE ~(Head(Reclaim!Work(t)).goal <= seq[t])
  <2>1. Reclaim!NextQueue(t) /\ UNCHANGED freed
    BY <1>4 DEF Reclaim!Polled
  <2>2. /\ interp' \in [head : Seq(Item), has_work : BOOLEAN, locked : BOOLEAN, mutex : Reclaimers \cup {NoThread}]
        /\ interp'.mutex # NoThread => interp'.locked
        /\ interp'.head # <<>> => interp'.has_work
        /\ queue' = queue /\ Kept' /\ Queued' \subseteq Queued
        /\ q_pc' \in [Reclaimers -> PC] /\ q_pc'[t] \in {"run", "process"}
        /\ resume' \in [Reclaimers -> {"run", "register", "abandon"}] /\ resume'[t] = resume[t]
        /\ interp'.mutex = t => q_pc'[t] = "process"
        /\ \A u \in Reclaimers \ {t} :
              \/ /\ q_pc'[u] = q_pc[u] /\ resume'[u] = resume[u]
                 /\ Reclaim!Work(u)' = Reclaim!Work(u) /\ (interp'.mutex = u => interp.mutex = u)
              \/ Woken(u)
    BY <1>1, <2>1, NextQueueFacts DEF Processing
  <2>3. ReclaimTypes'
    BY <1>1, <1>3, <2>1, <2>2 DEF ReclaimInv, ReclaimTypes, Reclaim!TypeOK, Item, Reclaim!slots
  <2>4. LocalsOf(t)'
    BY <1>1, <1>2, <2>2 DEF LocalsOf, Processing
  <2>5. /\ Creating(t)' <=> Creating(t)
        /\ q_pc'[t] \in Active \ {"quiescent", "cleared", "abandon"} /\ q_pc[t] \in Active
        /\ q_pc'[t] \notin {"scan", "update", "polled"}
    BY <1>1, <2>2 DEF Creating, Active, Processing
  <2>6. QED
    BY <1>1, <1>2, <1>3, <2>1, <2>2, <2>3, <2>4, <2>5, Moves
<1>5. CASE Head(Reclaim!Work(t)).goal <= seq[t]
  <2>1. Reclaim!FreeFirst(t) /\ q_pc' = [q_pc EXCEPT ![t] = "process"] /\ UNCHANGED resume
    BY <1>5 DEF Reclaim!Polled, Reclaim!Goto
  <2>2. Head(Reclaim!Work(t)) \in Queued
    BY <1>2, WorkIs DEF ReclaimInv
  <2>3. ASSUME NEW u \in Reclaimers, holds[u] # NoBlock PROVE holds[u] # Head(Reclaim!Work(t)).ptr
    <3>1. Head(Reclaim!Work(t)).goal \in Nat /\ seq[t] \in Nat
      BY <1>2, <2>2, QueuesAre DEF ReclaimInv
    <3>2. SUFFICES ASSUME holds[u] = Head(Reclaim!Work(t)).ptr PROVE FALSE
      OBVIOUS
    <3>3. seq[t] < Head(Reclaim!Work(t)).goal
      BY <1>1, <2>2, <2>3, <3>2 DEF ReclaimInv, Held, NotPassed
    <3>4. QED
      BY <1>5, <3>1, <3>3
  <2>4. /\ Kept' /\ Queued' \subseteq Queued
        /\ \A u \in Reclaimers \ {t} : removed'[u] = removed[u] /\ Reclaim!Work(u)' = Reclaim!Work(u)
        /\ interp'.mutex = interp.mutex /\ interp'.locked = interp.locked
        /\ interp'.head # <<>> => interp'.has_work
        /\ \A u \in Reclaimers : holds[u] # NoBlock => holds[u] \notin freed' \ freed
        /\ freed' \subseteq Blocks /\ queue' \in [Reclaimers -> Seq(Item)]
        /\ interp' \in [head : Seq(Item), has_work : BOOLEAN, locked : BOOLEAN, mutex : Reclaimers \cup {NoThread}]
    BY <1>1, <1>2, <2>1, <2>3, FreeFirstFacts
  <2>5. q_pc' \in [Reclaimers -> PC] /\ q_pc'[t] = "process" /\ \A u \in Reclaimers \ {t} : q_pc'[u] = q_pc[u]
    BY <1>2, <2>1 DEF PC, Active, Processing
  <2>6. ReclaimTypes'
    BY <1>1, <1>3, <2>1, <2>4, <2>5 DEF ReclaimInv, ReclaimTypes, Reclaim!TypeOK, Item, Reclaim!slots
  <2>7. LocalsOf(t)'
    BY <1>1, <1>2, <2>5 DEF LocalsOf, Processing
  <2>8. /\ Creating(t)' <=> Creating(t)
        /\ q_pc'[t] \in Active \ {"quiescent", "cleared", "abandon"} /\ q_pc[t] \in Active
        /\ q_pc'[t] \notin {"scan", "update", "polled"}
    BY <1>1, <2>5 DEF Creating, Active, Processing
  <2>9. QED
    BY <1>1, <1>2, <1>3, <2>1, <2>4, <2>5, <2>6, <2>7, <2>8, Moves
<1>6. QED
  BY <1>4, <1>5

\* A thread writes to its own slot.
LEMMA OwnSlot ==
    ASSUME ReclaimInv, NEW t \in Reclaimers, NEW x \in Reclaim!Slot,
           array' = [array EXCEPT ![qsbr[t]] = x],
           UNCHANGED <<freelist, qsbr>>, wr_seq' \in Nat, wr_seq <= wr_seq',
           \A u \in Reclaimers \ {t} : q_pc'[u] = q_pc[u] \/ Woken(u),
           q_pc[t] \notin {"none", "new"}, q_pc'[t] \notin {"none", "new"},
           x.allocated, x.tstate = t,
           q_pc'[t] \in Inactive => x.seq = Reclaim!QSBR_OFFLINE,
           q_pc'[t] \in Active => x.seq # Reclaim!QSBR_OFFLINE /\ x.seq <= wr_seq'
    PROVE  /\ array' \in Seq(Reclaim!Slot) /\ DOMAIN array' = DOMAIN array /\ Len(array') = Len(array)
           /\ array'[qsbr[t]] = x
           /\ \A u \in Reclaimers \ {t} : qsbr[u] # 0 => array'[qsbr[u]] = array[qsbr[u]]
           /\ Slots'
<1>1. qsbr[t] # 0 /\ qsbr[t] \in DOMAIN array /\ array \in Seq(Reclaim!Slot)
  <2>1. qsbr[t] # 0
    BY DEF ReclaimInv, Slots
  <2>2. QED
    BY <2>1, SlotFacts DEF ReclaimInv, ReclaimTypes, Reclaim!TypeOK
<1>2. /\ array' \in Seq(Reclaim!Slot) /\ DOMAIN array' = DOMAIN array /\ Len(array') = Len(array)
      /\ array'[qsbr[t]] = x /\ \A k \in DOMAIN array \ {qsbr[t]} : array'[k] = array[k]
  BY <1>1, SlotChange
<1>3. ASSUME NEW u \in Reclaimers \ {t}, qsbr[u] # 0
      PROVE  array'[qsbr[u]] = array[qsbr[u]] /\ array[qsbr[u]].seq \in Nat
  <2>1. qsbr[u] # qsbr[t]
    BY <1>3 DEF ReclaimInv, Slots
  <2>2. qsbr[u] \in DOMAIN array /\ array[qsbr[u]].seq \in Nat
    BY <1>3, SlotFacts DEF ReclaimInv
  <2>3. QED
    BY <1>2, <2>1, <2>2
<1>4. ASSUME NEW u \in Reclaimers, qsbr'[u] # 0 PROVE SlotOf(u)'
  <2>1. CASE u = t
    BY <1>2, <2>1 DEF SlotOf
  <2>2. CASE u # t
    <3>1. array'[qsbr'[u]] = array[qsbr[u]] /\ array[qsbr[u]].seq \in Nat /\ SlotOf(u)
      BY <1>3, <1>4, <2>2 DEF ReclaimInv, Slots
    <3>2. wr_seq \in Nat
      BY DEF ReclaimInv, ReclaimTypes, Reclaim!TypeOK
    <3>3. CASE q_pc'[u] = q_pc[u]
      BY <3>1, <3>2, <3>3 DEF SlotOf
    <3>4. CASE Woken(u)
      <4>1. q_pc[u] \in Inactive /\ q_pc'[u] \notin Active /\ q_pc[u] # "new" /\ q_pc'[u] # "new"
        BY <3>4 DEF Woken, Inactive, Active, Processing
      <4>2. QED
        BY <3>1, <4>1 DEF SlotOf
    <3>5. QED
      BY <2>2, <3>3, <3>4
  <2>3. QED
    BY <2>1, <2>2
<1>5. \A u \in Reclaimers : qsbr'[u] = 0 <=> q_pc'[u] = "none"
  BY <1>1 DEF ReclaimInv, Slots, Woken
<1>6. ASSUME NEW k \in Reclaim!ToSet(freelist') PROVE array'[k] = array[k]
  <2>1. k \in DOMAIN array /\ k # qsbr[t]
    BY DEF ReclaimInv, Slots
  <2>2. QED
    BY <1>2, <2>1
<1>7. Slots'
  BY <1>2, <1>4, <1>5, <1>6 DEF ReclaimInv, Slots
<1>8. QED
  BY <1>2, <1>3, <1>7

\* A thread stores a sequence number in its slot.
LEMMA StoreFacts ==
    ASSUME ReclaimInv, NEW t \in Reclaimers, NEW s \in Nat, Reclaim!Store(t, s),
           UNCHANGED <<freelist, qsbr, wr_seq>>,
           \A u \in Reclaimers \ {t} : q_pc'[u] = q_pc[u],
           q_pc[t] \notin {"none", "new"}, q_pc'[t] \notin {"none", "new"},
           q_pc'[t] \in Inactive => s = Reclaim!QSBR_OFFLINE,
           q_pc'[t] \in Active => s # Reclaim!QSBR_OFFLINE /\ s <= wr_seq
    PROVE  /\ array' \in Seq(Reclaim!Slot) /\ DOMAIN array' = DOMAIN array /\ Len(array') = Len(array)
           /\ \A u \in Reclaimers \ {t} : qsbr[u] # 0 => array'[qsbr[u]] = array[qsbr[u]]
           /\ Slots'
<1> DEFINE x == [array[qsbr[t]] EXCEPT !.seq = s]
<1>1. qsbr[t] # 0 /\ array[qsbr[t]] \in Reclaim!Slot /\ SlotOf(t) /\ wr_seq \in Nat
  <2>1. qsbr[t] # 0
    BY DEF ReclaimInv, Slots
  <2>2. QED
    BY <2>1, SlotFacts DEF ReclaimInv, ReclaimTypes, Reclaim!TypeOK, Slots
<1>2. /\ x \in Reclaim!Slot /\ x.seq = s /\ x.allocated = array[qsbr[t]].allocated
      /\ x.tstate = array[qsbr[t]].tstate
  BY <1>1 DEF Reclaim!Slot
<1>3. x.allocated /\ x.tstate = t
  BY <1>1, <1>2 DEF SlotOf
<1>4. array' = [array EXCEPT ![qsbr[t]] = x]
  BY DEF Reclaim!Store
<1>5. wr_seq' \in Nat /\ wr_seq <= wr_seq'
  BY <1>1
<1> HIDE DEF x
<1>6. QED
  BY <1>2, <1>3, <1>4, <1>5, OwnSlot

\* A thread stores what it loaded in its slot, which hides no holder's goal.
LEMMA ObserveKeeps ==
    ASSUME ReclaimInv, NEW t \in Reclaimers, Reclaim!Observe(t)
    PROVE  ReclaimInv'
<1>1. /\ q_pc[t] \in {"attach", "quiescent"} /\ Reclaim!Store(t, seq[t]) /\ seq' = [seq EXCEPT ![t] = 0]
      /\ q_pc' = [q_pc EXCEPT ![t] = IF q_pc[t] = "attach" THEN resume[t] ELSE "run"]
      /\ UNCHANGED <<wr_seq, rd_seq, freelist, qsbr, shared, freed, holds, queue, interp,
                     resume, min_seq, i, removed, child>>
  BY DEF Reclaim!Observe, Reclaim!Goto, Reclaim!seqs, Reclaim!memory, Reclaim!queues
<1>2. /\ q_pc \in [Reclaimers -> PC] /\ seq \in [Reclaimers -> Nat] /\ resume[t] \in {"run", "register", "abandon"}
      /\ wr_seq \in Nat /\ rd_seq \in Nat /\ rd_seq <= wr_seq /\ 1 <= seq[t] /\ seq[t] <= wr_seq
      /\ removed[t] = NoBlock
      /\ interp.mutex = t => q_pc[t] = "attach" /\ resume[t] = "abandon"
  BY <1>1 DEF ReclaimInv, ReclaimTypes, Reclaim!TypeOK, Locals, LocalsOf, Processing
<1>3. /\ q_pc' \in [Reclaimers -> PC] /\ seq' \in [Reclaimers -> Nat]
      /\ q_pc'[t] \in {"run", "register", "abandon"} /\ (interp.mutex = t => q_pc'[t] = "abandon")
      /\ q_pc'[t] = "register" <=> q_pc[t] = "attach" /\ resume[t] = "register"
      /\ \A u \in Reclaimers \ {t} : q_pc'[u] = q_pc[u] /\ seq'[u] = seq[u]
  BY <1>1, <1>2 DEF PC, Active
<1>4. /\ array' \in Seq(Reclaim!Slot) /\ DOMAIN array' = DOMAIN array /\ Len(array') = Len(array)
      /\ \A u \in Reclaimers \ {t} : qsbr[u] # 0 => array'[qsbr[u]] = array[qsbr[u]]
      /\ Slots'
  <2>1. seq[t] # Reclaim!QSBR_OFFLINE /\ seq[t] \in Nat
    BY <1>2 DEF Reclaim!QSBR_OFFLINE
  <2>2. q_pc[t] \notin {"none", "new"} /\ q_pc'[t] \notin {"none", "new"} /\ q_pc'[t] \notin Inactive
    BY <1>1, <1>3 DEF Inactive
  <2>3. QED
    BY <1>1, <1>2, <1>3, <2>1, <2>2, StoreFacts
<1>5. ReclaimTypes'
  BY <1>1, <1>3, <1>4 DEF ReclaimInv, ReclaimTypes, Reclaim!TypeOK
<1>6. Locals'
  <2>1. LocalsOf(t)'
    BY <1>1, <1>2, <1>3 DEF LocalsOf
  <2>2. ASSUME NEW u \in Reclaimers \ {t} PROVE LocalsOf(u)'
    <3>1. Reclaim!Work(u)' = Reclaim!Work(u)
      BY <1>1 DEF Reclaim!Work, Reclaim!HasInterp
    <3>2. QED
      BY <1>1, <1>2, <1>3, <3>1, LocalsKept DEF ReclaimInv
  <2>3. QED
    BY <1>1, <1>2, <2>1, <2>2 DEF ReclaimInv, Locals
<1>7. Children'
  <2>1. \A u \in Reclaimers : /\ Creating(u)' <=> Creating(u)
                              /\ q_pc[u] = "new" => q_pc'[u] = "new"
    BY <1>1, <1>3 DEF Creating
  <2>2. QED
    BY <1>1, <2>1, ChildrenKept DEF ReclaimInv
<1>8. Kept' /\ Queued' = Queued
  BY <1>1, <1>2, KeptKept DEF ReclaimInv
<1>9. Held'
  <2>1. holds'[t] = NoBlock
    BY <1>1 DEF ReclaimInv, Held, Active, Processing
  <2>2. ASSUME NEW u \in Reclaimers, holds'[u] # NoBlock
        PROVE  qsbr[u] # 0 /\ u # t /\ holds'[u] = holds[u]
    BY <1>1, <2>1, <2>2 DEF ReclaimInv, Held, Slots, Active, Processing
  <2>3. \A u \in Reclaimers, goal \in Nat : NotPassed(u, goal) => rd_seq' < goal
    BY <1>1 DEF NotPassed
  <2>4. q_pc'[t] \notin {"scan", "update", "polled"}
    BY <1>3
  <2>5. QED
    BY <1>1, <1>3, <1>4, <1>8, <2>1, <2>2, <2>3, <2>4, HeldMoves
<1>10. QED
  BY <1>5, <1>4, <1>6, <1>7, <1>8, <1>9 DEF ReclaimInv

\* A thread that detaches holds no block, and its slot is offline.
LEMMA DetachKeeps ==
    ASSUME ReclaimInv, NEW t \in Reclaimers, Reclaim!Detach(t)
    PROVE  ReclaimInv'
<1>1. /\ q_pc[t] \in {"run", "register"} /\ Reclaim!Store(t, Reclaim!QSBR_OFFLINE)
      /\ holds' = [holds EXCEPT ![t] = NoBlock] /\ resume' = [resume EXCEPT ![t] = q_pc[t]]
      /\ q_pc' = [q_pc EXCEPT ![t] = "detached"]
      /\ UNCHANGED <<wr_seq, rd_seq, freelist, qsbr, shared, freed, queue, interp,
                     seq, min_seq, i, removed, child>>
  BY DEF Reclaim!Detach, Reclaim!Goto, Reclaim!seqs, Reclaim!queues
<1>2. /\ q_pc \in [Reclaimers -> PC] /\ resume \in [Reclaimers -> {"run", "register", "abandon"}]
      /\ holds \in [Reclaimers -> Blocks \cup {NoBlock}]
      /\ wr_seq \in Nat /\ rd_seq \in Nat /\ rd_seq <= wr_seq
      /\ removed[t] = NoBlock /\ interp.mutex # t
  BY <1>1 DEF ReclaimInv, ReclaimTypes, Reclaim!TypeOK, Locals, LocalsOf, Processing
<1>3. /\ q_pc' \in [Reclaimers -> PC] /\ resume' \in [Reclaimers -> {"run", "register", "abandon"}]
      /\ holds' \in [Reclaimers -> Blocks \cup {NoBlock}]
      /\ q_pc'[t] = "detached" /\ resume'[t] = q_pc[t] /\ holds'[t] = NoBlock
      /\ \A u \in Reclaimers \ {t} : q_pc'[u] = q_pc[u] /\ resume'[u] = resume[u] /\ holds'[u] = holds[u]
  BY <1>1, <1>2 DEF PC, Inactive
<1>4. /\ array' \in Seq(Reclaim!Slot) /\ DOMAIN array' = DOMAIN array /\ Len(array') = Len(array)
      /\ \A u \in Reclaimers \ {t} : qsbr[u] # 0 => array'[qsbr[u]] = array[qsbr[u]]
      /\ Slots'
  <2>1. Reclaim!QSBR_OFFLINE \in Nat
    BY DEF Reclaim!QSBR_OFFLINE
  <2>2. q_pc[t] \notin {"none", "new"} /\ q_pc'[t] \notin {"none", "new"} /\ q_pc'[t] \notin Active
    BY <1>1, <1>3 DEF Active, Processing
  <2>3. QED
    BY <1>1, <1>2, <1>3, <2>1, <2>2, StoreFacts
<1>5. ReclaimTypes'
  BY <1>1, <1>3, <1>4 DEF ReclaimInv, ReclaimTypes, Reclaim!TypeOK
<1>6. Locals'
  <2>1. LocalsOf(t)'
    BY <1>1, <1>2, <1>3 DEF LocalsOf
  <2>2. ASSUME NEW u \in Reclaimers \ {t} PROVE LocalsOf(u)'
    <3>1. Reclaim!Work(u)' = Reclaim!Work(u)
      BY <1>1 DEF Reclaim!Work, Reclaim!HasInterp
    <3>2. QED
      BY <1>1, <1>2, <1>3, <3>1, LocalsKept DEF ReclaimInv
  <2>3. QED
    BY <1>1, <1>2, <2>1, <2>2 DEF ReclaimInv, Locals
<1>7. Children'
  <2>1. \A u \in Reclaimers : /\ Creating(u)' <=> Creating(u)
                              /\ q_pc[u] = "new" => q_pc'[u] = "new"
    BY <1>1, <1>3 DEF Creating
  <2>2. QED
    BY <1>1, <2>1, ChildrenKept DEF ReclaimInv
<1>8. Kept' /\ Queued' = Queued
  BY <1>1, <1>2, KeptKept DEF ReclaimInv
<1>9. Held'
  <2>1. ASSUME NEW u \in Reclaimers, holds'[u] # NoBlock
        PROVE  qsbr[u] # 0 /\ u # t /\ holds'[u] = holds[u]
    BY <1>3, <2>1 DEF ReclaimInv, Held, Slots, Active, Processing
  <2>2. \A u \in Reclaimers, goal \in Nat : NotPassed(u, goal) => rd_seq' < goal
    BY <1>1 DEF NotPassed
  <2>3. q_pc'[t] \notin {"scan", "update", "polled"}
    BY <1>3
  <2>4. QED
    BY <1>1, <1>3, <1>4, <1>8, <2>1, <2>2, <2>3, HeldMoves
<1>10. QED
  BY <1>5, <1>4, <1>6, <1>7, <1>8, <1>9 DEF ReclaimInv

\* So does a thread that goes for good.
LEMMA DeleteCurrentKeeps ==
    ASSUME ReclaimInv, NEW t \in Reclaimers, Reclaim!DeleteCurrent(t)
    PROVE  ReclaimInv'
<1>1. /\ q_pc[t] = "cleared" /\ Reclaim!Store(t, Reclaim!QSBR_OFFLINE) /\ q_pc' = [q_pc EXCEPT ![t] = "deleting"]
      /\ UNCHANGED <<wr_seq, rd_seq, freelist, qsbr, shared, freed, holds, queue, interp,
                     resume, seq, min_seq, i, removed, child>>
  BY DEF Reclaim!DeleteCurrent, Reclaim!Goto, Reclaim!seqs, Reclaim!memory, Reclaim!queues, Reclaim!locals
<1>2. /\ q_pc \in [Reclaimers -> PC]
      /\ wr_seq \in Nat /\ rd_seq \in Nat /\ rd_seq <= wr_seq
      /\ removed[t] = NoBlock /\ interp.mutex # t /\ holds[t] = NoBlock
  BY <1>1 DEF ReclaimInv, ReclaimTypes, Reclaim!TypeOK, Locals, LocalsOf, Held, Processing
<1>3. /\ q_pc' \in [Reclaimers -> PC] /\ q_pc'[t] = "deleting"
      /\ \A u \in Reclaimers \ {t} : q_pc'[u] = q_pc[u]
  BY <1>1, <1>2 DEF PC, Inactive
<1>4. /\ array' \in Seq(Reclaim!Slot) /\ DOMAIN array' = DOMAIN array /\ Len(array') = Len(array)
      /\ \A u \in Reclaimers \ {t} : qsbr[u] # 0 => array'[qsbr[u]] = array[qsbr[u]]
      /\ Slots'
  <2>1. Reclaim!QSBR_OFFLINE \in Nat
    BY DEF Reclaim!QSBR_OFFLINE
  <2>2. q_pc[t] \notin {"none", "new"} /\ q_pc'[t] \notin {"none", "new"} /\ q_pc'[t] \notin Active
    BY <1>1, <1>3 DEF Active, Processing
  <2>3. QED
    BY <1>1, <1>2, <1>3, <2>1, <2>2, StoreFacts
<1>5. ReclaimTypes'
  BY <1>1, <1>3, <1>4 DEF ReclaimInv, ReclaimTypes, Reclaim!TypeOK
<1>6. Locals'
  <2>1. LocalsOf(t)'
    BY <1>1, <1>2, <1>3 DEF LocalsOf
  <2>2. ASSUME NEW u \in Reclaimers \ {t} PROVE LocalsOf(u)'
    <3>1. Reclaim!Work(u)' = Reclaim!Work(u)
      BY <1>1 DEF Reclaim!Work, Reclaim!HasInterp
    <3>2. QED
      BY <1>1, <1>2, <1>3, <3>1, LocalsKept DEF ReclaimInv
  <2>3. QED
    BY <1>1, <1>2, <2>1, <2>2 DEF ReclaimInv, Locals
<1>7. Children'
  <2>1. \A u \in Reclaimers : /\ Creating(u)' <=> Creating(u)
                              /\ q_pc[u] = "new" => q_pc'[u] = "new"
    BY <1>1, <1>3 DEF Creating
  <2>2. QED
    BY <1>1, <2>1, ChildrenKept DEF ReclaimInv
<1>8. Kept' /\ Queued' = Queued
  BY <1>1, <1>2, KeptKept DEF ReclaimInv
<1>9. Held'
  <2>1. ASSUME NEW u \in Reclaimers, holds'[u] # NoBlock
        PROVE  qsbr[u] # 0 /\ u # t /\ holds'[u] = holds[u]
    BY <1>1, <1>2, <2>1 DEF ReclaimInv, Held, Slots, Active, Processing
  <2>2. \A u \in Reclaimers, goal \in Nat : NotPassed(u, goal) => rd_seq' < goal
    BY <1>1 DEF NotPassed
  <2>3. q_pc'[t] \notin {"scan", "update", "polled"}
    BY <1>3
  <2>4. QED
    BY <1>1, <1>3, <1>4, <1>8, <2>1, <2>2, <2>3, HeldMoves
<1>10. QED
  BY <1>5, <1>4, <1>6, <1>7, <1>8, <1>9 DEF ReclaimInv

\* A thread reads the shared pointer: nobody has removed the block behind it.
LEMMA ReadKeeps ==
    ASSUME ReclaimInv, NEW t \in Reclaimers, Reclaim!Read(t)
    PROVE  ReclaimInv'
<1>1. /\ q_pc[t] = "run" /\ holds' = [holds EXCEPT ![t] = shared]
      /\ UNCHANGED <<wr_seq, rd_seq, Reclaim!slots, shared, freed, queue, interp, q_pc, resume, seq,
                     min_seq, i, removed, child>>
  BY DEF Reclaim!Read, Reclaim!seqs, Reclaim!queues, Reclaim!locals
<1>2. /\ wr_seq \in Nat /\ holds \in [Reclaimers -> Blocks \cup {NoBlock}] /\ shared \in Blocks
      /\ holds'[t] = shared /\ \A u \in Reclaimers \ {t} : holds'[u] = holds[u]
  BY <1>1 DEF ReclaimInv, ReclaimTypes, Reclaim!TypeOK
<1>3. ReclaimTypes'
  BY <1>1, <1>2 DEF ReclaimInv, ReclaimTypes, Reclaim!TypeOK, Reclaim!slots
<1>4. Slots'
  BY <1>1, <1>2, SlotsKept DEF ReclaimInv
<1>5. Locals'
  BY <1>1 DEF ReclaimInv, Locals, LocalsOf, Reclaim!Work, Reclaim!HasInterp
<1>6. Children'
  BY <1>1 DEF ReclaimInv, Children, Creating
<1>7. Kept' /\ Queued' = Queued
  BY <1>1, <1>2, KeptKept DEF ReclaimInv
<1>8. Held'
  <2>1. shared \notin freed /\ \A x \in Queued : x.ptr # shared
    BY DEF ReclaimInv, Kept
  <2>2. ASSUME NEW u \in Reclaimers, NEW goal PROVE NotPassed(u, goal)' <=> NotPassed(u, goal)
    BY <1>1 DEF NotPassed, Reclaim!slots
  <2>3. ASSUME NEW u \in Reclaimers, holds'[u] # NoBlock
        PROVE  /\ q_pc'[u] \in Active \ {"quiescent", "cleared", "abandon"} /\ holds'[u] \notin freed'
               /\ \A x \in Queued' : x.ptr = holds'[u] => NotPassed(u, x.goal)'
    <3>1. CASE u = t
      BY <1>1, <1>2, <1>7, <2>1, <3>1 DEF Active
    <3>2. CASE u # t
      BY <1>1, <1>2, <1>7, <2>2, <2>3, <3>2 DEF ReclaimInv, Held
    <3>3. QED
      BY <3>1, <3>2
  <2>4. QED
    BY <2>3 DEF Held
<1>9. QED
  BY <1>3, <1>4, <1>5, <1>6, <1>7, <1>8 DEF ReclaimInv

\* It replaces the block by one that is free.
LEMMA ReplaceKeeps ==
    ASSUME ReclaimInv, NEW t \in Reclaimers, Reclaim!Replace(t)
    PROVE  ReclaimInv'
<1>1. PICK b \in freed :
         /\ q_pc[t] = "run" /\ shared' = b /\ freed' = freed \ {b}
         /\ removed' = [removed EXCEPT ![t] = shared] /\ q_pc' = [q_pc EXCEPT ![t] = "free"]
         /\ UNCHANGED <<wr_seq, rd_seq, Reclaim!slots, holds, queue, interp, resume, seq, min_seq, i, child>>
  BY DEF Reclaim!Replace, Reclaim!Goto, Reclaim!seqs, Reclaim!queues
<1>2. /\ wr_seq \in Nat /\ rd_seq <= wr_seq /\ q_pc \in [Reclaimers -> PC] /\ freed \subseteq Blocks
      /\ shared \in Blocks /\ shared # NoBlock /\ shared \notin freed
      /\ removed \in [Reclaimers -> Blocks \cup {NoBlock}]
  BY ReclaimersAre DEF ReclaimInv, ReclaimTypes, Reclaim!TypeOK, Locals, Kept
<1>3. /\ q_pc' \in [Reclaimers -> PC] /\ q_pc'[t] = "free" /\ removed'[t] = shared
      /\ removed' \in [Reclaimers -> Blocks \cup {NoBlock}]
      /\ \A u \in Reclaimers \ {t} : q_pc'[u] = q_pc[u] /\ removed'[u] = removed[u]
  BY <1>1, <1>2 DEF PC, Active
<1>4. ReclaimTypes'
  BY <1>1, <1>2, <1>3 DEF ReclaimInv, ReclaimTypes, Reclaim!TypeOK, Reclaim!slots
<1>5. Slots'
  <2>1. q_pc[t] \in Active /\ q_pc'[t] \in Active
    BY <1>1, <1>3 DEF Active
  <2>2. QED
    BY <1>1, <1>2, <1>3, <2>1, SlotsKept DEF ReclaimInv
<1>6. Locals'
  <2>1. LocalsOf(t)'
    BY <1>1, <1>2, <1>3 DEF ReclaimInv, Locals, LocalsOf, Processing
  <2>2. ASSUME NEW u \in Reclaimers \ {t} PROVE LocalsOf(u)'
    <3>1. Reclaim!Work(u)' = Reclaim!Work(u)
      BY <1>1 DEF Reclaim!Work, Reclaim!HasInterp
    <3>2. QED
      BY <1>1, <1>2, <1>3, <3>1, LocalsKept DEF ReclaimInv
  <2>3. QED
    BY <1>1, <1>2, <2>1, <2>2 DEF ReclaimInv, Locals
<1>7. Children'
  <2>1. \A u \in Reclaimers : /\ Creating(u)' <=> Creating(u)
                              /\ q_pc[u] = "new" => q_pc'[u] = "new"
    BY <1>1, <1>3 DEF Creating
  <2>2. QED
    BY <1>1, <2>1, ChildrenKept DEF ReclaimInv
<1>8. Queues' = Queues
  BY <1>1 DEF Queues, QueuesOf
<1>9. Queued' = Queued
  BY <1>8 DEF Queued
<1>10. Kept'
  <2>1. \A x \in Queued : x.ptr \notin freed /\ x.ptr # shared /\ x.goal <= wr_seq + Reclaim!QSBR_INCR
    BY DEF ReclaimInv, Kept
  <2>2. ASSUME NEW u \in Reclaimers, removed[u] # NoBlock
        PROVE  /\ removed[u] \notin freed /\ removed[u] # shared
               /\ \A x \in Queued : x.ptr # removed[u]
               /\ \A v \in Reclaimers : removed[u] = removed[v] => u = v
    BY <2>2 DEF ReclaimInv, Kept
  <2>3. ASSUME NEW u \in Reclaimers, removed'[u] # NoBlock
        PROVE  /\ removed'[u] \notin freed' /\ removed'[u] # shared'
               /\ \A x \in Queued : x.ptr # removed'[u]
               /\ \A v \in Reclaimers : removed'[u] = removed'[v] => u = v
    <3>1. CASE u = t
      BY <1>1, <1>2, <1>3, <2>1, <2>2, <3>1
    <3>2. CASE u # t
      BY <1>1, <1>2, <1>3, <2>1, <2>2, <2>3, <3>2
    <3>3. QED
      BY <3>1, <3>2
  <2>4. QED
    BY <1>1, <1>8, <1>9, <2>1, <2>3 DEF ReclaimInv, Kept
<1>11. Held'
  <2>1. holds[t] # NoBlock => q_pc'[t] \in Active \ {"quiescent", "cleared", "abandon"}
    BY <1>3 DEF Active
  <2>2. \A u \in Reclaimers, goal \in Nat : NotPassed(u, goal) => rd_seq' < goal
    BY <1>1 DEF NotPassed
  <2>3. q_pc'[t] \notin {"scan", "update", "polled"}
    BY <1>3
  <2>4. UNCHANGED <<array, qsbr>> /\ freed' \ freed = {}
    BY <1>1 DEF Reclaim!slots
  <2>5. QED
    BY <1>1, <1>3, <1>9, <2>1, <2>2, <2>3, <2>4, HeldMoves
<1>12. QED
  BY <1>4, <1>5, <1>6, <1>7, <1>10, <1>11 DEF ReclaimInv

\* In a stopped world the others read nothing, and are in no call.
LEMMA StoppedHoldNothing ==
    ASSUME Held, Slots, NEW t \in Reclaimers, Reclaim!Stopped(t)
    PROVE  \A u \in Reclaimers \ {t} :
              /\ holds[u] = NoBlock
              /\ q_pc[u] \in {"none", "new", "detached", "parked", "deleting"}
              /\ qsbr[u] # 0 => array[qsbr[u]].seq = Reclaim!QSBR_OFFLINE
BY DEF Held, Slots, SlotOf, Reclaim!Stopped, Reclaim!Offline, Active, Inactive, Processing

\* There is no memory to remember the block: the others are stopped and read
\* nothing.
LEMMA FreeNowKeeps ==
    ASSUME ReclaimInv, NEW t \in Reclaimers, Reclaim!FreeNow(t)
    PROVE  ReclaimInv'
<1>1. /\ q_pc[t] = "free" /\ Reclaim!Stopped(t) /\ freed' = freed \cup {removed[t]}
      /\ holds' = [holds EXCEPT ![t] = NoBlock] /\ removed' = [removed EXCEPT ![t] = NoBlock]
      /\ q_pc' = [q_pc EXCEPT ![t] = "run"]
      /\ UNCHANGED <<wr_seq, rd_seq, Reclaim!slots, shared, queue, interp, resume, seq, min_seq, i, child>>
  BY DEF Reclaim!FreeNow, Reclaim!Goto, Reclaim!seqs, Reclaim!queues
<1>2. /\ wr_seq \in Nat /\ rd_seq <= wr_seq /\ q_pc \in [Reclaimers -> PC] /\ freed \subseteq Blocks
      /\ removed \in [Reclaimers -> Blocks \cup {NoBlock}] /\ removed[t] # NoBlock
      /\ holds \in [Reclaimers -> Blocks \cup {NoBlock}]
  BY <1>1 DEF ReclaimInv, ReclaimTypes, Reclaim!TypeOK, Locals, LocalsOf
<1>3. /\ q_pc' \in [Reclaimers -> PC] /\ q_pc'[t] = "run" /\ removed'[t] = NoBlock
      /\ removed' \in [Reclaimers -> Blocks \cup {NoBlock}]
      /\ holds' \in [Reclaimers -> Blocks \cup {NoBlock}] /\ holds'[t] = NoBlock
      /\ \A u \in Reclaimers \ {t} : q_pc'[u] = q_pc[u] /\ removed'[u] = removed[u] /\ holds'[u] = holds[u]
  BY <1>1, <1>2 DEF PC, Active
<1>4. ReclaimTypes'
  <2>1. freed' \subseteq Blocks
    BY <1>1, <1>2
  <2>2. QED
    BY <1>1, <1>2, <1>3, <2>1 DEF ReclaimInv, ReclaimTypes, Reclaim!TypeOK, Reclaim!slots
<1>5. Slots'
  <2>1. q_pc[t] \in Active /\ q_pc'[t] \in Active
    BY <1>1, <1>3 DEF Active
  <2>2. QED
    BY <1>1, <1>2, <1>3, <2>1, SlotsKept DEF ReclaimInv
<1>6. Locals'
  <2>1. LocalsOf(t)'
    BY <1>1, <1>2, <1>3 DEF ReclaimInv, Locals, LocalsOf, Processing
  <2>2. ASSUME NEW u \in Reclaimers \ {t} PROVE LocalsOf(u)'
    <3>1. Reclaim!Work(u)' = Reclaim!Work(u)
      BY <1>1 DEF Reclaim!Work, Reclaim!HasInterp
    <3>2. QED
      BY <1>1, <1>2, <1>3, <3>1, LocalsKept DEF ReclaimInv
  <2>3. QED
    BY <1>1, <1>2, <2>1, <2>2 DEF ReclaimInv, Locals
<1>7. Children'
  <2>1. \A u \in Reclaimers : /\ Creating(u)' <=> Creating(u)
                              /\ q_pc[u] = "new" => q_pc'[u] = "new"
    BY <1>1, <1>3 DEF Creating
  <2>2. QED
    BY <1>1, <2>1, ChildrenKept DEF ReclaimInv
<1>8. Queues' = Queues
  BY <1>1 DEF Queues, QueuesOf
<1>9. Queued' = Queued
  BY <1>8 DEF Queued
<1>10. Kept'
  <2>1. \A x \in Queued : x.ptr \notin freed /\ x.ptr # shared /\ x.goal <= wr_seq + Reclaim!QSBR_INCR
    BY DEF ReclaimInv, Kept
  <2>2. ASSUME NEW u \in Reclaimers, removed[u] # NoBlock
        PROVE  /\ removed[u] \notin freed /\ removed[u] # shared
               /\ \A x \in Queued : x.ptr # removed[u]
               /\ \A v \in Reclaimers : removed[u] = removed[v] => u = v
    BY <2>2 DEF ReclaimInv, Kept
  <2>3. ASSUME NEW u \in Reclaimers, removed'[u] # NoBlock
        PROVE  /\ removed'[u] \notin freed' /\ removed'[u] # shared'
               /\ \A x \in Queued : x.ptr # removed'[u]
               /\ \A v \in Reclaimers : removed'[u] = removed'[v] => u = v
    BY <1>1, <1>2, <1>3, <2>2, <2>3
  <2>4. shared' \notin freed' /\ \A x \in Queued : x.ptr \notin freed' /\ x.ptr # shared'
    BY <1>1, <1>2, <2>1, <2>2 DEF ReclaimInv, Kept
  <2>5. QED
    BY <1>1, <1>8, <1>9, <2>1, <2>3, <2>4 DEF ReclaimInv, Kept
<1>11. Held'
  <2>1. \A u \in Reclaimers : holds'[u] = NoBlock
    BY <1>1, <1>3, StoppedHoldNothing DEF ReclaimInv
  <2>2. QED
    BY <2>1 DEF Held
<1>12. QED
  BY <1>4, <1>5, <1>6, <1>7, <1>10, <1>11 DEF ReclaimInv

\* A queue gets an item of a block that is in none.
LEMMA QueueGains ==
    ASSUME ReclaimTypes, Kept, NEW w \in QueuePlaces, NEW x \in Item,
           Queues' = [Queues EXCEPT ![w] = Append(@, x)],
           \A y \in Queued : y.ptr # x.ptr
    PROVE  Apart(Queues', QueuePlaces) /\ Queued' = Queued \cup {x}
<1>1. /\ Queues \in [QueuePlaces -> Seq(Item)] /\ Queues[w] \in Seq(Item)
      /\ Apart(Queues, QueuePlaces)
  BY QueuesAre DEF Kept
<1>2. <<x>> \in Seq(Item) /\ Reclaim!ToSet(<<x>>) = {x} /\ Distinct(<<x>>) /\ Reclaim!Ptrs(<<x>>) = {x.ptr}
  <2>1. <<x>> \in Seq(Item) /\ DOMAIN <<x>> = {1} /\ <<x>>[1] = x
    OBVIOUS
  <2>2. QED
    BY <2>1 DEF Reclaim!ToSet, Distinct, Reclaim!Ptrs
<1>3. Append(Queues[w], x) = Queues[w] \o <<x>>
  BY <1>1
<1>4. ASSUME NEW v \in QueuePlaces PROVE x.ptr \notin Reclaim!Ptrs(Queues[v])
  <2>1. \A y \in Reclaim!ToSet(Queues[v]) : y \in Queued
    BY DEF Queued
  <2>2. QED
    BY <2>1, PtrsAre
<1>5. /\ Reclaim!ToSet(Append(Queues[w], x)) = Reclaim!ToSet(Queues[w]) \cup {x}
      /\ Reclaim!Ptrs(Append(Queues[w], x)) = Reclaim!Ptrs(Queues[w]) \cup {x.ptr}
      /\ Distinct(Append(Queues[w], x))
  <2>1. Reclaim!Ptrs(Queues[w]) \cap Reclaim!Ptrs(<<x>>) = {} /\ Distinct(Queues[w])
    BY <1>1, <1>2, <1>4 DEF Apart
  <2> DEFINE q == Queues[w]
             one == <<x>>
  <2>2. /\ q \in Seq(Item) /\ one \in Seq(Item) /\ Distinct(q) /\ Distinct(one)
        /\ Reclaim!Ptrs(q) \cap Reclaim!Ptrs(one) = {}
        /\ Reclaim!ToSet(one) = {x} /\ Reclaim!Ptrs(one) = {x.ptr}
        /\ Append(Queues[w], x) = q \o one
    BY <1>1, <1>2, <1>3, <2>1
  <2> HIDE DEF q, one
  <2>3. /\ Reclaim!ToSet(q \o one) = Reclaim!ToSet(q) \cup Reclaim!ToSet(one)
        /\ Reclaim!Ptrs(q \o one) = Reclaim!Ptrs(q) \cup Reclaim!Ptrs(one)
        /\ Distinct(q \o one)
    BY <2>2, Concat
  <2>4. Reclaim!ToSet(q) = Reclaim!ToSet(Queues[w]) /\ Reclaim!Ptrs(q) = Reclaim!Ptrs(Queues[w])
    BY DEF q
  <2>5. QED
    BY <2>2, <2>3, <2>4
<1>6. Queues'[w] = Append(Queues[w], x) /\ \A v \in QueuePlaces \ {w} : Queues'[v] = Queues[v]
  BY <1>1
<1>7. \A v \in QueuePlaces : Distinct(Queues'[v])
  BY <1>1, <1>5, <1>6 DEF Apart
<1>8. ASSUME NEW u \in QueuePlaces, NEW v \in QueuePlaces, u # v PROVE Reclaim!Ptrs(Queues'[u]) \cap Reclaim!Ptrs(Queues'[v]) = {}
  <2>1. Reclaim!Ptrs(Queues[u]) \cap Reclaim!Ptrs(Queues[v]) = {}
    BY <1>1, <1>8 DEF Apart
  <2>2. CASE u = w
    BY <1>4, <1>5, <1>6, <1>8, <2>1, <2>2
  <2>3. CASE v = w
    BY <1>4, <1>5, <1>6, <1>8, <2>1, <2>3
  <2>4. CASE u # w /\ v # w
    BY <1>6, <2>1, <2>4
  <2>5. QED
    BY <2>2, <2>3, <2>4
<1>9. ASSUME NEW y PROVE y \in Queued' <=> y \in Queued \cup {x}
  <2>1. ASSUME NEW v \in QueuePlaces, y \in Reclaim!ToSet(Queues'[v]) PROVE y \in Queued \cup {x}
    BY <1>5, <1>6, <2>1 DEF Queued
  <2>2. ASSUME NEW v \in QueuePlaces, y \in Reclaim!ToSet(Queues[v]) PROVE \E z \in QueuePlaces : y \in Reclaim!ToSet(Queues'[z])
    BY <1>5, <1>6, <2>2
  <2>3. x \in Reclaim!ToSet(Queues'[w])
    BY <1>5, <1>6
  <2>4. QED
    BY <2>1, <2>2, <2>3 DEF Queued
<1>10. QED
  BY <1>7, <1>8, <1>9 DEF Apart

\* The goal of what a thread removes is ahead of every thread, of every scan
\* and of what was found.
LEMMA GoalIsAhead ==
    ASSUME ReclaimInv, NEW u \in Reclaimers, qsbr[u] # 0, q_pc[u] \in Active
    PROVE  NotPassed(u, wr_seq + Reclaim!QSBR_INCR)
<1>1. /\ array[qsbr[u]].seq \in Nat /\ array[qsbr[u]].seq <= wr_seq /\ wr_seq \in Nat
      /\ rd_seq \in Nat /\ rd_seq <= wr_seq /\ wr_seq + Reclaim!QSBR_INCR = wr_seq + 2
  BY SlotFacts DEF ReclaimInv, Slots, SlotOf, Locals, ReclaimTypes, Reclaim!TypeOK, Reclaim!QSBR_INCR
<1>2. ASSUME NEW p \in Reclaimers
      PROVE  /\ min_seq[p] \in Nat /\ seq[p] \in Nat
             /\ q_pc[p] \in {"scan", "update"} => min_seq[p] <= wr_seq
             /\ q_pc[p] = "polled" => seq[p] <= wr_seq
  BY DEF ReclaimInv, ReclaimTypes, Locals, LocalsOf
<1>3. ASSUME NEW n \in Nat, n <= wr_seq PROVE n < wr_seq + Reclaim!QSBR_INCR
  BY <1>1, <1>3
<1>4. QED
  BY <1>1, <1>2, <1>3 DEF NotPassed

\* The block that a thread removed goes to its queue.
LEMMA FreeDelayedKeeps ==
    ASSUME ReclaimInv, NEW t \in Reclaimers, Reclaim!FreeDelayed(t)
    PROVE  ReclaimInv'
<1> DEFINE b == removed[t]
           goal == wr_seq + Reclaim!QSBR_INCR
           x == [ptr |-> b, goal |-> goal]
<1>0. /\ wr_seq \in Nat /\ rd_seq \in Nat /\ rd_seq <= wr_seq /\ q_pc \in [Reclaimers -> PC]
      /\ removed \in [Reclaimers -> Blocks \cup {NoBlock}]
      /\ queue \in [Reclaimers -> Seq(Item)] /\ 1 <= wr_seq /\ goal \in Nat
  <2>1. wr_seq \in Nat
    BY DEF ReclaimInv, ReclaimTypes, Reclaim!TypeOK
  <2>2. goal \in Nat
    BY <2>1 DEF Reclaim!QSBR_INCR
  <2>3. QED
    BY <2>2 DEF ReclaimInv, ReclaimTypes, Reclaim!TypeOK, Locals, Item
<1>1. /\ q_pc[t] = "free" /\ removed' = [removed EXCEPT ![t] = NoBlock]
      /\ q_pc' \in {[q_pc EXCEPT ![t] = "run"], [q_pc EXCEPT ![t] = "process"]}
      /\ UNCHANGED <<rd_seq, freelist, qsbr, shared, freed, holds, interp, resume, seq, min_seq, i, child>>
      /\ \E g : Reclaim!DeferredAdvance(t, g) /\ queue' = [queue EXCEPT ![t] = Append(@, [ptr |-> b, goal |-> g])]
  BY DEF Reclaim!FreeDelayed, Reclaim!Goto, Reclaim!memory
<1>2. b # NoBlock /\ b \in Blocks /\ x \in Item /\ interp.mutex # t
  <2>1. b # NoBlock /\ interp.mutex # t
    BY <1>1 DEF ReclaimInv, Locals, LocalsOf, Processing
  <2>2. QED
    BY <1>0, <2>1 DEF Item
<1>3. qsbr[t] # 0 /\ array[qsbr[t]] \in Reclaim!Slot /\ SlotOf(t)
  <2>1. qsbr[t] # 0
    BY <1>1 DEF ReclaimInv, Slots
  <2>2. QED
    BY <2>1, SlotFacts DEF ReclaimInv, Slots
<1>4. PICK k \in Nat : /\ array' = [array EXCEPT ![qsbr[t]].deferrals = k]
                       /\ wr_seq' \in {wr_seq, goal} /\ queue' = [queue EXCEPT ![t] = Append(@, x)]
  <2>1. PICK g : Reclaim!DeferredAdvance(t, g) /\ queue' = [queue EXCEPT ![t] = Append(@, [ptr |-> b, goal |-> g])]
    BY <1>1
  <2>2. array[qsbr[t]].deferrals + 1 \in Nat
    BY <1>3 DEF Reclaim!Slot
  <2>3. /\ g = goal /\ wr_seq' \in {wr_seq, goal}
        /\ \E k \in Nat : array' = [array EXCEPT ![qsbr[t]].deferrals = k]
    BY <2>1, <2>2 DEF Reclaim!DeferredAdvance
  <2>4. QED
    BY <2>1, <2>3
<1> DEFINE y == [array[qsbr[t]] EXCEPT !.deferrals = k]
<1>5. /\ y \in Reclaim!Slot /\ y.allocated = array[qsbr[t]].allocated /\ y.tstate = array[qsbr[t]].tstate
      /\ y.seq = array[qsbr[t]].seq /\ array' = [array EXCEPT ![qsbr[t]] = y] /\ y.seq \in Nat
  BY <1>3, <1>4 DEF Reclaim!Slot
<1>6. wr_seq' \in Nat /\ wr_seq <= wr_seq' /\ goal <= wr_seq' + Reclaim!QSBR_INCR
  BY <1>0, <1>4 DEF Reclaim!QSBR_INCR
<1>7. /\ q_pc' \in [Reclaimers -> PC] /\ q_pc'[t] \in {"run", "process"} /\ removed'[t] = NoBlock
      /\ removed' \in [Reclaimers -> Blocks \cup {NoBlock}]
      /\ \A u \in Reclaimers \ {t} : q_pc'[u] = q_pc[u] /\ removed'[u] = removed[u]
  BY <1>0, <1>1 DEF PC, Active, Processing
<1>8. queue' \in [Reclaimers -> Seq(Item)] /\ queue'[t] = Append(queue[t], x)
      /\ \A u \in Reclaimers \ {t} : queue'[u] = queue[u]
  <2> HIDE DEF x
  <2>1. Append(queue[t], x) \in Seq(Item)
    BY <1>0, <1>2
  <2>2. QED
    BY <1>0, <1>4, <2>1
<1> HIDE DEF y, x, goal
<1>9. /\ array' \in Seq(Reclaim!Slot) /\ DOMAIN array' = DOMAIN array /\ Len(array') = Len(array)
      /\ array'[qsbr[t]] = y
      /\ \A u \in Reclaimers \ {t} : qsbr[u] # 0 => array'[qsbr[u]] = array[qsbr[u]]
      /\ Slots'
  <2>1. y.allocated /\ y.tstate = t /\ y.seq # Reclaim!QSBR_OFFLINE /\ y.seq <= wr_seq'
    BY <1>0, <1>1, <1>3, <1>5, <1>6 DEF SlotOf, Active
  <2>2. q_pc[t] \notin {"none", "new"} /\ q_pc'[t] \notin {"none", "new"} /\ q_pc'[t] \notin Inactive
    BY <1>1, <1>7 DEF Inactive
  <2>3. QED
    BY <1>1, <1>5, <1>6, <1>7, <2>1, <2>2, OwnSlot
<1>10. ReclaimTypes'
  BY <1>1, <1>6, <1>7, <1>8, <1>9 DEF ReclaimInv, ReclaimTypes, Reclaim!TypeOK, Item
<1>11. Locals'
  <2>1. LocalsOf(t)'
    BY <1>1, <1>2, <1>7 DEF LocalsOf
  <2>2. ASSUME NEW u \in Reclaimers \ {t} PROVE LocalsOf(u)'
    <3>1. Reclaim!Work(u)' = Reclaim!Work(u)
      BY <1>1, <1>8 DEF Reclaim!Work, Reclaim!HasInterp
    <3>2. QED
      BY <1>1, <1>6, <1>7, <3>1, LocalsKept DEF ReclaimInv
  <2>3. 1 <= wr_seq' /\ rd_seq' <= wr_seq'
    BY <1>0, <1>1, <1>6
  <2>4. QED
    BY <2>1, <2>2, <2>3 DEF Locals
<1>12. Children'
  <2>1. \A u \in Reclaimers : /\ Creating(u)' <=> Creating(u)
                              /\ q_pc[u] = "new" => q_pc'[u] = "new"
    BY <1>1, <1>7 DEF Creating
  <2>2. QED
    BY <1>1, <2>1, ChildrenKept DEF ReclaimInv
<1>13. /\ \A z \in Queued : z.ptr \notin freed /\ z.ptr # shared /\ z.goal <= wr_seq + Reclaim!QSBR_INCR
       /\ b \notin freed /\ b # shared /\ \A z \in Queued : z.ptr # b
  BY <1>2 DEF ReclaimInv, Kept
<1>14. x.ptr = b /\ x.goal = goal
  BY DEF x
<1>15. Apart(Queues', QueuePlaces) /\ Queued' = Queued \cup {x}
  <2>1. /\ Queues \in [QueuePlaces -> Seq(Item)] /\ Queues[NoThread] = interp.head
        /\ \A u \in Reclaimers : Queues[u] = queue[u]
    BY QueuesAre DEF ReclaimInv
  <2>2. interp.head \in Seq(Item)
    BY DEF ReclaimInv, ReclaimTypes, Reclaim!TypeOK, Item
  <2>3. /\ QueuesOf(queue', interp.head) \in [QueuePlaces -> Seq(Item)]
        /\ QueuesOf(queue', interp.head)[NoThread] = interp.head
        /\ \A u \in Reclaimers : QueuesOf(queue', interp.head)[u] = queue'[u]
        /\ NoThread \notin Reclaimers
    BY <1>8, <2>2, QueuesTyped
  <2>4. Queues' = QueuesOf(queue', interp.head)
    BY <1>1 DEF Queues, QueuesOf
  <2>5. Queues' = [Queues EXCEPT ![t] = Append(@, x)]
    BY <1>8, <2>1, <2>3, <2>4 DEF QueuePlaces
  <2>6. t \in QueuePlaces /\ \A z \in Queued : z.ptr # x.ptr
    BY <1>13, <1>14 DEF QueuePlaces
  <2>7. QED
    BY <1>2, <2>5, <2>6, QueueGains DEF ReclaimInv
<1>16. Kept'
  <2>1. ASSUME NEW z \in Queued' PROVE z.ptr \notin freed' /\ z.ptr # shared' /\ z.goal <= wr_seq' + Reclaim!QSBR_INCR
    <3>1. CASE z = x
      BY <1>1, <1>6, <1>13, <1>14, <3>1
    <3>2. CASE z # x
      <4>1. z \in Queued /\ z.goal \in Nat
        BY <1>15, <3>2, QueuesAre DEF ReclaimInv
      <4>2. z.goal <= wr_seq' + Reclaim!QSBR_INCR
        BY <1>0, <1>6, <1>13, <4>1 DEF Reclaim!QSBR_INCR
      <4>3. QED
        BY <1>1, <1>13, <4>1, <4>2
    <3>3. QED
      BY <3>1, <3>2
  <2>2. ASSUME NEW u \in Reclaimers, removed[u] # NoBlock
        PROVE  /\ removed[u] \notin freed /\ removed[u] # shared
               /\ \A z \in Queued : z.ptr # removed[u]
               /\ \A v \in Reclaimers : removed[u] = removed[v] => u = v
    BY <2>2 DEF ReclaimInv, Kept
  <2>3. ASSUME NEW u \in Reclaimers, removed'[u] # NoBlock
        PROVE  /\ removed'[u] \notin freed' /\ removed'[u] # shared'
               /\ \A z \in Queued' : z.ptr # removed'[u]
               /\ \A v \in Reclaimers : removed'[u] = removed'[v] => u = v
    <3>1. u # t /\ removed'[u] = removed[u] /\ removed[u] # b
      BY <1>2, <1>7, <2>2, <2>3
    <3>2. \A v \in Reclaimers : removed'[u] = removed'[v] => u = v
      BY <1>2, <1>7, <2>2, <2>3
    <3>3. QED
      BY <1>1, <1>14, <1>15, <2>2, <2>3, <3>1, <3>2
  <2>4. shared' \notin freed'
    BY <1>1 DEF ReclaimInv, Kept
  <2>5. QED
    BY <1>15, <2>1, <2>3, <2>4 DEF Kept
<1>17. Held'
  <2>1. ASSUME NEW u \in Reclaimers, holds'[u] # NoBlock
        PROVE  /\ holds'[u] = holds[u] /\ holds[u] \notin freed' /\ q_pc[u] \in Active \ {"quiescent", "cleared", "abandon"}
               /\ q_pc'[u] \in Active \ {"quiescent", "cleared", "abandon"} /\ qsbr[u] # 0 /\ qsbr'[u] = qsbr[u]
               /\ array'[qsbr'[u]].seq = array[qsbr[u]].seq
    <3>1. holds[u] # NoBlock /\ holds'[u] = holds[u] /\ qsbr'[u] = qsbr[u] /\ freed' = freed
      BY <1>1, <2>1
    <3>2. q_pc[u] \in Active \ {"quiescent", "cleared", "abandon"} /\ holds[u] \notin freed
      BY <3>1 DEF ReclaimInv, Held
    <3>3. qsbr[u] # 0
      BY <3>2 DEF ReclaimInv, Slots, Active, Processing
    <3>4. CASE u = t
      BY <1>5, <1>7, <1>9, <3>1, <3>2, <3>3, <3>4 DEF Active, Processing
    <3>5. CASE u # t
      BY <1>7, <1>9, <3>1, <3>2, <3>3, <3>5
    <3>6. QED
      BY <3>4, <3>5
  <2>2. ASSUME NEW u \in Reclaimers, holds'[u] # NoBlock, NEW g \in Nat, NotPassed(u, g)
        PROVE  NotPassed(u, g)'
    <3>1. rd_seq' < g
      BY <1>1, <2>2 DEF NotPassed
    <3>2. q_pc'[t] \notin {"scan", "update", "polled"}
      BY <1>7
    <3>3. QED
      BY <1>1, <1>7, <2>1, <2>2, <3>1, <3>2, NotPassedKept
  <2>3. ASSUME NEW u \in Reclaimers, holds'[u] # NoBlock, NEW z \in Queued', z.ptr = holds'[u]
        PROVE  NotPassed(u, z.goal)'
    <3>1. CASE z = x
      <4>1. NotPassed(u, goal)
        BY <2>1, <2>3, GoalIsAhead DEF goal
      <4>2. QED
        BY <1>0, <1>14, <2>2, <2>3, <3>1, <4>1
    <3>2. CASE z # x
      <4>1. z \in Queued /\ z.goal \in Nat
        BY <1>15, <3>2, QueuesAre DEF ReclaimInv
      <4>2. NotPassed(u, z.goal)
        BY <1>1, <2>1, <2>3, <4>1 DEF ReclaimInv, Held
      <4>3. QED
        BY <2>2, <2>3, <4>1, <4>2
    <3>3. QED
      BY <3>1, <3>2
  <2>4. QED
    BY <2>1, <2>3 DEF Held
<1>18. QED
  BY <1>9, <1>10, <1>11, <1>12, <1>16, <1>17 DEF ReclaimInv

\* The queues of the threads of S go to the interpreter's.
LEMMA QueuesMerge ==
    ASSUME ReclaimTypes, Kept, NEW S \in SUBSET Reclaimers, NEW m \in Seq(Item), Distinct(m),
           \A x : x \in Reclaim!ToSet(m) <=> \E u \in S : x \in Reclaim!ToSet(queue[u]),
           queue' = [u \in Reclaimers |-> IF u \in S THEN <<>> ELSE queue[u]],
           interp'.head = interp.head \o m
    PROVE  /\ queue' \in [Reclaimers -> Seq(Item)] /\ interp'.head \in Seq(Item)
           /\ Apart(Queues', QueuePlaces) /\ Queued' = Queued
<1>1. /\ queue \in [Reclaimers -> Seq(Item)] /\ interp.head \in Seq(Item)
      /\ Queues[NoThread] = interp.head /\ \A u \in Reclaimers : Queues[u] = queue[u]
      /\ Apart(Queues, QueuePlaces) /\ NoThread \notin Reclaimers /\ Reclaimers \subseteq QueuePlaces
      /\ NoThread \in QueuePlaces
  BY QueuesAre, ReclaimersAre DEF Kept, ReclaimTypes, Reclaim!TypeOK, Item, QueuePlaces
<1>2. /\ <<>> \in Seq(Item) /\ Reclaim!ToSet(<<>>) = {} /\ Distinct(<<>>)
  BY DEF Reclaim!ToSet, Distinct
<1>3. queue' \in [Reclaimers -> Seq(Item)]
  BY <1>1, <1>2
<1>4. \A x : x \in Reclaim!ToSet(m) => \E u \in S : x \in Reclaim!ToSet(Queues[u])
  BY <1>1
<1>5. Reclaim!Ptrs(interp.head) \cap Reclaim!Ptrs(m) = {}
  <2>1. ASSUME NEW x \in Reclaim!ToSet(m) PROVE x.ptr \notin Reclaim!Ptrs(interp.head)
    <3>1. PICK u \in S : x \in Reclaim!ToSet(queue[u])
      BY <2>1
    <3>2. x.ptr \in Reclaim!Ptrs(Queues[u]) /\ u \in QueuePlaces /\ u # NoThread
      BY <1>1, <3>1, PtrsAre
    <3>3. Reclaim!Ptrs(Queues[u]) \cap Reclaim!Ptrs(Queues[NoThread]) = {}
      BY <1>1, <3>2 DEF Apart
    <3>4. QED
      BY <1>1, <3>2, <3>3
  <2>2. QED
    BY <2>1, PtrsAre
<1>6. Distinct(interp.head) /\ \A u \in Reclaimers : Distinct(queue[u])
  BY <1>1 DEF Apart
<1>7. /\ interp'.head \in Seq(Item) /\ Reclaim!ToSet(interp'.head) = Reclaim!ToSet(interp.head) \cup Reclaim!ToSet(m)
      /\ Reclaim!Ptrs(interp'.head) = Reclaim!Ptrs(interp.head) \cup Reclaim!Ptrs(m) /\ Distinct(interp'.head)
  BY <1>1, <1>5, <1>6, Concat
<1>8. /\ Queues'[NoThread] = interp'.head
      /\ \A u \in Reclaimers : Queues'[u] = queue'[u]
  <2>1. Queues' = QueuesOf(queue', interp'.head)
    BY DEF Queues, QueuesOf
  <2>2. interp'.head \in Seq(Item)
    BY <1>7
  <2>3. /\ QueuesOf(queue', interp'.head)[NoThread] = interp'.head
        /\ \A u \in Reclaimers : QueuesOf(queue', interp'.head)[u] = queue'[u]
    <3> HIDE <2>1
    <3>1. QED
      BY <1>3, <2>2, QueuesTyped
  <2>4. QED
    BY <2>1, <2>3, Zenon
<1>9. /\ \A u \in S : Queues'[u] = <<>>
      /\ \A u \in Reclaimers \ S : Queues'[u] = Queues[u]
  BY <1>1, <1>8
<1>10. ASSUME NEW u \in QueuePlaces PROVE Distinct(Queues'[u])
  <2>1. CASE u = NoThread
    BY <1>7, <1>8, <2>1
  <2>2. CASE u \in S
    BY <1>2, <1>9, <2>2
  <2>3. CASE u \in Reclaimers \ S
    BY <1>1, <1>6, <1>9, <2>3
  <2>4. QED
    BY <2>1, <2>2, <2>3 DEF QueuePlaces
<1>11. ASSUME NEW u \in Reclaimers PROVE Reclaim!Ptrs(Queues'[u]) \cap Reclaim!Ptrs(Queues'[NoThread]) = {}
  <2>1. CASE u \in S
    BY <1>2, <1>9, <2>1, PtrsAre
  <2>2. CASE u \in Reclaimers \ S
    <3>1. Reclaim!Ptrs(queue[u]) \cap Reclaim!Ptrs(interp.head) = {}
      BY <1>1 DEF Apart
    <3>2. ASSUME NEW x \in Reclaim!ToSet(m) PROVE x.ptr \notin Reclaim!Ptrs(queue[u])
      <4>1. PICK v \in S : x \in Reclaim!ToSet(queue[v])
        BY <3>2
      <4>2. x.ptr \in Reclaim!Ptrs(queue[v]) /\ u # v
        BY <2>2, <4>1, PtrsAre
      <4>3. Reclaim!Ptrs(queue[u]) \cap Reclaim!Ptrs(queue[v]) = {}
        BY <1>1, <4>2 DEF Apart
      <4>4. QED
        BY <4>2, <4>3
    <3>3. Reclaim!Ptrs(queue[u]) \cap Reclaim!Ptrs(m) = {}
      BY <3>2, PtrsAre
    <3>4. QED
      BY <1>1, <1>7, <1>8, <1>9, <2>2, <3>1, <3>3
  <2>3. QED
    BY <2>1, <2>2
<1>12. ASSUME NEW u \in Reclaimers, NEW v \in Reclaimers, u # v PROVE Reclaim!Ptrs(Queues'[u]) \cap Reclaim!Ptrs(Queues'[v]) = {}
  <2>1. CASE u \in S
    BY <1>2, <1>9, <2>1, PtrsAre
  <2>2. CASE v \in S
    BY <1>2, <1>9, <2>2, PtrsAre
  <2>3. CASE u \in Reclaimers \ S /\ v \in Reclaimers \ S
    <3>1. Reclaim!Ptrs(Queues[u]) \cap Reclaim!Ptrs(Queues[v]) = {}
      BY <1>1, <1>12 DEF Apart
    <3>2. QED
      BY <1>9, <2>3, <3>1
  <2>4. QED
    BY <2>1, <2>2, <2>3
<1>13. Apart(Queues', QueuePlaces)
  <2>1. ASSUME NEW u \in QueuePlaces, NEW v \in QueuePlaces, u # v PROVE Reclaim!Ptrs(Queues'[u]) \cap Reclaim!Ptrs(Queues'[v]) = {}
    BY <1>11, <1>12, <2>1 DEF QueuePlaces
  <2>2. QED
    BY <1>10, <2>1 DEF Apart
<1>14. ASSUME NEW x PROVE x \in Queued' <=> x \in Queued
  <2>1. x \in Queued' <=> \E u \in QueuePlaces : x \in Reclaim!ToSet(Queues'[u])
    BY DEF Queued
  <2>2. x \in Queued <=> \E u \in QueuePlaces : x \in Reclaim!ToSet(Queues[u])
    BY DEF Queued
  <2>3. ASSUME NEW u \in QueuePlaces, x \in Reclaim!ToSet(Queues'[u]) PROVE \E v \in QueuePlaces : x \in Reclaim!ToSet(Queues[v])
    <3>1. CASE u = NoThread
      BY <1>1, <1>4, <1>7, <1>8, <2>3, <3>1
    <3>2. CASE u \in S
      BY <1>2, <1>9, <2>3, <3>2
    <3>3. CASE u \in Reclaimers \ S
      BY <1>9, <2>3, <3>3
    <3>4. QED
      BY <3>1, <3>2, <3>3 DEF QueuePlaces
  <2>4. ASSUME NEW u \in QueuePlaces, x \in Reclaim!ToSet(Queues[u]) PROVE \E v \in QueuePlaces : x \in Reclaim!ToSet(Queues'[v])
    <3>1. CASE u = NoThread
      BY <1>1, <1>7, <1>8, <2>4, <3>1
    <3>2. CASE u \in S
      BY <1>1, <1>7, <1>8, <2>4, <3>2
    <3>3. CASE u \in Reclaimers \ S
      BY <1>9, <2>4, <3>3
    <3>4. QED
      BY <3>1, <3>2, <3>3 DEF QueuePlaces
  <2>5. QED
    BY <2>1, <2>2, <2>3, <2>4
<1>15. QED
  BY <1>3, <1>7, <1>13, <1>14

\* The interpreter's queue takes over the items of a thread's: nobody else has
\* the mutex, and one that waits for it may be woken.
LEMMA MergeKeeps ==
    ASSUME ReclaimInv, NEW t \in Reclaimers, q_pc[t] \in {"run", "abandon"}, Reclaim!Merge(t),
           interp.locked => interp.mutex = t,
           UNCHANGED <<wr_seq, rd_seq, Reclaim!slots, shared, freed, seq, min_seq, i, removed, child>>,
           holds' \in [Reclaimers -> Blocks \cup {NoBlock}], holds'[t] = NoBlock,
           \A u \in Reclaimers \ {t} : holds'[u] = holds[u]
    PROVE  ReclaimInv'
<1>1. /\ wr_seq \in Nat /\ rd_seq <= wr_seq /\ NoThread \notin Reclaimers
      /\ queue \in [Reclaimers -> Seq(Item)] /\ interp.head \in Seq(Item)
      /\ removed[t] = NoBlock /\ (interp.mutex # NoThread => interp.locked)
  BY ReclaimersAre DEF ReclaimInv, ReclaimTypes, Reclaim!TypeOK, Locals, LocalsOf, Item
<1>2. /\ queue' = [queue EXCEPT ![t] = <<>>]
      /\ Reclaim!Unlock(t, "cleared", interp.head \o queue[t], TRUE)
  BY DEF Reclaim!Merge
<1>3. /\ interp' \in [head : Seq(Item), has_work : BOOLEAN, locked : BOOLEAN, mutex : Reclaimers \cup {NoThread}]
      /\ interp'.head = interp.head \o queue[t] /\ interp'.has_work = TRUE /\ interp'.mutex # t
      /\ interp'.mutex # NoThread => interp'.locked
      /\ q_pc' \in [Reclaimers -> PC] /\ q_pc'[t] = "cleared"
      /\ resume' \in [Reclaimers -> {"run", "register", "abandon"}] /\ resume'[t] = resume[t]
      /\ \A u \in Reclaimers \ {t} :
            \/ q_pc'[u] = q_pc[u] /\ resume'[u] = resume[u] /\ interp'.mutex # u
            \/ Woken(u)
  <2> DEFINE q == interp.head \o queue[t]
  <2>1. q \in Seq(Item) /\ TRUE \in BOOLEAN /\ "cleared" \in PC
    BY <1>1 DEF PC, Active
  <2>2. Reclaim!Unlock(t, "cleared", q, TRUE)
    BY <1>2
  <2> HIDE DEF q
  <2>3. /\ interp' \in [head : Seq(Item), has_work : BOOLEAN, locked : BOOLEAN, mutex : Reclaimers \cup {NoThread}]
        /\ interp'.head = q /\ interp'.has_work = TRUE /\ interp'.mutex # t
        /\ interp'.mutex # NoThread => interp'.locked
        /\ q_pc' \in [Reclaimers -> PC] /\ q_pc'[t] = "cleared"
        /\ resume' \in [Reclaimers -> {"run", "register", "abandon"}] /\ resume'[t] = resume[t]
        /\ \A u \in Reclaimers \ {t} :
              \/ q_pc'[u] = q_pc[u] /\ resume'[u] = resume[u] /\ interp'.mutex # u
              \/ Woken(u)
    BY <2>1, <2>2, UnlockFacts
  <2>4. QED
    BY <2>3 DEF q
<1>4. /\ queue' \in [Reclaimers -> Seq(Item)] /\ interp'.head \in Seq(Item)
      /\ Apart(Queues', QueuePlaces) /\ Queued' = Queued
  <2>1. queue' = [u \in Reclaimers |-> IF u \in {t} THEN <<>> ELSE queue[u]]
    BY <1>1, <1>2
  <2>2. queue[t] \in Seq(Item) /\ Distinct(queue[t])
    <3>1. Queues[t] = queue[t]
      BY QueuesAre DEF ReclaimInv
    <3>2. QED
      BY <1>1, <3>1 DEF ReclaimInv, Kept, Apart, QueuePlaces
  <2>3. \A x : x \in Reclaim!ToSet(queue[t]) <=> \E u \in {t} : x \in Reclaim!ToSet(queue[u])
    OBVIOUS
  <2>4. {t} \in SUBSET Reclaimers /\ interp'.head = interp.head \o queue[t]
    BY <1>3
  <2>5. QED
    BY <2>1, <2>2, <2>3, <2>4, QueuesMerge DEF ReclaimInv
<1>5. ReclaimTypes'
  BY <1>1, <1>3, <1>4 DEF ReclaimInv, ReclaimTypes, Reclaim!TypeOK, Item, Reclaim!slots
<1>6. LocalsOf(t)'
  BY <1>1, <1>3 DEF LocalsOf
<1>7. ASSUME NEW u \in Reclaimers \ {t}
      PROVE  \/ /\ q_pc'[u] = q_pc[u] /\ resume'[u] = resume[u]
                /\ Reclaim!Work(u)' = Reclaim!Work(u) /\ (interp'.mutex = u => interp.mutex = u)
             \/ Woken(u)
  <2>1. interp.mutex # u /\ queue'[u] = queue[u]
    BY <1>1, <1>2
  <2>2. ASSUME interp'.mutex # u PROVE Reclaim!Work(u)' = Reclaim!Work(u)
    BY <2>1, <2>2 DEF Reclaim!Work, Reclaim!HasInterp
  <2>3. QED
    BY <1>3, <2>2
<1>8. Kept'
  <2>1. \A c \in freed' \ freed : /\ \E x \in Queued : x.ptr = c
                                  /\ \A x \in Queued' : x.ptr # c
    OBVIOUS
  <2>2. wr_seq' \in Nat /\ wr_seq <= wr_seq'
    BY <1>1
  <2>3. QED
    BY <1>4, <2>1, <2>2, KeptShrinks DEF ReclaimInv
<1>9. /\ Creating(t)' <=> Creating(t)
      /\ q_pc[t] \in Active /\ q_pc'[t] \in Active
      /\ q_pc'[t] \notin {"scan", "update", "polled"}
  BY <1>3 DEF Creating, Active
<1>10. rd_seq' <= wr_seq /\ \A u \in Reclaimers, goal \in Nat : NotPassed(u, goal) => rd_seq' < goal
  BY <1>1 DEF NotPassed
<1>11. QED
  BY <1>4, <1>5, <1>6, <1>7, <1>8, <1>9, <1>10, Moves

\* The mutex is locked: the thread waits for it, detached.
LEMMA ParkKeeps ==
    ASSUME ReclaimInv, NEW t \in Reclaimers, q_pc[t] \in {"run", "abandon"},
           Reclaim!Store(t, Reclaim!QSBR_OFFLINE), Reclaim!Goto(t, "parked"), interp.mutex # t,
           UNCHANGED <<wr_seq, rd_seq, freelist, qsbr, shared, freed, queue, interp, resume,
                       seq, min_seq, i, removed, child>>,
           holds' \in [Reclaimers -> Blocks \cup {NoBlock}], holds'[t] = NoBlock,
           \A u \in Reclaimers \ {t} : holds'[u] = holds[u]
    PROVE  ReclaimInv'
<1>1. /\ q_pc \in [Reclaimers -> PC] /\ wr_seq \in Nat /\ rd_seq \in Nat /\ rd_seq <= wr_seq
      /\ removed[t] = NoBlock
  BY DEF ReclaimInv, ReclaimTypes, Reclaim!TypeOK, Locals, LocalsOf
<1>2. /\ q_pc' \in [Reclaimers -> PC] /\ q_pc'[t] = "parked"
      /\ \A u \in Reclaimers \ {t} : q_pc'[u] = q_pc[u]
  BY <1>1 DEF Reclaim!Goto, PC, Inactive
<1>3. /\ array' \in Seq(Reclaim!Slot) /\ DOMAIN array' = DOMAIN array /\ Len(array') = Len(array)
      /\ \A u \in Reclaimers \ {t} : qsbr[u] # 0 => array'[qsbr[u]] = array[qsbr[u]]
      /\ Slots'
  <2>1. Reclaim!QSBR_OFFLINE \in Nat
    BY DEF Reclaim!QSBR_OFFLINE
  <2>2. q_pc[t] \notin {"none", "new"} /\ q_pc'[t] \notin {"none", "new"} /\ q_pc'[t] \notin Active
    BY <1>2 DEF Active, Processing
  <2>3. QED
    BY <1>1, <1>2, <2>1, <2>2, StoreFacts
<1>4. ReclaimTypes'
  BY <1>2, <1>3 DEF ReclaimInv, ReclaimTypes, Reclaim!TypeOK
<1>5. Locals'
  <2>1. LocalsOf(t)'
    BY <1>1, <1>2 DEF LocalsOf
  <2>2. ASSUME NEW u \in Reclaimers \ {t} PROVE LocalsOf(u)'
    <3>1. Reclaim!Work(u)' = Reclaim!Work(u)
      BY DEF Reclaim!Work, Reclaim!HasInterp
    <3>2. QED
      BY <1>1, <1>2, <3>1, LocalsKept DEF ReclaimInv
  <2>3. QED
    BY <1>1, <2>1, <2>2 DEF ReclaimInv, Locals
<1>6. Children'
  <2>1. \A u \in Reclaimers : /\ Creating(u)' <=> Creating(u)
                              /\ q_pc[u] = "new" => q_pc'[u] = "new"
    BY <1>2 DEF Creating
  <2>2. QED
    BY <2>1, ChildrenKept DEF ReclaimInv
<1>7. Kept' /\ Queued' = Queued
  BY <1>1, KeptKept DEF ReclaimInv
<1>8. Held'
  <2>1. ASSUME NEW u \in Reclaimers, holds'[u] # NoBlock
        PROVE  qsbr[u] # 0 /\ u # t /\ holds'[u] = holds[u]
    BY <2>1 DEF ReclaimInv, Held, Slots, Active, Processing
  <2>2. \A u \in Reclaimers, goal \in Nat : NotPassed(u, goal) => rd_seq' < goal
    BY DEF NotPassed
  <2>3. q_pc'[t] \notin {"scan", "update", "polled"}
    BY <1>2
  <2>4. QED
    BY <1>2, <1>3, <1>7, <2>1, <2>2, <2>3, HeldMoves
<1>9. QED
  BY <1>3, <1>4, <1>5, <1>6, <1>7, <1>8 DEF ReclaimInv

\* It merges its queue, or waits until it can.
LEMMA MergeQueueKeeps ==
    ASSUME ReclaimInv, NEW t \in Reclaimers, q_pc[t] \in {"run", "abandon"}, Reclaim!MergeQueue(t),
           UNCHANGED <<wr_seq, rd_seq, freelist, qsbr, shared, freed, seq, min_seq, i, removed, child>>,
           holds' \in [Reclaimers -> Blocks \cup {NoBlock}], holds'[t] = NoBlock,
           \A u \in Reclaimers \ {t} : holds'[u] = holds[u]
    PROVE  ReclaimInv'
<1>1. CASE interp.locked /\ interp.mutex # t
  <2>1. /\ Reclaim!Store(t, Reclaim!QSBR_OFFLINE) /\ Reclaim!Goto(t, "parked")
        /\ UNCHANGED <<queue, interp, resume>>
    BY <1>1 DEF Reclaim!MergeQueue, Reclaim!queues
  <2>2. QED
    BY <1>1, <2>1, ParkKeeps
<1>2. CASE ~(interp.locked /\ interp.mutex # t)
  <2>1. Reclaim!Merge(t) /\ UNCHANGED Reclaim!slots
    BY <1>2 DEF Reclaim!MergeQueue, Reclaim!slots
  <2>2. QED
    BY <1>2, <2>1, MergeKeeps
<1>3. QED
  BY <1>1, <1>2

\* A thread state is cleared.
LEMMA AbandonDelayedKeeps ==
    ASSUME ReclaimInv, NEW t \in Reclaimers, Reclaim!AbandonDelayed(t)
    PROVE  ReclaimInv'
<1>1. /\ q_pc[t] = "run" /\ holds' = [holds EXCEPT ![t] = NoBlock]
      /\ UNCHANGED <<wr_seq, rd_seq, freelist, qsbr, shared, freed, seq, min_seq, i, removed, child>>
  BY DEF Reclaim!AbandonDelayed, Reclaim!seqs
<1>2. /\ holds' \in [Reclaimers -> Blocks \cup {NoBlock}] /\ holds'[t] = NoBlock
      /\ \A u \in Reclaimers \ {t} : holds'[u] = holds[u]
  BY <1>1 DEF ReclaimInv, ReclaimTypes, Reclaim!TypeOK
<1>3. CASE queue[t] = <<>>
  <2>1. q_pc' = [q_pc EXCEPT ![t] = "cleared"] /\ UNCHANGED <<array, queue, interp, resume>>
    BY <1>3 DEF Reclaim!AbandonDelayed, Reclaim!Goto, Reclaim!queues
  <2>2. /\ wr_seq \in Nat /\ rd_seq <= wr_seq /\ removed[t] = NoBlock /\ interp.mutex # t
        /\ q_pc' \in [Reclaimers -> PC] /\ q_pc'[t] = "cleared"
        /\ \A u \in Reclaimers \ {t} : q_pc'[u] = q_pc[u]
    BY <1>1, <2>1 DEF ReclaimInv, ReclaimTypes, Reclaim!TypeOK, Locals, LocalsOf, PC, Active, Processing
  <2>3. ReclaimTypes'
    BY <1>1, <1>2, <2>1, <2>2 DEF ReclaimInv, ReclaimTypes, Reclaim!TypeOK
  <2>4. LocalsOf(t)'
    BY <1>1, <2>1, <2>2 DEF LocalsOf
  <2>5. /\ Creating(t)' <=> Creating(t)
        /\ q_pc[t] \in Active /\ q_pc'[t] \in Active
        /\ q_pc'[t] \notin {"scan", "update", "polled"}
    BY <1>1, <2>2 DEF Creating, Active
  <2>6. rd_seq' <= wr_seq /\ \A u \in Reclaimers, goal \in Nat : NotPassed(u, goal) => rd_seq' < goal
    BY <1>1, <2>2 DEF NotPassed
  <2>7. UNCHANGED <<wr_seq, Reclaim!slots, child>>
    BY <1>1, <2>1 DEF Reclaim!slots
  <2>8. QED
    BY <1>1, <1>2, <2>1, <2>2, <2>3, <2>4, <2>5, <2>6, <2>7, OnlyMoves, Moves
<1>4. CASE queue[t] # <<>>
  <2>1. Reclaim!MergeQueue(t)
    BY <1>4 DEF Reclaim!AbandonDelayed
  <2>2. QED
    BY <1>1, <1>2, <2>1, MergeQueueKeeps
<1>5. QED
  BY <1>3, <1>4

\* So is one that waited for the mutex, and holds no block.
LEMMA AbandonWokenKeeps ==
    ASSUME ReclaimInv, NEW t \in Reclaimers, Reclaim!AbandonWoken(t)
    PROVE  ReclaimInv'
<1>1. /\ q_pc[t] = "abandon" /\ Reclaim!MergeQueue(t)
      /\ UNCHANGED <<wr_seq, rd_seq, freelist, qsbr, shared, freed, holds, seq, min_seq, i, removed, child>>
  BY DEF Reclaim!AbandonWoken, Reclaim!seqs, Reclaim!memory
<1>2. /\ holds' \in [Reclaimers -> Blocks \cup {NoBlock}] /\ holds'[t] = NoBlock
      /\ \A u \in Reclaimers \ {t} : holds'[u] = holds[u]
  BY <1>1 DEF ReclaimInv, ReclaimTypes, Reclaim!TypeOK, Held
<1>3. QED
  BY <1>1, <1>2, MergeQueueKeeps

\* Slots that are put in front of the freelist.
LEMMA Joined ==
    ASSUME NEW D, NEW a \in Seq(D), NEW b \in Seq(D), Reclaim!IsInjective(a), Reclaim!IsInjective(b),
           Reclaim!ToSet(a) \cap Reclaim!ToSet(b) = {}
    PROVE  /\ a \o b \in Seq(D) /\ Reclaim!IsInjective(a \o b)
           /\ Reclaim!ToSet(a \o b) = Reclaim!ToSet(a) \cup Reclaim!ToSet(b)
<1>1. /\ a \o b \in Seq(D) /\ DOMAIN (a \o b) = 1..Len(a) + Len(b)
      /\ DOMAIN a = 1..Len(a) /\ DOMAIN b = 1..Len(b) /\ Len(a) \in Nat /\ Len(b) \in Nat
  OBVIOUS
<1>2. \A k \in 1..Len(a) + Len(b) : (a \o b)[k] = IF k <= Len(a) THEN a[k] ELSE b[k - Len(a)]
  OBVIOUS
<1>3. \A k \in 1..Len(a) : k \in 1..Len(a) + Len(b) /\ (a \o b)[k] = a[k]
  BY <1>1, <1>2
<1>4. \A k \in 1..Len(b) : Len(a) + k \in 1..Len(a) + Len(b) /\ (a \o b)[Len(a) + k] = b[k]
  <2>1. SUFFICES ASSUME NEW k \in 1..Len(b)
                 PROVE  Len(a) + k \in 1..Len(a) + Len(b) /\ (a \o b)[Len(a) + k] = b[k]
    OBVIOUS
  <2>2. Len(a) + k \in 1..Len(a) + Len(b) /\ ~(Len(a) + k <= Len(a)) /\ Len(a) + k - Len(a) = k
    BY <1>1
  <2>3. QED
    BY <1>2, <2>2
<1>5. ASSUME NEW k \in 1..Len(a) + Len(b)
      PROVE  \/ k \in 1..Len(a) /\ (a \o b)[k] = a[k]
             \/ k - Len(a) \in 1..Len(b) /\ ~(k \in 1..Len(a)) /\ (a \o b)[k] = b[k - Len(a)]
  <2>1. k \in 1..Len(a) \/ (k - Len(a) \in 1..Len(b) /\ ~(k <= Len(a)) /\ ~(k \in 1..Len(a)))
    BY <1>1
  <2>2. QED
    BY <1>2, <1>3, <2>1
<1>6. Reclaim!ToSet(a \o b) = Reclaim!ToSet(a) \cup Reclaim!ToSet(b)
  <2>1. ASSUME NEW x PROVE x \in Reclaim!ToSet(a \o b) => x \in Reclaim!ToSet(a) \cup Reclaim!ToSet(b)
    BY <1>1, <1>5 DEF Reclaim!ToSet
  <2>2. ASSUME NEW x \in Reclaim!ToSet(a) PROVE x \in Reclaim!ToSet(a \o b)
    BY <1>1, <1>3 DEF Reclaim!ToSet
  <2>3. ASSUME NEW x \in Reclaim!ToSet(b) PROVE x \in Reclaim!ToSet(a \o b)
    BY <1>1, <1>4 DEF Reclaim!ToSet
  <2>4. QED
    BY <2>1, <2>2, <2>3
<1>7. ASSUME NEW j \in 1..Len(a) + Len(b), NEW k \in 1..Len(a) + Len(b), (a \o b)[j] = (a \o b)[k]
      PROVE  j = k
  <2>1. ASSUME NEW m \in 1..Len(a), NEW n \in 1..Len(b) PROVE a[m] # b[n]
    BY <1>1 DEF Reclaim!ToSet
  <2>2. CASE j \in 1..Len(a) /\ k \in 1..Len(a)
    BY <1>1, <1>3, <1>7, <2>2 DEF Reclaim!IsInjective
  <2>3. CASE j \in 1..Len(a) /\ k \notin 1..Len(a)
    BY <1>3, <1>5, <1>7, <2>1, <2>3
  <2>4. CASE j \notin 1..Len(a) /\ k \in 1..Len(a)
    BY <1>3, <1>5, <1>7, <2>1, <2>4
  <2>5. CASE j \notin 1..Len(a) /\ k \notin 1..Len(a)
    <3>1. /\ j - Len(a) \in DOMAIN b /\ (a \o b)[j] = b[j - Len(a)]
          /\ k - Len(a) \in DOMAIN b /\ (a \o b)[k] = b[k - Len(a)]
      BY <1>1, <1>5, <2>5
    <3>2. j - Len(a) = k - Len(a)
      BY <1>7, <3>1 DEF Reclaim!IsInjective
    <3>3. QED
      BY <1>1, <3>2
  <2>6. QED
    BY <2>2, <2>3, <2>4, <2>5
<1>8. QED
  BY <1>1, <1>6, <1>7 DEF Reclaim!IsInjective

\* The threads that hold a block, when no sequence number and no block changes.
LEMMA HeldStill ==
    ASSUME ReclaimTypes, Slots, Held, Queued' = Queued,
           UNCHANGED <<rd_seq, freed, holds, seq, min_seq, i>>,
           \A p \in Reclaimers : q_pc'[p] = q_pc[p] \/ q_pc'[p] \notin {"scan", "update", "polled"},
           \A u \in Reclaimers : holds[u] # NoBlock =>
              /\ q_pc'[u] \in Active \ {"quiescent", "cleared", "abandon"}
              /\ qsbr'[u] = qsbr[u] /\ array'[qsbr'[u]].seq = array[qsbr[u]].seq
    PROVE  Held'
<1>1. ASSUME NEW u \in Reclaimers, holds[u] # NoBlock, NEW goal \in Nat, NotPassed(u, goal)
      PROVE  NotPassed(u, goal)'
  BY <1>1 DEF NotPassed
<1>2. QED
  BY <1>1, HeldKept

\* The slot of a thread state that is gone is put on the freelist.
LEMMA UnregisterKeeps ==
    ASSUME ReclaimInv, NEW t \in Reclaimers, Reclaim!Unregister(t)
    PROVE  ReclaimInv'
<1> DEFINE k == qsbr[t]
           x == [array[k] EXCEPT !.tstate = NoThread, !.allocated = FALSE]
<1>1. /\ q_pc[t] = "deleting" /\ array' = [array EXCEPT ![k] = x] /\ freelist' = <<k>> \o freelist
      /\ qsbr' = [qsbr EXCEPT ![t] = 0] /\ q_pc' = [q_pc EXCEPT ![t] = "none"]
      /\ UNCHANGED <<wr_seq, rd_seq, shared, freed, holds, queue, interp,
                     resume, seq, min_seq, i, removed, child>>
  <2>1. array' = [array EXCEPT ![k].tstate = NoThread, ![k].allocated = FALSE]
    BY DEF Reclaim!Unregister
  <2>2. array' = [array EXCEPT ![k] = x]
    BY <2>1
  <2>3. QED
    BY <2>2 DEF Reclaim!Unregister, Reclaim!Goto, Reclaim!seqs, Reclaim!memory, Reclaim!queues, Reclaim!locals
<1>2. /\ q_pc \in [Reclaimers -> PC] /\ array \in Seq(Reclaim!Slot) /\ freelist \in Seq(DOMAIN array)
      /\ qsbr \in [Reclaimers -> 0..Len(array)] /\ wr_seq \in Nat
      /\ removed[t] = NoBlock /\ interp.mutex # t /\ holds[t] = NoBlock /\ child[t] = NoThread
  BY <1>1 DEF ReclaimInv, ReclaimTypes, Reclaim!TypeOK, Locals, LocalsOf, Held, Children, Creating, Processing, Active
<1>3. /\ q_pc' \in [Reclaimers -> PC] /\ q_pc'[t] = "none" /\ qsbr' \in [Reclaimers -> 0..Len(array)]
      /\ qsbr'[t] = 0
      /\ \A u \in Reclaimers \ {t} : q_pc'[u] = q_pc[u] /\ qsbr'[u] = qsbr[u]
  BY <1>1, <1>2 DEF PC
<1>4. k # 0 /\ k \in DOMAIN array /\ array[k] \in Reclaim!Slot /\ array[k].seq = Reclaim!QSBR_OFFLINE
  <2>1. k # 0
    BY <1>1 DEF ReclaimInv, Slots
  <2>2. QED
    BY <1>1, <2>1, SlotFacts DEF ReclaimInv, Slots, SlotOf, Inactive
<1>5. x \in Reclaim!Slot /\ x.seq = Reclaim!QSBR_OFFLINE /\ x.tstate = NoThread /\ ~x.allocated
  BY <1>4 DEF Reclaim!Slot
<1> HIDE DEF x
<1>6. /\ array' \in Seq(Reclaim!Slot) /\ DOMAIN array' = DOMAIN array /\ Len(array') = Len(array)
      /\ array'[k] = x /\ \A j \in DOMAIN array \ {k} : array'[j] = array[j]
  BY <1>1, <1>2, <1>4, <1>5, SlotChange
<1>7. ASSUME NEW u \in Reclaimers \ {t}, qsbr[u] # 0
      PROVE  qsbr[u] \in DOMAIN array /\ qsbr[u] # k /\ array'[qsbr[u]] = array[qsbr[u]]
  <2>1. qsbr[u] # k
    BY <1>4, <1>7 DEF ReclaimInv, Slots
  <2>2. qsbr[u] \in DOMAIN array
    BY <1>7, SlotFacts DEF ReclaimInv
  <2>3. QED
    BY <1>6, <2>1, <2>2
<1>8. /\ freelist' \in Seq(DOMAIN array) /\ Reclaim!IsInjective(freelist')
      /\ Reclaim!ToSet(freelist') = {k} \cup Reclaim!ToSet(freelist) /\ k \notin Reclaim!ToSet(freelist)
  <2>1. k \notin Reclaim!ToSet(freelist) /\ Reclaim!IsInjective(freelist)
    BY DEF ReclaimInv, Slots
  <2>2. /\ <<k>> \in Seq(DOMAIN array) /\ DOMAIN <<k>> = {1} /\ <<k>>[1] = k
    BY <1>4
  <2>3. Reclaim!ToSet(<<k>>) = {k} /\ Reclaim!IsInjective(<<k>>)
    BY <2>2 DEF Reclaim!ToSet, Reclaim!IsInjective
  <2>4. Reclaim!ToSet(<<k>>) \cap Reclaim!ToSet(freelist) = {}
    BY <2>1, <2>3
  <2>5. /\ <<k>> \o freelist \in Seq(DOMAIN array) /\ Reclaim!IsInjective(<<k>> \o freelist)
        /\ Reclaim!ToSet(<<k>> \o freelist) = Reclaim!ToSet(<<k>>) \cup Reclaim!ToSet(freelist)
    <3> DEFINE one == <<k>>
    <3>1. one \in Seq(DOMAIN array) /\ Reclaim!IsInjective(one) /\ Reclaim!ToSet(one) \cap Reclaim!ToSet(freelist) = {}
      BY <2>2, <2>3, <2>4
    <3> HIDE DEF one
    <3>2. /\ one \o freelist \in Seq(DOMAIN array) /\ Reclaim!IsInjective(one \o freelist)
          /\ Reclaim!ToSet(one \o freelist) = Reclaim!ToSet(one) \cup Reclaim!ToSet(freelist)
      BY <1>2, <2>1, <3>1, Joined
    <3>3. QED
      BY <3>2 DEF one
  <2>6. QED
    BY <1>1, <2>1, <2>3, <2>5
<1>9. ReclaimTypes'
  BY <1>1, <1>3, <1>6, <1>8 DEF ReclaimInv, ReclaimTypes, Reclaim!TypeOK
<1>10. Slots'
  <2>1. ASSUME NEW u \in Reclaimers, qsbr'[u] # 0 PROVE SlotOf(u)'
    <3>1. u # t
      BY <1>3, <2>1
    <3>2. SlotOf(u) /\ qsbr'[u] = qsbr[u] /\ q_pc'[u] = q_pc[u]
      BY <1>3, <2>1, <3>1 DEF ReclaimInv, Slots
    <3>3. array'[qsbr[u]] = array[qsbr[u]]
      BY <1>7, <2>1, <3>1, <3>2
    <3>4. QED
      BY <1>1, <3>2, <3>3 DEF SlotOf
  <2>2. \A u \in Reclaimers : qsbr'[u] = 0 <=> q_pc'[u] = "none"
    BY <1>3 DEF ReclaimInv, Slots
  <2>3. \A u, v \in Reclaimers : qsbr'[u] = qsbr'[v] /\ qsbr'[u] # 0 => u = v
    BY <1>3 DEF ReclaimInv, Slots
  <2>4. ASSUME NEW j PROVE j \in Reclaim!ToSet(freelist') <=> j \in DOMAIN array' \ {qsbr'[u] : u \in Reclaimers}
    <3>1. j \in Reclaim!ToSet(freelist) <=> j \in DOMAIN array \ {qsbr[u] : u \in Reclaimers}
      BY DEF ReclaimInv, Slots
    <3>2. ASSUME j \in DOMAIN array, \A u \in Reclaimers \ {t} : j # qsbr[u]
          PROVE  \A u \in Reclaimers : j # qsbr'[u]
      <4>1. j # 0
        BY <1>2, <3>2
      <4>2. QED
        BY <1>3, <3>2, <4>1
    <3>3. \A u \in Reclaimers \ {t} : qsbr[u] # k
      BY <1>4, <1>7
    <3>4. CASE j = k
      BY <1>4, <1>6, <1>8, <3>2, <3>3, <3>4
    <3>5. CASE j # k
      BY <1>3, <1>6, <1>8, <3>1, <3>2, <3>5
    <3>6. QED
      BY <3>4, <3>5
  <2>5. ASSUME NEW j \in Reclaim!ToSet(freelist')
        PROVE  array'[j].seq = Reclaim!QSBR_OFFLINE /\ array'[j].tstate = NoThread /\ ~array'[j].allocated
    <3>1. CASE j = k
      BY <1>5, <1>6, <3>1
    <3>2. CASE j # k
      <4>1. j \in Reclaim!ToSet(freelist) /\ j \in DOMAIN array
        BY <1>8, <2>5, <3>2 DEF ReclaimInv, Slots
      <4>2. QED
        BY <1>6, <3>2, <4>1 DEF ReclaimInv, Slots
    <3>3. QED
      BY <3>1, <3>2
  <2>6. Reclaim!ToSet(freelist') = DOMAIN array' \ {qsbr'[u] : u \in Reclaimers}
    BY <2>4
  <2>7. QED
    BY <1>8, <2>1, <2>2, <2>3, <2>5, <2>6 DEF Slots
<1>11. Locals'
  <2>1. LocalsOf(t)'
    BY <1>1, <1>2, <1>3 DEF LocalsOf
  <2>2. ASSUME NEW u \in Reclaimers \ {t} PROVE LocalsOf(u)'
    <3>1. Reclaim!Work(u)' = Reclaim!Work(u)
      BY <1>1 DEF Reclaim!Work, Reclaim!HasInterp
    <3>2. QED
      BY <1>1, <1>2, <1>3, <3>1, LocalsKept DEF ReclaimInv
  <2>3. QED
    BY <1>1, <1>2, <2>1, <2>2 DEF ReclaimInv, Locals
<1>12. Children'
  <2>1. \A u \in Reclaimers : /\ Creating(u)' <=> Creating(u)
                              /\ q_pc[u] = "new" => q_pc'[u] = "new"
    BY <1>1, <1>3 DEF Creating
  <2>2. QED
    BY <1>1, <2>1, ChildrenKept DEF ReclaimInv
<1>13. Kept' /\ Queued' = Queued
  BY <1>1, <1>2, KeptKept DEF ReclaimInv
<1>14. Held'
  <2>1. ASSUME NEW u \in Reclaimers, holds[u] # NoBlock
        PROVE  /\ q_pc'[u] \in Active \ {"quiescent", "cleared", "abandon"}
               /\ qsbr'[u] = qsbr[u] /\ array'[qsbr'[u]].seq = array[qsbr[u]].seq
    <3>1. u # t /\ q_pc[u] \in Active \ {"quiescent", "cleared", "abandon"}
      BY <1>2, <2>1 DEF ReclaimInv, Held
    <3>2. qsbr[u] # 0
      BY <3>1 DEF ReclaimInv, Slots, Active, Processing
    <3>3. QED
      BY <1>3, <1>7, <3>1, <3>2
  <2>2. \A p \in Reclaimers : q_pc'[p] = q_pc[p] \/ q_pc'[p] \notin {"scan", "update", "polled"}
    BY <1>3
  <2>3. QED
    BY <1>1, <1>13, <2>1, <2>2, HeldStill DEF ReclaimInv
<1>15. QED
  BY <1>9, <1>10, <1>11, <1>12, <1>13, <1>14 DEF ReclaimInv

\* The thread state that a thread created may attach.
LEMMA RegisterKeeps ==
    ASSUME ReclaimInv, NEW t \in Reclaimers, Reclaim!Register(t)
    PROVE  ReclaimInv'
<1>0. PICK c \in Reclaimers : c = child[t]
  BY DEF Reclaim!Register, ReclaimInv, Children, Creating, ReclaimTypes, Reclaim!TypeOK
<1> DEFINE k == qsbr[c]
           x == [array[k] EXCEPT !.tstate = c]
<1>1. /\ q_pc[t] = "register" /\ array' = [array EXCEPT ![k] = x]
      /\ q_pc' = [q_pc EXCEPT ![t] = "run", ![c] = "detached"]
      /\ child' = [child EXCEPT ![t] = NoThread] /\ resume' = [resume EXCEPT ![c] = "run"]
      /\ UNCHANGED <<wr_seq, rd_seq, freelist, qsbr, shared, freed, holds, queue, interp,
                     seq, min_seq, i, removed>>
  BY <1>0 DEF Reclaim!Register, Reclaim!seqs, Reclaim!memory, Reclaim!queues
<1>2. q_pc[c] = "new" /\ c # t /\ child[c] = NoThread
  <2>1. c # NoThread
    BY ReclaimersAre
  <2>2. q_pc[c] = "new"
    BY <1>0, <2>1 DEF ReclaimInv, Children
  <2>3. QED
    BY <1>1, <2>2 DEF ReclaimInv, Children, Creating
<1>3. /\ q_pc \in [Reclaimers -> PC] /\ resume \in [Reclaimers -> {"run", "register", "abandon"}]
      /\ child \in [Reclaimers -> Reclaimers \cup {NoThread}] /\ wr_seq \in Nat
  BY DEF ReclaimInv, ReclaimTypes, Reclaim!TypeOK
<1>4. k # 0 /\ k \in DOMAIN array /\ array[k] \in Reclaim!Slot /\ SlotOf(c)
  <2>1. k # 0
    BY <1>2 DEF ReclaimInv, Slots
  <2>2. QED
    BY <1>2, <2>1, SlotFacts DEF ReclaimInv, Slots
<1>5. /\ x \in Reclaim!Slot /\ x.seq = Reclaim!QSBR_OFFLINE /\ x.seq = array[k].seq /\ x.tstate = c /\ x.allocated
  <2>1. x \in Reclaim!Slot /\ x.seq = array[k].seq /\ x.tstate = c /\ x.allocated = array[k].allocated
    BY <1>2, <1>4 DEF Reclaim!Slot
  <2>2. array[k].allocated /\ array[k].seq = Reclaim!QSBR_OFFLINE
    BY <1>2, <1>4 DEF SlotOf, Inactive
  <2>3. QED
    BY <2>1, <2>2
<1> HIDE DEF x
<1>6. /\ q_pc' \in [Reclaimers -> PC] /\ q_pc'[t] = "run" /\ q_pc'[c] = "detached"
      /\ resume' \in [Reclaimers -> {"run", "register", "abandon"}] /\ resume'[c] = "run"
      /\ child' \in [Reclaimers -> Reclaimers \cup {NoThread}] /\ child'[t] = NoThread
      /\ \A u \in Reclaimers \ {t, c} : q_pc'[u] = q_pc[u]
      /\ \A u \in Reclaimers \ {c} : resume'[u] = resume[u]
      /\ \A u \in Reclaimers \ {t} : child'[u] = child[u]
  <2>1. "run" \in PC /\ "detached" \in PC
    BY DEF PC, Active, Inactive
  <2>2. QED
    BY <1>1, <1>2, <1>3, <2>1
<1>7. /\ array' \in Seq(Reclaim!Slot) /\ DOMAIN array' = DOMAIN array /\ Len(array') = Len(array)
      /\ array'[k] = x /\ \A j \in DOMAIN array \ {k} : array'[j] = array[j]
  <2>1. array \in Seq(Reclaim!Slot)
    BY DEF ReclaimInv, ReclaimTypes, Reclaim!TypeOK
  <2>2. QED
    BY <1>1, <1>4, <1>5, <2>1, SlotChange
<1>8. ASSUME NEW u \in Reclaimers, qsbr[u] # 0
      PROVE  array'[qsbr[u]].seq = array[qsbr[u]].seq /\ (u # c => array'[qsbr[u]] = array[qsbr[u]])
  <2>1. qsbr[u] \in DOMAIN array
    BY <1>8, SlotFacts DEF ReclaimInv
  <2>2. u # c => qsbr[u] # k
    BY <1>2, <1>8 DEF ReclaimInv, Slots
  <2>3. QED
    BY <1>5, <1>7, <2>1, <2>2
<1> HIDE DEF k
<1>9. ReclaimTypes'
  BY <1>1, <1>6, <1>7 DEF ReclaimInv, ReclaimTypes, Reclaim!TypeOK
<1>10. Slots'
  <2>1. ASSUME NEW u \in Reclaimers, qsbr'[u] # 0 PROVE SlotOf(u)'
    <3>1. SlotOf(u) /\ qsbr'[u] = qsbr[u] /\ wr_seq' = wr_seq
      BY <1>1, <2>1 DEF ReclaimInv, Slots
    <3>2. CASE u = c
      <4>1. array'[qsbr'[c]] = x
        BY <1>7, <3>1, <3>2 DEF k
      <4>2. q_pc'[c] \notin Active /\ q_pc'[c] # "new"
        BY <1>6 DEF Active, Processing
      <4>3. QED
        BY <1>5, <3>2, <4>1, <4>2 DEF SlotOf
    <3>3. CASE u = t
      <4>1. array'[qsbr'[t]] = array[qsbr[t]]
        BY <1>2, <1>8, <2>1, <3>1, <3>3
      <4>2. q_pc'[t] \notin Inactive /\ q_pc'[t] # "new" /\ q_pc[t] \in Active /\ q_pc[t] # "new"
        BY <1>1, <1>6 DEF Active, Inactive
      <4>3. QED
        BY <3>1, <3>3, <4>1, <4>2 DEF SlotOf
    <3>4. CASE u \notin {t, c}
      <4>1. array'[qsbr'[u]] = array[qsbr[u]] /\ q_pc'[u] = q_pc[u]
        BY <1>6, <1>8, <2>1, <3>1, <3>4
      <4>2. QED
        BY <3>1, <4>1 DEF SlotOf
    <3>5. QED
      BY <3>2, <3>3, <3>4
  <2>2. \A u \in Reclaimers : qsbr[u] = 0 <=> q_pc[u] = "none"
    BY DEF ReclaimInv, Slots
  <2>3. \A u \in Reclaimers : q_pc'[u] = "none" <=> q_pc[u] = "none"
    BY <1>1, <1>2, <1>6
  <2>4. ASSUME NEW j \in Reclaim!ToSet(freelist') PROVE array'[j] = array[j]
    <3>1. j \in DOMAIN array /\ j # k
      BY <1>1, <1>2, <2>4 DEF ReclaimInv, Slots, k
    <3>2. QED
      BY <1>7, <3>1
  <2>5. \A u \in Reclaimers : qsbr'[u] = 0 <=> q_pc'[u] = "none"
    BY <1>1, <2>2, <2>3
  <2>6. UNCHANGED <<freelist, qsbr>> /\ DOMAIN array' = DOMAIN array
    BY <1>1, <1>7
  <2>7. /\ \A u, v \in Reclaimers : qsbr'[u] = qsbr'[v] /\ qsbr'[u] # 0 => u = v
        /\ Reclaim!IsInjective(freelist')
        /\ Reclaim!ToSet(freelist') = DOMAIN array' \ {qsbr'[u] : u \in Reclaimers}
    BY <2>6 DEF ReclaimInv, Slots
  <2>8. \A j \in Reclaim!ToSet(freelist') : array'[j].seq = Reclaim!QSBR_OFFLINE /\ array'[j].tstate = NoThread /\ ~array'[j].allocated
    BY <2>4, <2>6 DEF ReclaimInv, Slots
  <2>9. QED
    BY <2>1, <2>5, <2>7, <2>8 DEF Slots
<1>11. Locals'
  <2>1. interp.mutex # c /\ removed[c] = NoBlock /\ interp.mutex # t /\ removed[t] = NoBlock
    BY <1>1, <1>2 DEF ReclaimInv, Locals, LocalsOf, Processing
  <2>0. UNCHANGED <<wr_seq, rd_seq, removed, interp>> /\ q_pc'[t] = "run" /\ q_pc'[c] = "detached"
    BY <1>1, <1>6
  <2>2. LocalsOf(t)' /\ LocalsOf(c)'
    BY <2>0, <2>1 DEF LocalsOf
  <2>3. ASSUME NEW u \in Reclaimers \ {t, c} PROVE LocalsOf(u)'
    <3>1. Reclaim!Work(u)' = Reclaim!Work(u)
      BY <1>1 DEF Reclaim!Work, Reclaim!HasInterp
    <3>2. QED
      BY <1>1, <1>3, <1>6, <3>1, LocalsKept DEF ReclaimInv
  <2>4. 1 <= wr_seq' /\ rd_seq' <= wr_seq'
    BY <2>0 DEF ReclaimInv, Locals
  <2>5. QED
    BY <2>2, <2>3, <2>4 DEF Locals
<1>12. Children'
  <2>1. /\ \A u \in Reclaimers : child[u] # NoThread <=> Creating(u)
        /\ \A u \in Reclaimers : child[u] # NoThread => q_pc[child[u]] = "new"
        /\ \A u, v \in Reclaimers : child[u] = child[v] /\ child[u] # NoThread => u = v
    BY DEF ReclaimInv, Children
  <2>2. ASSUME NEW u \in Reclaimers PROVE child'[u] # NoThread <=> Creating(u)'
    <3>1. CASE u \in {t, c}
      BY <1>2, <1>6, <3>1 DEF Creating
    <3>2. CASE u \notin {t, c}
      <4>1. child'[u] = child[u] /\ q_pc'[u] = q_pc[u] /\ resume'[u] = resume[u]
        BY <1>6, <3>2
      <4>2. QED
        BY <2>1, <4>1 DEF Creating
    <3>3. QED
      BY <3>1, <3>2
  <2>3. ASSUME NEW u \in Reclaimers, child'[u] # NoThread PROVE q_pc'[child'[u]] = "new"
    <3>1. u # t /\ child'[u] = child[u] /\ child[u] \in Reclaimers /\ q_pc[child[u]] = "new"
      BY <1>3, <1>6, <2>1, <2>3
    <3>2. child[u] # c /\ child[u] # t
      BY <1>0, <1>1, <2>1, <3>1, <2>3
    <3>3. QED
      BY <1>6, <3>1, <3>2
  <2>4. \A u, v \in Reclaimers : child'[u] = child'[v] /\ child'[u] # NoThread => u = v
    BY <1>6, <2>1
  <2>5. QED
    BY <2>2, <2>3, <2>4 DEF Children
<1>13. Kept' /\ Queued' = Queued
  BY <1>1, <1>3, KeptKept DEF ReclaimInv
<1>14. Held'
  <2>1. ASSUME NEW u \in Reclaimers, holds[u] # NoBlock
        PROVE  /\ q_pc'[u] \in Active \ {"quiescent", "cleared", "abandon"}
               /\ qsbr'[u] = qsbr[u] /\ array'[qsbr'[u]].seq = array[qsbr[u]].seq
    <3>1. q_pc[u] \in Active \ {"quiescent", "cleared", "abandon"}
      BY <2>1 DEF ReclaimInv, Held
    <3>2. qsbr[u] # 0
      BY <3>1 DEF ReclaimInv, Slots, Active, Processing
    <3>3. q_pc'[u] \in Active \ {"quiescent", "cleared", "abandon"}
      BY <1>1, <1>2, <1>6, <3>1 DEF Active, Processing
    <3>4. QED
      BY <1>1, <1>8, <3>2, <3>3
  <2>2. \A p \in Reclaimers : q_pc'[p] = q_pc[p] \/ q_pc'[p] \notin {"scan", "update", "polled"}
    BY <1>6
  <2>3. QED
    BY <1>1, <1>13, <2>1, <2>2, HeldStill DEF ReclaimInv
<1>15. QED
  BY <1>9, <1>10, <1>11, <1>12, <1>13, <1>14 DEF ReclaimInv

\* The slots with the unused among them.
Owned(slot, free) ==
    /\ slot \in Seq(Reclaim!Slot) /\ Len(array) <= Len(slot)
    /\ \A k \in DOMAIN array : slot[k] = array[k]
    /\ free \in Seq(DOMAIN slot) /\ free # <<>> /\ Reclaim!IsInjective(free)
    /\ Reclaim!ToSet(free) = DOMAIN slot \ {qsbr[t] : t \in Reclaimers}
    /\ \A k \in Reclaim!ToSet(free) : slot[k].seq = Reclaim!QSBR_OFFLINE /\ slot[k].tstate = NoThread /\ ~slot[k].allocated

\* What is left of the freelist.
LEMMA Popped ==
    ASSUME NEW D, NEW free \in Seq(D), free # <<>>, Reclaim!IsInjective(free)
    PROVE  /\ Tail(free) \in Seq(D) /\ Head(free) \in D /\ Reclaim!IsInjective(Tail(free))
           /\ Head(free) \in Reclaim!ToSet(free)
           /\ Reclaim!ToSet(Tail(free)) = Reclaim!ToSet(free) \ {Head(free)}
<1>1. /\ Len(free) \in Nat \ {0} /\ DOMAIN free = 1..Len(free) /\ Head(free) = free[1]
      /\ 1 \in 1..Len(free) /\ free[1] \in D
      /\ Tail(free) \in Seq(D) /\ DOMAIN Tail(free) = 1..Len(free) - 1
      /\ \A k \in 1..Len(free) - 1 : k + 1 \in 1..Len(free) /\ Tail(free)[k] = free[k + 1]
  OBVIOUS
<1>2. \A j, k \in 1..Len(free) : free[j] = free[k] => j = k
  BY <1>1 DEF Reclaim!IsInjective
<1>3. ASSUME NEW j \in 1..Len(free) - 1, NEW k \in 1..Len(free) - 1, Tail(free)[j] = Tail(free)[k]
      PROVE  j = k
  <2>1. j + 1 = k + 1
    BY <1>1, <1>2, <1>3
  <2>2. QED
    BY <1>1, <2>1
<1>4. ASSUME NEW k \in 1..Len(free) - 1 PROVE Tail(free)[k] \in Reclaim!ToSet(free) \ {Head(free)}
  <2>1. k + 1 # 1 /\ k + 1 \in 1..Len(free)
    BY <1>1
  <2>2. QED
    BY <1>1, <1>2, <2>1 DEF Reclaim!ToSet
<1>5. ASSUME NEW k \in 1..Len(free), free[k] # Head(free) PROVE free[k] \in Reclaim!ToSet(Tail(free))
  <2>1. k - 1 \in 1..Len(free) - 1 /\ k - 1 + 1 = k
    BY <1>1, <1>5
  <2>2. QED
    BY <1>1, <2>1 DEF Reclaim!ToSet
<1>6. Reclaim!ToSet(Tail(free)) = Reclaim!ToSet(free) \ {Head(free)}
  <2>1. \A y \in Reclaim!ToSet(Tail(free)) : y \in Reclaim!ToSet(free) \ {Head(free)}
    BY <1>1, <1>4 DEF Reclaim!ToSet
  <2>2. \A y \in Reclaim!ToSet(free) : \E k \in 1..Len(free) : y = free[k]
    BY <1>1 DEF Reclaim!ToSet
  <2>3. QED
    BY <1>5, <2>1, <2>2
<1>7. Head(free) \in Reclaim!ToSet(free)
  BY <1>1 DEF Reclaim!ToSet
<1>8. Reclaim!IsInjective(Tail(free))
  BY <1>1, <1>3 DEF Reclaim!IsInjective
<1>9. QED
  BY <1>1, <1>6, <1>7, <1>8

\* A slot is taken for a new thread state.
LEMMA AllocateKeeps ==
    ASSUME ReclaimInv, NEW t \in Reclaimers, NEW c \in Reclaimers, NEW slot, NEW free,
           q_pc[t] = "run", q_pc[c] = "none", Owned(slot, free), Reclaim!Allocate(t, c, slot, free),
           UNCHANGED <<Reclaim!seqs, Reclaim!memory, Reclaim!queues, resume, seq, min_seq, i, removed>>
    PROVE  ReclaimInv'
<1> DEFINE k == Head(free)
           x == [slot[k] EXCEPT !.allocated = TRUE]
<1>1. /\ array' = [slot EXCEPT ![k] = x] /\ freelist' = Tail(free)
      /\ qsbr' = [qsbr EXCEPT ![c] = k] /\ q_pc' = [q_pc EXCEPT ![t] = "register", ![c] = "new"]
      /\ child' = [child EXCEPT ![t] = c]
  BY DEF Reclaim!Allocate
<1>2. UNCHANGED <<wr_seq, rd_seq, shared, freed, holds, queue, interp, resume, seq, min_seq, i, removed>>
  BY DEF Reclaim!seqs, Reclaim!memory, Reclaim!queues
<1>3. /\ q_pc \in [Reclaimers -> PC] /\ child \in [Reclaimers -> Reclaimers \cup {NoThread}]
      /\ wr_seq \in Nat /\ array \in Seq(Reclaim!Slot) /\ qsbr \in [Reclaimers -> 0..Len(array)]
  BY DEF ReclaimInv, ReclaimTypes, Reclaim!TypeOK
<1>4. /\ slot \in Seq(Reclaim!Slot) /\ Len(array) <= Len(slot)
      /\ \A j \in DOMAIN array : slot[j] = array[j] /\ j \in DOMAIN slot
      /\ free \in Seq(DOMAIN slot) /\ free # <<>> /\ Reclaim!IsInjective(free)
      /\ Reclaim!ToSet(free) = DOMAIN slot \ {qsbr[u] : u \in Reclaimers}
      /\ \A j \in Reclaim!ToSet(free) : slot[j].seq = Reclaim!QSBR_OFFLINE /\ slot[j].tstate = NoThread /\ ~slot[j].allocated
  <2>1. slot \in Seq(Reclaim!Slot) /\ Len(array) <= Len(slot)
    BY DEF Owned
  <2>2. \A j \in DOMAIN array : j \in DOMAIN slot
    BY <1>3, <2>1
  <2>3. QED
    BY <2>2 DEF Owned
<1>5. /\ Tail(free) \in Seq(DOMAIN slot) /\ k \in DOMAIN slot /\ Reclaim!IsInjective(Tail(free))
      /\ k \in Reclaim!ToSet(free) /\ Reclaim!ToSet(Tail(free)) = Reclaim!ToSet(free) \ {k}
  BY <1>4, Popped
<1>6. /\ c # t /\ child[t] = NoThread /\ child[c] = NoThread /\ qsbr[c] = 0
      /\ \A u \in Reclaimers : child[u] # c
      /\ k # 0 /\ \A u \in Reclaimers : qsbr[u] # k
  <2>1. c # t
    OBVIOUS
  <2>2. child[t] = NoThread /\ child[c] = NoThread
    BY DEF ReclaimInv, Children, Creating
  <2>3. c # NoThread
    BY ReclaimersAre
  <2>4. \A u \in Reclaimers : child[u] # c
    BY <2>3 DEF ReclaimInv, Children
  <2>5. qsbr[c] = 0
    BY DEF ReclaimInv, Slots
  <2>6. \A u \in Reclaimers : qsbr[u] # k
    BY <1>4, <1>5
  <2>7. k # 0
    BY <1>4, <1>5
  <2>8. QED
    BY <2>1, <2>2, <2>4, <2>5, <2>6, <2>7
<1>7. x \in Reclaim!Slot /\ x.seq = Reclaim!QSBR_OFFLINE /\ x.tstate = NoThread /\ x.allocated
  <2>1. slot[k] \in Reclaim!Slot /\ slot[k].seq = Reclaim!QSBR_OFFLINE /\ slot[k].tstate = NoThread
    BY <1>4, <1>5
  <2>2. QED
    BY <2>1 DEF Reclaim!Slot
<1> HIDE DEF x, k
<1>8. /\ array' \in Seq(Reclaim!Slot) /\ DOMAIN array' = DOMAIN slot /\ Len(array') = Len(slot)
      /\ array'[k] = x /\ \A j \in DOMAIN slot \ {k} : array'[j] = slot[j]
  BY <1>1, <1>4, <1>5, <1>7, SlotChange
<1>9. /\ q_pc' \in [Reclaimers -> PC] /\ q_pc'[t] = "register" /\ q_pc'[c] = "new"
      /\ child' \in [Reclaimers -> Reclaimers \cup {NoThread}] /\ child'[t] = c
      /\ qsbr' \in [Reclaimers -> 0..Len(array')] /\ qsbr'[c] = k
      /\ \A u \in Reclaimers \ {t, c} : q_pc'[u] = q_pc[u]
      /\ \A u \in Reclaimers \ {t} : child'[u] = child[u]
      /\ \A u \in Reclaimers \ {c} : qsbr'[u] = qsbr[u]
  <2>1. "register" \in PC /\ "new" \in PC
    BY DEF PC, Active, Inactive
  <2>2. k \in 0..Len(slot) /\ \A n \in 0..Len(array) : n \in 0..Len(slot)
    <3>1. Len(slot) \in Nat /\ Len(array) \in Nat /\ DOMAIN slot = 1..Len(slot)
      BY <1>3, <1>4
    <3>2. QED
      BY <1>4, <1>5, <3>1
  <2>3. qsbr' \in [Reclaimers -> 0..Len(slot)]
    BY <1>1, <1>3, <2>2
  <2>4. QED
    BY <1>1, <1>3, <1>6, <1>8, <2>1, <2>3
<1>10. ASSUME NEW u \in Reclaimers, qsbr[u] # 0
       PROVE  u # c /\ qsbr'[u] = qsbr[u] /\ array'[qsbr'[u]] = array[qsbr[u]]
  <2>1. qsbr[u] \in DOMAIN array
    BY <1>10, SlotFacts DEF ReclaimInv
  <2>2. QED
    BY <1>4, <1>6, <1>8, <1>9, <1>10, <2>1
<1>11. freelist' \in Seq(DOMAIN array')
  BY <1>1, <1>5, <1>8
<1>12. ReclaimTypes'
  BY <1>2, <1>8, <1>9, <1>11 DEF ReclaimInv, ReclaimTypes, Reclaim!TypeOK
<1>13. Slots'
  <2>1. ASSUME NEW u \in Reclaimers, qsbr'[u] # 0 PROVE SlotOf(u)'
    <3>1. CASE u = c
      <4>1. array'[qsbr'[c]] = x /\ q_pc'[c] \notin Active /\ q_pc'[c] = "new"
        BY <1>8, <1>9 DEF Active, Processing
      <4>2. QED
        BY <1>7, <3>1, <4>1 DEF SlotOf
    <3>2. CASE u # c
      <4>1. qsbr[u] # 0
        BY <1>9, <2>1, <3>2
      <4>2. SlotOf(u) /\ array'[qsbr'[u]] = array[qsbr[u]] /\ wr_seq' = wr_seq
        BY <1>2, <1>10, <4>1 DEF ReclaimInv, Slots
      <4>3. q_pc'[u] = q_pc[u] \/ (q_pc[u] \in Active /\ q_pc'[u] \in Active)
        BY <1>9, <3>2 DEF Active
      <4>4. QED
        BY <4>2, <4>3 DEF SlotOf, Active, Inactive, Processing
    <3>3. QED
      BY <3>1, <3>2
  <2>2. ASSUME NEW u \in Reclaimers PROVE qsbr'[u] = 0 <=> q_pc'[u] = "none"
    <3>1. qsbr[u] = 0 <=> q_pc[u] = "none"
      BY DEF ReclaimInv, Slots
    <3>2. QED
      BY <1>6, <1>9, <3>1
  <2>3. ASSUME NEW u \in Reclaimers, NEW v \in Reclaimers, qsbr'[u] = qsbr'[v], qsbr'[u] # 0 PROVE u = v
    <3>1. qsbr[u] = qsbr[v] /\ qsbr[u] # 0 => u = v
      BY DEF ReclaimInv, Slots
    <3>2. QED
      BY <1>6, <1>9, <2>3, <3>1
  <2>4. ASSUME NEW j PROVE j \in {qsbr'[u] : u \in Reclaimers} <=> j = k \/ (\E u \in Reclaimers \ {c} : j = qsbr[u])
    BY <1>9
  <2>5. 0 \notin DOMAIN slot
    BY <1>4
  <2>6. ASSUME NEW j PROVE j \in Reclaim!ToSet(freelist') <=> j \in DOMAIN array' \ {qsbr'[u] : u \in Reclaimers}
    <3>1. j \in Reclaim!ToSet(freelist') <=> j # k /\ j \in DOMAIN slot /\ ~ \E u \in Reclaimers : j = qsbr[u]
      BY <1>1, <1>4, <1>5
    <3>2. j \in DOMAIN slot => j # qsbr[c]
      BY <1>6, <2>5
    <3>3. QED
      BY <1>8, <2>4, <3>1, <3>2
  <2>7. ASSUME NEW j \in Reclaim!ToSet(freelist')
        PROVE  array'[j].seq = Reclaim!QSBR_OFFLINE /\ array'[j].tstate = NoThread /\ ~array'[j].allocated
    <3>1. j \in Reclaim!ToSet(free) /\ j # k /\ j \in DOMAIN slot
      BY <1>1, <1>4, <1>5, <2>7
    <3>2. array'[j] = slot[j]
      BY <1>8, <3>1
    <3>3. QED
      BY <1>4, <3>1, <3>2
  <2>8. Reclaim!ToSet(freelist') = DOMAIN array' \ {qsbr'[u] : u \in Reclaimers} /\ Reclaim!IsInjective(freelist')
    BY <1>1, <1>5, <2>6
  <2>9. QED
    BY <2>1, <2>2, <2>3, <2>7, <2>8 DEF Slots
<1>14. Locals'
  <2>1. /\ interp.mutex # c /\ removed[c] = NoBlock /\ interp.mutex # t /\ removed[t] = NoBlock
    BY DEF ReclaimInv, Locals, LocalsOf, Processing
  <2>2. LocalsOf(t)' /\ LocalsOf(c)'
    BY <1>2, <1>9, <2>1 DEF LocalsOf
  <2>3. ASSUME NEW u \in Reclaimers \ {t, c} PROVE LocalsOf(u)'
    <3>1. Reclaim!Work(u)' = Reclaim!Work(u)
      BY <1>2 DEF Reclaim!Work, Reclaim!HasInterp
    <3>2. QED
      BY <1>2, <1>3, <1>9, <3>1, LocalsKept DEF ReclaimInv
  <2>4. 1 <= wr_seq' /\ rd_seq' <= wr_seq'
    BY <1>2 DEF ReclaimInv, Locals
  <2>5. QED
    BY <2>2, <2>3, <2>4 DEF Locals
<1>15. Children'
  <2>1. /\ \A u \in Reclaimers : child[u] # NoThread <=> Creating(u)
        /\ \A u \in Reclaimers : child[u] # NoThread => q_pc[child[u]] = "new"
        /\ \A u, v \in Reclaimers : child[u] = child[v] /\ child[u] # NoThread => u = v
    BY DEF ReclaimInv, Children
  <2>2. ASSUME NEW u \in Reclaimers PROVE child'[u] # NoThread <=> Creating(u)'
    <3>1. CASE u = t
      BY <1>9, <3>1, ReclaimersAre DEF Creating
    <3>2. CASE u = c
      BY <1>6, <1>9, <3>2 DEF Creating
    <3>3. CASE u \notin {t, c}
      <4>1. child'[u] = child[u] /\ q_pc'[u] = q_pc[u] /\ resume'[u] = resume[u]
        BY <1>2, <1>9, <3>3
      <4>2. QED
        BY <2>1, <4>1 DEF Creating
    <3>4. QED
      BY <3>1, <3>2, <3>3
  <2>3. ASSUME NEW u \in Reclaimers, child'[u] # NoThread PROVE q_pc'[child'[u]] = "new"
    <3>1. CASE u = t
      BY <1>9, <3>1
    <3>2. CASE u # t
      <4>1. child'[u] = child[u] /\ child[u] \in Reclaimers /\ q_pc[child[u]] = "new"
        BY <1>3, <1>9, <2>1, <2>3, <3>2
      <4>2. child[u] # c /\ child[u] # t
        BY <1>6, <4>1
      <4>3. QED
        BY <1>9, <4>1, <4>2
    <3>3. QED
      BY <3>1, <3>2
  <2>4. \A u, v \in Reclaimers : child'[u] = child'[v] /\ child'[u] # NoThread => u = v
    BY <1>6, <1>9, <2>1
  <2>5. QED
    BY <2>2, <2>3, <2>4 DEF Children
<1>16. Kept' /\ Queued' = Queued
  BY <1>2, <1>3, KeptKept DEF ReclaimInv
<1>17. Held'
  <2>1. ASSUME NEW u \in Reclaimers, holds[u] # NoBlock
        PROVE  /\ q_pc'[u] \in Active \ {"quiescent", "cleared", "abandon"}
               /\ qsbr'[u] = qsbr[u] /\ array'[qsbr'[u]].seq = array[qsbr[u]].seq
    <3>1. q_pc[u] \in Active \ {"quiescent", "cleared", "abandon"}
      BY <2>1 DEF ReclaimInv, Held
    <3>2. qsbr[u] # 0
      BY <3>1 DEF ReclaimInv, Slots, Active, Processing
    <3>3. q_pc'[u] \in Active \ {"quiescent", "cleared", "abandon"}
      BY <1>9, <1>10, <3>1, <3>2 DEF Active, Processing
    <3>4. QED
      BY <1>10, <3>2, <3>3
  <2>2. \A p \in Reclaimers : q_pc'[p] = q_pc[p] \/ q_pc'[p] \notin {"scan", "update", "polled"}
    BY <1>9
  <2>3. QED
    BY <1>2, <1>16, <2>1, <2>2, HeldStill DEF ReclaimInv
<1>18. QED
  BY <1>12, <1>13, <1>14, <1>15, <1>16, <1>17 DEF ReclaimInv

\* A grown array has the slots of the old one and more that are unused.
LEMMA GrownOwned ==
    ASSUME ReclaimInv, Len(array) > 0
    PROVE  Owned(Reclaim!Grown, Reclaim!NewFreelist(Reclaim!Grown))
<1> DEFINE old == Len(array)
           size == Reclaim!Max({2 * old, MinArraySize})
           S == {k \in DOMAIN Reclaim!Grown : ~Reclaim!Grown[k].allocated}
<1>1. old \in Nat /\ array \in Seq(Reclaim!Slot) /\ DOMAIN array = 1..old
  BY DEF ReclaimInv, ReclaimTypes, Reclaim!TypeOK
<1>2. size \in Nat /\ size >= 2 * old /\ old < size
  <2>1. 2 * old \in Nat /\ MinArraySize \in Nat
    BY <1>1, ReclaimersAre
  <2>2. size = IF 2 * old >= MinArraySize THEN 2 * old ELSE MinArraySize
    BY <2>1, GreaterIs
  <2> HIDE DEF size
  <2>3. QED
    BY <1>1, <2>1, <2>2
<1>3. Reclaim!Grown = [k \in 1..size |-> IF k <= old THEN array[k] ELSE Reclaim!Unused]
  BY DEF Reclaim!Grown
<1>4. /\ Reclaim!Unused \in Reclaim!Slot /\ Reclaim!Unused.seq = Reclaim!QSBR_OFFLINE /\ Reclaim!Unused.tstate = NoThread
      /\ ~Reclaim!Unused.allocated
  BY DEF Reclaim!Unused, Reclaim!Slot, Reclaim!QSBR_OFFLINE
<1> HIDE DEF size
<1>5. /\ Reclaim!Grown \in Seq(Reclaim!Slot) /\ Len(Reclaim!Grown) = size /\ DOMAIN Reclaim!Grown = 1..size
      /\ \A k \in DOMAIN array : Reclaim!Grown[k] = array[k] /\ k \in DOMAIN Reclaim!Grown
      /\ \A k \in DOMAIN Reclaim!Grown \ DOMAIN array : Reclaim!Grown[k] = Reclaim!Unused
  <2>1. \A k \in 1..size : k <= old <=> k \in 1..old
    BY <1>1, <1>2
  <2>2. \A k \in 1..size : (IF k <= old THEN array[k] ELSE Reclaim!Unused) \in Reclaim!Slot
    BY <1>1, <1>4, <2>1
  <2>3. Reclaim!Grown \in [1..size -> Reclaim!Slot]
    BY <1>3, <2>2
  <2>4. Reclaim!Grown \in Seq(Reclaim!Slot) /\ Len(Reclaim!Grown) = size /\ DOMAIN Reclaim!Grown = 1..size
    BY <1>2, <2>3
  <2>5. \A k \in 1..old : k \in 1..size
    BY <1>1, <1>2
  <2>6. QED
    BY <1>1, <1>3, <2>1, <2>4, <2>5
<1>6. ASSUME NEW k PROVE k \in S <=> k \in DOMAIN Reclaim!Grown \ {qsbr[t] : t \in Reclaimers}
  <2>1. CASE k \in DOMAIN array
    <3>1. k \in Reclaim!ToSet(freelist) \/ \E t \in Reclaimers : k = qsbr[t]
      BY <2>1 DEF ReclaimInv, Slots
    <3>2. k \in Reclaim!ToSet(freelist) => ~array[k].allocated /\ ~ \E t \in Reclaimers : k = qsbr[t]
      BY DEF ReclaimInv, Slots
    <3>3. ASSUME NEW t \in Reclaimers, k = qsbr[t] PROVE array[k].allocated
      <4>1. k # 0
        BY <1>1, <2>1
      <4>2. QED
        BY <3>3, <4>1 DEF ReclaimInv, Slots, SlotOf
    <3>4. QED
      BY <1>5, <2>1, <3>1, <3>2, <3>3
  <2>2. CASE k \in DOMAIN Reclaim!Grown \ DOMAIN array
    <3>1. ASSUME NEW t \in Reclaimers PROVE k # qsbr[t]
      <4>1. qsbr[t] \in 0..old /\ k # 0
        BY <1>5, <2>2 DEF ReclaimInv, ReclaimTypes, Reclaim!TypeOK
      <4>2. QED
        BY <1>1, <2>2, <4>1
    <3>2. QED
      BY <1>4, <1>5, <2>2, <3>1
  <2>3. QED
    BY <1>5, <2>1, <2>2
<1>7. S \in SUBSET Nat /\ IsFiniteSet(S) /\ old + 1 \in S
  <2>1. DOMAIN Reclaim!Grown \in SUBSET Nat /\ IsFiniteSet(DOMAIN Reclaim!Grown) /\ S \in SUBSET DOMAIN Reclaim!Grown
    <3>1. 1..size \in SUBSET Nat /\ IsFiniteSet(1..size)
      BY <1>2, FS_Interval
    <3>2. QED
      BY <1>5, <3>1
  <2>2. old + 1 \in DOMAIN Reclaim!Grown \ DOMAIN array
    BY <1>1, <1>2, <1>5
  <2>3. old + 1 \in S
    BY <1>4, <1>5, <2>2
  <2> HIDE DEF S
  <2>4. QED
    BY <2>1, <2>3, FS_Subset
<1>8. Reclaim!NewFreelist(Reclaim!Grown) = Reclaim!Pushed(S)
  BY DEF Reclaim!NewFreelist
<1> HIDE DEF S
<1>9. /\ Reclaim!Pushed(S) \in Seq(S) /\ Reclaim!IsInjective(Reclaim!Pushed(S)) /\ Reclaim!ToSet(Reclaim!Pushed(S)) = S
  BY <1>7, PushedSlots
<1>10. Reclaim!Pushed(S) # <<>>
  <2>1. Reclaim!ToSet(<<>>) = {}
    BY DEF Reclaim!ToSet
  <2>2. QED
    BY <1>7, <1>9, <2>1
<1>11. ASSUME NEW k \in S PROVE Reclaim!Grown[k].seq = Reclaim!QSBR_OFFLINE /\ Reclaim!Grown[k].tstate = NoThread /\ ~Reclaim!Grown[k].allocated
  <2>1. CASE k \in DOMAIN array
    <3>1. k \in Reclaim!ToSet(freelist)
      BY <1>6, <2>1 DEF ReclaimInv, Slots
    <3>2. QED
      BY <1>5, <2>1, <3>1 DEF ReclaimInv, Slots
  <2>2. CASE k \notin DOMAIN array
    BY <1>4, <1>5, <1>6, <2>2
  <2>3. QED
    BY <2>1, <2>2
<1>12. S = DOMAIN Reclaim!Grown \ {qsbr[t] : t \in Reclaimers} /\ S \subseteq DOMAIN Reclaim!Grown
  BY <1>6
<1>13. Reclaim!Pushed(S) \in Seq(DOMAIN Reclaim!Grown)
  BY <1>9, <1>12
<1>14. Len(array) <= Len(Reclaim!Grown)
  BY <1>1, <1>2, <1>5
<1>15. QED
  BY <1>5, <1>8, <1>9, <1>10, <1>11, <1>12, <1>13, <1>14 DEF Owned

\* A thread creates a thread state.
LEMMA ReserveKeeps ==
    ASSUME ReclaimInv, NEW t \in Reclaimers, Reclaim!Reserve(t)
    PROVE  ReclaimInv'
<1>1. PICK c \in Reclaimers : /\ q_pc[c] = "none"
                              /\ IF freelist # <<>> THEN Reclaim!Allocate(t, c, array, freelist)
                                 ELSE Reclaim!Stopped(t) /\ Reclaim!Allocate(t, c, Reclaim!Grown, Reclaim!NewFreelist(Reclaim!Grown))
  BY DEF Reclaim!Reserve
<1>2. q_pc[t] = "run" /\ UNCHANGED <<Reclaim!seqs, Reclaim!memory, Reclaim!queues, resume, seq, min_seq, i, removed>>
  BY DEF Reclaim!Reserve
<1>3. CASE freelist # <<>>
  <2>1. Owned(array, freelist)
    BY <1>3 DEF Owned, ReclaimInv, Slots, ReclaimTypes, Reclaim!TypeOK
  <2>2. QED
    BY <1>1, <1>2, <1>3, <2>1, AllocateKeeps
<1>4. CASE freelist = <<>>
  <2>1. Len(array) > 0
    <3>1. qsbr[t] # 0
      BY <1>2 DEF ReclaimInv, Slots
    <3>2. qsbr[t] \in 0..Len(array) /\ Len(array) \in Nat
      BY DEF ReclaimInv, ReclaimTypes, Reclaim!TypeOK
    <3>3. QED
      BY <3>1, <3>2
  <2>2. Owned(Reclaim!Grown, Reclaim!NewFreelist(Reclaim!Grown))
    BY <2>1, GrownOwned
  <2>3. Reclaim!Allocate(t, c, Reclaim!Grown, Reclaim!NewFreelist(Reclaim!Grown))
    BY <1>1, <1>4
  <2>4. QED
    BY <1>1, <1>2, <2>2, <2>3, AllocateKeeps
<1>5. QED
  BY <1>3, <1>4

\* A sequence over a set is one over a larger set.
LEMMA SeqWider ==
    ASSUME NEW D, NEW S \in SUBSET D, NEW p \in Seq(S)
    PROVE  p \in Seq(D)
OBVIOUS

\* The slots in the child of a fork, whose only thread goes on at label.
ChildArray(t, label) ==
    IF label = "run" THEN Reclaim!WithoutOrphans(t)
    ELSE [Reclaim!WithoutOrphans(t) EXCEPT ![qsbr[t]].seq = Reclaim!QSBR_OFFLINE]

\* The child of a fork: the slots of the other threads are unused, and the
\* thread goes on or waits for a mutex, as label says.
LEMMA ForkKeeps ==
    ASSUME ReclaimInv, NEW t \in Reclaimers, NEW label \in {"run", "parked"}, Reclaim!TakeBackSlots(t),
           q_pc' = [u \in Reclaimers |-> IF u = t THEN label ELSE "none"],
           array' = ChildArray(t, label),
           holds' = IF label = "run" THEN holds ELSE [holds EXCEPT ![t] = NoBlock],
           interp' \in [head : Seq(Item), has_work : BOOLEAN, locked : BOOLEAN, mutex : Reclaimers \cup {NoThread}],
           interp'.mutex = NoThread, interp'.head # <<>> => interp'.has_work,
           queue' \in [Reclaimers -> Seq(Item)], Apart(Queues', QueuePlaces), Queued' = Queued
    PROVE  ReclaimInv'
<1> DEFINE others == Reclaimers \ {t}
           S == Reclaim!Orphans(t)
           base == Reclaim!WithoutOrphans(t)
<1>1. /\ q_pc[t] = "run" /\ Reclaim!Stopped(t) /\ freelist' = Reclaim!Pushed(S) \o freelist
      /\ base = [k \in DOMAIN array |-> IF k \notin S THEN array[k]
                    ELSE [array[k] EXCEPT !.tstate = NoThread, !.allocated = FALSE]]
      /\ qsbr' = [u \in Reclaimers |-> IF u = t THEN qsbr[t] ELSE 0]
      /\ resume' = [u \in Reclaimers |-> "run"] /\ child' = [u \in Reclaimers |-> NoThread]
  BY DEF Reclaim!TakeBackSlots, Reclaim!WithoutOrphans
<1>0. UNCHANGED <<wr_seq, rd_seq, shared, freed, seq, min_seq, i, removed>>
  BY DEF Reclaim!TakeBackSlots, Reclaim!seqs
<1>2. /\ array \in Seq(Reclaim!Slot) /\ freelist \in Seq(DOMAIN array) /\ qsbr \in [Reclaimers -> 0..Len(array)]
      /\ wr_seq \in Nat /\ holds \in [Reclaimers -> Blocks \cup {NoBlock}]
      /\ others \in SUBSET Reclaimers /\ NoThread \notin Reclaimers
  BY ReclaimersAre DEF ReclaimInv, ReclaimTypes, Reclaim!TypeOK
<1>3. \A u \in others : /\ holds[u] = NoBlock /\ q_pc[u] \in {"none", "new", "detached", "parked", "deleting"}
                        /\ qsbr[u] # 0 => array[qsbr[u]].seq = Reclaim!QSBR_OFFLINE
  BY <1>1, StoppedHoldNothing DEF ReclaimInv
<1>4. qsbr[t] # 0 /\ qsbr[t] \in DOMAIN array /\ array[qsbr[t]] \in Reclaim!Slot /\ SlotOf(t)
  <2>1. qsbr[t] # 0
    BY <1>1 DEF ReclaimInv, Slots
  <2>2. QED
    BY <2>1, SlotFacts DEF ReclaimInv, Slots
<1>10. ASSUME NEW k PROVE k \in S <=> k \in DOMAIN array /\ \E u \in others : k = qsbr[u]
  <2>1. k \in S <=> k \in DOMAIN array /\ k # qsbr[t] /\ array[k].allocated
    BY DEF Reclaim!Orphans
  <2>2. ASSUME k \in S PROVE \E u \in others : k = qsbr[u]
    <3>1. k \notin Reclaim!ToSet(freelist)
      BY <2>1, <2>2 DEF ReclaimInv, Slots
    <3>2. \E u \in Reclaimers : k = qsbr[u]
      BY <2>1, <2>2, <3>1 DEF ReclaimInv, Slots
    <3>3. QED
      BY <2>1, <2>2, <3>2
  <2>3. ASSUME k \in DOMAIN array, NEW u \in others, k = qsbr[u] PROVE k \in S
    <3>1. k # 0
      BY <1>2, <2>3
    <3>2. SlotOf(u) /\ qsbr[u] # qsbr[t]
      BY <2>3, <3>1 DEF ReclaimInv, Slots
    <3>3. QED
      BY <2>1, <2>3, <3>2 DEF SlotOf
  <2>4. QED
    BY <2>1, <2>2, <2>3
<1>11. S \in SUBSET Nat /\ IsFiniteSet(S) /\ S \subseteq DOMAIN array
  <2>1. DOMAIN array = 1..Len(array) /\ Len(array) \in Nat
    BY <1>2
  <2>2. 1..Len(array) \in SUBSET Nat /\ IsFiniteSet(1..Len(array))
    BY <2>1, FS_Interval
  <2>3. S \in SUBSET 1..Len(array)
    BY <1>10, <2>1
  <2> HIDE DEF S
  <2>4. QED
    BY <2>1, <2>2, <2>3, FS_Subset
<1> HIDE DEF S
<1>12. /\ freelist' \in Seq(DOMAIN array) /\ Reclaim!IsInjective(freelist')
       /\ Reclaim!ToSet(freelist') = S \cup Reclaim!ToSet(freelist)
  <2>1. /\ Reclaim!Pushed(S) \in Seq(S) /\ Reclaim!IsInjective(Reclaim!Pushed(S)) /\ Reclaim!ToSet(Reclaim!Pushed(S)) = S
    BY <1>11, PushedSlots
  <2>2. Reclaim!Pushed(S) \in Seq(DOMAIN array)
    BY <1>11, <2>1, SeqWider
  <2>3. Reclaim!IsInjective(freelist) /\ S \cap Reclaim!ToSet(freelist) = {}
    <3>1. \A u \in Reclaimers : qsbr[u] \notin Reclaim!ToSet(freelist)
      BY DEF ReclaimInv, Slots
    <3>2. QED
      BY <1>10, <3>1 DEF ReclaimInv, Slots
  <2> DEFINE p == Reclaim!Pushed(S)
  <2>4. p \in Seq(DOMAIN array) /\ Reclaim!IsInjective(p) /\ Reclaim!ToSet(p) = S
    BY <2>1, <2>2
  <2> HIDE DEF p
  <2>5. /\ p \o freelist \in Seq(DOMAIN array) /\ Reclaim!IsInjective(p \o freelist)
        /\ Reclaim!ToSet(p \o freelist) = Reclaim!ToSet(p) \cup Reclaim!ToSet(freelist)
    BY <1>2, <2>3, <2>4, Joined
  <2>6. freelist' = p \o freelist
    BY <1>1 DEF p
  <2>7. QED
    BY <2>4, <2>5, <2>6
<1> HIDE DEF base
<1>13. /\ \A k \in DOMAIN array \ S : base[k] = array[k]
       /\ \A k \in S : /\ base[k] \in Reclaim!Slot /\ base[k].seq = array[k].seq
                       /\ base[k].tstate = NoThread /\ ~base[k].allocated
       /\ DOMAIN base = DOMAIN array
  <2>1. \A k \in DOMAIN array : array[k] \in Reclaim!Slot
    BY <1>2
  <2>2. ASSUME NEW k \in S PROVE LET x == [array[k] EXCEPT !.tstate = NoThread, !.allocated = FALSE] IN
             x \in Reclaim!Slot /\ x.seq = array[k].seq /\ x.tstate = NoThread /\ ~x.allocated
    BY <1>11, <2>1 DEF Reclaim!Slot
  <2>3. QED
    BY <1>1, <1>11, <2>2
<1>14. base \in Seq(Reclaim!Slot) /\ Len(base) = Len(array)
  <2>1. \A k \in DOMAIN array : base[k] \in Reclaim!Slot
    BY <1>2, <1>13
  <2>2. base = [k \in DOMAIN array |-> base[k]]
    BY <1>1, Zenon
  <2>3. DOMAIN array = 1..Len(array) /\ Len(array) \in Nat
    BY <1>2
  <2>4. base \in [1..Len(array) -> Reclaim!Slot]
    BY <2>1, <2>2, <2>3
  <2>5. QED
    BY <2>3, <2>4
<1>15. qsbr[t] \notin S /\ qsbr[t] \in DOMAIN base /\ base[qsbr[t]] = array[qsbr[t]]
  BY <1>4, <1>10, <1>13 DEF ReclaimInv, Slots
<1>16. /\ array' \in Seq(Reclaim!Slot) /\ DOMAIN array' = DOMAIN array /\ Len(array') = Len(array)
       /\ \A k \in DOMAIN array \ {qsbr[t]} : array'[k] = base[k]
       /\ array'[qsbr[t]].allocated /\ array'[qsbr[t]].tstate = t
       /\ array'[qsbr[t]].seq = IF label = "run" THEN array[qsbr[t]].seq ELSE Reclaim!QSBR_OFFLINE
  <2>1. array[qsbr[t]].allocated /\ array[qsbr[t]].tstate = t
    BY <1>1, <1>4 DEF SlotOf
  <2>2. CASE label = "run"
    <3>1. array' = base
      BY <2>2 DEF ChildArray, base
    <3>2. QED
      BY <1>13, <1>14, <1>15, <2>1, <2>2, <3>1
  <2>3. CASE label # "run"
    <3> DEFINE x == [base[qsbr[t]] EXCEPT !.seq = Reclaim!QSBR_OFFLINE]
    <3>1. /\ x \in Reclaim!Slot /\ x.seq = Reclaim!QSBR_OFFLINE /\ x.allocated = array[qsbr[t]].allocated
          /\ x.tstate = array[qsbr[t]].tstate
      BY <1>4, <1>15 DEF Reclaim!Slot, Reclaim!QSBR_OFFLINE
    <3>2. array' = [base EXCEPT ![qsbr[t]] = x]
      BY <2>3 DEF ChildArray, base
    <3> HIDE DEF x
    <3>3. /\ array' \in Seq(Reclaim!Slot) /\ DOMAIN array' = DOMAIN base /\ Len(array') = Len(base)
          /\ array'[qsbr[t]] = x /\ \A j \in DOMAIN base \ {qsbr[t]} : array'[j] = base[j]
      BY <1>14, <1>15, <3>1, <3>2, SlotChange
    <3>4. QED
      BY <1>13, <1>14, <2>1, <2>3, <3>1, <3>3
  <2>4. QED
    BY <2>2, <2>3
<1>17. /\ q_pc' \in [Reclaimers -> PC] /\ q_pc'[t] = label /\ qsbr'[t] = qsbr[t]
       /\ qsbr' \in [Reclaimers -> 0..Len(array)]
       /\ \A u \in others : q_pc'[u] = "none" /\ qsbr'[u] = 0
       /\ resume' \in [Reclaimers -> {"run", "register", "abandon"}]
       /\ child' \in [Reclaimers -> Reclaimers \cup {NoThread}]
       /\ \A u \in Reclaimers : child'[u] = NoThread
  <2>1. label \in PC /\ "none" \in PC /\ 0 \in 0..Len(array)
    BY <1>2 DEF PC, Active, Inactive
  <2>2. qsbr[t] \in 0..Len(array)
    BY <1>2
  <2>3. QED
    BY <1>1, <2>1, <2>2
<1>18. holds' \in [Reclaimers -> Blocks \cup {NoBlock}]
  BY <1>2
<1>19. ReclaimTypes'
  BY <1>0, <1>12, <1>16, <1>17, <1>18 DEF ReclaimInv, ReclaimTypes, Reclaim!TypeOK, Item
<1>20. Slots'
  <2>1. ASSUME NEW u \in Reclaimers, qsbr'[u] # 0 PROVE SlotOf(u)'
    <3>1. u = t
      BY <1>17, <2>1
    <3>2. label = "run" => array'[qsbr'[t]].seq # Reclaim!QSBR_OFFLINE /\ array'[qsbr'[t]].seq <= wr_seq
      BY <1>1, <1>4, <1>16, <1>17 DEF SlotOf, Active
    <3>3. label = "parked" => array'[qsbr'[t]].seq = Reclaim!QSBR_OFFLINE
      BY <1>16, <1>17
    <3>4. (label \in Inactive => label = "parked") /\ (label \in Active => label = "run")
      BY DEF Active, Inactive, Processing
    <3>5. QED
      BY <1>0, <1>16, <1>17, <3>1, <3>2, <3>3, <3>4 DEF SlotOf
  <2>2. \A u \in Reclaimers : qsbr'[u] = 0 <=> q_pc'[u] = "none"
    BY <1>4, <1>17
  <2>3. \A u, v \in Reclaimers : qsbr'[u] = qsbr'[v] /\ qsbr'[u] # 0 => u = v
    BY <1>17
  <2>4. ASSUME NEW j PROVE j \in Reclaim!ToSet(freelist') <=> j \in DOMAIN array' \ {qsbr'[u] : u \in Reclaimers}
    <3>1. j \in Reclaim!ToSet(freelist) <=> j \in DOMAIN array /\ ~ \E u \in Reclaimers : j = qsbr[u]
      BY DEF ReclaimInv, Slots
    <3>2. j \in DOMAIN array => j # 0
      BY <1>2
    <3>3. j \in DOMAIN array => (j \in {qsbr'[u] : u \in Reclaimers} <=> j = qsbr[t])
      BY <1>17, <3>2
    <3>4. QED
      BY <1>10, <1>12, <1>15, <1>16, <3>1, <3>3
  <2>5. ASSUME NEW j \in Reclaim!ToSet(freelist')
        PROVE  array'[j].seq = Reclaim!QSBR_OFFLINE /\ array'[j].tstate = NoThread /\ ~array'[j].allocated
    <3>1. CASE j \in S
      <4>1. array[j].seq = Reclaim!QSBR_OFFLINE
        <5>1. PICK u \in others : j = qsbr[u]
          BY <1>10, <3>1
        <5>2. j # 0
          BY <1>2, <1>10, <3>1
        <5>3. QED
          BY <1>3, <5>1, <5>2
      <4>2. array'[j] = base[j]
        BY <1>11, <1>15, <1>16, <3>1
      <4>3. QED
        BY <1>13, <3>1, <4>1, <4>2
    <3>2. CASE j \notin S
      <4>1. j \in Reclaim!ToSet(freelist) /\ j \in DOMAIN array /\ j # qsbr[t]
        BY <1>12, <2>5, <3>2 DEF ReclaimInv, Slots
      <4>2. array'[j] = array[j]
        BY <1>13, <1>16, <3>2, <4>1
      <4>3. QED
        BY <4>1, <4>2 DEF ReclaimInv, Slots
    <3>3. QED
      BY <3>1, <3>2
  <2>6. Reclaim!ToSet(freelist') = DOMAIN array' \ {qsbr'[u] : u \in Reclaimers}
    BY <2>4
  <2>7. QED
    BY <1>12, <2>1, <2>2, <2>3, <2>5, <2>6 DEF Slots
<1>21. Locals'
  <2>1. removed[t] = NoBlock /\ \A u \in others : removed[u] = NoBlock
    BY <1>1, <1>3 DEF ReclaimInv, Locals, LocalsOf
  <2>2. ASSUME NEW u \in Reclaimers PROVE LocalsOf(u)'
    <3>1. q_pc'[u] \in {"run", "parked", "none"} /\ removed'[u] = NoBlock /\ interp'.mutex # u
      BY <1>0, <1>2, <1>17, <2>1
    <3>2. QED
      BY <3>1 DEF LocalsOf
  <2>3. 1 <= wr_seq' /\ rd_seq' <= wr_seq'
    BY <1>0 DEF ReclaimInv, Locals
  <2>4. QED
    BY <2>2, <2>3 DEF Locals
<1>22. Children'
  <2>1. \A u \in Reclaimers : q_pc'[u] \in {"run", "parked", "none"}
    BY <1>17
  <2>2. \A u \in Reclaimers : ~Creating(u)'
    BY <2>1 DEF Creating
  <2>3. QED
    BY <1>17, <2>2 DEF Children
<1>23. Kept'
  <2>1. UNCHANGED <<shared, removed, freed, wr_seq>> /\ wr_seq' \in Nat /\ wr_seq <= wr_seq'
    BY <1>0, <1>2
  <2>2. QED
    BY <2>1, KeptShrinks DEF ReclaimInv
<1>24. Held'
  <2>1. CASE label = "run"
    <3>1. ASSUME NEW u \in Reclaimers, holds[u] # NoBlock
          PROVE  /\ q_pc'[u] \in Active \ {"quiescent", "cleared", "abandon"}
                 /\ qsbr'[u] = qsbr[u] /\ array'[qsbr'[u]].seq = array[qsbr[u]].seq
      <4>1. u = t
        BY <1>3, <3>1
      <4>2. QED
        BY <1>16, <1>17, <2>1, <4>1 DEF Active
    <3>2. \A p \in Reclaimers : q_pc'[p] \notin {"scan", "update", "polled"}
      BY <1>17
    <3>3. UNCHANGED <<rd_seq, freed, holds, seq, min_seq, i>>
      BY <1>0, <2>1
    <3>4. QED
      BY <3>1, <3>2, <3>3, HeldStill DEF ReclaimInv
  <2>2. CASE label = "parked"
    <3>1. \A u \in Reclaimers : holds'[u] = NoBlock
      BY <1>2, <1>3, <2>2
    <3>2. QED
      BY <3>1 DEF Held
  <2>3. QED
    BY <2>1, <2>2
<1>25. QED
  BY <1>19, <1>20, <1>21, <1>22, <1>23, <1>24 DEF ReclaimInv

\* The interpreter has the items of the others, whose mutex nobody has locked.
LEMMA AfterForkKeeps ==
    ASSUME ReclaimInv, NEW t \in Reclaimers, Reclaim!AfterFork(t)
    PROVE  ReclaimInv'
<1> DEFINE others == Reclaimers \ {t}
           m == Reclaim!Merged(others)
<1>1. /\ Reclaim!TakeBackSlots(t) /\ array' = Reclaim!WithoutOrphans(t) /\ UNCHANGED holds
      /\ interp' = [interp EXCEPT !.head = @ \o m, !.has_work = m # <<>> \/ @, !.mutex = NoThread]
      /\ queue' = [u \in Reclaimers |-> IF u = t THEN queue[t] ELSE <<>>]
      /\ q_pc' = [u \in Reclaimers |-> IF u = t THEN "run" ELSE "none"]
  BY DEF Reclaim!AfterFork
<1>2. /\ queue \in [Reclaimers -> Seq(Item)]
      /\ interp \in [head : Seq(Item), has_work : BOOLEAN, locked : BOOLEAN, mutex : Reclaimers \cup {NoThread}]
      /\ others \in SUBSET Reclaimers /\ IsFiniteSet(others)
      /\ interp.head # <<>> => interp.has_work
  <2>1. IsFiniteSet(others)
    BY ReclaimersAre, FS_Subset
  <2>2. QED
    BY <2>1 DEF ReclaimInv, ReclaimTypes, Reclaim!TypeOK, Item
<1>3. /\ MergedOf(queue, others) \in Seq(Item)
      /\ \A x : x \in Reclaim!ToSet(MergedOf(queue, others)) <=> \E u \in others : x \in Reclaim!ToSet(queue[u])
      /\ Distinct(MergedOf(queue, others))
  <2>1. Apart(queue, others)
    <3>1. \A u \in Reclaimers : Queues[u] = queue[u] /\ u \in QueuePlaces
      BY QueuesAre DEF ReclaimInv, QueuePlaces
    <3>2. Apart(Queues, QueuePlaces)
      BY DEF ReclaimInv, Kept
    <3>3. QED
      BY <3>1, <3>2 DEF Apart
  <2>2. QED
    BY <1>2, <2>1, MergedItems
<1>4. /\ m \in Seq(Item) /\ Distinct(m)
      /\ \A x : x \in Reclaim!ToSet(m) <=> \E u \in others : x \in Reclaim!ToSet(queue[u])
  BY <1>3 DEF Reclaim!Merged, MergedOf
<1> HIDE DEF m
<1>5. interp'.head = interp.head \o m
  BY <1>1, <1>2
<1>6. /\ queue' \in [Reclaimers -> Seq(Item)] /\ interp'.head \in Seq(Item)
      /\ Apart(Queues', QueuePlaces) /\ Queued' = Queued
  <2>1. queue' = [u \in Reclaimers |-> IF u \in others THEN <<>> ELSE queue[u]]
    BY <1>1
  <2> HIDE DEF others
  <2>2. QED
    BY <1>2, <1>4, <1>5, <2>1, QueuesMerge DEF ReclaimInv
<1>7. /\ interp' \in [head : Seq(Item), has_work : BOOLEAN, locked : BOOLEAN, mutex : Reclaimers \cup {NoThread}]
      /\ interp'.mutex = NoThread /\ interp'.has_work = (m # <<>> \/ interp.has_work)
  <2>1. (m # <<>> \/ interp.has_work) \in BOOLEAN
    OBVIOUS
  <2>2. interp.head \o m \in Seq(Item)
    BY <1>5, <1>6
  <2>3. QED
    BY <1>1, <1>2, <2>1, <2>2
<1>8. interp'.head # <<>> => interp'.has_work
  <2>1. m = <<>> /\ interp.head = <<>> => interp'.head = <<>>
    BY <1>5
  <2>2. QED
    BY <1>2, <1>7, <2>1
<1>9. QED
  BY <1>1, <1>6, <1>7, <1>8, ForkKeeps DEF ChildArray

\* Or the thread, which clears their states, waits for the mutex.
LEMMA AfterForkWaitsKeeps ==
    ASSUME ReclaimInv, NEW t \in Reclaimers, Reclaim!AfterForkWaits(t)
    PROVE  ReclaimInv'
<1>1. /\ Reclaim!TakeBackSlots(t)
      /\ array' = [Reclaim!WithoutOrphans(t) EXCEPT ![qsbr[t]].seq = Reclaim!QSBR_OFFLINE]
      /\ interp' = [interp EXCEPT !.mutex = NoThread]
      /\ q_pc' = [u \in Reclaimers |-> IF u = t THEN "parked" ELSE "none"]
      /\ holds' = [holds EXCEPT ![t] = NoBlock] /\ queue' = queue
  BY DEF Reclaim!AfterForkWaits
<1>2. /\ queue' \in [Reclaimers -> Seq(Item)]
      /\ interp' \in [head : Seq(Item), has_work : BOOLEAN, locked : BOOLEAN, mutex : Reclaimers \cup {NoThread}]
      /\ interp'.mutex = NoThread /\ interp'.head = interp.head
      /\ interp'.head # <<>> => interp'.has_work
  BY <1>1 DEF ReclaimInv, ReclaimTypes, Reclaim!TypeOK, Item
<1>3. Queues' = Queues
  BY <1>1, <1>2 DEF Queues, QueuesOf
<1>4. Apart(Queues', QueuePlaces) /\ Queued' = Queued
  BY <1>3 DEF ReclaimInv, Kept, Queued
<1>5. QED
  BY <1>1, <1>2, <1>4, ForkKeeps DEF ChildArray

\* What is queued, in one sequence.
PendingOf(q, h) == Reclaim!FlattenSeq(<<h, MergedOf(q, Reclaimers)>>)

\* All that is queued, in one sequence.
LEMMA PendingIs ==
    ASSUME NEW q \in [Reclaimers -> Seq(Item)], NEW h \in Seq(Item)
    PROVE  /\ PendingOf(q, h) \in Seq(Item)
           /\ \A x : x \in Reclaim!ToSet(PendingOf(q, h)) <=> \E w \in QueuePlaces : x \in Reclaim!ToSet(QueuesOf(q, h)[w])
           /\ Apart(QueuesOf(q, h), QueuePlaces) => Distinct(PendingOf(q, h))
<1> DEFINE m == MergedOf(q, Reclaimers)
           s == <<h, m>>
           Q == QueuesOf(q, h)
<1>1. IsFiniteSet(Reclaimers) /\ Reclaimers \in SUBSET Reclaimers
  BY ReclaimersAre
<1>2. /\ m \in Seq(Item) /\ \A x : x \in Reclaim!ToSet(m) <=> \E u \in Reclaimers : x \in Reclaim!ToSet(q[u])
      /\ Apart(q, Reclaimers) => Distinct(m)
  BY <1>1, MergedItems
<1>3. /\ Q[NoThread] = h /\ \A t \in Reclaimers : Q[t] = q[t]
      /\ NoThread \in QueuePlaces /\ NoThread \notin Reclaimers /\ Reclaimers \subseteq QueuePlaces
  BY QueuesTyped
<1> HIDE DEF m, Q
<1>4. s \in Seq(Seq(Item)) /\ DOMAIN s = {1, 2} /\ s[1] = h /\ s[2] = m
  BY <1>2
<1>5. PendingOf(q, h) = Reclaim!FlattenSeq(s)
  BY DEF PendingOf, m
<1> HIDE DEF s
<1>6. /\ Reclaim!FlattenSeq(s) \in Seq(Item)
      /\ \A x : x \in Reclaim!ToSet(Reclaim!FlattenSeq(s)) <=> \E k \in DOMAIN s : x \in Reclaim!ToSet(s[k])
      /\ (/\ \A k \in DOMAIN s : Distinct(s[k])
          /\ \A j, k \in DOMAIN s : j # k => Reclaim!Ptrs(s[j]) \cap Reclaim!Ptrs(s[k]) = {})
         => Distinct(Reclaim!FlattenSeq(s))
  BY <1>4, Flattened
<1>7. ASSUME NEW x PROVE x \in Reclaim!ToSet(Reclaim!FlattenSeq(s)) <=> \E w \in QueuePlaces : x \in Reclaim!ToSet(Q[w])
  <2>1. x \in Reclaim!ToSet(Reclaim!FlattenSeq(s)) <=> x \in Reclaim!ToSet(h) \/ x \in Reclaim!ToSet(m)
    BY <1>4, <1>6
  <2>2. (\E w \in QueuePlaces : x \in Reclaim!ToSet(Q[w])) <=> x \in Reclaim!ToSet(h) \/ \E u \in Reclaimers : x \in Reclaim!ToSet(q[u])
    BY <1>3 DEF QueuePlaces
  <2>3. QED
    BY <1>2, <2>1, <2>2
<1>8. ASSUME Apart(Q, QueuePlaces) PROVE Distinct(Reclaim!FlattenSeq(s))
  <2>1. Apart(q, Reclaimers) /\ Distinct(h)
    BY <1>3, <1>8 DEF Apart
  <2>2. ASSUME NEW x \in Reclaim!ToSet(m) PROVE x.ptr \notin Reclaim!Ptrs(h)
    <3>1. PICK u \in Reclaimers : x \in Reclaim!ToSet(q[u])
      BY <1>2
    <3>2. x.ptr \in Reclaim!Ptrs(Q[u]) /\ u \in QueuePlaces /\ u # NoThread
      BY <1>3, <3>1, PtrsAre
    <3>3. Reclaim!Ptrs(Q[u]) \cap Reclaim!Ptrs(Q[NoThread]) = {}
      BY <1>3, <1>8, <3>2 DEF Apart
    <3>4. QED
      BY <1>3, <3>2, <3>3
  <2>3. Reclaim!Ptrs(h) \cap Reclaim!Ptrs(m) = {}
    BY <2>2, PtrsAre
  <2>4. QED
    BY <1>2, <1>4, <1>6, <2>1, <2>3
<1>9. QED
  BY <1>5, <1>6, <1>7, <1>8 DEF Q

\* That sequence is Pending.
LEMMA PendingIsPending == Reclaim!Pending = PendingOf(queue, interp.head)
BY DEF Reclaim!Pending, PendingOf, Reclaim!Merged, MergedOf

\* After a collection no thread has queued items, and the interpreter has only
\* those of a queue whose mutex is locked.
LEMMA EndCollectionKeeps ==
    ASSUME ReclaimInv, NEW t \in Reclaimers, Reclaim!EndCollection(t)
    PROVE  /\ ReclaimInv'
           /\ \A u \in Reclaimers : queue'[u] = <<>>
           /\ interp'.head = <<>> \/ (~Reclaim!TakesInterp /\ interp' = interp)
<1> DEFINE others == Reclaimers \ {t}
           own == queue[t] \o Reclaim!Merged(others)
           now == wr_seq + Reclaim!QSBR_INCR
           x == [array[qsbr[t]] EXCEPT !.seq = now]
           slot == [array EXCEPT ![qsbr[t]] = x]
           polled == IF Reclaim!TakesInterp THEN own \o interp.head ELSE own
           rd == Reclaim!PollAll(polled, slot, now)
           left == Reclaim!Rest(interp.head, rd)
<1>1. /\ q_pc[t] = "run" /\ Reclaim!Stopped(t) /\ wr_seq' = now /\ array' = slot
      /\ holds' = [holds EXCEPT ![t] = NoBlock]
  BY DEF Reclaim!EndCollection, Reclaim!ProcessDelayedFrees
<1>0. UNCHANGED <<freelist, qsbr, shared, seq, min_seq, i, removed, child>>
  BY DEF Reclaim!EndCollection
<1>2. /\ rd_seq' = rd
      /\ queue' = [u \in Reclaimers |-> IF u = t THEN Reclaim!Rest(own, rd) ELSE <<>>]
      /\ Reclaim!TakesInterp =>
            /\ freed' = freed \cup Reclaim!Ptrs(Reclaim!Ready(own, rd)) \cup Reclaim!Ptrs(Reclaim!Ready(interp.head, rd))
            /\ Reclaim!Unlock(t, "run", left, left # <<>>)
      /\ ~Reclaim!TakesInterp =>
            /\ freed' = freed \cup Reclaim!Ptrs(Reclaim!Ready(own, rd))
            /\ UNCHANGED <<interp, q_pc, resume>>
  BY DEF Reclaim!EndCollection, Reclaim!ProcessDelayedFrees
<1> HIDE DEF rd, left, polled
<1>3. /\ array \in Seq(Reclaim!Slot) /\ qsbr \in [Reclaimers -> 0..Len(array)] /\ freed \subseteq Blocks
      /\ queue \in [Reclaimers -> Seq(Item)] /\ wr_seq \in Nat /\ rd_seq \in Nat /\ now \in Nat
      /\ interp \in [head : Seq(Item), has_work : BOOLEAN, locked : BOOLEAN, mutex : Reclaimers \cup {NoThread}]
      /\ holds \in [Reclaimers -> Blocks \cup {NoBlock}]
      /\ others \in SUBSET Reclaimers /\ IsFiniteSet(others)
  <2>1. IsFiniteSet(others)
    BY ReclaimersAre, FS_Subset
  <2>2. wr_seq \in Nat
    BY DEF ReclaimInv, ReclaimTypes, Reclaim!TypeOK
  <2>3. now \in Nat
    BY <2>2 DEF Reclaim!QSBR_INCR
  <2>4. QED
    BY <2>1, <2>2, <2>3 DEF ReclaimInv, ReclaimTypes, Reclaim!TypeOK, Item
<1>4. 1 <= wr_seq /\ rd_seq <= wr_seq /\ wr_seq <= now /\ rd_seq <= now /\ now # Reclaim!QSBR_OFFLINE
  <2>1. 1 <= wr_seq /\ rd_seq <= wr_seq
    BY DEF ReclaimInv, Locals
  <2>2. now = wr_seq + 2 /\ Reclaim!QSBR_OFFLINE = 0
    BY DEF Reclaim!QSBR_INCR, Reclaim!QSBR_OFFLINE
  <2> HIDE DEF now
  <2>3. QED
    BY <1>3, <2>1, <2>2
<1>5. \A u \in others : /\ holds[u] = NoBlock /\ q_pc[u] \in {"none", "new", "detached", "parked", "deleting"}
                        /\ qsbr[u] # 0 => array[qsbr[u]].seq = Reclaim!QSBR_OFFLINE
  BY <1>1, StoppedHoldNothing DEF ReclaimInv
<1>6. qsbr[t] # 0 /\ qsbr[t] \in DOMAIN array /\ array[qsbr[t]] \in Reclaim!Slot /\ SlotOf(t)
  <2>1. qsbr[t] # 0
    BY <1>1 DEF ReclaimInv, Slots
  <2>2. QED
    BY <2>1, SlotFacts DEF ReclaimInv, Slots
<1>7. /\ x \in Reclaim!Slot /\ x.seq = now /\ x.tstate = t /\ x.allocated
  <2>1. array[qsbr[t]].tstate = t /\ array[qsbr[t]].allocated
    BY <1>1, <1>6 DEF SlotOf
  <2> HIDE DEF now
  <2>2. QED
    BY <1>3, <1>6, <2>1 DEF Reclaim!Slot
<1> HIDE DEF now, x
<1>8. /\ slot \in Seq(Reclaim!Slot) /\ DOMAIN slot = DOMAIN array /\ slot[qsbr[t]] = x
      /\ \A j \in DOMAIN array \ {qsbr[t]} : slot[j] = array[j]
  BY <1>3, <1>6, <1>7, SlotChange
<1> HIDE DEF slot
<1>9. ASSUME NEW k \in DOMAIN slot PROVE slot[k].seq \in {Reclaim!QSBR_OFFLINE, now}
  <2>1. CASE k = qsbr[t]
    BY <1>7, <1>8, <2>1
  <2>2. CASE k # qsbr[t]
    <3>1. slot[k] = array[k] /\ k \in DOMAIN array
      BY <1>8, <2>2
    <3>2. k \in Reclaim!ToSet(freelist) \/ \E u \in others : k = qsbr[u]
      BY <2>2, <3>1 DEF ReclaimInv, Slots
    <3>3. CASE k \in Reclaim!ToSet(freelist)
      BY <3>1, <3>3 DEF ReclaimInv, Slots
    <3>4. CASE \E u \in others : k = qsbr[u]
      <4>1. k # 0
        BY <1>3, <3>1
      <4>2. QED
        BY <1>5, <3>1, <3>4, <4>1
    <3>5. QED
      BY <3>2, <3>3, <3>4
  <2>3. QED
    BY <2>1, <2>2
<1>10. Reclaim!Max({rd_seq, Reclaim!Minimum(slot, now)}) = now
  <2>1. Reclaim!Minimum(slot, now) = now
    BY <1>3, <1>8, <1>9, MinimumIs
  <2> DEFINE n == Reclaim!Minimum(slot, now)
  <2>2. n \in Nat /\ n = now
    BY <1>3, <2>1
  <2> HIDE DEF n
  <2>3. Reclaim!Max({rd_seq, n}) = IF rd_seq >= n THEN rd_seq ELSE n
    BY <1>3, <2>2, GreaterIs
  <2>4. Reclaim!Max({rd_seq, n}) = now
    BY <1>3, <1>4, <2>2, <2>3
  <2>5. QED
    BY <2>4 DEF n
<1>11. /\ own \in Seq(Item)
       /\ \A y \in Reclaim!ToSet(own) : \E u \in Reclaimers : y \in Reclaim!ToSet(queue[u])
  <2>1. /\ MergedOf(queue, others) \in Seq(Item)
        /\ \A y : y \in Reclaim!ToSet(MergedOf(queue, others)) <=> \E u \in others : y \in Reclaim!ToSet(queue[u])
    BY <1>3, MergedItems
  <2>2. Reclaim!Merged(others) = MergedOf(queue, others)
    BY DEF Reclaim!Merged, MergedOf
  <2>3. /\ own \in Seq(Item) /\ Reclaim!ToSet(own) = Reclaim!ToSet(queue[t]) \cup Reclaim!ToSet(Reclaim!Merged(others))
    <3> DEFINE m == Reclaim!Merged(others)
    <3>1. m \in Seq(Item) /\ queue[t] \in Seq(Item)
      BY <1>3, <2>1, <2>2
    <3> HIDE DEF m
    <3>2. queue[t] \o m \in Seq(Item) /\ Reclaim!ToSet(queue[t] \o m) = Reclaim!ToSet(queue[t]) \cup Reclaim!ToSet(m)
      BY <3>1, Concat
    <3>3. QED
      BY <3>2 DEF m
  <2> HIDE DEF own
  <2>4. QED
    BY <1>3, <2>1, <2>2, <2>3
<1> HIDE DEF own
<1>12. /\ \A y \in Queued : y \in Item /\ y.goal \in Nat /\ y.goal <= now /\ y.ptr \in Blocks
       /\ \A y \in Reclaim!ToSet(own) : y \in Queued /\ y.ptr \notin Reclaim!Ptrs(interp.head)
       /\ \A y \in Reclaim!ToSet(interp.head) : y \in Queued
  <2>1. /\ \A u \in Reclaimers : Queues[u] = queue[u] /\ u \in QueuePlaces /\ u # NoThread
        /\ Queues[NoThread] = interp.head /\ NoThread \in QueuePlaces
    BY QueuesAre, ReclaimersAre DEF ReclaimInv, QueuePlaces
  <2>2. \A y \in Queued : y \in Item /\ y.goal \in Nat /\ y.goal <= now /\ y.ptr \in Blocks
    BY QueuesAre DEF ReclaimInv, Kept, now
  <2>3. ASSUME NEW y \in Reclaim!ToSet(own) PROVE y \in Queued /\ y.ptr \notin Reclaim!Ptrs(interp.head)
    <3>1. PICK u \in Reclaimers : y \in Reclaim!ToSet(queue[u])
      BY <1>11
    <3>2. y \in Reclaim!ToSet(Queues[u]) /\ y.ptr \in Reclaim!Ptrs(Queues[u])
      BY <2>1, <3>1, PtrsAre
    <3>3. Reclaim!Ptrs(Queues[u]) \cap Reclaim!Ptrs(Queues[NoThread]) = {}
      BY <2>1 DEF ReclaimInv, Kept, Apart
    <3>4. QED
      BY <2>1, <3>2, <3>3 DEF Queued
  <2>4. \A y \in Reclaim!ToSet(interp.head) : y \in Queued
    BY <2>1 DEF Queued
  <2>5. QED
    BY <2>2, <2>3, <2>4
<1>13. /\ rd \in {rd_seq, now}
       /\ \A y \in Reclaim!ToSet(own) : y.goal <= rd
       /\ Reclaim!TakesInterp => \A y \in Reclaim!ToSet(interp.head) : y.goal <= rd
  <2>1. Reclaim!ToSet(own \o interp.head) = Reclaim!ToSet(own) \cup Reclaim!ToSet(interp.head)
    BY <1>3, <1>11, Concat
  <2>2. /\ \A y \in Reclaim!ToSet(own) : y \in Reclaim!ToSet(polled)
        /\ Reclaim!TakesInterp => \A y \in Reclaim!ToSet(interp.head) : y \in Reclaim!ToSet(polled)
        /\ \A y \in Reclaim!ToSet(polled) : y \in Queued
    BY <1>12, <2>1 DEF polled
  <2>3. \A y : y \in Reclaim!ToSet(polled) <=> \E k \in DOMAIN polled : y = polled[k]
    BY DEF Reclaim!ToSet
  <2>4. CASE \A k \in DOMAIN polled : polled[k].goal <= rd_seq
    <3>1. rd = rd_seq
      BY <2>4 DEF rd, Reclaim!PollAll
    <3>2. QED
      BY <2>2, <2>3, <2>4, <3>1
  <2>5. CASE ~(\A k \in DOMAIN polled : polled[k].goal <= rd_seq)
    <3>1. rd = now
      BY <1>10, <2>5 DEF rd, Reclaim!PollAll
    <3>2. QED
      BY <1>12, <2>2, <3>1
  <2>6. QED
    BY <2>4, <2>5
<1>14. /\ Reclaim!Ready(own, rd) = own /\ Reclaim!Rest(own, rd) = <<>>
       /\ Reclaim!TakesInterp => Reclaim!Ready(interp.head, rd) = interp.head /\ left = <<>>
  <2>1. rd \in Nat
    BY <1>3, <1>13
  <2>2. QED
    BY <1>3, <1>11, <1>13, <2>1, AllReady DEF left
<1>15. queue' \in [Reclaimers -> Seq(Item)] /\ \A u \in Reclaimers : queue'[u] = <<>>
  <2>1. queue' = [u \in Reclaimers |-> <<>>] /\ <<>> \in Seq(Item)
    BY <1>2, <1>14
  <2>2. QED
    BY <2>1
<1>16. /\ interp' \in [head : Seq(Item), has_work : BOOLEAN, locked : BOOLEAN, mutex : Reclaimers \cup {NoThread}]
       /\ interp'.head = <<>> \/ (~Reclaim!TakesInterp /\ interp' = interp)
       /\ interp'.mutex # NoThread => interp'.locked
       /\ interp'.head # <<>> => interp'.has_work
       /\ interp'.mutex # t
       /\ q_pc' \in [Reclaimers -> PC] /\ q_pc'[t] = "run"
       /\ resume' \in [Reclaimers -> {"run", "register", "abandon"}] /\ resume'[t] = resume[t]
       /\ \A u \in Reclaimers \ {t} :
             \/ q_pc'[u] = q_pc[u] /\ resume'[u] = resume[u] /\ (interp'.mutex = u => interp.mutex = u)
             \/ Woken(u)
  <2>1. CASE Reclaim!TakesInterp
    <3>1. Reclaim!Unlock(t, "run", <<>>, FALSE)
      BY <1>2, <1>14, <2>1
    <3>2. <<>> \in Seq(Item) /\ FALSE \in BOOLEAN /\ "run" \in PC /\ q_pc[t] # "parked"
      BY <1>1 DEF PC, Active
    <3>3. /\ interp' \in [head : Seq(Item), has_work : BOOLEAN, locked : BOOLEAN, mutex : Reclaimers \cup {NoThread}]
          /\ interp'.head = <<>> /\ interp'.mutex # t
          /\ interp'.mutex # NoThread => interp'.locked
          /\ q_pc' \in [Reclaimers -> PC] /\ q_pc'[t] = "run"
          /\ resume' \in [Reclaimers -> {"run", "register", "abandon"}] /\ resume'[t] = resume[t]
          /\ \A u \in Reclaimers \ {t} :
                \/ q_pc'[u] = q_pc[u] /\ resume'[u] = resume[u] /\ interp'.mutex # u
                \/ Woken(u)
      BY <3>1, <3>2, UnlockFacts
    <3>4. QED
      BY <3>3
  <2>2. CASE ~Reclaim!TakesInterp
    <3>1. interp' = interp /\ q_pc' = q_pc /\ resume' = resume
      BY <1>2, <2>2
    <3>2. interp.mutex # t
      BY <1>1 DEF ReclaimInv, Locals, LocalsOf, Processing
    <3>3. QED
      BY <1>1, <1>3, <2>2, <3>1, <3>2 DEF ReclaimInv, ReclaimTypes
  <2>3. QED
    BY <2>1, <2>2
<1>17. holds' \in [Reclaimers -> Blocks \cup {NoBlock}] /\ \A u \in Reclaimers : holds'[u] = NoBlock
  BY <1>1, <1>3, <1>5
<1>18. /\ array' \in Seq(Reclaim!Slot) /\ DOMAIN array' = DOMAIN array /\ Len(array') = Len(array)
       /\ Slots'
  <2>1. array' = [array EXCEPT ![qsbr[t]] = x] /\ wr_seq' = now
    BY <1>1 DEF slot
  <2>2. wr_seq' \in Nat /\ wr_seq <= wr_seq' /\ x.seq # Reclaim!QSBR_OFFLINE /\ x.seq <= wr_seq'
    BY <1>3, <1>4, <1>7, <2>1
  <2>3. q_pc[t] \notin {"none", "new"} /\ q_pc'[t] \notin {"none", "new"} /\ q_pc'[t] \notin Inactive
    BY <1>1, <1>16 DEF Inactive
  <2>4. UNCHANGED <<freelist, qsbr>> /\ \A u \in Reclaimers \ {t} : q_pc'[u] = q_pc[u] \/ Woken(u)
    BY <1>0, <1>16
  <2>5. QED
    BY <1>7, <2>1, <2>2, <2>3, <2>4, OwnSlot
<1>19. ASSUME NEW b \in freed' \ freed
       PROVE  b \in Blocks /\ (\E y \in Queued : y.ptr = b) /\ \A y \in Queued' : y.ptr # b
  <2>1. b \in Reclaim!Ptrs(own) \/ (Reclaim!TakesInterp /\ b \in Reclaim!Ptrs(interp.head))
    BY <1>2, <1>14
  <2>2. PICK y : (y \in Reclaim!ToSet(own) \/ y \in Reclaim!ToSet(interp.head)) /\ y.ptr = b
    BY <2>1, PtrsAre
  <2>3. ASSUME NEW z \in Queued', z.ptr = b PROVE FALSE
    <3>1. PICK w \in QueuePlaces : z \in Reclaim!ToSet(Queues'[w])
      BY DEF Queued
    <3>2. /\ Queues'[NoThread] = interp'.head /\ \A u \in Reclaimers : Queues'[u] = <<>>
      <4>1. Queues' = QueuesOf(queue', interp'.head) /\ interp'.head \in Seq(Item)
        BY <1>16 DEF Queues, QueuesOf
      <4>2. QED
        BY <1>15, <4>1, QueuesTyped
    <3>3. Reclaim!ToSet(<<>>) = {}
      BY DEF Reclaim!ToSet
    <3>4. z \in Reclaim!ToSet(interp'.head)
      BY <3>1, <3>2, <3>3 DEF QueuePlaces
    <3>5. ~Reclaim!TakesInterp /\ interp' = interp
      BY <1>16, <3>3, <3>4
    <3>6. b \in Reclaim!Ptrs(own) /\ b \in Reclaim!Ptrs(interp.head)
      BY <2>1, <2>3, <3>4, <3>5, PtrsAre
    <3>7. QED
      BY <1>12, <3>6, PtrsAre
  <2>4. QED
    BY <1>12, <2>2, <2>3
<1>20. freed' \subseteq Blocks /\ wr_seq' \in Nat /\ rd_seq' \in Nat /\ wr_seq <= wr_seq'
       /\ rd_seq' <= wr_seq' /\ 1 <= wr_seq'
  BY <1>1, <1>2, <1>3, <1>4, <1>13, <1>19
<1>21. ReclaimTypes'
  BY <1>0, <1>15, <1>16, <1>17, <1>18, <1>20 DEF ReclaimInv, ReclaimTypes, Reclaim!TypeOK, Item
<1>22. Locals'
  <2>1. ASSUME NEW u \in Reclaimers PROVE LocalsOf(u)'
    <3>1. CASE Woken(u) /\ u # t
      <4>1. removed'[u] = NoBlock /\ q_pc'[u] = "detached" /\ resume'[u] = "abandon"
        BY <1>0, <3>1 DEF ReclaimInv, Locals, LocalsOf, Woken
      <4>2. QED
        BY <4>1 DEF LocalsOf
    <3>2. CASE ~(Woken(u) /\ u # t)
      <4>1. /\ q_pc'[u] = q_pc[u] /\ resume'[u] = resume[u] /\ (interp'.mutex = u => interp.mutex = u)
            /\ q_pc[u] \notin {"scan", "update", "polled"}
        BY <1>1, <1>5, <1>16, <3>2
      <4>2. QED
        BY <1>0, <1>20, <4>1, LocalsKept DEF ReclaimInv
    <3>3. QED
      BY <3>1, <3>2
  <2>2. QED
    BY <1>20, <2>1 DEF Locals
<1>23. Children'
  <2>1. \A u \in Reclaimers : /\ Creating(u)' <=> Creating(u)
                              /\ q_pc[u] = "new" => q_pc'[u] = "new"
    BY <1>1, <1>16 DEF Creating, Woken
  <2>2. QED
    BY <1>0, <2>1, ChildrenKept DEF ReclaimInv
<1>24. Apart(Queues', QueuePlaces) /\ Queued' \subseteq Queued
  <2>1. /\ Queues'[NoThread] = interp'.head /\ \A u \in Reclaimers : Queues'[u] = <<>>
    <3>1. Queues' = QueuesOf(queue', interp'.head) /\ interp'.head \in Seq(Item)
      BY <1>16 DEF Queues, QueuesOf
    <3>2. QED
      BY <1>15, <3>1, QueuesTyped
  <2>2. Reclaim!ToSet(<<>>) = {} /\ Reclaim!Ptrs(<<>>) = {} /\ Distinct(<<>>)
    BY DEF Reclaim!ToSet, Reclaim!Ptrs, Distinct
  <2>3. interp'.head = <<>> \/ interp'.head = interp.head
    BY <1>16
  <2>4. Distinct(interp'.head) /\ \A y \in Reclaim!ToSet(interp'.head) : y \in Queued
    <3>1. Distinct(interp.head)
      BY QueuesAre DEF ReclaimInv, Kept, Apart, QueuePlaces
    <3>2. QED
      BY <1>12, <2>2, <2>3, <3>1
  <2>5. Apart(Queues', QueuePlaces)
    BY <2>1, <2>2, <2>4 DEF Apart, QueuePlaces
  <2>6. QED
    BY <2>1, <2>2, <2>4, <2>5 DEF Queued, QueuePlaces
<1>25. Kept'
  <2>1. UNCHANGED <<shared, removed>>
    BY <1>0
  <2>2. QED
    BY <1>19, <1>20, <1>24, <2>1, KeptShrinks DEF ReclaimInv
<1>26. Held'
  BY <1>17 DEF Held
<1>27. QED
  BY <1>15, <1>16, <1>18, <1>21, <1>22, <1>23, <1>25, <1>26 DEF ReclaimInv

\* At first one thread runs, no block is queued, and all sequence numbers are 1.
LEMMA ReclaimStarts == Reclaim!Init => ReclaimInv
<1> SUFFICES ASSUME Reclaim!Init PROVE ReclaimInv
  OBVIOUS
<1> DEFINE M == MinArraySize
           first == [Reclaim!Unused EXCEPT !.seq = Reclaim!QSBR_INITIAL, !.tstate = t1, !.allocated = TRUE]
<1>0. /\ M \in Nat \ {0} /\ t1 \in Reclaimers /\ NoThread \notin Reclaimers /\ NoBlock \notin Blocks
      /\ Reclaimers # {}
  BY ReclaimersAre
<1>1. /\ wr_seq = 1 /\ rd_seq = 1 /\ shared \in Blocks /\ freed = Blocks \ {shared}
      /\ array = [k \in 1..M |-> IF k > 1 THEN Reclaim!Unused ELSE first]
      /\ freelist = [k \in 1..M - 1 |-> k + 1]
      /\ qsbr = [t \in Reclaimers |-> IF t = t1 THEN 1 ELSE 0]
      /\ q_pc = [t \in Reclaimers |-> IF t = t1 THEN "run" ELSE "none"]
  BY DEF Reclaim!Init, Reclaim!QSBR_INITIAL
<1>2. /\ holds = [t \in Reclaimers |-> NoBlock] /\ queue = [t \in Reclaimers |-> <<>>]
      /\ interp = [head |-> <<>>, has_work |-> FALSE, locked |-> FALSE, mutex |-> NoThread]
      /\ resume = [t \in Reclaimers |-> "run"] /\ seq = [t \in Reclaimers |-> 0]
      /\ min_seq = [t \in Reclaimers |-> 0] /\ i = [t \in Reclaimers |-> 0]
      /\ removed = [t \in Reclaimers |-> NoBlock] /\ child = [t \in Reclaimers |-> NoThread]
  BY DEF Reclaim!Init
<1>3. /\ Reclaim!Unused \in Reclaim!Slot /\ Reclaim!Unused.seq = Reclaim!QSBR_OFFLINE /\ Reclaim!Unused.tstate = NoThread /\ ~Reclaim!Unused.allocated
      /\ first \in Reclaim!Slot /\ first.seq = 1 /\ first.tstate = t1 /\ first.allocated
  BY <1>0 DEF Reclaim!Unused, Reclaim!Slot, Reclaim!QSBR_OFFLINE, Reclaim!QSBR_INITIAL
<1> HIDE DEF first
<1>4. /\ array \in Seq(Reclaim!Slot) /\ DOMAIN array = 1..M /\ Len(array) = M /\ array[1] = first /\ 1 \in 1..M
      /\ \A k \in 1..M \ {1} : array[k] = Reclaim!Unused
  <2>1. \A k \in 1..M : array[k] = IF k > 1 THEN Reclaim!Unused ELSE first
    BY <1>1
  <2>2. array \in [1..M -> Reclaim!Slot]
    BY <1>1, <1>3
  <2>3. array \in Seq(Reclaim!Slot) /\ DOMAIN array = 1..M /\ Len(array) = M
    BY <1>0, <2>2
  <2>4. 1 \in 1..M /\ \A k \in 1..M \ {1} : k > 1
    BY <1>0
  <2>5. QED
    BY <2>1, <2>3, <2>4
<1>5. /\ freelist \in Seq(1..M) /\ DOMAIN freelist = 1..M - 1 /\ Reclaim!IsInjective(freelist)
      /\ Reclaim!ToSet(freelist) = 1..M \ {1}
  <2>1. \A k \in 1..M - 1 : k + 1 \in 1..M /\ k + 1 # 1
    BY <1>0
  <2>2. M - 1 \in Nat
    BY <1>0
  <2>3. freelist \in [1..M - 1 -> 1..M] /\ \A k \in 1..M - 1 : freelist[k] = k + 1
    BY <1>1, <2>1
  <2>4. freelist \in Seq(1..M) /\ DOMAIN freelist = 1..M - 1
    <3> DEFINE n == M - 1
               D == 1..M
    <3>1. freelist \in [1..n -> D] /\ n \in Nat
      BY <2>2, <2>3
    <3> HIDE DEF n, D
    <3>2. freelist \in Seq(D) /\ DOMAIN freelist = 1..n
      BY <3>1
    <3>3. QED
      BY <3>2 DEF n, D
  <2>5. ASSUME NEW j \in 1..M - 1, NEW k \in 1..M - 1, freelist[j] = freelist[k] PROVE j = k
    BY <2>2, <2>3, <2>5
  <2>6. Reclaim!IsInjective(freelist)
    BY <2>4, <2>5 DEF Reclaim!IsInjective
  <2>7. ASSUME NEW k \in 1..M, k # 1 PROVE k \in Reclaim!ToSet(freelist)
    <3>1. k - 1 \in 1..M - 1 /\ k - 1 + 1 = k
      BY <1>0, <2>7
    <3>2. QED
      BY <2>3, <2>4, <3>1 DEF Reclaim!ToSet
  <2>8. ASSUME NEW k \in Reclaim!ToSet(freelist) PROVE k \in 1..M \ {1}
    BY <2>1, <2>3, <2>4 DEF Reclaim!ToSet
  <2>9. QED
    BY <2>4, <2>6, <2>7, <2>8
<1>6. ReclaimTypes
  <2>1. qsbr \in [Reclaimers -> 0..M]
    BY <1>0, <1>1
  <2>2. q_pc \in [Reclaimers -> PC]
    BY <1>1 DEF PC, Active
  <2>3. /\ queue \in [Reclaimers -> Seq([ptr : Blocks, goal : Nat])]
        /\ interp \in [head : Seq([ptr : Blocks, goal : Nat]), has_work : BOOLEAN, locked : BOOLEAN, mutex : Reclaimers \cup {NoThread}]
    BY <1>2
  <2>4. Reclaim!TypeOK
    BY <1>1, <1>2, <1>4, <1>5, <2>1, <2>3 DEF Reclaim!TypeOK
  <2>5. QED
    BY <1>2, <2>2, <2>4 DEF ReclaimTypes
<1>7. Slots
  <2>1. \A t \in Reclaimers : qsbr[t] # 0 => t = t1 /\ qsbr[t] = 1
    BY <1>1
  <2>2. \A t \in Reclaimers : qsbr[t] # 0 => SlotOf(t)
    BY <1>0, <1>1, <1>3, <1>4, <2>1 DEF SlotOf, Reclaim!QSBR_OFFLINE, Inactive
  <2>3. \A t \in Reclaimers : qsbr[t] = 0 <=> q_pc[t] = "none"
    BY <1>1
  <2>4. Reclaim!ToSet(freelist) = DOMAIN array \ {qsbr[t] : t \in Reclaimers}
    <3>1. 0 \notin 1..M
      BY <1>0
    <3>2. qsbr[t1] = 1 /\ \A t \in Reclaimers : qsbr[t] \in {0, 1}
      BY <1>0, <1>1
    <3>3. QED
      BY <1>0, <1>4, <1>5, <3>1, <3>2
  <2>5. \A k \in Reclaim!ToSet(freelist) : array[k].seq = Reclaim!QSBR_OFFLINE /\ array[k].tstate = NoThread /\ ~array[k].allocated
    BY <1>3, <1>4, <1>5
  <2>6. QED
    BY <1>5, <2>1, <2>2, <2>3, <2>4, <2>5 DEF Slots
<1>8. Locals
  BY <1>0, <1>1, <1>2 DEF Locals, LocalsOf
<1>9. Children
  BY <1>1, <1>2 DEF Children, Creating
<1>10. Kept /\ Held
  <2>1. Reclaim!ToSet(<<>>) = {} /\ Reclaim!Ptrs(<<>>) = {} /\ Distinct(<<>>)
    BY DEF Reclaim!ToSet, Reclaim!Ptrs, Distinct
  <2>2. \A w \in QueuePlaces : Queues[w] = <<>>
    BY <1>6, <1>2, QueuesAre DEF QueuePlaces
  <2>3. Apart(Queues, QueuePlaces) /\ Queued = {}
    BY <2>1, <2>2 DEF Apart, Queued
  <2>4. QED
    BY <1>1, <1>2, <2>3 DEF Kept, Held
<1>11. QED
  BY <1>6, <1>7, <1>8, <1>9, <1>10 DEF ReclaimInv

\* A step of another part leaves the invariant alone.
LEMMA StutterKeeps ==
    ASSUME ReclaimInv, UNCHANGED Reclaim!vars
    PROVE  ReclaimInv'
<1>1. /\ UNCHANGED <<wr_seq, rd_seq, array, freelist, qsbr, shared, freed, holds, queue, interp>>
      /\ UNCHANGED <<q_pc, resume, seq, min_seq, i, removed, child>>
  BY DEF Reclaim!vars, Reclaim!seqs, Reclaim!slots, Reclaim!memory, Reclaim!queues, Reclaim!locals
<1>2. ReclaimTypes'
  BY <1>1 DEF ReclaimInv, ReclaimTypes, Reclaim!TypeOK
<1>3. Slots'
  BY <1>1 DEF ReclaimInv, Slots, SlotOf
<1>4. Locals'
  BY <1>1 DEF ReclaimInv, Locals, LocalsOf, Reclaim!Work, Reclaim!HasInterp
<1>5. Children'
  BY <1>1 DEF ReclaimInv, Children, Creating
<1>6. wr_seq' \in Nat /\ wr_seq <= wr_seq'
  BY <1>1 DEF ReclaimInv, ReclaimTypes, Reclaim!TypeOK
<1>7. Kept' /\ Queued' = Queued
  BY <1>1, <1>6, KeptKept DEF ReclaimInv
<1>8. Held'
  <2>1. \A u \in Reclaimers : holds[u] # NoBlock => q_pc'[u] \in Active \ {"quiescent", "cleared", "abandon"}
    BY <1>1 DEF ReclaimInv, Held
  <2>2. QED
    BY <1>1, <1>7, <2>1, HeldStill DEF ReclaimInv
<1>9. QED
  BY <1>2, <1>3, <1>4, <1>5, <1>7, <1>8 DEF ReclaimInv

\* Every step keeps the invariant.
LEMMA ReclaimSteps == ReclaimInv /\ [Reclaim!Next]_(Reclaim!vars) => ReclaimInv'
<1> SUFFICES ASSUME ReclaimInv, [Reclaim!Next]_(Reclaim!vars) PROVE ReclaimInv'
  OBVIOUS
<1>1. ASSUME NEW t \in Reclaimers,
             Reclaim!Attach(t) \/ Reclaim!QuiescentState(t) \/ Reclaim!Observe(t) \/ Reclaim!Detach(t) \/ Reclaim!Read(t) \/ Reclaim!Replace(t)
      PROVE  ReclaimInv'
  BY <1>1, AttachKeeps, QuiescentStateKeeps, ObserveKeeps, DetachKeeps, ReadKeeps, ReplaceKeeps
<1>2. ASSUME NEW t \in Reclaimers,
             Reclaim!FreeDelayed(t) \/ Reclaim!FreeNow(t) \/ Reclaim!Process(t) \/ Reclaim!Scan(t) \/ Reclaim!Scanned(t) \/ Reclaim!Update(t) \/ Reclaim!Polled(t)
      PROVE  ReclaimInv'
  BY <1>2, FreeDelayedKeeps, FreeNowKeeps, ProcessKeeps, ScanKeeps, ScannedKeeps, UpdateKeeps, PolledKeeps
<1>3. ASSUME NEW t \in Reclaimers,
             \/ Reclaim!EndCollection(t) \/ Reclaim!Reserve(t) \/ Reclaim!Register(t)
             \/ Reclaim!AbandonDelayed(t) \/ Reclaim!AbandonWoken(t) \/ Reclaim!DeleteCurrent(t)
             \/ Reclaim!Unregister(t) \/ Reclaim!AfterFork(t) \/ Reclaim!AfterForkWaits(t)
      PROVE  ReclaimInv'
  BY <1>3, EndCollectionKeeps, ReserveKeeps, RegisterKeeps, AbandonDelayedKeeps, AbandonWokenKeeps,
     DeleteCurrentKeeps, UnregisterKeeps, AfterForkKeeps, AfterForkWaitsKeeps
<1>4. CASE Reclaim!Next
  BY <1>1, <1>2, <1>3, <1>4 DEF Reclaim!Next
<1>5. QED
  BY <1>4, StutterKeeps

\* What the invariant says of blocks and of slots.
LEMMA ReclaimIsSafe == ReclaimInv => Reclaim!TypeOK /\ Reclaim!NoUseAfterFree /\ Reclaim!FreedOnce /\ Reclaim!SlotsOwned
<1> SUFFICES ASSUME ReclaimInv PROVE Reclaim!TypeOK /\ Reclaim!NoUseAfterFree /\ Reclaim!FreedOnce /\ Reclaim!SlotsOwned
  OBVIOUS
<1>1. Reclaim!TypeOK
  BY DEF ReclaimInv, ReclaimTypes
<1>2. Reclaim!NoUseAfterFree
  BY DEF ReclaimInv, Held, Reclaim!NoUseAfterFree
<1>3. Reclaim!FreedOnce
  <2>1. queue \in [Reclaimers -> Seq(Item)] /\ interp.head \in Seq(Item)
    BY <1>1 DEF Reclaim!TypeOK, Item
  <2>2. /\ Reclaim!Pending \in Seq(Item)
        /\ \A x : x \in Reclaim!ToSet(Reclaim!Pending) <=> \E w \in QueuePlaces : x \in Reclaim!ToSet(Queues[w])
        /\ Distinct(Reclaim!Pending)
    BY <2>1, PendingIs, PendingIsPending DEF ReclaimInv, Kept, Queues
  <2>3. Reclaim!IsInjective([k \in DOMAIN Reclaim!Pending |-> Reclaim!Pending[k].ptr])
    BY <2>2 DEF Distinct, Reclaim!IsInjective
  <2>4. ASSUME NEW x \in Reclaim!ToSet(Reclaim!Pending) PROVE x.ptr \notin freed /\ x.ptr # shared
    <3>1. x \in Queued
      BY <2>2 DEF Queued
    <3>2. QED
      BY <3>1 DEF ReclaimInv, Kept
  <2>5. Reclaim!Ptrs(Reclaim!Pending) \cap (freed \cup {shared}) = {}
    BY <2>4, PtrsAre
  <2>6. QED
    BY <2>3, <2>5 DEF Reclaim!FreedOnce
<1>4. Reclaim!SlotsOwned
  <2>1. ASSUME NEW t \in Reclaimers, qsbr[t] # 0
        PROVE  /\ array[qsbr[t]].allocated
               /\ array[qsbr[t]].tstate = IF q_pc[t] = "new" THEN NoThread ELSE t
               /\ q_pc[t] \in {"new", "detached", "parked", "attach", "deleting"} => array[qsbr[t]].seq = Reclaim!QSBR_OFFLINE
    BY <2>1 DEF ReclaimInv, Slots, SlotOf, Inactive
  <2>2. QED
    BY <1>1, <2>1 DEF ReclaimInv, Slots, Reclaim!SlotsOwned
<1>5. QED
  BY <1>1, <1>2, <1>3, <1>4

\* After the pause of a collection nothing is queued, but in a queue whose
\* mutex was handed to a thread that is paused, or that a fork lost.
LEMMA CollectionFrees ==
    ASSUME ReclaimInv, NEW t \in Reclaimers, Reclaim!EndCollection(t)
    PROVE  /\ Reclaim!Merged(Reclaimers)' = <<>>
           /\ interp'.head # <<>> =>
                 /\ interp'.has_work
                 /\ interp.locked
                 /\ interp.mutex = NoThread \/ \E u \in Reclaimers : Reclaim!HandedOff(u)
<1>1. /\ \A u \in Reclaimers : queue'[u] = <<>>
      /\ interp'.head = <<>> \/ (~Reclaim!TakesInterp /\ interp' = interp)
      /\ queue' \in [Reclaimers -> Seq(Item)]
  BY EndCollectionKeeps DEF ReclaimInv, ReclaimTypes, Reclaim!TypeOK, Item
<1>2. Reclaim!Merged(Reclaimers)' = <<>>
  <2>1. Reclaim!Merged(Reclaimers)' = MergedOf(queue', Reclaimers)
    BY DEF Reclaim!Merged, MergedOf
  <2>2. IsFiniteSet(Reclaimers) /\ Reclaimers \in SUBSET Reclaimers /\ Reclaim!ToSet(<<>>) = {}
    BY ReclaimersAre DEF Reclaim!ToSet
  <2>3. MergedOf(queue', Reclaimers) \in Seq(Item) /\ \A x : x \notin Reclaim!ToSet(MergedOf(queue', Reclaimers))
    BY <1>1, <2>2, MergedItems
  <2>4. ASSUME NEW q \in Seq(Item), \A x : x \notin Reclaim!ToSet(q) PROVE q = <<>>
    <3>1. \A k \in DOMAIN q : q[k] \in Reclaim!ToSet(q)
      BY DEF Reclaim!ToSet
    <3>2. Len(q) \in Nat /\ DOMAIN q = 1..Len(q)
      OBVIOUS
    <3>3. ~(1 \in DOMAIN q)
      BY <2>4, <3>1
    <3>4. Len(q) = 0
      BY <3>2, <3>3
    <3>5. QED
      BY <3>4
  <2>5. QED
    BY <2>1, <2>3, <2>4
<1>3. ASSUME interp'.head # <<>>
      PROVE  /\ interp'.has_work /\ interp.locked
             /\ interp.mutex = NoThread \/ \E u \in Reclaimers : Reclaim!HandedOff(u)
  <2>1. interp' = interp /\ interp.has_work /\ interp.locked
    BY <1>1, <1>3 DEF Reclaim!TakesInterp, ReclaimInv, ReclaimTypes
  <2>2. ASSUME interp.mutex # NoThread PROVE Reclaim!HandedOff(interp.mutex) /\ interp.mutex \in Reclaimers
    <3> DEFINE u == interp.mutex
    <3>1. u \in Reclaimers /\ q_pc[t] = "run" /\ Reclaim!Stopped(t)
      BY <2>2 DEF Reclaim!EndCollection, ReclaimInv, ReclaimTypes, Reclaim!TypeOK
    <3>2. /\ q_pc[u] \in Processing \cup {"abandon"} \/ (q_pc[u] \in {"detached", "attach"} /\ resume[u] = "abandon")
      BY <3>1 DEF ReclaimInv, Locals, LocalsOf
    <3>3. u # t
      BY <3>1, <3>2 DEF Processing
    <3>4. q_pc[u] = "detached" /\ resume[u] = "abandon"
      BY <3>1, <3>2, <3>3 DEF Reclaim!Stopped, Reclaim!Offline, Processing
    <3>5. QED
      BY <3>1, <3>4 DEF Reclaim!HandedOff
  <2>3. QED
    BY <2>1, <2>2
<1>4. QED
  BY <1>2, <1>3

\* In a behaviour of all parts memory is reclaimed by steps of its own.
LEMMA ReclaimPart == AllSpec => Reclaim!Init /\ [][Reclaim!Next]_(Reclaim!vars)
<1>1. AllInit => Reclaim!Init
  BY DEF AllInit
<1>2. [AllNext]_allVars => [Reclaim!Next]_(Reclaim!vars)
  BY DEF AllNext, allVars, reclaimVars, Reclaim!vars, Reclaim!seqs, Reclaim!slots,
         Reclaim!memory, Reclaim!queues, Reclaim!locals
<1>3. QED
  BY <1>1, <1>2, PTL DEF AllSpec

\* The invariant holds in every state.
LEMMA ReclaimAlways == AllSpec => []ReclaimInv
<1>1. Reclaim!Init => ReclaimInv
  BY ReclaimStarts
<1>2. ReclaimInv /\ [Reclaim!Next]_(Reclaim!vars) => ReclaimInv'
  BY ReclaimSteps
<1>3. QED
  BY <1>1, <1>2, ReclaimPart, PTL

\* No thread that reads a block finds it free, however many threads attach,
\* detach, scan the slots and free blocks, in whatever order
\* (_PyMem_FreeDelayed and _Py_qsbr_poll).
THEOREM ReclaimedBlocksAreUnread == AllSpec => []NoUseAfterFree
<1>1. ReclaimInv => NoUseAfterFree
  BY ReclaimIsSafe DEF NoUseAfterFree
<1>2. QED
  BY <1>1, ReclaimAlways, PTL

\* A block that was removed is in one queue, once, until it is free, whoever
\* takes over the queue of whom (_PyMem_AbandonDelayed, the collector, a fork).
THEOREM BlocksAreFreedOnce == AllSpec => []FreedOnce
<1>1. ReclaimInv => FreedOnce
  BY ReclaimIsSafe DEF FreedOnce
<1>2. QED
  BY <1>1, ReclaimAlways, PTL

\* Each thread state has a slot of its own, and the slots that nobody has are
\* offline and on the freelist, also when the array grows or a thread forks
\* (Python/qsbr.c).
THEOREM SlotsHaveOneOwner == AllSpec => []SlotsOwned
<1>1. ReclaimInv => SlotsOwned
  BY ReclaimIsSafe DEF SlotsOwned
<1>2. QED
  BY <1>1, ReclaimAlways, PTL

\* A collection leaves nothing that was removed before it in the queue of a
\* thread, whatever the threads have seen (_Py_qsbr_advance before
\* process_queue, gc_free_threading.c).  In the queue of the interpreter, whose
\* mutex it only tries (process_interp_queue), it leaves something in one case:
\* the mutex was handed to a thread that waited for it and is still paused, or
\* to one that a fork lost; and has_work announces what is left.
THEOREM CollectionsLeaveOnlyHandedOff == AllSpec => OnlyHandedOffIsLeft
<1>1. ReclaimInv /\ [Reclaim!Next]_(Reclaim!vars)
        => [\A t \in Reclaimers : Reclaim!EndCollection(t) =>
              /\ Reclaim!Merged(Reclaimers)' = <<>>
              /\ interp'.head # <<>> =>
                    /\ interp'.has_work
                    /\ interp.locked
                    /\ interp.mutex = NoThread \/ \E u \in Reclaimers : Reclaim!HandedOff(u)]_(Reclaim!vars)
  BY CollectionFrees
<1>2. QED
  BY <1>1, ReclaimAlways, ReclaimPart, PTL DEF OnlyHandedOffIsLeft, Reclaim!OnlyHandedOffIsLeft

(***************************************************************************)
(* Stop-the-world requests.                                                *)
(***************************************************************************)

USE StopTheWorldAssumption

(***************************************************************************)
(* The inductive invariant.                                                *)
(***************************************************************************)

StwState == [requested : BOOLEAN, thread_countdown : Nat, stop_event : BOOLEAN,
             requester : Threads \cup {NoThread}, world_stopped : BOOLEAN]

Types == TypeOK /\ stw \in [Scopes -> StwState]

\* Where a thread of each state can be.
Places ==
    \A t \in Threads :
        /\ state[t] = "none" <=> pc[t] = "gone"
        /\ pc[t] \in {"new", "out", "mutex_wait", "rw_wait"}
              => state[t] \in {"detached", "suspended"}
        /\ pc[t] = "decrement" => state[t] = "suspended"
        /\ pc[t] \in {"run", "pending", "suspend", "rwlock", "request", "scan", "cas",
                      "wait", "rescan", "stopped", "rwunlock", "unlock"}
              => state[t] = "attached"

Requesting == {"scan", "cas", "wait", "rescan", "stopped"}
InRWMutex == {"request", "rwunlock"} \cup Requesting
InMutex == {"rwlock", "rw_wait", "unlock"} \cup InRWMutex

\* Who makes a request has the mutex of its scope, and has the readers-writer
\* mutex for writing or for reading.
LocksHeld ==
    /\ \A t \in Threads :
        /\ pc[t] \in {"mutex_wait"} \cup InMutex => scope[t] \in {InterpOf[t], ALL}
        /\ pc[t] \in InMutex => mutex[scope[t]] = t
        /\ pc[t] \in InRWMutex => IF scope[t] = ALL THEN writer = t ELSE t \in readers
    /\ writer # NoThread => readers = {}

\* The requests there are, and who makes them.
RequestsMade ==
    /\ \A t \in Threads : pc[t] \in Requesting =>
          stw[scope[t]].requested /\ stw[scope[t]].requester = t
    /\ \A s \in Scopes : stw[s].requested =>
          \E t \in Threads : pc[t] \in Requesting /\ scope[t] = s
    /\ \A s \in Scopes : stw[s].world_stopped => stw[s].requested

\* A thread has suspended itself, or been suspended, for a request there is.
SuspendedForRequest ==
    /\ \A t \in Threads : pc[t] = "decrement" => scope[t] # NoScope
    /\ \A t \in Threads : pc[t] \in {"suspend", "decrement"} /\ scope[t] # NoScope =>
          scope[t] \in {InterpOf[t], ALL} /\ stw[scope[t]].requested
    /\ \A t \in Threads : state[t] = "suspended" => Requests(InterpOf[t]) # {}

\* The scan is that of a requester, over threads of its scope.
ScanHeld ==
    /\ \A t \in Threads : pc[t] \in {"scan", "cas"} <=> head = t
    /\ \A t \in Threads : head = t => todo \subseteq InScope(scope[t])
    /\ \A t \in Threads : pc[t] = "cas" => target \in InScope(scope[t]) \ {t}
    /\ head = NoThread => num_parked = 0

\* What a request has yet to count out, and that it stops when that is nobody.
Counted ==
    \A s \in Scopes : stw[s].requested =>
        /\ stw[s].thread_countdown =
             Cardinality(Awaited(s)) + IF head = stw[s].requester THEN num_parked ELSE 0
        /\ stw[s].stop_event => stw[s].thread_countdown = 0
        /\ \A t \in Threads : pc[t] = "stopped" /\ scope[t] = s => stw[s].world_stopped
        /\ stw[s].world_stopped => Awaited(s) = {}

IInv == /\ Types /\ Places /\ LocksHeld /\ RequestsMade /\ SuspendedForRequest
        /\ ScanHeld /\ Counted

\* At first no request is made and nobody is suspended.
LEMMA InitIInv == Init => IInv
<1> SUFFICES ASSUME Init PROVE IInv
  OBVIOUS
<1> USE DEF Init, NoRequest
<1>1. Types
  BY DEF Types, TypeOK, StwState, Scopes
<1>2. Places /\ LocksHeld /\ SuspendedForRequest
  BY DEF Places, LocksHeld, InMutex, InRWMutex, Requesting, SuspendedForRequest
<1>3. RequestsMade /\ Counted
  BY DEF RequestsMade, Counted, Requesting
<1>4. ScanHeld
  BY DEF ScanHeld, InScope
<1>5. QED
  BY <1>1, <1>2, <1>3, <1>4 DEF IInv

(***************************************************************************)
(* What the invariant says of a request.                                   *)
(***************************************************************************)

\* A requester makes the request of its scope, which it is in itself.
LEMMA Requester ==
    ASSUME IInv, NEW t \in Threads, pc[t] \in Requesting
    PROVE  /\ scope[t] \in {InterpOf[t], ALL} /\ scope[t] \in Scopes
           /\ stw[scope[t]].requested /\ stw[scope[t]].requester = t
           /\ t \in InScope(scope[t])
BY DEF IInv, LocksHeld, InMutex, InRWMutex, Requesting, RequestsMade, Scopes, InScope, Places

\* There is no other request while there is one of the runtime: its requester
\* has the readers-writer mutex for writing.
LEMMA RuntimeRequestIsAlone ==
    ASSUME IInv, NEW s \in Scopes, stw[s].requested, stw[ALL].requested
    PROVE  s = ALL
<1>1. PICK t \in Threads : pc[t] \in Requesting /\ scope[t] = s
  BY DEF IInv, RequestsMade
<1>2. PICK u \in Threads : pc[u] \in Requesting /\ scope[u] = ALL
  BY DEF IInv, RequestsMade, Scopes
<1>3. QED
  BY <1>1, <1>2 DEF IInv, LocksHeld, InRWMutex

\* No thread is in the scopes of two requests.
LEMMA OneRequestPerThread ==
    ASSUME IInv, NEW s \in Scopes, NEW r \in Scopes, stw[s].requested, stw[r].requested,
           NEW t \in Threads, s \in {InterpOf[t], ALL}, r \in {InterpOf[t], ALL}
    PROVE  s = r
BY RuntimeRequestIsAlone

\* Those that are waited for can be counted.
LEMMA AwaitedFinite ==
    ASSUME NEW s
    PROVE  IsFiniteSet(Awaited(s)) /\ Cardinality(Awaited(s)) \in Nat
<1>1. Awaited(s) \subseteq Threads
  BY DEF Awaited, InScope
<1>2. QED
  BY <1>1, FS_Subset, FS_CardinalityType

\* When the world of t has stopped, all others of its scope are suspended,
\* and have said so.
LEMMA StoppedWorld ==
    ASSUME IInv, NEW t \in Threads, pc[t] = "stopped",
           NEW u \in InScope(scope[t]) \ {t}
    PROVE  state[u] = "suspended" /\ pc[u] # "decrement"
<1>1. u \in Threads /\ scope[t] \in {InterpOf[u], ALL}
  BY DEF InScope
<1>2. /\ scope[t] \in Scopes /\ stw[scope[t]].requested
      /\ stw[scope[t]].requester = t
  BY Requester DEF Requesting
<1>3. u \notin Awaited(scope[t])
  BY <1>2 DEF IInv, Counted
<1>4. state[u] = "suspended"
  BY <1>2, <1>3 DEF Awaited
<1>5. ASSUME pc[u] = "decrement" PROVE FALSE
  <2>1. scope[u] \in {InterpOf[u], ALL} /\ scope[u] \in Scopes /\ stw[scope[u]].requested
    BY <1>1, <1>5 DEF IInv, SuspendedForRequest, Scopes
  <2>2. scope[u] = scope[t]
    BY <1>1, <1>2, <2>1, OneRequestPerThread
  <2>3. QED
    BY <1>2, <1>3, <1>5, <2>2 DEF Awaited
<1>6. QED
  BY <1>4, <1>5

\* (The provers lose the type of a literal TRUE or FALSE in a field.)
LEMMA StwUpdated ==
    ASSUME stw \in [Scopes -> StwState], NEW s \in Scopes,
           NEW a \in BOOLEAN, NEW b \in BOOLEAN, NEW r \in Threads \cup {NoThread}
    PROVE  /\ [stw EXCEPT ![s].world_stopped = b] \in [Scopes -> StwState]
           /\ [stw EXCEPT ![s] = [@ EXCEPT !.requested = a, !.world_stopped = b,
                                           !.requester = r]] \in [Scopes -> StwState]
BY DEF StwState

\* A thread that has suspended itself is awaited until it says so.
LEMMA SelfAwaited ==
    ASSUME IInv, NEW t \in Threads, pc[t] = "decrement"
    PROVE  /\ scope[t] \in Scopes /\ stw[scope[t]].requested /\ t \in Awaited(scope[t])
           /\ \A s \in Scopes \ {scope[t]} : stw[s].requested => t \notin Awaited(s)
<1>1. /\ scope[t] \in {InterpOf[t], ALL} /\ scope[t] \in Scopes
      /\ stw[scope[t]].requested
  BY DEF IInv, SuspendedForRequest, Scopes
<1>2. stw[scope[t]].requester # t
  BY <1>1 DEF IInv, RequestsMade, Requesting
<1>3. state[t] = "suspended"
  BY DEF IInv, Places
<1>4. QED
  BY <1>1, <1>2, <1>3 DEF Awaited, InScope

\* A thread that a request waits for is counted out: by itself, or as its
\* state is deleted, of every scope there is a request of.
LEMMA CountedOut ==
    ASSUME IInv, head = NoThread, NEW s \in Scopes, stw[s].requested, NEW u \in Awaited(s)
    PROVE  /\ stw[s].thread_countdown = Cardinality(Awaited(s))
           /\ Cardinality(Awaited(s) \ {u}) = stw[s].thread_countdown - 1
           /\ Cardinality(Awaited(s) \ {u}) \in Nat
           /\ ~stw[s].stop_event /\ ~stw[s].world_stopped
<1>1. stw[s].requester # NoThread
  BY StopTheWorldAssumption DEF IInv, RequestsMade
<1>2. stw[s].thread_countdown = Cardinality(Awaited(s)) + 0
  BY <1>1 DEF IInv, Counted
<1>3. IsFiniteSet(Awaited(s)) /\ Cardinality(Awaited(s)) \in Nat
  BY AwaitedFinite
<1>4. /\ IsFiniteSet(Awaited(s) \ {u})
      /\ Cardinality(Awaited(s) \ {u}) = Cardinality(Awaited(s)) - 1
  BY <1>3, FS_RemoveElement
<1>5. Cardinality(Awaited(s) \ {u}) \in Nat
  BY <1>4, FS_CardinalityType
<1>6. ~stw[s].stop_event /\ ~stw[s].world_stopped
  <2>1. stw[s].thread_countdown # 0 /\ Awaited(s) # {}
    BY <1>2, <1>3, <1>4, <1>5
  <2>2. QED
    BY <2>1 DEF IInv, Counted
<1>7. QED
  BY <1>2, <1>3, <1>4, <1>5, <1>6

\* A thread is counted out of several requests at once.
LEMMA DecrementedFacts ==
    ASSUME IInv, head = NoThread, NEW S \in SUBSET Scopes, NEW u,
           \A s \in S : stw[s].requested /\ u \in Awaited(s)
    PROVE  /\ Decremented(S) \in [Scopes -> StwState]
           /\ \A s \in Scopes :
                /\ Decremented(S)[s].requested = stw[s].requested
                /\ Decremented(S)[s].requester = stw[s].requester
                /\ Decremented(S)[s].world_stopped = stw[s].world_stopped
                /\ s \notin S => Decremented(S)[s] = stw[s]
                /\ s \in S =>
                     /\ Decremented(S)[s].thread_countdown = Cardinality(Awaited(s) \ {u})
                     /\ Decremented(S)[s].stop_event =>
                          Decremented(S)[s].thread_countdown = 0
                     /\ ~Decremented(S)[s].world_stopped
<1>1. \A s \in S :
        /\ stw[s].thread_countdown \in Nat
        /\ stw[s].thread_countdown - 1 \in Nat
        /\ stw[s].thread_countdown - 1 = Cardinality(Awaited(s) \ {u})
        /\ ~stw[s].stop_event /\ ~stw[s].world_stopped
  BY CountedOut DEF IInv, Types, StwState
<1>2. stw \in [Scopes -> StwState]
  BY DEF IInv, Types
<1>3. ASSUME NEW s \in Scopes
      PROVE  /\ Decremented(S)[s] \in StwState
             /\ Decremented(S)[s].requested = stw[s].requested
             /\ Decremented(S)[s].requester = stw[s].requester
             /\ Decremented(S)[s].world_stopped = stw[s].world_stopped
             /\ s \notin S => Decremented(S)[s] = stw[s]
             /\ s \in S =>
                  /\ Decremented(S)[s].thread_countdown = stw[s].thread_countdown - 1
                  /\ Decremented(S)[s].stop_event => stw[s].thread_countdown = 1
  <2>1. CASE s \in S
    BY <1>1, <1>2, <2>1 DEF Decremented, StwState
  <2>2. CASE s \notin S
    BY <1>2, <2>2 DEF Decremented
  <2>3. QED
    BY <2>1, <2>2
<1>4. Decremented(S) \in [Scopes -> StwState]
  BY <1>3 DEF Decremented
<1>5. ASSUME NEW s \in S
      PROVE  /\ Decremented(S)[s].thread_countdown = Cardinality(Awaited(s) \ {u})
             /\ Decremented(S)[s].stop_event => Decremented(S)[s].thread_countdown = 0
             /\ ~Decremented(S)[s].world_stopped
  BY <1>1, <1>3
<1>6. QED
  BY <1>3, <1>4, <1>5

\* At the end of a scan nobody is left but those that the request awaits.
LEMMA ScanLeaves ==
    ASSUME IInv, NEW t \in Threads, pc[t] = "scan"
    PROVE  /\ scope[t] \in Scopes
           /\ stw[scope[t]].thread_countdown - num_parked = Cardinality(Awaited(scope[t]))
           /\ stw[scope[t]].thread_countdown - num_parked \in Nat
<1>1. scope[t] \in Scopes /\ stw[scope[t]].requested /\ stw[scope[t]].requester = t
  BY Requester DEF Requesting
<1>2. head = t
  BY DEF IInv, ScanHeld
<1>3. stw[scope[t]].thread_countdown = Cardinality(Awaited(scope[t])) + num_parked
  BY <1>1, <1>2 DEF IInv, Counted
<1>4. Cardinality(Awaited(scope[t])) \in Nat /\ num_parked \in Nat
  BY AwaitedFinite DEF IInv, Types, TypeOK
<1>5. QED
  BY <1>1, <1>3, <1>4

\* After a scan the countdown is that of the threads which are still awaited.
LEMMA ScanEndFacts ==
    ASSUME IInv, NEW t \in Threads, ScanEnd(t)
    PROVE  \A s \in Scopes :
             /\ stw'[s].requested = stw[s].requested
             /\ stw'[s].requester = stw[s].requester
             /\ stw'[s].stop_event = stw[s].stop_event
             /\ s # scope[t] => stw'[s] = stw[s]
             /\ s = scope[t] =>
                  /\ stw'[s].thread_countdown = Cardinality(Awaited(s))
                  /\ stw'[s].world_stopped => Cardinality(Awaited(s)) = 0
                  /\ pc'[t] = "stopped" => stw'[s].world_stopped
<1> DEFINE left == stw[scope[t]].thread_countdown - num_parked
           all == num_parked > 0 /\ left = 0
<1>1. /\ stw' = [stw EXCEPT ![scope[t]].thread_countdown = left,
                            ![scope[t]].world_stopped = all]
      /\ pc' = [pc EXCEPT ![t] = IF all THEN "stopped" ELSE "wait"]
  BY DEF ScanEnd, Goto
<1>2. left = Cardinality(Awaited(scope[t])) /\ all \in BOOLEAN /\ (all => left = 0)
  BY ScanLeaves DEF ScanEnd
<1>3. stw \in [Scopes -> StwState] /\ t \in DOMAIN pc
  BY DEF IInv, Types, TypeOK
<1> HIDE DEF left, all
<1>4. QED
  BY <1>1, <1>2, <1>3 DEF StwState

\* A thread that has suspended itself is counted out of its request, once.
LEMMA SuspendDecrementFacts ==
    ASSUME IInv, NEW t \in Threads, SuspendDecrement(t)
    PROVE  /\ scope[t] \in Scopes /\ stw[scope[t]].requested /\ t \in Awaited(scope[t])
           /\ stw' \in [Scopes -> StwState]
           /\ \A s \in Scopes :
                /\ stw'[s].requested = stw[s].requested
                /\ stw'[s].requester = stw[s].requester
                /\ stw'[s].world_stopped = stw[s].world_stopped
                /\ s # scope[t] => stw'[s] = stw[s]
                /\ s = scope[t] =>
                     /\ stw'[s].thread_countdown = Cardinality(Awaited(s) \ {t})
                     /\ stw'[s].stop_event => stw'[s].thread_countdown = 0
                     /\ ~stw'[s].world_stopped
<1> DEFINE S == {scope[t]}
<1>1. scope[t] \in Scopes /\ stw[scope[t]].requested /\ t \in Awaited(scope[t])
  BY SelfAwaited DEF SuspendDecrement
<1>2. head = NoThread /\ S \in SUBSET Scopes /\ stw' = Decremented(S)
      /\ \A s \in S : stw[s].requested /\ t \in Awaited(s)
  BY <1>1 DEF SuspendDecrement
<1>3. \A s \in Scopes : s \in S <=> s = scope[t]
  OBVIOUS
<1> HIDE DEF S
<1>4. /\ Decremented(S) \in [Scopes -> StwState]
      /\ \A s \in Scopes :
           /\ Decremented(S)[s].requested = stw[s].requested
           /\ Decremented(S)[s].requester = stw[s].requester
           /\ Decremented(S)[s].world_stopped = stw[s].world_stopped
           /\ s \notin S => Decremented(S)[s] = stw[s]
           /\ s \in S =>
                /\ Decremented(S)[s].thread_countdown = Cardinality(Awaited(s) \ {t})
                /\ Decremented(S)[s].stop_event => Decremented(S)[s].thread_countdown = 0
                /\ ~Decremented(S)[s].world_stopped
  BY <1>2, DecrementedFacts
<1>5. QED
  BY <1>1, <1>2, <1>3, <1>4

(***************************************************************************)
(* The steps of a thread keep each part of the invariant.                  *)
(***************************************************************************)

\* The types are kept.
LEMMA StepKeepsTypes ==
    ASSUME IInv, NEW t \in Threads, Step(t)
    PROVE  Types'
<1> USE DEF IInv, Types, TypeOK, Goto, Becomes, locks, scanning
<1>0. stw' \in [Scopes -> StwState] =>
        \A s \in Scopes : /\ stw'[s].thread_countdown \in Nat
                          /\ stw'[s].requester \in Threads \cup {NoThread}
  BY DEF StwState
<1>1. CASE HandlePending(t)
  BY <1>1 DEF HandlePending
<1>2. CASE SuspendLooks(t)
  BY <1>2 DEF SuspendLooks, Scopes
<1>3. CASE Suspend(t)
  BY <1>3 DEF Suspend
<1>4. CASE SuspendDecrement(t)
  BY <1>0, <1>4, SuspendDecrementFacts DEF SuspendDecrement
<1>5. CASE MutexWait(t) \/ RWLock(t)
  BY <1>5 DEF MutexWait, RWLock, RWLocked
<1>6. CASE Request(t)
  <2> DEFINE others == InScope(scope[t]) \ {t}
  <2>1. InScope(scope[t]) \subseteq Threads /\ Cardinality(others) \in Nat
    BY FS_Subset, FS_CardinalityType DEF InScope
  <2>2. [requested |-> TRUE, thread_countdown |-> Cardinality(others),
         stop_event |-> FALSE, requester |-> t, world_stopped |-> others = {}] \in StwState
    BY <2>1 DEF StwState
  <2>3. stw' \in [Scopes -> StwState]
    BY <1>6, <2>2 DEF Request
  <2>4. QED
    BY <1>0, <1>6, <2>1, <2>3 DEF Request, StartScan
<1>7. CASE ScanThread(t)
  BY <1>7 DEF ScanThread
<1>8. CASE ScanParks(t)
  <2>1. num_parked + 1 \in Nat /\ target \in Threads
    BY <1>8 DEF ScanParks, ScanHeld, InScope
  <2>2. QED
    BY <1>8, <2>1 DEF ScanParks
<1>9. CASE ScanMisses(t)
  BY <1>9 DEF ScanMisses
<1>10. CASE ScanEnd(t)
  <2>1. scope[t] \in Scopes /\ stw[scope[t]].thread_countdown - num_parked \in Nat
    BY <1>10, ScanLeaves DEF ScanEnd
  <2>2. stw' \in [Scopes -> StwState]
    <3> DEFINE left == stw[scope[t]].thread_countdown - num_parked
               all == num_parked > 0 /\ left = 0
    <3>1. stw' = [stw EXCEPT ![scope[t]].thread_countdown = left,
                             ![scope[t]].world_stopped = all]
      BY <1>10 DEF ScanEnd
    <3>2. left \in Nat /\ all \in BOOLEAN
      BY <2>1
    <3> HIDE DEF left, all
    <3>3. QED
      BY <2>1, <3>1, <3>2 DEF StwState
  <2>3. QED
    BY <1>0, <1>10, <2>2 DEF ScanEnd
<1>11. CASE WaitEvent(t) \/ WaitTimesOut(t)
  <2>1. stw' \in [Scopes -> StwState]
    <3>0. WaitEvent(t) => scope[t] \in Scopes
      BY Requester DEF WaitEvent, Requesting
    <3>1. CASE WaitEvent(t)
      <4>1. stw' = [stw EXCEPT ![scope[t]].world_stopped = TRUE]
        BY <3>1 DEF WaitEvent
      <4>2. QED
        BY <3>0, <3>1, <4>1, StwUpdated
    <3>2. CASE WaitTimesOut(t)
      BY <3>2 DEF WaitTimesOut
    <3>3. QED
      BY <1>11, <3>1, <3>2
  <2>2. QED
    BY <1>0, <1>11, <2>1 DEF WaitEvent, WaitTimesOut
<1>12. CASE Rescan(t)
  BY <1>12 DEF Rescan, StartScan, InScope
<1>13. CASE StartTheWorld(t)
  <2>1. stw' \in [Scopes -> StwState]
    <3>0. scope[t] \in Scopes
      BY <1>13, Requester DEF StartTheWorld, Requesting
    <3>1. stw' = [stw EXCEPT ![scope[t]] = [@ EXCEPT !.requested = FALSE,
                                  !.world_stopped = FALSE, !.requester = NoThread]]
      BY <1>13 DEF StartTheWorld
    <3>2. QED
      BY <3>0, <3>1, StwUpdated
  <2>2. state' \in [Threads -> {"none", "attached", "detached", "suspended"}]
    BY <1>13 DEF StartTheWorld
  <2>3. QED
    BY <1>0, <1>13, <2>1, <2>2 DEF StartTheWorld
<1>14. CASE RWUnlock(t) \/ MutexUnlock(t)
  BY <1>14 DEF RWUnlock, MutexUnlock, Unlocked
<1>15. QED
  BY <1>1, <1>2, <1>3, <1>4, <1>5, <1>6, <1>7, <1>8, <1>9, <1>10, <1>11, <1>12, <1>13, <1>14
     DEF Step

\* A thread is in a state that fits where it is.
LEMMA StepKeepsPlaces ==
    ASSUME IInv, NEW t \in Threads, Step(t)
    PROVE  Places'
<1> USE DEF IInv, Types, TypeOK, Places, Goto, Becomes
<1>1. CASE HandlePending(t)
  BY <1>1 DEF HandlePending
<1>2. CASE SuspendLooks(t)
  BY <1>2 DEF SuspendLooks
<1>3. CASE Suspend(t)
  BY <1>3 DEF Suspend
<1>4. CASE SuspendDecrement(t)
  BY <1>4 DEF SuspendDecrement
<1>5. CASE MutexWait(t) \/ RWLock(t)
  BY <1>5 DEF MutexWait, RWLock
<1>6. CASE Request(t)
  BY <1>6 DEF Request, StartScan
<1>7. CASE ScanThread(t)
  BY <1>7 DEF ScanThread
<1>8. CASE ScanParks(t)
  BY <1>8 DEF ScanParks, ScanHeld
<1>9. CASE ScanMisses(t)
  BY <1>9 DEF ScanMisses
<1>10. CASE ScanEnd(t)
  BY <1>10 DEF ScanEnd
<1>11. CASE WaitEvent(t) \/ WaitTimesOut(t) \/ Rescan(t)
  BY <1>11 DEF WaitEvent, WaitTimesOut, Rescan, StartScan
<1>12. CASE StartTheWorld(t)
  BY <1>12, StoppedWorld DEF StartTheWorld, InScope
<1>13. CASE RWUnlock(t) \/ MutexUnlock(t)
  BY <1>13 DEF RWUnlock, MutexUnlock, Unlocked
<1>14. QED
  BY <1>1, <1>2, <1>3, <1>4, <1>5, <1>6, <1>7, <1>8, <1>9, <1>10, <1>11, <1>12, <1>13
     DEF Step

\* The locks of a request are those of its requester.
LEMMA StepKeepsLocksHeld ==
    ASSUME IInv, NEW t \in Threads, Step(t)
    PROVE  LocksHeld'
<1> USE DEF IInv, Types, TypeOK, LocksHeld, InMutex, InRWMutex, Requesting, Goto, Becomes,
            locks, scanning, Scopes
<1>1. CASE HandlePending(t)
  BY <1>1 DEF HandlePending
<1>2. CASE SuspendLooks(t)
  BY <1>2 DEF SuspendLooks
<1>3. CASE Suspend(t)
  BY <1>3 DEF Suspend
<1>4. CASE SuspendDecrement(t)
  BY <1>4 DEF SuspendDecrement, Decremented
<1>5. CASE MutexWait(t)
  BY <1>5 DEF MutexWait
<1>6. CASE RWLock(t)
  BY <1>6 DEF RWLock, RWLocked, RWMayLock
<1>7. CASE Request(t)
  BY <1>7 DEF Request, StartScan
<1>8. CASE ScanThread(t)
  BY <1>8 DEF ScanThread
<1>9. CASE ScanParks(t)
  BY <1>9 DEF ScanParks
<1>10. CASE ScanMisses(t)
  BY <1>10 DEF ScanMisses
<1>11. CASE ScanEnd(t)
  BY <1>11 DEF ScanEnd
<1>12. CASE WaitEvent(t)
  BY <1>12 DEF WaitEvent
<1>13. CASE WaitTimesOut(t)
  BY <1>13 DEF WaitTimesOut
<1>14. CASE Rescan(t)
  BY <1>14 DEF Rescan, StartScan
<1>15. CASE StartTheWorld(t)
  BY <1>15 DEF StartTheWorld
<1>16. CASE RWUnlock(t)
  BY <1>16 DEF RWUnlock
<1>17. CASE MutexUnlock(t)
  BY <1>17 DEF MutexUnlock, Unlocked
<1>18. QED
  BY <1>1, <1>2, <1>3, <1>4, <1>5, <1>6, <1>7, <1>8, <1>9, <1>10, <1>11, <1>12, <1>13, <1>14, <1>15, <1>16, <1>17
     DEF Step

\* Every request has one requester, which is still there.
LEMMA StepKeepsRequestsMade ==
    ASSUME IInv, NEW t \in Threads, Step(t)
    PROVE  RequestsMade'
<1> USE DEF IInv, Types, TypeOK, RequestsMade, Requesting, Goto, Becomes, locks, scanning
<1>1. CASE HandlePending(t)
  BY <1>1 DEF HandlePending
<1>2. CASE SuspendLooks(t)
  BY <1>2 DEF SuspendLooks
<1>3. CASE Suspend(t)
  BY <1>3 DEF Suspend
<1>4. CASE SuspendDecrement(t)
  <2>1. \A s \in Scopes : /\ stw'[s].requested = stw[s].requested
                          /\ stw'[s].requester = stw[s].requester
                          /\ stw'[s].world_stopped = stw[s].world_stopped
    BY <1>4, SuspendDecrementFacts
  <2>2. \A u \in Threads : pc[u] \in Requesting => scope[u] \in Scopes
    BY Requester
  <2>3. \A u \in Threads : /\ pc[u] \in Requesting <=> pc'[u] \in Requesting
                           /\ pc[u] \in Requesting => scope'[u] = scope[u]
    BY <1>4 DEF SuspendDecrement
  <2>4. QED
    BY <2>1, <2>2, <2>3
<1>5. CASE MutexWait(t)
  BY <1>5 DEF MutexWait
<1>6. CASE RWLock(t)
  BY <1>6 DEF RWLock, RWLocked, RWMayLock
<1>7. CASE Request(t)
  <2>1. scope[t] \in Scopes /\ pc'[t] \in Requesting /\ scope' = scope
    BY <1>7 DEF Request, StartScan, LocksHeld, InMutex, InRWMutex, Scopes
  <2>2. \A u \in Threads \ {t} : pc'[u] = pc[u]
    BY <1>7 DEF Request, StartScan
  <2>3. /\ stw'[scope[t]].requested /\ stw'[scope[t]].requester = t
        /\ \A s \in Scopes \ {scope[t]} : stw'[s] = stw[s]
    BY <1>7, <2>1 DEF Request
  <2>4. \A u \in Threads : pc[u] \in Requesting => scope[u] \in Scopes \ {scope[t]}
    BY <1>7, Requester DEF Request, LocksHeld, InMutex, InRWMutex
  <2>5. pc[t] \notin Requesting
    BY <1>7 DEF Request
  <2>6. QED
    BY <2>1, <2>2, <2>3, <2>4, <2>5
<1>8. CASE ScanThread(t)
  BY <1>8 DEF ScanThread
<1>9. CASE ScanParks(t)
  BY <1>9 DEF ScanParks
<1>10. CASE ScanMisses(t)
  BY <1>10 DEF ScanMisses
<1>11. CASE ScanEnd(t)
  <2>1. \A s \in Scopes : stw'[s].requested = stw[s].requested
                        /\ stw'[s].requester = stw[s].requester
    BY <1>11, ScanEndFacts
  <2>2. scope[t] \in Scopes /\ stw[scope[t]].requested
    BY <1>11, Requester DEF ScanEnd
  <2>3. \A s \in Scopes : s # scope[t] => stw'[s] = stw[s]
    BY <1>11, ScanEndFacts
  <2>4. \A u \in Threads : (pc[u] \in Requesting <=> pc'[u] \in Requesting) /\ scope'[u] = scope[u]
    BY <1>11 DEF ScanEnd
  <2>5. \A u \in Threads : pc[u] \in Requesting => scope[u] \in Scopes
    BY Requester
  <2>6. QED
    BY <2>1, <2>2, <2>3, <2>4, <2>5
<1>12. CASE WaitEvent(t)
  BY <1>12 DEF WaitEvent
<1>13. CASE WaitTimesOut(t)
  BY <1>13 DEF WaitTimesOut
<1>14. CASE Rescan(t)
  BY <1>14 DEF Rescan, StartScan
<1>15. CASE StartTheWorld(t)
  BY <1>15 DEF StartTheWorld
<1>16. CASE RWUnlock(t)
  BY <1>16 DEF RWUnlock
<1>17. CASE MutexUnlock(t)
  BY <1>17 DEF MutexUnlock, Unlocked
<1>18. QED
  BY <1>1, <1>2, <1>3, <1>4, <1>5, <1>6, <1>7, <1>8, <1>9, <1>10, <1>11, <1>12, <1>13, <1>14, <1>15, <1>16, <1>17
     DEF Step

\* Nobody suspends himself but for a request.
LEMMA StepKeepsSuspendedForRequest ==
    ASSUME IInv, NEW t \in Threads, Step(t)
    PROVE  SuspendedForRequest'
<1> USE DEF IInv, Types, TypeOK, SuspendedForRequest, Requests, Goto, Becomes, locks, scanning
<1>1. CASE HandlePending(t)
  BY <1>1 DEF HandlePending
<1>2. CASE SuspendLooks(t)
  BY <1>2 DEF SuspendLooks
<1>3. CASE Suspend(t)
  BY <1>3 DEF Suspend
<1>4. CASE SuspendDecrement(t)
  <2>1. \A s \in Scopes : stw'[s].requested = stw[s].requested
    BY <1>4, SuspendDecrementFacts
  <2>2. ALL \in Scopes /\ \A u \in Threads : InterpOf[u] \in Scopes
    BY DEF Scopes
  <2>3. \A u \in Threads : Requests(InterpOf[u])' = Requests(InterpOf[u])
    BY <2>1, <2>2
  <2>4. \A u \in Threads \ {t} : pc'[u] = pc[u] /\ scope'[u] = scope[u]
    BY <1>4 DEF SuspendDecrement
  <2>5. pc'[t] = "out" /\ state' = state
    BY <1>4 DEF SuspendDecrement
  <2> HIDE DEF Requests
  <2>6. QED
    BY <2>1, <2>2, <2>3, <2>4, <2>5
<1>5. CASE MutexWait(t)
  BY <1>5 DEF MutexWait
<1>6. CASE RWLock(t)
  BY <1>6 DEF RWLock, RWLocked, RWMayLock
<1>7. CASE Request(t)
  BY <1>7 DEF Request, StartScan
<1>8. CASE ScanThread(t)
  BY <1>8 DEF ScanThread
<1>9. CASE ScanParks(t)
  <2>1. /\ target \in Threads /\ scope[t] \in {InterpOf[target], ALL}
        /\ state[target] = "detached" /\ stw[scope[t]].requested
    BY <1>9, Requester DEF ScanParks, ScanHeld, InScope, Requesting
  <2>2. scope[t] \in Requests(InterpOf[target])
    BY <2>1
  <2>3. pc[target] \notin {"suspend", "decrement"}
    BY <2>1 DEF Places
  <2>4. QED
    BY <1>9, <2>1, <2>2, <2>3 DEF ScanParks
<1>10. CASE ScanMisses(t)
  BY <1>10 DEF ScanMisses
<1>11. CASE ScanEnd(t)
  <2>1. \A s \in Scopes : stw'[s].requested = stw[s].requested
    BY <1>11, ScanEndFacts
  <2>2. ALL \in Scopes /\ \A u \in Threads : InterpOf[u] \in Scopes
    BY DEF Scopes
  <2>3. \A u \in Threads : Requests(InterpOf[u])' = Requests(InterpOf[u])
    BY <2>1, <2>2
  <2>4. \A u \in Threads \ {t} : pc'[u] = pc[u]
    BY <1>11 DEF ScanEnd
  <2>5. pc'[t] \in {"stopped", "wait"} /\ state' = state /\ scope' = scope
    BY <1>11 DEF ScanEnd
  <2> HIDE DEF Requests
  <2>6. QED
    BY <2>1, <2>2, <2>3, <2>4, <2>5
<1>12. CASE WaitEvent(t)
  BY <1>12 DEF WaitEvent
<1>13. CASE WaitTimesOut(t)
  BY <1>13 DEF WaitTimesOut
<1>14. CASE Rescan(t)
  BY <1>14 DEF Rescan, StartScan
<1>15. CASE StartTheWorld(t)
  <2>1. scope[t] \in Scopes /\ stw[scope[t]].requested /\ scope[t] \in {InterpOf[t], ALL}
    BY <1>15, Requester DEF StartTheWorld, Requesting
  <2>2. \A s \in Scopes \ {scope[t]} : stw'[s] = stw[s]
    BY <1>15 DEF StartTheWorld
  <2>3. pc' = [pc EXCEPT ![t] = "rwunlock"] /\ scope' = scope
    BY <1>15 DEF StartTheWorld
  <2>4. \A u \in Threads : pc[u] \in {"suspend", "decrement"} /\ scope[u] # NoScope =>
          scope[u] \in Scopes \ {scope[t]}
    <3> SUFFICES ASSUME NEW u \in Threads, pc[u] \in {"suspend", "decrement"},
                        scope[u] = scope[t]
                 PROVE  FALSE
      BY DEF Scopes
    <3>1. scope[u] \in {InterpOf[u], ALL} /\ u # t /\ state[u] # "none"
      BY <1>15, <2>1 DEF StartTheWorld, Scopes, Places
    <3>2. u \in InScope(scope[t]) \ {t}
      BY <3>1 DEF InScope
    <3>3. state[u] = "suspended" /\ pc[u] # "decrement"
      BY <1>15, <3>2, StoppedWorld DEF StartTheWorld
    <3>4. QED
      BY <3>3 DEF Places
  <2>5. ASSUME NEW u \in Threads, state'[u] = "suspended"
        PROVE  Requests(InterpOf[u])' # {}
    <3>1. u \notin InScope(scope[t]) \ {t} /\ state[u] = "suspended"
      BY <1>15, <2>5 DEF StartTheWorld
    <3>2. u # t
      BY <1>15, <3>1 DEF StartTheWorld, Places
    <3>3. scope[t] # ALL /\ scope[t] # InterpOf[u]
      BY <3>1, <3>2 DEF InScope
    <3>4. PICK s \in {InterpOf[u], ALL} : stw[s].requested
      BY <3>1
    <3>5. s \in Scopes \ {scope[t]}
      BY <3>3 DEF Scopes
    <3>6. QED
      BY <2>2, <3>4, <3>5
  <2>6. QED
    BY <2>2, <2>3, <2>4, <2>5
<1>16. CASE RWUnlock(t)
  BY <1>16 DEF RWUnlock
<1>17. CASE MutexUnlock(t)
  BY <1>17 DEF MutexUnlock, Unlocked
<1>18. QED
  BY <1>1, <1>2, <1>3, <1>4, <1>5, <1>6, <1>7, <1>8, <1>9, <1>10, <1>11, <1>12, <1>13, <1>14, <1>15, <1>16, <1>17
     DEF Step

\* A scan has the list of threads to itself.
LEMMA StepKeepsScanHeld ==
    ASSUME IInv, NEW t \in Threads, Step(t)
    PROVE  ScanHeld'
<1> USE DEF IInv, Types, TypeOK, ScanHeld, InScope, Goto, Becomes, locks, scanning
<1>1. CASE HandlePending(t)
  BY <1>1 DEF HandlePending
<1>2. CASE SuspendLooks(t)
  BY <1>2 DEF SuspendLooks
<1>3. CASE Suspend(t)
  BY <1>3 DEF Suspend
<1>4. CASE SuspendDecrement(t)
  BY <1>4 DEF SuspendDecrement
<1>5. CASE MutexWait(t)
  BY <1>5 DEF MutexWait
<1>6. CASE RWLock(t)
  BY <1>6 DEF RWLock, RWLocked, RWMayLock
<1>7. CASE Request(t)
  BY <1>7 DEF Request, StartScan
<1>8. CASE ScanThread(t)
  <2> DEFINE u == CHOOSE v \in todo : TRUE
  <2>1. /\ u \in todo /\ pc[t] = "scan" /\ todo' = todo \ {u}
        /\ UNCHANGED <<state, scope, head, num_parked>>
        /\ IF state[u] = "detached" THEN target' = u /\ Goto(t, "cas")
                                    ELSE UNCHANGED <<target, pc>>
    BY <1>8 DEF ScanThread
  <2>2. u \in InScope(scope[t])
    BY <2>1
  <2>3. state[t] = "attached"
    BY <2>1 DEF Places
  <2> HIDE DEF u
  <2>4. QED
    BY <2>1, <2>2, <2>3
<1>9. CASE ScanParks(t)
  BY <1>9 DEF ScanParks
<1>10. CASE ScanMisses(t)
  BY <1>10 DEF ScanMisses
<1>11. CASE ScanEnd(t)
  BY <1>11 DEF ScanEnd
<1>12. CASE WaitEvent(t)
  BY <1>12 DEF WaitEvent
<1>13. CASE WaitTimesOut(t)
  BY <1>13 DEF WaitTimesOut
<1>14. CASE Rescan(t)
  BY <1>14 DEF Rescan, StartScan
<1>15. CASE StartTheWorld(t)
  BY <1>15 DEF StartTheWorld
<1>16. CASE RWUnlock(t)
  BY <1>16 DEF RWUnlock
<1>17. CASE MutexUnlock(t)
  BY <1>17 DEF MutexUnlock, Unlocked
<1>18. QED
  BY <1>1, <1>2, <1>3, <1>4, <1>5, <1>6, <1>7, <1>8, <1>9, <1>10, <1>11, <1>12, <1>13, <1>14, <1>15, <1>16, <1>17
     DEF Step

\* While a thread is about to make its request nobody in its scope is
\* suspended: that would be for another request, which its locks exclude.
LEMMA NobodySuspendedYet ==
    ASSUME IInv, NEW t \in Threads, pc[t] = "request",
           NEW u \in InScope(scope[t])
    PROVE  state[u] # "suspended"
<1> SUFFICES ASSUME state[u] = "suspended" PROVE FALSE
  OBVIOUS
<1>1. u \in Threads /\ (scope[t] = ALL \/ InterpOf[u] = scope[t])
  BY DEF InScope
<1>2. PICK r \in {InterpOf[u], ALL} : stw[r].requested
  BY <1>1 DEF IInv, SuspendedForRequest, Requests
<1>3. PICK v \in Threads : pc[v] \in Requesting /\ scope[v] = r
  BY <1>1, <1>2 DEF IInv, RequestsMade, Scopes
<1>4. v # t
  BY <1>3 DEF Requesting
<1>5. /\ mutex[scope[t]] = t /\ mutex[r] = v
      /\ IF scope[t] = ALL THEN writer = t ELSE t \in readers
      /\ IF r = ALL THEN writer = v ELSE v \in readers
      /\ writer # NoThread => readers = {}
  BY <1>3 DEF IInv, LocksHeld, InMutex, InRWMutex
<1>6. QED
  BY <1>1, <1>2, <1>4, <1>5

\* What a request has yet to count stays the same when nobody enters or leaves
\* the threads it awaits, and the scan that goes on has parked nobody else.
LEMMA CountedKept ==
    ASSUME IInv, stw' = stw,
           (head' = head \/ head = NoThread), num_parked' = num_parked,
           \A u \in Threads : pc'[u] = "stopped" =>
               pc[u] = "stopped" /\ scope'[u] = scope[u],
           \A s \in Scopes : stw[s].requested => Awaited(s)' = Awaited(s)
    PROVE  Counted'
<1>1. head' # head => num_parked = 0
  BY DEF IInv, ScanHeld
<1>2. QED
  BY <1>1 DEF IInv, Counted

\* Nobody enters or leaves when all remain suspended, or not, and about to say
\* so, or not.
LEMMA AwaitedKept ==
    ASSUME NEW s \in Scopes, stw'[s].requester = stw[s].requester,
           \A u \in Threads :
              /\ state'[u] = "none" <=> state[u] = "none"
              /\ state'[u] = "suspended" <=> state[u] = "suspended"
              /\ (pc'[u] = "decrement" /\ scope'[u] = s)
                   <=> (pc[u] = "decrement" /\ scope[u] = s)
    PROVE  Awaited(s)' = Awaited(s)
BY DEF Awaited, InScope

\* The countdown stays that of the threads which are awaited.
LEMMA StepKeepsCounted ==
    ASSUME IInv, NEW t \in Threads, Step(t)
    PROVE  Counted'
<1> USE DEF Goto, Becomes, locks, scanning
<1>0. DOMAIN pc = Threads /\ DOMAIN state = Threads /\ DOMAIN scope = Threads
  BY DEF IInv, Types, TypeOK
<1>1. CASE HandlePending(t)
  BY <1>0, <1>1, AwaitedKept, CountedKept DEF HandlePending
<1>2. CASE SuspendLooks(t)
  BY <1>0, <1>2, AwaitedKept, CountedKept DEF SuspendLooks
<1>3. CASE MutexWait(t)
  BY <1>0, <1>3, AwaitedKept, CountedKept DEF MutexWait
<1>4. CASE RWLock(t)
  <2>1. state[t] \in {"attached", "detached"} /\ pc[t] \in {"rwlock", "rw_wait"}
    BY <1>4 DEF RWLock, IInv, Places
  <2>2. state'[t] \in {"attached", "detached"} /\ pc'[t] \in {"request", "rw_wait"}
    BY <1>0, <1>4 DEF RWLock
  <2>3. \A u \in Threads \ {t} : state'[u] = state[u] /\ pc'[u] = pc[u]
    BY <1>0, <1>4 DEF RWLock
  <2>4. UNCHANGED <<scope, stw, head, num_parked>>
    BY <1>4 DEF RWLock
  <2>5. QED
    BY <2>1, <2>2, <2>3, <2>4, AwaitedKept, CountedKept
<1>5. CASE ScanThread(t)
  BY <1>0, <1>5, AwaitedKept, CountedKept DEF ScanThread
<1>6. CASE ScanMisses(t)
  BY <1>0, <1>6, AwaitedKept, CountedKept DEF ScanMisses
<1>7. CASE WaitTimesOut(t)
  BY <1>0, <1>7, AwaitedKept, CountedKept DEF WaitTimesOut
<1>8. CASE Rescan(t)
  BY <1>0, <1>8, AwaitedKept, CountedKept DEF Rescan, StartScan
<1>9. CASE RWUnlock(t)
  BY <1>0, <1>9, AwaitedKept, CountedKept DEF RWUnlock
<1>10. CASE MutexUnlock(t)
  BY <1>0, <1>10, AwaitedKept, CountedKept DEF MutexUnlock, Unlocked
<1>11. CASE Suspend(t)
  <2>1. ASSUME NEW s \in Scopes, stw[s].requested PROVE Awaited(s)' = Awaited(s)
    <3>1. state[t] = "attached" /\ pc[t] = "suspend"
      BY <1>11 DEF Suspend, IInv, Places
    <3>2. \A u \in Threads \ {t} : /\ state'[u] = state[u] /\ pc'[u] = pc[u]
                                   /\ scope'[u] = scope[u]
      BY <1>0, <1>11 DEF Suspend
    <3>3. CASE scope[t] = NoScope
      BY <1>0, <1>11, <3>1, <3>3, AwaitedKept DEF Suspend
    <3>4. CASE scope[t] # NoScope
      <4>1. /\ state'[t] = "suspended" /\ pc'[t] = "decrement"
            /\ scope'[t] = scope[t] /\ stw' = stw
        BY <1>0, <1>11, <3>4 DEF Suspend
      <4>2. scope[t] \in {InterpOf[t], ALL} /\ stw[scope[t]].requested /\ scope[t] \in Scopes
        BY <3>1, <3>4 DEF IInv, SuspendedForRequest, Scopes
      <4>3. t \in InScope(s) => s = scope[t]
        <5>1. t \in InScope(s) => s \in {InterpOf[t], ALL}
          BY DEF InScope
        <5>2. QED
          BY <4>2, <5>1, <2>1, OneRequestPerThread
      <4>4. InScope(s)' = InScope(s)
        BY <3>1, <3>2, <4>1 DEF InScope
      <4>5. t \in Awaited(s)' <=> t \in Awaited(s)
        BY <3>1, <4>1, <4>3, <4>4 DEF Awaited
      <4>6. \A u \in Threads \ {t} : u \in Awaited(s)' <=> u \in Awaited(s)
        BY <3>2, <4>1, <4>4 DEF Awaited
      <4>7. QED
        BY <4>5, <4>6 DEF Awaited, InScope
    <3>5. QED
      BY <3>3, <3>4
  <2>2. QED
    BY <1>0, <1>11, <2>1, CountedKept DEF Suspend
<1>12. CASE SuspendDecrement(t)
  <2> SUFFICES ASSUME NEW s \in Scopes, stw'[s].requested
               PROVE  /\ stw'[s].thread_countdown = Cardinality(Awaited(s)')
                            + IF head' = stw'[s].requester THEN num_parked' ELSE 0
                      /\ stw'[s].stop_event => stw'[s].thread_countdown = 0
                      /\ \A u \in Threads : pc'[u] = "stopped" /\ scope'[u] = s =>
                            stw'[s].world_stopped
                      /\ stw'[s].world_stopped => Awaited(s)' = {}
    BY DEF Counted
  <2>1. /\ stw[s].requested /\ stw'[s].requester = stw[s].requester
        /\ stw'[s].world_stopped = stw[s].world_stopped
    BY <1>12, SuspendDecrementFacts
  <2>2. head' = NoThread /\ num_parked' = 0 /\ num_parked = 0
    BY <1>12 DEF SuspendDecrement, IInv, ScanHeld
  <2>3. \A u \in Threads \ {t} : /\ state'[u] = state[u] /\ pc'[u] = pc[u]
                                 /\ scope'[u] = scope[u]
    BY <1>0, <1>12 DEF SuspendDecrement
  <2>4. state'[t] = state[t] /\ state[t] = "suspended" /\ pc'[t] = "out" /\ pc[t] = "decrement"
    BY <1>0, <1>12 DEF SuspendDecrement, IInv, Places
  <2>5. Awaited(s)' = Awaited(s) \ {t}
    BY <2>1, <2>3, <2>4 DEF Awaited, InScope
  <2>6. s # scope[t] => t \notin Awaited(s)
    BY <2>1, <2>4, SelfAwaited
  <2>7. Cardinality(Awaited(s)') \in Nat
    <3>1. IsFiniteSet(Awaited(s) \ {t})
      BY AwaitedFinite, FS_Subset
    <3>2. QED
      BY <2>5, <3>1, FS_CardinalityType
  <2>8. /\ stw'[s].thread_countdown = Cardinality(Awaited(s)')
        /\ stw'[s].stop_event => stw'[s].thread_countdown = 0
    <3>1. CASE s = scope[t]
      BY <1>12, <2>5, <3>1, SuspendDecrementFacts
    <3>2. CASE s # scope[t]
      <4>1. stw'[s] = stw[s] /\ Awaited(s)' = Awaited(s)
        BY <1>12, <2>5, <2>6, <3>2, SuspendDecrementFacts
      <4>2. stw[s].thread_countdown = Cardinality(Awaited(s)) + 0
        BY <2>1, <2>2 DEF IInv, Counted
      <4>3. QED
        BY <2>1, <2>7, <4>1, <4>2 DEF IInv, Counted
    <3>3. QED
      BY <3>1, <3>2
  <2>9. stw'[s].world_stopped => Awaited(s)' = {}
    BY <2>1, <2>5 DEF IInv, Counted
  <2>10. \A u \in Threads : pc'[u] = "stopped" /\ scope'[u] = s => stw'[s].world_stopped
    BY <2>1, <2>3, <2>4 DEF IInv, Counted
  <2>11. QED
    BY <2>2, <2>7, <2>8, <2>9, <2>10
<1>13. CASE Request(t)
  <2> DEFINE others == InScope(scope[t]) \ {t}
  <2>1. /\ scope[t] \in Scopes /\ scope' = scope /\ state' = state
        /\ pc[t] = "request" /\ head = NoThread
        /\ stw' = [stw EXCEPT ![scope[t]] =
             [requested |-> TRUE, thread_countdown |-> Cardinality(others),
              stop_event |-> FALSE, requester |-> t, world_stopped |-> others = {}]]
    BY <1>13 DEF Request, IInv, LocksHeld, InMutex, InRWMutex, Scopes
  <2>2. /\ \A u \in Threads \ {t} : pc'[u] = pc[u]
        /\ pc'[t] \in {"stopped", "scan"} /\ (pc'[t] = "stopped" => others = {})
        /\ num_parked = 0 /\ num_parked' = 0
    BY <1>0, <1>13 DEF Request, StartScan, IInv, ScanHeld
  <2>3. DOMAIN stw = Scopes
    BY DEF IInv, Types
  <2>4. ASSUME NEW s \in Scopes, s # scope[t], stw'[s].requested
        PROVE  /\ stw'[s] = stw[s] /\ stw[s].requested /\ Awaited(s)' = Awaited(s)
               /\ \A u \in Threads : pc'[u] = "stopped" /\ scope'[u] = s => pc[u] = "stopped"
    <3>1. stw'[s] = stw[s]
      BY <2>1, <2>3, <2>4
    <3>2. QED
      BY <2>1, <2>2, <2>4, <3>1, AwaitedKept
  <2>5. ASSUME NEW s \in Scopes, s = scope[t]
        PROVE  /\ stw'[s].thread_countdown = Cardinality(Awaited(s)')
               /\ ~stw'[s].stop_event
               /\ stw'[s].world_stopped => Awaited(s)' = {}
               /\ pc'[t] = "stopped" => stw'[s].world_stopped
    <3> DEFINE r == [requested |-> TRUE, thread_countdown |-> Cardinality(others),
                     stop_event |-> FALSE, requester |-> t, world_stopped |-> others = {}]
    <3>1. stw'[s] = r
      BY <2>1, <2>3, <2>5
    <3>2. /\ r.thread_countdown = Cardinality(others) /\ ~r.stop_event /\ r.requester = t
          /\ r.world_stopped <=> others = {}
      OBVIOUS
    <3>3. InScope(s)' = InScope(s) /\ \A u \in others : state[u] # "suspended"
      BY <2>1, <2>5, NobodySuspendedYet DEF InScope
    <3> HIDE DEF r
    <3>4. Awaited(s)' = others
      BY <2>1, <2>5, <3>1, <3>2, <3>3 DEF Awaited
    <3>5. QED
      BY <2>2, <3>1, <3>2, <3>4
  <2>6. \A s \in Scopes : stw[s].requested => stw[s].thread_countdown = Cardinality(Awaited(s)) + 0
    BY <2>2 DEF IInv, Counted
  <2>7. \A s \in Scopes : Cardinality(Awaited(s)) \in Nat
    BY AwaitedFinite
  <2>8. ASSUME NEW s \in Scopes
        PROVE  Cardinality(Awaited(s)') \in Nat
    <3>1. Awaited(s)' \subseteq Threads
      BY DEF Awaited, InScope
    <3>2. QED
      BY <3>1, FS_Subset, FS_CardinalityType
  <2>9. ASSUME NEW s \in Scopes, stw'[s].requested
        PROVE  /\ stw'[s].thread_countdown = Cardinality(Awaited(s)')
               /\ stw'[s].stop_event => stw'[s].thread_countdown = 0
               /\ \A u \in Threads : pc'[u] = "stopped" /\ scope'[u] = s =>
                     stw'[s].world_stopped
               /\ stw'[s].world_stopped => Awaited(s)' = {}
    <3>1. CASE s = scope[t]
      <4>1. \A u \in Threads \ {t} : pc[u] = "stopped" => scope[u] # s
        BY <2>1, <3>1 DEF IInv, LocksHeld, InMutex, InRWMutex, Requesting
      <4>2. QED
        BY <2>1, <2>2, <2>5, <3>1, <4>1
    <3>2. CASE s # scope[t]
      <4>1. stw[s].thread_countdown = Cardinality(Awaited(s))
        BY <2>4, <2>6, <2>7, <2>9, <3>2
      <4>2. QED
        BY <2>1, <2>4, <2>9, <3>2, <4>1 DEF IInv, Counted
    <3>3. QED
      BY <3>1, <3>2
  <2>10. QED
    BY <2>2, <2>8, <2>9 DEF Counted
<1>14. CASE ScanParks(t)
  <2>1. /\ target \in Threads /\ target # t /\ target \in InScope(scope[t])
        /\ pc[t] = "cas" /\ head = t
        /\ state[target] = "detached" /\ state'[target] = "suspended"
        /\ \A u \in Threads \ {target} : state'[u] = state[u]
        /\ pc[target] \notin {"decrement", "stopped"}
    BY <1>0, <1>14 DEF ScanParks, IInv, ScanHeld, InScope, Places
  <2>2. /\ UNCHANGED <<scope, stw, head>> /\ num_parked' = num_parked + 1
        /\ pc'[t] = "scan" /\ \A u \in Threads \ {t} : pc'[u] = pc[u]
    BY <1>0, <1>14 DEF ScanParks
  <2>3. scope[t] \in Scopes /\ stw[scope[t]].requested /\ stw[scope[t]].requester = t
    BY <2>1, Requester DEF Requesting
  <2>4. ASSUME NEW s \in Scopes
        PROVE  Awaited(s)' = Awaited(s) \ {target} /\ InScope(s)' = InScope(s)
    <3>1. InScope(s)' = InScope(s)
      BY <2>1 DEF InScope
    <3>2. \A u \in Threads : pc'[u] = "decrement" <=> pc[u] = "decrement"
      BY <2>1, <2>2
    <3>3. pc'[target] # "decrement"
      BY <2>1, <3>2
    <3>4. \A u \in Threads : u \in Awaited(s)' <=> u \in Awaited(s) /\ u # target
      BY <2>1, <2>2, <3>1, <3>2, <3>3 DEF Awaited
    <3>5. Awaited(s)' \subseteq Threads /\ Awaited(s) \subseteq Threads
      BY DEF Awaited, InScope
    <3>6. QED
      BY <3>1, <3>4, <3>5
  <2>5. target \in Awaited(scope[t])
    BY <2>1, <2>3 DEF Awaited
  <2>6. ASSUME NEW s \in Scopes, stw[s].requested, target \in Awaited(s)
        PROVE  s = scope[t]
    <3>1. s \in {InterpOf[target], ALL} /\ scope[t] \in {InterpOf[target], ALL}
      BY <2>1, <2>6 DEF Awaited, InScope
    <3>2. QED
      BY <2>1, <2>3, <2>6, <3>1, OneRequestPerThread
  <2>7. /\ IsFiniteSet(Awaited(scope[t])) /\ Cardinality(Awaited(scope[t])) \in Nat
        /\ num_parked \in Nat
    BY AwaitedFinite DEF IInv, Types, TypeOK
  <2>8. Cardinality(Awaited(scope[t]) \ {target}) = Cardinality(Awaited(scope[t])) - 1
    BY <2>5, <2>7, FS_RemoveElement
  <2>9. ASSUME NEW s \in Scopes, stw'[s].requested
        PROVE  /\ stw'[s].thread_countdown = Cardinality(Awaited(s)')
                     + IF head' = stw'[s].requester THEN num_parked' ELSE 0
               /\ stw'[s].stop_event => stw'[s].thread_countdown = 0
               /\ \A u \in Threads : pc'[u] = "stopped" /\ scope'[u] = s =>
                     stw'[s].world_stopped
               /\ stw'[s].world_stopped => Awaited(s)' = {}
    <3>1. stw'[s].thread_countdown = Cardinality(Awaited(s)')
                     + IF head' = stw'[s].requester THEN num_parked' ELSE 0
      <4>1. CASE s = scope[t]
        <5>1. stw[s].thread_countdown = Cardinality(Awaited(s)) + num_parked
          BY <2>1, <2>3, <4>1 DEF IInv, Counted
        <5>2. Cardinality(Awaited(s)') = Cardinality(Awaited(s)) - 1
          BY <2>4, <2>8, <4>1
        <5>3. QED
          BY <2>1, <2>2, <2>3, <2>7, <4>1, <5>1, <5>2
      <4>2. CASE s # scope[t]
        <5>1. Awaited(s)' = Awaited(s) /\ stw[s].requested
          BY <2>2, <2>4, <2>6, <2>9, <4>2
        <5>2. stw[s].requester # t
          BY <2>1, <4>2, <5>1 DEF IInv, RequestsMade
        <5>3. QED
          BY <2>1, <2>2, <5>1, <5>2 DEF IInv, Counted
      <4>3. QED
        BY <4>1, <4>2
    <3>2. \A u \in Threads : pc'[u] = "stopped" => pc[u] = "stopped"
      BY <2>1, <2>2
    <3>3. Awaited(s)' \subseteq Awaited(s)
      BY <2>4
    <3>4. QED
      BY <2>2, <2>9, <3>1, <3>2, <3>3 DEF IInv, Counted
  <2>10. QED
    BY <2>9 DEF Counted
<1>15. CASE ScanEnd(t)
  <2>1. /\ pc[t] = "scan" /\ head = t /\ head' = NoThread /\ num_parked' = 0
        /\ UNCHANGED <<state, scope>>
        /\ pc'[t] \in {"stopped", "wait"} /\ \A u \in Threads \ {t} : pc'[u] = pc[u]
    BY <1>0, <1>15 DEF ScanEnd, IInv, ScanHeld
  <2>2. ASSUME NEW s \in Scopes, stw'[s].requested
        PROVE  /\ stw[s].requested /\ Awaited(s)' = Awaited(s)
               /\ IsFiniteSet(Awaited(s)) /\ Cardinality(Awaited(s)) \in Nat
    <3>1. stw[s].requested /\ stw'[s].requester = stw[s].requester
      BY <1>15, <2>2, ScanEndFacts
    <3>2. QED
      BY <2>1, <3>1, AwaitedKept, AwaitedFinite
  <2>3. scope[t] \in Scopes /\ stw[scope[t]].requested /\ stw[scope[t]].requester = t
    BY <2>1, Requester DEF Requesting
  <2>4. ASSUME NEW s \in Scopes, stw'[s].requested
        PROVE  /\ stw'[s].thread_countdown = Cardinality(Awaited(s)')
               /\ stw'[s].stop_event => stw'[s].thread_countdown = 0
               /\ \A u \in Threads : pc'[u] = "stopped" /\ scope'[u] = s =>
                     stw'[s].world_stopped
               /\ stw'[s].world_stopped => Awaited(s)' = {}
    <3>1. CASE s = scope[t]
      <4>1. stw'[s].thread_countdown = Cardinality(Awaited(s)) /\ stw'[s].stop_event = stw[s].stop_event
        BY <1>15, <3>1, ScanEndFacts
      <4>2. stw[s].stop_event => Cardinality(Awaited(s)) = 0
        <5>1. stw[s].thread_countdown = Cardinality(Awaited(s)) + num_parked
          BY <2>1, <2>3, <3>1 DEF IInv, Counted
        <5>2. stw[s].stop_event => stw[s].thread_countdown = 0
          BY <2>3, <3>1 DEF IInv, Counted
        <5>3. num_parked \in Nat
          BY DEF IInv, Types, TypeOK
        <5>4. QED
          BY <2>2, <2>4, <5>1, <5>2, <5>3
      <4>3. \A u \in Threads \ {t} : pc[u] = "stopped" => scope[u] # s
        BY <2>3, <3>1 DEF IInv, RequestsMade, Requesting
      <4>4. pc'[t] = "stopped" => stw'[s].world_stopped
        BY <1>15, <3>1, ScanEndFacts
      <4>5. stw'[s].world_stopped => Awaited(s) = {}
        BY <1>15, <2>2, <2>4, <3>1, ScanEndFacts, FS_EmptySet
      <4>6. QED
        BY <2>1, <2>2, <2>4, <4>1, <4>2, <4>3, <4>4, <4>5
    <3>2. CASE s # scope[t]
      <4>1. stw'[s] = stw[s]
        BY <1>15, <3>2, ScanEndFacts
      <4>2. stw[s].requester # t
        BY <2>1, <2>2, <2>4, <3>2 DEF IInv, RequestsMade
      <4>3. stw[s].thread_countdown = Cardinality(Awaited(s)) + 0
        BY <2>1, <2>2, <2>4, <4>2 DEF IInv, Counted
      <4>4. QED
        BY <2>1, <2>2, <2>4, <3>2, <4>1, <4>3 DEF IInv, Counted
    <3>3. QED
      BY <3>1, <3>2
  <2>5. QED
    BY <2>1, <2>2, <2>4 DEF Counted
<1>16. CASE WaitEvent(t)
  <2>1. /\ pc[t] = "wait" /\ stw[scope[t]].stop_event /\ head # t
        /\ stw' = [stw EXCEPT ![scope[t]].world_stopped = TRUE]
        /\ UNCHANGED <<state, scope, head, num_parked>>
        /\ pc'[t] = "stopped" /\ \A u \in Threads \ {t} : pc'[u] = pc[u]
    BY <1>0, <1>16 DEF WaitEvent, IInv, ScanHeld
  <2>2. scope[t] \in Scopes /\ stw[scope[t]].requested /\ stw[scope[t]].requester = t
    BY <2>1, Requester DEF Requesting
  <2>3. ASSUME NEW s \in Scopes
        PROVE  /\ stw'[s].requested = stw[s].requested
               /\ stw'[s].requester = stw[s].requester
               /\ stw'[s].thread_countdown = stw[s].thread_countdown
               /\ stw'[s].stop_event = stw[s].stop_event
               /\ s # scope[t] => stw'[s].world_stopped = stw[s].world_stopped
               /\ s = scope[t] => stw'[s].world_stopped
    BY <2>1, <2>2 DEF IInv, Types, StwState
  <2>4. ASSUME NEW s \in Scopes
        PROVE  Awaited(s)' = Awaited(s)
    BY <2>1, <2>3, AwaitedKept
  <2>5. Awaited(scope[t]) = {}
    <3>1. stw[scope[t]].thread_countdown = Cardinality(Awaited(scope[t])) + 0
      BY <2>1, <2>2 DEF IInv, Counted
    <3>2. stw[scope[t]].thread_countdown = 0
      BY <2>1, <2>2 DEF IInv, Counted
    <3>3. QED
      BY <2>2, <3>1, <3>2, AwaitedFinite, FS_EmptySet
  <2>6. ASSUME NEW s \in Scopes, stw'[s].requested
        PROVE  /\ stw'[s].thread_countdown = Cardinality(Awaited(s)')
                     + IF head' = stw'[s].requester THEN num_parked' ELSE 0
               /\ stw'[s].stop_event => stw'[s].thread_countdown = 0
               /\ \A u \in Threads : pc'[u] = "stopped" /\ scope'[u] = s =>
                     stw'[s].world_stopped
               /\ stw'[s].world_stopped => Awaited(s)' = {}
    <3>1. stw[s].requested /\ Awaited(s)' = Awaited(s)
      BY <2>3, <2>4, <2>6
    <3>2. s # scope[t] => \A u \in Threads : pc'[u] = "stopped" /\ scope'[u] = s =>
                             stw[s].world_stopped
      BY <2>1, <3>1 DEF IInv, Counted
    <3>3. s # scope[t] => (stw[s].world_stopped => Awaited(s)' = {})
      BY <3>1 DEF IInv, Counted
    <3>4. stw[s].thread_countdown = Cardinality(Awaited(s)) + IF head = stw[s].requester THEN num_parked ELSE 0
      BY <3>1 DEF IInv, Counted
    <3>5. stw'[s].stop_event => stw'[s].thread_countdown = 0
      BY <2>3, <3>1 DEF IInv, Counted
    <3>6. QED
      BY <2>1, <2>3, <2>5, <3>1, <3>2, <3>3, <3>4, <3>5
  <2>7. QED
    BY <2>6 DEF Counted
<1>17. CASE StartTheWorld(t)
  <2>1. /\ pc[t] = "stopped" /\ head = NoThread
        /\ UNCHANGED <<scope, head, num_parked>>
        /\ pc'[t] = "rwunlock" /\ \A u \in Threads \ {t} : pc'[u] = pc[u]
        /\ \A u \in Threads : state'[u] = IF u \in InScope(scope[t]) \ {t} THEN "detached"
                                                                         ELSE state[u]
    BY <1>0, <1>17 DEF StartTheWorld
  <2>2. /\ scope[t] \in Scopes /\ stw[scope[t]].requested
        /\ scope[t] \in {InterpOf[t], ALL}
    BY <2>1, Requester DEF Requesting
  <2>3. \A s \in Scopes : s # scope[t] => stw'[s] = stw[s]
    BY <1>17 DEF StartTheWorld, IInv, Types
  <2>4. stw'[scope[t]].requested = FALSE
    BY <1>17, <2>2 DEF StartTheWorld, IInv, Types, StwState
  <2>5. ASSUME NEW s \in Scopes, stw[s].requested, s # scope[t]
        PROVE  Awaited(s)' = Awaited(s)
    <3>1. \A u \in InScope(s) : u \notin InScope(scope[t])
      <4> SUFFICES ASSUME NEW u \in Threads, u \in InScope(s), u \in InScope(scope[t]) PROVE FALSE
        BY DEF InScope
      <4>1. s \in {InterpOf[u], ALL} /\ scope[t] \in {InterpOf[u], ALL}
        BY DEF InScope
      <4>2. QED
        BY <2>2, <2>5, <4>1, OneRequestPerThread
    <3>2. \A u \in Threads : state'[u] = "none" <=> state[u] = "none"
      BY <2>1 DEF InScope
    <3>3. InScope(s)' = InScope(s)
      BY <3>2 DEF InScope
    <3>4. \A u \in InScope(s) : state'[u] = state[u] /\ u \in Threads
      BY <2>1, <3>1 DEF InScope
    <3>5. t \notin InScope(s)
      BY <2>1, <3>1, Requester DEF Requesting
    <3>6. QED
      BY <2>1, <2>3, <2>5, <3>3, <3>4, <3>5 DEF Awaited
  <2>6. QED
    BY <2>1, <2>3, <2>4, <2>5 DEF IInv, Counted
<1>18. QED
  BY <1>1, <1>2, <1>3, <1>4, <1>5, <1>6, <1>7, <1>8, <1>9, <1>10, <1>11, <1>12, <1>13, <1>14,
     <1>15, <1>16, <1>17 DEF Step

(***************************************************************************)
(* So do the other actions.                                                *)
(***************************************************************************)

\* A thread attaches, if it is not suspended.
LEMMA AttachKeepsIInv ==
    ASSUME IInv, NEW t \in Threads, Attach(t)
    PROVE  IInv'
<1> USE DEF IInv, Types, TypeOK, Goto, Becomes, locks, scanning
<1>1. Types'
  BY DEF Attach
<1>2. Places'
  BY DEF Attach, Places
<1>3. LocksHeld'
  BY DEF Attach, Places, LocksHeld, InMutex, InRWMutex, Requesting, Scopes
<1>4. RequestsMade'
  BY DEF Attach, Places, RequestsMade, Requesting
<1>5. SuspendedForRequest'
  BY DEF Attach, Places, SuspendedForRequest, Requests, Scopes
<1>6. ScanHeld'
  BY DEF Attach, Places, ScanHeld, InScope
<1>7. Counted'
  BY AwaitedKept, CountedKept DEF Attach, Places
<1>8. QED
  BY <1>1, <1>2, <1>3, <1>4, <1>5, <1>6, <1>7

\* A thread that runs detaches.
LEMMA DetachKeepsIInv ==
    ASSUME IInv, NEW t \in Threads, Detach(t)
    PROVE  IInv'
<1> USE DEF IInv, Types, TypeOK, Goto, Becomes, locks, scanning
<1>1. Types'
  BY DEF Detach
<1>2. Places'
  BY DEF Detach, Places
<1>3. LocksHeld'
  BY DEF Detach, Places, LocksHeld, InMutex, InRWMutex, Requesting, Scopes
<1>4. RequestsMade'
  BY DEF Detach, Places, RequestsMade, Requesting
<1>5. SuspendedForRequest'
  BY DEF Detach, Places, SuspendedForRequest, Requests, Scopes
<1>6. ScanHeld'
  BY DEF Detach, Places, ScanHeld, InScope
<1>7. Counted'
  BY AwaitedKept, CountedKept DEF Detach, Places
<1>8. QED
  BY <1>1, <1>2, <1>3, <1>4, <1>5, <1>6, <1>7

\* A new thread begins to run.
LEMMA StartKeepsIInv ==
    ASSUME IInv, NEW t \in Threads, Start(t)
    PROVE  IInv'
<1> USE DEF IInv, Types, TypeOK, Goto, Becomes, locks, scanning
<1>1. Types'
  BY DEF Start
<1>2. Places'
  BY DEF Start, Places
<1>3. LocksHeld'
  BY DEF Start, Places, LocksHeld, InMutex, InRWMutex, Requesting, Scopes
<1>4. RequestsMade'
  BY DEF Start, Places, RequestsMade, Requesting
<1>5. SuspendedForRequest'
  BY DEF Start, Places, SuspendedForRequest, Requests, Scopes
<1>6. ScanHeld'
  BY DEF Start, Places, ScanHeld, InScope
<1>7. Counted'
  BY AwaitedKept, CountedKept DEF Start, Places
<1>8. QED
  BY <1>1, <1>2, <1>3, <1>4, <1>5, <1>6, <1>7

\* A request begins with the mutex of its scope, or with waiting for it.
LEMMA StopTheWorldKeepsIInv ==
    ASSUME IInv, NEW t \in Threads, NEW s \in Scopes, StopTheWorld(t, s)
    PROVE  IInv'
<1> USE DEF IInv, Types, TypeOK, Goto, Becomes, locks, scanning
<1>1. Types'
  BY DEF StopTheWorld
<1>2. Places'
  BY DEF StopTheWorld, Places
<1>3. LocksHeld'
  BY DEF StopTheWorld, Places, LocksHeld, InMutex, InRWMutex, Requesting, Scopes
<1>4. RequestsMade'
  BY DEF StopTheWorld, Places, RequestsMade, Requesting
<1>5. SuspendedForRequest'
  BY DEF StopTheWorld, Places, SuspendedForRequest, Requests, Scopes
<1>6. ScanHeld'
  BY DEF StopTheWorld, Places, ScanHeld, InScope
<1>7. Counted'
  BY AwaitedKept, CountedKept DEF StopTheWorld, Places
<1>8. QED
  BY <1>1, <1>2, <1>3, <1>4, <1>5, <1>6, <1>7

\* The mutex of a request's scope goes to the next requester.
LEMMA MutexHandOffKeepsIInv ==
    ASSUME IInv, NEW t \in Threads, NEW u \in Threads, MutexHandOff(t, u)
    PROVE  IInv'
<1> USE DEF IInv, Types, TypeOK, Goto, Becomes, locks, scanning
<1>1. Types'
  BY DEF MutexHandOff, Unlocked
<1>2. Places'
  BY DEF MutexHandOff, Unlocked, Places
<1>3. LocksHeld'
  BY DEF MutexHandOff, Unlocked, Places, LocksHeld, InMutex, InRWMutex, Requesting, Scopes
<1>4. RequestsMade'
  BY DEF MutexHandOff, Unlocked, Places, RequestsMade, Requesting
<1>5. SuspendedForRequest'
  BY DEF MutexHandOff, Unlocked, Places, SuspendedForRequest, Requests, Scopes
<1>6. ScanHeld'
  BY DEF MutexHandOff, Unlocked, Places, ScanHeld, InScope
<1>7. Counted'
  BY AwaitedKept, CountedKept DEF MutexHandOff, Unlocked, Places
<1>8. QED
  BY <1>1, <1>2, <1>3, <1>4, <1>5, <1>6, <1>7

\* A new thread state is suspended if there is a request, and nobody waits for it.
LEMMA NewKeepsIInv ==
    ASSUME IInv, NEW t \in Threads, NEW u \in Threads, New(t, u)
    PROVE  IInv'
<1> USE DEF IInv, Types, TypeOK, Goto, Becomes, locks, scanning
<1>1. Types'
  BY DEF New, NewState
<1>2. Places'
  BY DEF New, NewState, Places
<1>3. LocksHeld'
  BY DEF New, NewState, Places, LocksHeld, InMutex, InRWMutex, Requesting, Scopes
<1>4. RequestsMade'
  BY DEF New, NewState, Places, RequestsMade, Requesting
<1>5. SuspendedForRequest'
  BY DEF New, NewState, Places, SuspendedForRequest, Requests, Scopes
<1>6. ScanHeld'
  BY DEF New, NewState, Places, ScanHeld, InScope
<1>7. Counted'
  <2>1. ASSUME NEW s \in Scopes, stw[s].requested
        PROVE  Awaited(s)' = Awaited(s)
    <3>1. state[u] = "none" /\ pc'[u] = "new" /\ u # t /\ stw' = stw
      BY DEF New, Places
    <3>2. s \in {InterpOf[u], ALL} => state'[u] = "suspended"
      BY <2>1 DEF New, NewState, Requests
    <3>3. u \notin Awaited(s) /\ u \notin Awaited(s)'
      BY <3>1, <3>2 DEF Awaited, InScope
    <3>4. \A v \in Threads \ {u} : state'[v] = state[v] /\ pc'[v] = pc[v] /\ scope'[v] = scope[v]
      BY DEF New
    <3>5. \A v \in Threads \ {u} : v \in Awaited(s)' <=> v \in Awaited(s)
      BY <3>1, <3>4 DEF Awaited, InScope
    <3>6. QED
      BY <3>3, <3>5 DEF Awaited, InScope
  <2>2. QED
    BY <2>1, CountedKept DEF New
<1>8. QED
  BY <1>1, <1>2, <1>3, <1>4, <1>5, <1>6, <1>7

\* Deleting its state counts a thread out of the requests that await it.
LEMMA DeleteFacts ==
    ASSUME IInv, NEW u \in Threads, pc[u] \in {"run", "new"}, Delete(u)
    PROVE  /\ stw' \in [Scopes -> StwState]
           /\ \A s \in Scopes :
                /\ stw'[s].requested = stw[s].requested
                /\ stw'[s].requester = stw[s].requester
                /\ stw'[s].world_stopped = stw[s].world_stopped
                /\ u \notin Awaited(s) /\ stw[s].requested => stw'[s] = stw[s]
                /\ u \in Awaited(s) /\ stw[s].requested =>
                     /\ stw'[s].thread_countdown = Cardinality(Awaited(s) \ {u})
                     /\ stw'[s].stop_event => stw'[s].thread_countdown = 0
                     /\ ~stw'[s].world_stopped
<1> DEFINE S == IF state[u] = "suspended" THEN {} ELSE Requests(InterpOf[u])
<1>1. S \in SUBSET Scopes /\ stw' = Decremented(S) /\ head = NoThread
  BY DEF Delete, Requests, Scopes
<1>2. ASSUME NEW s \in Scopes, stw[s].requested
      PROVE  s \in S <=> u \in Awaited(s)
  <2>1. stw[s].requester # u /\ state[u] # "none"
    BY <1>2 DEF IInv, RequestsMade, Requesting, Places
  <2>2. u \in Awaited(s) <=> s \in {InterpOf[u], ALL} /\ state[u] # "suspended"
    BY <2>1 DEF Awaited, InScope
  <2>3. QED
    BY <1>2, <2>2 DEF Requests
<1>3. \A s \in S : stw[s].requested /\ u \in Awaited(s)
  BY <1>1, <1>2 DEF Requests
<1> HIDE DEF S
<1>4. /\ Decremented(S) \in [Scopes -> StwState]
      /\ \A s \in Scopes :
           /\ Decremented(S)[s].requested = stw[s].requested
           /\ Decremented(S)[s].requester = stw[s].requester
           /\ Decremented(S)[s].world_stopped = stw[s].world_stopped
           /\ s \notin S => Decremented(S)[s] = stw[s]
           /\ s \in S =>
                /\ Decremented(S)[s].thread_countdown = Cardinality(Awaited(s) \ {u})
                /\ Decremented(S)[s].stop_event => Decremented(S)[s].thread_countdown = 0
                /\ ~Decremented(S)[s].world_stopped
  BY <1>1, <1>3, DecrementedFacts
<1>5. QED
  BY <1>1, <1>2, <1>4

\* A thread state that is deleted is counted out.
LEMMA DeleteKeepsIInv ==
    ASSUME IInv, NEW t \in Threads, NEW u \in Threads, DeleteOne(t, u)
    PROVE  IInv'
<1> USE DEF IInv, Types, TypeOK, Goto, Becomes, locks, scanning
<1>1. pc[u] \in {"run", "new"} /\ Delete(u)
  BY DEF DeleteOne
<1>2. /\ stw' \in [Scopes -> StwState]
      /\ \A s \in Scopes : /\ stw'[s].requested = stw[s].requested
                           /\ stw'[s].requester = stw[s].requester
                           /\ stw'[s].world_stopped = stw[s].world_stopped
  BY <1>1, DeleteFacts
<1>3. /\ head = NoThread /\ state'[u] = "none" /\ pc'[u] = "gone"
      /\ state' = [state EXCEPT ![u] = "none"] /\ pc' = [pc EXCEPT ![u] = "gone"]
      /\ \A v \in Threads \ {u} : state'[v] = state[v] /\ pc'[v] = pc[v]
      /\ UNCHANGED <<scope, mutex, writer, readers, head, todo, target, num_parked, forked>>
      /\ please_stop' = [please_stop EXCEPT ![u] = FALSE]
  BY <1>1 DEF Delete
<1>4. Types'
  <2>1. \A s \in Scopes : /\ stw'[s].thread_countdown \in Nat
                          /\ stw'[s].requester \in Threads \cup {NoThread}
    BY <1>2 DEF StwState
  <2>2. QED
    BY <1>2, <1>3, <2>1
<1>5. Places'
  BY <1>3 DEF Places
<1>6. LocksHeld'
  BY <1>3 DEF LocksHeld, InMutex, InRWMutex, Requesting
<1>7. RequestsMade'
  <2>1. \A v \in Threads : pc[v] \in Requesting => scope[v] \in Scopes
    BY Requester
  <2>2. \A v \in Threads : pc'[v] \in Requesting <=> pc[v] \in Requesting
    BY <1>1, <1>3 DEF Requesting
  <2>3. QED
    BY <1>2, <1>3, <2>1, <2>2 DEF RequestsMade
<1>8. SuspendedForRequest'
  <2>1. ALL \in Scopes /\ \A v \in Threads : InterpOf[v] \in Scopes
    BY DEF Scopes
  <2>2. \A v \in Threads : Requests(InterpOf[v])' = Requests(InterpOf[v])
    BY <1>2, <2>1 DEF Requests
  <2>3. QED
    BY <1>2, <1>3, <2>1, <2>2 DEF SuspendedForRequest
<1>9. ScanHeld'
  BY <1>1, <1>3 DEF ScanHeld
<1>10. Counted'
  <2>1. ASSUME NEW s \in Scopes, stw'[s].requested
        PROVE  Awaited(s)' = Awaited(s) \ {u}
    <3>1. InScope(s)' = InScope(s) \ {u}
      BY <1>3 DEF InScope
    <3>2. u \notin Awaited(s)'
      BY <3>1 DEF Awaited
    <3>3. \A v \in Threads \ {u} : v \in Awaited(s)' <=> v \in Awaited(s)
      BY <1>2, <1>3, <3>1 DEF Awaited
    <3>4. QED
      BY <3>2, <3>3 DEF Awaited, InScope
  <2>2. ASSUME NEW s \in Scopes, stw'[s].requested
        PROVE  /\ stw'[s].thread_countdown = Cardinality(Awaited(s)')
               /\ Cardinality(Awaited(s)') \in Nat
               /\ stw'[s].stop_event => stw'[s].thread_countdown = 0
    <3>1. stw[s].requested /\ Awaited(s)' = Awaited(s) \ {u}
      BY <1>2, <2>1, <2>2
    <3>2. Cardinality(Awaited(s) \ {u}) \in Nat
      BY AwaitedFinite, FS_Subset, FS_CardinalityType
    <3>3. CASE u \in Awaited(s)
      BY <1>1, <3>1, <3>2, <3>3, DeleteFacts
    <3>4. CASE u \notin Awaited(s)
      <4>1. stw'[s] = stw[s]
        BY <1>1, <3>1, <3>4, DeleteFacts
      <4>2. Awaited(s)' = Awaited(s)
        BY <3>1, <3>4
      <4>3. stw[s].thread_countdown = Cardinality(Awaited(s)) + 0
        BY <1>3, <3>1 DEF Counted, ScanHeld
      <4>4. stw[s].stop_event => stw[s].thread_countdown = 0
        BY <3>1 DEF Counted
      <4>5. Cardinality(Awaited(s)) + 0 = Cardinality(Awaited(s))
        BY AwaitedFinite
      <4>6. QED
        BY <3>1, <3>2, <4>1, <4>2, <4>3, <4>4, <4>5
    <3>5. QED
      BY <3>3, <3>4
  <2>3. num_parked = 0 /\ num_parked' = 0
    BY <1>3 DEF ScanHeld
  <2>4. \A v \in Threads : pc'[v] = "stopped" => pc[v] = "stopped"
    BY <1>3
  <2>5. \A s \in Scopes : stw'[s].requested =>
          /\ \A v \in Threads : pc'[v] = "stopped" /\ scope'[v] = s => stw'[s].world_stopped
          /\ stw'[s].world_stopped => Awaited(s)' = {}
    BY <1>2, <1>3, <2>1, <2>4 DEF Counted
  <2>6. QED
    BY <2>2, <2>3, <2>5 DEF Counted
<1>11. QED
  BY <1>4, <1>5, <1>6, <1>7, <1>8, <1>9, <1>10

\* In the child of a fork the request of the runtime goes on, with nobody else.
LEMMA ForkKeepsIInv ==
    ASSUME IInv, NEW t \in Threads, Fork(t)
    PROVE  IInv'
<1> USE DEF IInv, Types, TypeOK, Goto, Becomes, locks, scanning
<1>1. /\ pc[t] = "stopped" /\ scope[t] = ALL /\ ALL \in Scopes /\ state[t] = "attached"
      /\ head = NoThread /\ head' = NoThread /\ num_parked = 0 /\ num_parked' = 0
      /\ UNCHANGED <<stw, writer, readers, todo, target>>
  BY DEF Fork, Places, ScanHeld, Scopes
<1>2. /\ \A u \in Threads : /\ state'[u] = IF u = t THEN "attached" ELSE "none"
                            /\ pc'[u] = IF u = t THEN "stopped" ELSE "gone"
                            /\ scope'[u] = IF u = t THEN ALL ELSE NoScope
      /\ mutex'[ALL] = mutex[ALL]
  BY <1>1 DEF Fork
<1>3. stw[ALL].requested /\ stw[ALL].requester = t /\ stw[ALL].world_stopped
  BY <1>1, Requester DEF Requesting, Counted
<1>4. \A s \in Scopes : stw[s].requested => s = ALL
  BY <1>3, RuntimeRequestIsAlone
<1>5. Types'
  BY <1>1 DEF Fork
<1>6. Places'
  BY <1>2 DEF Places
<1>7. LocksHeld'
  BY <1>1, <1>2 DEF LocksHeld, InMutex, InRWMutex, Requesting
<1>8. RequestsMade'
  BY <1>1, <1>2, <1>3, <1>4 DEF RequestsMade, Requesting
<1>9. SuspendedForRequest'
  BY <1>2 DEF SuspendedForRequest
<1>10. ScanHeld'
  BY <1>1, <1>2 DEF ScanHeld
<1>11. Counted'
  <2>1. Awaited(ALL)' = {}
    BY <1>1, <1>2, <1>3 DEF Awaited, InScope
  <2>2. stw[ALL].thread_countdown = 0
    <3>1. Awaited(ALL) = {} /\ stw[ALL].thread_countdown = Cardinality(Awaited(ALL)) + 0
      BY <1>1, <1>3 DEF Counted
    <3>2. QED
      BY <3>1, FS_EmptySet
  <2>3. Cardinality(Awaited(ALL)') = 0
    BY <2>1, FS_EmptySet
  <2>4. QED
    <3>1. \A s \in Scopes : stw'[s].requested => s = ALL
      BY <1>1, <1>4
    <3>2. stw[ALL]' = stw[ALL] /\ stw'[ALL].world_stopped
      BY <1>1, <1>3
    <3>3. (IF head' = stw'[ALL].requester THEN num_parked' ELSE 0) = 0
      BY <1>1
    <3>4. /\ stw'[ALL].thread_countdown = Cardinality(Awaited(ALL)')
                + IF head' = stw'[ALL].requester THEN num_parked' ELSE 0
          /\ stw'[ALL].stop_event => stw'[ALL].thread_countdown = 0
          /\ stw'[ALL].world_stopped => Awaited(ALL)' = {}
      BY <2>1, <2>2, <2>3, <3>2, <3>3
    <3> SUFFICES ASSUME NEW s \in Scopes, stw'[s].requested, s = ALL
                 PROVE  /\ stw'[s].thread_countdown = Cardinality(Awaited(s)')
                             + IF head' = stw'[s].requester THEN num_parked' ELSE 0
                        /\ stw'[s].stop_event => stw'[s].thread_countdown = 0
                        /\ \A u \in Threads : pc'[u] = "stopped" /\ scope'[u] = s =>
                              stw'[s].world_stopped
                        /\ stw'[s].world_stopped => Awaited(s)' = {}
      BY <3>1 DEF Counted
    <3>5. QED
      BY <3>2, <3>4
<1>12. QED
  BY <1>5, <1>6, <1>7, <1>8, <1>9, <1>10, <1>11

(***************************************************************************)
(* What follows for every behaviour.                                       *)
(***************************************************************************)

\* Every step keeps the invariant.
LEMMA NextKeepsIInv == IInv /\ [Next]_vars => IInv'
<1> SUFFICES ASSUME IInv, [Next]_vars PROVE IInv'
  OBVIOUS
<1>1. CASE UNCHANGED vars
  <2>1. UNCHANGED <<state, please_stop, pc, scope, stw, mutex, writer, readers, head, todo,
                    target, num_parked, forked>>
    BY <1>1 DEF vars, locks, scanning
  <2>2. \A s : Awaited(s)' = Awaited(s) /\ InScope(s)' = InScope(s)
                /\ Requests(s)' = Requests(s)
    BY <2>1 DEF Awaited, InScope, Requests
  <2>3. Types' /\ Places' /\ LocksHeld' /\ RequestsMade'
    BY <2>1 DEF IInv, Types, TypeOK, Places, LocksHeld, RequestsMade
  <2>4. SuspendedForRequest' /\ ScanHeld' /\ Counted'
    BY <2>1, <2>2 DEF IInv, SuspendedForRequest, ScanHeld, Counted
  <2>5. QED
    BY <2>3, <2>4 DEF IInv
<1>2. ASSUME NEW t \in Threads, Step(t) PROVE IInv'
  BY <1>2, StepKeepsTypes, StepKeepsPlaces, StepKeepsLocksHeld, StepKeepsRequestsMade,
     StepKeepsSuspendedForRequest, StepKeepsScanHeld, StepKeepsCounted DEF IInv
<1>3. QED
  BY <1>1, <1>2, AttachKeepsIInv, DetachKeepsIInv, StartKeepsIInv, StopTheWorldKeepsIInv,
     MutexHandOffKeepsIInv, NewKeepsIInv, DeleteKeepsIInv, ForkKeepsIInv DEF Next

\* The invariant holds in every state.
LEMMA Invariance == Spec => []IInv
BY InitIInv, NextKeepsIInv, PTL DEF Spec

\* The variables keep their types; the countdown of a request, in particular,
\* does not drop below zero.
THEOREM StopTheWorldTypes == Spec => []TypeOK
BY Invariance, PTL DEF IInv, Types

\* While the world of a request is stopped all the other threads of its scope
\* are suspended, and nobody stays suspended once there is no request.
THEOREM WorldIsStopped == Spec => []WorldStopped
<1>1. IInv => WorldStopped
  BY DEF IInv, RequestsMade, SuspendedForRequest, Counted, WorldStopped, Awaited
<1>2. QED
  BY <1>1, Invariance, PTL

\* A request's countdown, and what its scan has parked, is at all times the
\* number of threads it awaits; and requests that share threads exclude each
\* other.
THEOREM CountdownIsExact == Spec => []CountdownExact
<1>1. IInv => CountdownExact
  BY RuntimeRequestIsAlone DEF IInv, Types, Counted, CountdownExact
<1>2. QED
  BY <1>1, Invariance, PTL

=============================================================================

---------------------------- MODULE SectionProofs ----------------------------
(***************************************************************************)
(* Proofs about critical sections, for any number of threads and mutexes   *)
(* and any nesting: a thread that runs has the mutexes of its active       *)
(* sections, and no threads wait for each other in a circle.               *)
(***************************************************************************)
EXTENDS CriticalSection, SequenceTheorems, FiniteSetTheorems, WellFoundedInduction, TLAPS

\* The labels of a thread with critical sections.
CsPC == {"run", "begin2", "lock", "suspend", "parked", "detached", "pop"}

\* The types of what is kept of the sections.
SectionTypes ==
    /\ owner \in [Mutexes -> Threads \cup {NoThread}]
    /\ queue \in [Mutexes -> Seq(Threads)]
    /\ signal \in [Threads -> {"no", "woken", "handed off"}]
    /\ stack \in [Threads -> Seq(Section)]
    /\ want \in [Threads -> Seq(Mutexes)]
    /\ release \in [Threads -> Seq(Mutexes)]
    /\ level \in [Threads -> Nat]
    /\ pc \in [Threads -> CsPC]

\* One mutex, or two in the order of their addresses.
Sorted(on) ==
    \/ \E m \in Mutexes : on = <<m>>
    \/ \E m, n \in Mutexes : m < n /\ on = <<m, n>>

\* The section on top.
TopOf(t) == stack[t][Len(stack[t])]

\* t has yet to lock mutexes of the section on top.
Wanting(t) == pc[t] \in {"lock", "suspend", "parked"} /\ want[t] # <<>>

\* What a thread's stack looks like: every section is recorded but the one on
\* top, while its mutexes are locked; the active sections are on top of the
\* others, but while they are suspended, from the top down.
Shape(t) ==
    /\ \A k \in DOMAIN stack[t] :
          /\ Sorted(stack[t][k].on)
          /\ stack[t][k].recorded <=> ~(Wanting(t) /\ k = Len(stack[t]))
    /\ Wanting(t) =>
          /\ stack[t] # <<>>
          /\ \/ want[t] = TopOf(t).on
             \/ \E m, n \in Mutexes : m < n /\ TopOf(t).on = <<m, n>> /\ want[t] = <<n>>
    /\ \A j, k \in DOMAIN stack[t] :
          j < k /\ stack[t][j].active /\ ~stack[t][k].active =>
             pc[t] = "suspend" /\ level[t] < k

\* What goes with each label.
Phase(t) ==
    /\ pc[t] \in {"lock", "parked"} => want[t] # <<>>
    /\ pc[t] = "begin2" => \E m, n \in Mutexes : m < n /\ want[t] = <<m, n>>
    /\ pc[t] \in {"run", "pop", "detached"} => want[t] = <<>>
    /\ pc[t] \notin {"suspend", "pop"} => release[t] = <<>>
    /\ pc[t] = "pop" => stack[t] # <<>>
    /\ pc[t] \in {"run", "begin2", "pop"} /\ stack[t] # <<>> => TopOf(t).active
    /\ pc[t] = "suspend" =>
          /\ level[t] <= Len(stack[t])
          /\ \A k \in DOMAIN stack[t] : level[t] < k => ~stack[t][k].active
    /\ pc[t] # "suspend" => level[t] = 0
    /\ pc[t] \in {"parked", "detached"} => \A k \in DOMAIN stack[t] : ~stack[t][k].active

\* A thread in a queue waits for that mutex, and is there once; one that was
\* woken is in no queue.
Queues ==
    /\ \A m \in Mutexes : \A i, j \in DOMAIN queue[m] : queue[m][i] = queue[m][j] => i = j
    /\ \A m \in Mutexes : \A i \in DOMAIN queue[m] : \A t \in Threads :
          t = queue[m][i] => /\ pc[t] \in {"suspend", "parked"} /\ want[t] # <<>>
                             /\ want[t][1] = m /\ signal[t] = "no"
    /\ \A t \in Threads :
          signal[t] # "no" => pc[t] \in {"suspend", "parked"} /\ want[t] # <<>>

\* The sections whose mutexes t has, but the one that it ends.
Live(t) ==
    {k \in DOMAIN stack[t] : /\ stack[t][k].active /\ stack[t][k].recorded
                             /\ ~(pc[t] = "pop" /\ k = Len(stack[t]))}

\* The mutexes of the k-th section of t.
On(t, k) == {stack[t][k].on[i] : i \in DOMAIN stack[t][k].on}

\* The mutexes that it has of a section that is not complete.
Extra(t) ==
    {m \in Mutexes :
        \/ pc[t] = "begin2" /\ m = want[t][1]
        \/ Wanting(t) /\ want[t] # TopOf(t).on /\ m = TopOf(t).on[1]
        \/ signal[t] = "handed off" /\ m = want[t][1]}

\* The mutexes that it has still to unlock.
Releases(t) == {release[t][i] : i \in DOMAIN release[t]}

\* A thread owns the mutexes of its live sections, those of an incomplete
\* one, and those to be unlocked, and each for one reason.
Owns(t) ==
    /\ \A m \in Mutexes : owner[m] = t <=>
          m \in Extra(t) \/ m \in Releases(t) \/ \E k \in Live(t) : m \in On(t, k)
    /\ \A k \in Live(t) : \A m \in On(t, k) :
          m \notin Extra(t) /\ m \notin Releases(t) /\ \A j \in Live(t) : m \in On(t, j) => j = k
    /\ Extra(t) \cap Releases(t) = {}
    /\ \A i, j \in DOMAIN release[t] : release[t][i] = release[t][j] => i = j

\* The invariant of the critical sections.
SectionsInv ==
    /\ Parameters
    /\ SectionTypes
    /\ Queues
    /\ \A t \in Threads : Shape(t) /\ Phase(t) /\ Owns(t)

\* What the operators on sequences are.
LEMMA SectionSeqs ==
    /\ \A s : Last(s) = s[Len(s)]
    /\ \A s : Front(s) = SubSeq(s, 1, Len(s) - 1)
    /\ \A s : ToSet(s) = {s[i] : i \in DOMAIN s}
BY DEF Last, Front, ToSet

\* What an element of a sorted list of mutexes is.
LEMMA SortedFacts ==
    ASSUME SectionsInv, NEW on, Sorted(on)
    PROVE  /\ on \in Seq(Mutexes) /\ on # <<>> /\ Len(on) \in {1, 2}
           /\ \A i \in DOMAIN on : on[i] \in Mutexes
           /\ \A i, j \in DOMAIN on : on[i] = on[j] => i = j
<1>1. ASSUME NEW m \in Mutexes, on = <<m>>
      PROVE  /\ on \in Seq(Mutexes) /\ on # <<>> /\ Len(on) \in {1, 2}
             /\ \A i \in DOMAIN on : on[i] \in Mutexes
             /\ \A i, j \in DOMAIN on : on[i] = on[j] => i = j
  BY <1>1
<1>2. ASSUME NEW m \in Mutexes, NEW n \in Mutexes, m < n, on = <<m, n>>
      PROVE  /\ on \in Seq(Mutexes) /\ on # <<>> /\ Len(on) \in {1, 2}
             /\ \A i \in DOMAIN on : on[i] \in Mutexes
             /\ \A i, j \in DOMAIN on : on[i] = on[j] => i = j
  <2>1. m # n
    BY <1>2 DEF SectionsInv, Parameters
  <2>2. DOMAIN on = {1, 2} /\ on[1] = m /\ on[2] = n
    BY <1>2
  <2>3. QED
    BY <1>2, <2>1, <2>2
<1>3. QED
  BY <1>1, <1>2 DEF Sorted

\* A section is pushed, ...
LEMMA PushFacts ==
    ASSUME NEW S, NEW s \in Seq(S), NEW e \in S
    PROVE  /\ Append(s, e) \in Seq(S) /\ Append(s, e) # <<>>
           /\ Len(Append(s, e)) = Len(s) + 1 /\ Len(s) \in Nat
           /\ DOMAIN Append(s, e) = (DOMAIN s) \cup {Len(s) + 1} /\ Len(s) + 1 \notin DOMAIN s
           /\ DOMAIN s = 1..Len(s)
           /\ \A i \in DOMAIN s : Append(s, e)[i] = s[i]
           /\ Append(s, e)[Len(s) + 1] = e
OBVIOUS

\* ... or popped, ...
LEMMA FrontFacts ==
    ASSUME NEW S, NEW s \in Seq(S), s # <<>>
    PROVE  /\ SubSeq(s, 1, Len(s) - 1) \in Seq(S)
           /\ Len(SubSeq(s, 1, Len(s) - 1)) = Len(s) - 1 /\ Len(s) \in Nat \ {0}
           /\ DOMAIN SubSeq(s, 1, Len(s) - 1) = 1..(Len(s) - 1) /\ DOMAIN s = 1..Len(s)
           /\ \A i \in 1..(Len(s) - 1) : SubSeq(s, 1, Len(s) - 1)[i] = s[i]
<1>1. Len(s) \in Nat \ {0} /\ DOMAIN s = 1..Len(s) /\ \A i \in 1..Len(s) : s[i] \in S
  BY LenProperties
<1>2. \A i \in 1..(Len(s) - 1) : s[i] \in S
  BY <1>1
<1>3. /\ SubSeq(s, 1, Len(s) - 1) \in Seq(S)
      /\ Len(SubSeq(s, 1, Len(s) - 1)) = IF 1 <= Len(s) - 1 THEN Len(s) - 1 - 1 + 1 ELSE 0
      /\ \A i \in 1..(Len(s) - 1 - 1 + 1) : SubSeq(s, 1, Len(s) - 1)[i] = s[1 + i - 1]
  BY <1>1, <1>2, SubSeqProperties
<1>4. QED
  BY <1>1, <1>3

\* ... or another takes the place of the one on top.
LEMMA ReplaceFacts ==
    ASSUME NEW S, NEW s \in Seq(S), s # <<>>, NEW e \in S, NEW r,
           r = [s EXCEPT ![Len(s)] = e] \/ r = Append(SubSeq(s, 1, Len(s) - 1), e)
    PROVE  /\ r \in Seq(S) /\ r # <<>>
           /\ Len(r) = Len(s) /\ Len(s) \in Nat \ {0}
           /\ DOMAIN r = DOMAIN s /\ DOMAIN s = 1..Len(s)
           /\ \A i \in DOMAIN s : r[i] = IF i = Len(s) THEN e ELSE s[i]
<1>1. CASE r = [s EXCEPT ![Len(s)] = e]
  BY <1>1
<1>2. CASE r = Append(SubSeq(s, 1, Len(s) - 1), e)
  <2>1. PICK f \in Seq(S) : /\ f = SubSeq(s, 1, Len(s) - 1) /\ Len(f) = Len(s) - 1
                            /\ \A i \in 1..(Len(s) - 1) : f[i] = s[i]
    BY FrontFacts
  <2>2. r = Append(f, e)
    BY <1>2, <2>1
  <2>3. Len(s) \in Nat \ {0} /\ DOMAIN s = 1..Len(s)
    BY LenProperties
  <2>4. QED
    BY <2>1, <2>2, <2>3, PushFacts
<1>3. QED
  BY <1>1, <1>2

\* What a step of t leaves alone.
OthersKept(t) ==
    \A x \in Threads : x # t =>
        /\ stack'[x] = stack[x] /\ want'[x] = want[x] /\ release'[x] = release[x]
        /\ level'[x] = level[x] /\ pc'[x] = pc[x]

\* A step of t does not concern the mutexes of the others, nor their signals.
SharedKept(t) ==
    \A x \in Threads : x # t =>
        /\ signal'[x] = signal[x]
        /\ \A m \in Mutexes : owner'[m] = x <=> owner[m] = x

\* A step of t leaves the sections of the other threads in shape, ...
LEMMA OthersKeepShape ==
    ASSUME SectionsInv, NEW t \in Threads, OthersKept(t), NEW x \in Threads, x # t
    PROVE  Shape(x)' /\ Phase(x)'
<1>1. Shape(x) /\ Phase(x)
  BY DEF SectionsInv
<1>2. Shape(x)'
  BY <1>1 DEF Shape, Wanting, TopOf, OthersKept
<1>3. Phase(x)'
  BY <1>1 DEF Phase, TopOf, OthersKept
<1>4. QED
  BY <1>2, <1>3

\* ... and theirs the mutexes that they have, ...
LEMMA OthersKeepOwns ==
    ASSUME SectionsInv, NEW t \in Threads, OthersKept(t), SharedKept(t),
           NEW x \in Threads, x # t
    PROVE  Owns(x)'
<1>1. Owns(x)
  BY DEF SectionsInv
<1>2. /\ stack'[x] = stack[x] /\ want'[x] = want[x] /\ release'[x] = release[x]
      /\ pc'[x] = pc[x] /\ signal'[x] = signal[x]
  BY DEF OthersKept, SharedKept
<1>3. Live(x)' = Live(x)
  BY <1>2 DEF Live
<1>4. Extra(x)' = Extra(x)
  BY <1>2 DEF Extra, Wanting, TopOf
<1>5. Releases(x)' = Releases(x)
  BY <1>2 DEF Releases
<1>6. \A k : On(x, k)' = On(x, k)
  BY <1>2 DEF On
<1>7. \A m \in Mutexes : owner'[m] = x <=> owner[m] = x
  BY DEF SharedKept
<1>8. QED
  BY <1>1, <1>2, <1>3, <1>4, <1>5, <1>6, <1>7 DEF Owns

\* ... so that the invariant is to be shown of t only.
LEMMA StepKeepsSections ==
    ASSUME SectionsInv, NEW t \in Threads, OthersKept(t), SharedKept(t),
           SectionTypes', Queues', Shape(t)', Phase(t)', Owns(t)'
    PROVE  SectionsInv'
BY OthersKeepShape, OthersKeepOwns DEF SectionsInv, Parameters

\* t is in no queue and has no signal, or stays where it is.
LEMMA QueuesKept ==
    ASSUME SectionsInv, NEW t \in Threads, OthersKept(t), UNCHANGED <<queue, signal>>,
           \/ pc[t] \notin {"suspend", "parked"}
           \/ want[t] = <<>>
           \/ pc'[t] \in {"suspend", "parked"} /\ want'[t] = want[t]
    PROVE  Queues'
<1>1. Queues
  BY DEF SectionsInv
<1>2. \A x \in Threads : pc[x] \in {"suspend", "parked"} /\ want[x] # <<>> =>
         pc'[x] \in {"suspend", "parked"} /\ want'[x] = want[x]
  BY DEF OthersKept
<1>3. QED
  BY <1>1, <1>2 DEF Queues

\* A thread that is not waiting in a mutex's queue has no signal.
LEMMA NoSignal ==
    ASSUME SectionsInv, NEW t \in Threads,
           pc[t] \notin {"suspend", "parked"} \/ want[t] = <<>>
    PROVE  signal[t] = "no" /\ \A m \in Mutexes : \A i \in DOMAIN queue[m] : queue[m][i] # t
<1>1. Queues
  BY DEF SectionsInv
<1>2. QED
  BY <1>1 DEF Queues

\* What is known of one thread.
LEMMA ThreadFacts ==
    ASSUME SectionsInv, NEW t \in Threads
    PROVE  /\ SectionTypes /\ Queues /\ Shape(t) /\ Phase(t) /\ Owns(t)
           /\ stack[t] \in Seq(Section) /\ want[t] \in Seq(Mutexes)
           /\ release[t] \in Seq(Mutexes) /\ level[t] \in Nat /\ pc[t] \in CsPC
           /\ Len(stack[t]) \in Nat /\ DOMAIN stack[t] = 1..Len(stack[t])
           /\ stack[t] # <<>> <=> Len(stack[t]) # 0
           /\ \A k \in DOMAIN stack[t] : stack[t][k] \in Section
<1>1. SectionTypes /\ Queues /\ Shape(t) /\ Phase(t) /\ Owns(t)
  BY DEF SectionsInv
<1>2. /\ stack[t] \in Seq(Section) /\ want[t] \in Seq(Mutexes)
      /\ release[t] \in Seq(Mutexes) /\ level[t] \in Nat /\ pc[t] \in CsPC
  BY <1>1 DEF SectionTypes
<1>3. /\ Len(stack[t]) \in Nat /\ DOMAIN stack[t] = 1..Len(stack[t])
      /\ stack[t] # <<>> <=> Len(stack[t]) # 0
      /\ \A k \in DOMAIN stack[t] : stack[t][k] \in Section
  BY <1>2, LenProperties, EmptySeq
<1>4. QED
  BY <1>1, <1>2, <1>3

\* t takes a mutex that is free.
LEMMA TakeFacts ==
    ASSUME SectionsInv, NEW t \in Threads, NEW m \in Mutexes,
           Free(m), Take(t, m)
    PROVE  /\ owner' \in [Mutexes -> Threads \cup {NoThread}]
           /\ UNCHANGED <<queue, signal>>
           /\ \A a \in Mutexes : owner'[a] = t <=> owner[a] = t \/ a = m
           /\ owner[m] # t
           /\ SharedKept(t)
<1>1. owner \in [Mutexes -> Threads \cup {NoThread}] /\ owner[m] = NoThread
      /\ owner' = [owner EXCEPT ![m] = t] /\ UNCHANGED <<queue, signal>>
  BY DEF Free, Take, SectionsInv, SectionTypes
<1>2. NoThread \notin Threads
  BY DEF SectionsInv, Parameters
<1>3. QED
  BY <1>1, <1>2 DEF SharedKept

\* A section that is yet to be locked is pushed.
LEMMA BeginSlowKeeps ==
    ASSUME SectionsInv, NEW t \in Threads, NEW on, Sorted(on), NEW rest,
           \/ pc[t] = "run" /\ rest = on
           \/ pc[t] = "begin2" /\ want[t] = on /\ rest = <<on[2]>>,
           BeginSlow(t, on, rest), UNCHANGED <<release, level>>
    PROVE  SectionsInv'
<1> DEFINE n == Len(stack[t])
           new == [on |-> on, recorded |-> FALSE, active |-> TRUE]
<1>1. /\ SectionTypes /\ Queues /\ Shape(t) /\ Phase(t) /\ Owns(t)
      /\ stack[t] \in Seq(Section) /\ n \in Nat /\ DOMAIN stack[t] = 1..n
  BY ThreadFacts
<1>2. on \in Seq(Mutexes) /\ on # <<>> /\ (\A i \in DOMAIN on : on[i] \in Mutexes)
  BY SortedFacts
<1>3. pc[t] = "begin2" => \E a, b \in Mutexes : a < b /\ on = <<a, b>>
  BY <1>1 DEF Phase
<1>4. rest \in Seq(Mutexes) /\ rest # <<>>
  <2>1. CASE rest = on
    BY <1>2, <2>1
  <2>2. ASSUME NEW a \in Mutexes, NEW b \in Mutexes, on = <<a, b>>, rest = <<on[2]>>
        PROVE  rest \in Seq(Mutexes) /\ rest # <<>>
    BY <2>2
  <2>3. QED
    BY <1>3, <2>1, <2>2
<1>5. new \in Section
  BY <1>2 DEF Section
<1>6. /\ stack' = [stack EXCEPT ![t] = Append(stack[t], new)]
      /\ want' = [want EXCEPT ![t] = rest]
      /\ pc' = [pc EXCEPT ![t] = "lock"]
      /\ UNCHANGED <<owner, queue, signal, release, level>>
  BY DEF BeginSlow, Push, Goto, locks
<1>7. /\ Append(stack[t], new) \in Seq(Section)
      /\ Len(Append(stack[t], new)) = n + 1
      /\ DOMAIN Append(stack[t], new) = 1..(n + 1)
      /\ \A i \in 1..n : Append(stack[t], new)[i] = stack[t][i]
      /\ Append(stack[t], new)[n + 1] = new
  BY <1>1, <1>5, PushFacts
<1>8. SectionTypes'
  BY <1>1, <1>4, <1>6, <1>7 DEF SectionTypes, CsPC
<1>9. /\ stack'[t] = Append(stack[t], new) /\ want'[t] = rest /\ pc'[t] = "lock"
      /\ release'[t] = <<>> /\ level'[t] = 0 /\ signal'[t] = "no" /\ signal[t] = "no"
  BY <1>1, <1>6, NoSignal DEF SectionTypes, Phase
<1>10. OthersKept(t) /\ SharedKept(t)
  BY <1>1, <1>6 DEF OthersKept, SharedKept, SectionTypes
<1>11. Queues'
  BY <1>6, <1>10, QueuesKept
<1> HIDE DEF new
<1>12. new.on = on /\ ~new.recorded /\ new.active
  BY DEF new
<1>13. TopOf(t)' = new /\ Wanting(t)' /\ ~Wanting(t) /\ Len(stack'[t]) = n + 1
  BY <1>4, <1>7, <1>9 DEF TopOf, Wanting
<1>14. Shape(t)'
  <2>0. \A k \in 1..n : Sorted(stack[t][k].on) /\ stack[t][k].recorded
    BY <1>1, <1>13 DEF Shape
  <2>1. ASSUME NEW k \in 1..(n + 1)
        PROVE  /\ Sorted(stack'[t][k].on)
               /\ stack'[t][k].recorded <=> ~(k = n + 1)
    <3>1. CASE k = n + 1
      BY <1>7, <1>9, <1>12, <3>1
    <3>2. CASE k # n + 1
      <4>1. k \in 1..n
        BY <1>1, <3>2
      <4>2. stack'[t][k] = stack[t][k]
        BY <1>7, <1>9, <4>1
      <4>3. QED
        BY <2>0, <3>2, <4>1, <4>2
    <3>3. QED
      BY <3>1, <3>2
  <2>2. rest = on \/ \E a, b \in Mutexes : a < b /\ on = <<a, b>> /\ rest = <<b>>
    BY <1>3
  <2>3. ASSUME NEW j \in 1..(n + 1), NEW k \in 1..(n + 1),
               j < k, stack'[t][j].active, ~stack'[t][k].active
        PROVE  FALSE
    <3>1. j \in 1..n /\ stack'[t][j] = stack[t][j]
      BY <1>7, <1>9, <2>3
    <3>2. CASE k = n + 1
      BY <1>7, <1>9, <1>12, <2>3, <3>2
    <3>3. CASE k # n + 1
      <4>1. k \in 1..n
        BY <2>3, <3>3
      <4>2. stack'[t][k] = stack[t][k]
        BY <1>7, <1>9, <4>1
      <4>3. pc[t] # "suspend"
        BY <1>1
      <4>4. QED
        BY <1>1, <2>3, <3>1, <4>1, <4>2, <4>3 DEF Shape
    <3>4. QED
      BY <3>2, <3>3
  <2>4. DOMAIN stack'[t] = 1..(n + 1) /\ Len(stack'[t]) = n + 1 /\ stack'[t] # <<>>
    BY <1>1, <1>5, <1>7, <1>9, PushFacts
  <2>5. want'[t] = TopOf(t)'.on
          \/ \E a, b \in Mutexes : a < b /\ TopOf(t)'.on = <<a, b>> /\ want'[t] = <<b>>
    BY <1>9, <1>12, <1>13, <2>2
  <2>6. QED
    BY <1>13, <2>1, <2>3, <2>4, <2>5 DEF Shape
<1>15. Phase(t)'
  BY <1>4, <1>9 DEF Phase
<1>16. Owns(t)'
  <2>1. Live(t)' = Live(t) /\ \A k \in Live(t) : On(t, k)' = On(t, k)
    BY <1>1, <1>7, <1>9, <1>12 DEF Live, On
  <2>2. Releases(t)' = Releases(t)
    BY <1>6 DEF Releases
  <2>3. Extra(t)' = Extra(t)
    <3>1. ASSUME pc[t] = "run", rest = on PROVE Extra(t)' = Extra(t)
      BY <1>9, <1>12, <1>13, <3>1 DEF Extra
    <3>2. ASSUME pc[t] = "begin2", want[t] = on, rest = <<on[2]>> PROVE Extra(t)' = Extra(t)
      BY <1>3, <1>9, <1>12, <1>13, <3>2 DEF Extra
    <3>3. QED
      BY <3>1, <3>2
  <2>4. QED
    BY <1>1, <1>6, <2>1, <2>2, <2>3 DEF Owns
<1>17. QED
  BY <1>8, <1>10, <1>11, <1>14, <1>15, <1>16, StepKeepsSections

\* A section is complete: it takes over the mutexes locked for it.
LEMMA OwnsComplete ==
    ASSUME NEW t, Owns(t), NEW m \in Mutexes, NEW n, n \notin Live(t),
           \A a \in Mutexes : owner'[a] = t <=> owner[a] = t \/ a = m,
           \A k \in Live(t) : m \notin On(t, k),
           Live(t)' = Live(t) \cup {n},
           \A k \in Live(t) : On(t, k)' = On(t, k),
           On(t, n)' = Extra(t) \cup {m},
           Extra(t)' = {}, release[t] = <<>>, release'[t] = <<>>
    PROVE  Owns(t)'
<1>1. Releases(t) = {} /\ Releases(t)' = {}
  BY DEF Releases
<1>2. \A a \in Mutexes : owner'[a] = t <=> \E k \in Live(t)' : a \in On(t, k)'
  BY <1>1 DEF Owns
<1>3. \A k \in Live(t)' : \A a \in On(t, k)' : \A j \in Live(t)' : a \in On(t, j)' => j = k
  BY DEF Owns
<1>4. QED
  BY <1>1, <1>2, <1>3 DEF Owns

\* The first of two mutexes is locked.
LEMMA OwnsStarted ==
    ASSUME NEW t, Owns(t), NEW m \in Mutexes,
           \A a \in Mutexes : owner'[a] = t <=> owner[a] = t \/ a = m,
           \A k \in Live(t) : m \notin On(t, k),
           Live(t)' = Live(t),
           \A k \in Live(t) : On(t, k)' = On(t, k),
           Extra(t) \subseteq {m}, Extra(t)' = {m}, release[t] = <<>>, release'[t] = <<>>
    PROVE  Owns(t)'
<1>1. Releases(t) = {} /\ Releases(t)' = {}
  BY DEF Releases
<1>2. \A a \in Mutexes : owner'[a] = t <=> a = m \/ \E k \in Live(t)' : a \in On(t, k)'
  BY <1>1 DEF Owns
<1>3. \A k \in Live(t)' : \A a \in On(t, k)' :
         a # m /\ \A j \in Live(t)' : a \in On(t, j)' => j = k
  BY DEF Owns
<1>4. QED
  BY <1>1, <1>2, <1>3 DEF Owns

\* A section whose last mutex was free is pushed.
LEMMA BeginFastKeeps ==
    ASSUME SectionsInv, NEW t \in Threads, NEW on, Sorted(on), NEW m \in Mutexes,
           \/ pc[t] = "run" /\ on = <<m>>
           \/ pc[t] = "begin2" /\ want[t] = on /\ on[2] = m,
           Free(m), Take(t, m), Push(t, on, TRUE),
           want' = [want EXCEPT ![t] = <<>>],
           pc' = [pc EXCEPT ![t] = "run"],
           UNCHANGED <<release, level>>
    PROVE  SectionsInv'
<1>0. PICK n \in Nat : n = Len(stack[t])
  BY ThreadFacts
<1> DEFINE new == [on |-> on, recorded |-> TRUE, active |-> TRUE]
<1>1. /\ SectionTypes /\ Queues /\ Shape(t) /\ Phase(t) /\ Owns(t)
      /\ stack[t] \in Seq(Section) /\ n \in Nat /\ DOMAIN stack[t] = 1..n
      /\ stack[t] # <<>> <=> n # 0
  BY <1>0, ThreadFacts
<1>2. on \in Seq(Mutexes) /\ on # <<>> /\ (\A i \in DOMAIN on : on[i] \in Mutexes)
  BY SortedFacts
<1>3. pc[t] = "begin2" => \E a, b \in Mutexes : a < b /\ on = <<a, b>>
  BY <1>1 DEF Phase
<1>5. new \in Section
  BY <1>2 DEF Section
<1>6. stack' = [stack EXCEPT ![t] = Append(stack[t], new)]
  BY DEF Push
<1>7. /\ Append(stack[t], new) \in Seq(Section) /\ Append(stack[t], new) # <<>>
      /\ Len(Append(stack[t], new)) = n + 1
      /\ DOMAIN Append(stack[t], new) = 1..(n + 1)
      /\ \A i \in 1..n : Append(stack[t], new)[i] = stack[t][i]
      /\ Append(stack[t], new)[n + 1] = new
  BY <1>0, <1>1, <1>5, PushFacts
<1>8. /\ owner' \in [Mutexes -> Threads \cup {NoThread}]
      /\ UNCHANGED <<queue, signal>>
      /\ \A a \in Mutexes : owner'[a] = t <=> owner[a] = t \/ a = m
      /\ owner[m] # t
      /\ SharedKept(t)
  BY TakeFacts
<1>9. SectionTypes'
  <2>1. stack' \in [Threads -> Seq(Section)]
    BY <1>1, <1>6, <1>7 DEF SectionTypes
  <2>2. want' \in [Threads -> Seq(Mutexes)] /\ pc' \in [Threads -> CsPC]
    BY <1>1, EmptySeq DEF SectionTypes, CsPC
  <2>3. QED
    BY <1>1, <1>8, <2>1, <2>2 DEF SectionTypes
<1>10. /\ stack'[t] = Append(stack[t], new) /\ want'[t] = <<>> /\ pc'[t] = "run"
       /\ release[t] = <<>> /\ release'[t] = <<>> /\ level'[t] = 0 /\ signal'[t] = "no"
       /\ signal[t] = "no"
  BY <1>1, <1>6, <1>8, NoSignal DEF SectionTypes, Phase
<1>11. OthersKept(t)
  BY <1>1, <1>6 DEF OthersKept, SectionTypes
<1>12. Queues'
  BY <1>8, <1>11, QueuesKept
<1> HIDE DEF new
<1>13. new.on = on /\ new.recorded /\ new.active
  BY DEF new
<1>14. TopOf(t)' = new /\ ~Wanting(t)' /\ ~Wanting(t) /\ Len(stack'[t]) = n + 1
       /\ DOMAIN stack'[t] = 1..(n + 1) /\ stack'[t] # <<>>
  BY <1>7, <1>10 DEF TopOf, Wanting
<1>15. /\ \A k \in 1..n : stack'[t][k] = stack[t][k]
       /\ stack'[t][n + 1] = new
  BY <1>7, <1>10
<1>17. Shape(t)'
  <2>1. ASSUME NEW k \in 1..(n + 1)
        PROVE  Sorted(stack'[t][k].on) /\ stack'[t][k].recorded
    <3>1. CASE k = n + 1
      BY <1>13, <1>15, <3>1
    <3>2. CASE k # n + 1
      <4>1. k \in 1..n /\ stack'[t][k] = stack[t][k]
        BY <1>1, <1>15, <3>2
      <4>2. QED
        BY <1>1, <1>14, <4>1 DEF Shape
    <3>3. QED
      BY <3>1, <3>2
  <2>2. ASSUME NEW j \in 1..(n + 1), NEW k \in 1..(n + 1),
               j < k, stack'[t][j].active, ~stack'[t][k].active
        PROVE  FALSE
    <3>0. k # n + 1
      BY <1>13, <1>15, <2>2
    <3>1. j \in 1..n /\ k \in 1..n
      BY <2>2, <3>0
    <3>2. stack'[t][j] = stack[t][j] /\ stack'[t][k] = stack[t][k]
      BY <1>15, <3>1
    <3>3. pc[t] = "suspend"
      BY <1>1, <2>2, <3>1, <3>2 DEF Shape
    <3>4. QED
      BY <3>3
  <2>3. QED
    BY <1>14, <2>1, <2>2 DEF Shape
<1>18. Phase(t)'
  BY <1>10, <1>13, <1>14 DEF Phase
<1>19. Owns(t)'
  <2>1. Live(t) = {k \in 1..n : stack[t][k].active /\ stack[t][k].recorded}
    BY <1>1 DEF Live
  <2>2. Live(t)' = {k \in 1..(n + 1) : stack'[t][k].active /\ stack'[t][k].recorded}
    BY <1>10, <1>14 DEF Live
  <2>3. Live(t)' = Live(t) \cup {n + 1} /\ n + 1 \notin Live(t)
    BY <1>1, <1>13, <1>15, <2>1, <2>2
  <2>4. \A k \in Live(t) : On(t, k)' = On(t, k)
    BY <1>15, <2>1 DEF On
  <2>5. On(t, n + 1)' = {on[i] : i \in DOMAIN on}
    <3>1. stack'[t][n + 1].on = on
      BY <1>13, <1>15
    <3>2. QED
      BY <3>1 DEF On
  <2>6. Extra(t)' = {}
    BY <1>10, <1>14 DEF Extra
  <2>7. {on[i] : i \in DOMAIN on} = Extra(t) \cup {m}
    <3>1. ASSUME pc[t] = "run", on = <<m>> PROVE {on[i] : i \in DOMAIN on} = Extra(t) \cup {m}
      BY <1>10, <1>14, <3>1 DEF Extra
    <3>2. ASSUME pc[t] = "begin2", want[t] = on, on[2] = m
          PROVE  {on[i] : i \in DOMAIN on} = Extra(t) \cup {m}
      <4>1. PICK a \in Mutexes : on = <<a, m>>
        BY <1>3, <3>2
      <4>2. Extra(t) = {a}
        BY <1>10, <1>14, <3>2, <4>1 DEF Extra
      <4>3. QED
        BY <4>1, <4>2
    <3>3. QED
      BY <3>1, <3>2
  <2>8. \A k \in Live(t) : m \notin On(t, k)
    BY <1>1, <1>8 DEF Owns
  <2>9. On(t, n + 1)' = Extra(t) \cup {m}
    BY <2>5, <2>7
  <2>10. QED
    BY <1>1, <1>8, <1>10, <2>3, <2>4, <2>6, <2>8, <2>9, OwnsComplete
<1>20. QED
  BY <1>8, <1>9, <1>11, <1>12, <1>17, <1>18, <1>19, StepKeepsSections

\* The section on top changes, and nothing underneath.
TopBecomes(t, n, new) == stack' = [stack EXCEPT ![t] = [stack[t] EXCEPT ![n] = new]]

\* What follows of a change of the section on top.
LEMMA TopFacts ==
    ASSUME SectionsInv, NEW t \in Threads, NEW n \in Nat, n = Len(stack[t]), n # 0,
           NEW new \in Section,
           TopBecomes(t, n, new)
    PROVE  /\ stack' \in [Threads -> Seq(Section)]
           /\ \A x \in Threads : x # t => stack'[x] = stack[x]
           /\ Len(stack'[t]) = n /\ stack'[t] # <<>> /\ DOMAIN stack'[t] = 1..n
           /\ DOMAIN stack[t] = 1..n
           /\ TopOf(t) = stack[t][n] /\ TopOf(t)' = new /\ stack'[t][n] = new
           /\ \A k \in 1..n : k # n => k < n /\ stack'[t][k] = stack[t][k]
<1>1. /\ stack \in [Threads -> Seq(Section)]
      /\ stack[t] \in Seq(Section) /\ stack[t] # <<>>
  BY ThreadFacts DEF SectionTypes
<1>2. PICK r : r = [stack[t] EXCEPT ![n] = new]
  OBVIOUS
<1>3. /\ r \in Seq(Section) /\ r # <<>>
      /\ Len(r) = n
      /\ DOMAIN r = DOMAIN stack[t] /\ DOMAIN stack[t] = 1..n
      /\ \A i \in DOMAIN stack[t] : r[i] = IF i = n THEN new ELSE stack[t][i]
  BY <1>1, <1>2, ReplaceFacts
<1>4. stack' = [stack EXCEPT ![t] = r]
  BY <1>2 DEF TopBecomes
<1>5. /\ stack' \in [Threads -> Seq(Section)]
      /\ stack'[t] = r
      /\ \A x \in Threads : x # t => stack'[x] = stack[x]
  BY <1>1, <1>3, <1>4
<1>6. TopOf(t) = stack[t][n] /\ TopOf(t)' = new
  BY <1>3, <1>5 DEF TopOf
<1>7. ASSUME NEW k \in 1..n, k # n PROVE k < n /\ stack'[t][k] = stack[t][k]
  <2>1. k < n
    BY <1>7
  <2>2. r[k] = stack[t][k]
    BY <1>3, <1>7
  <2>3. QED
    BY <1>5, <2>1, <2>2
<1>8. stack'[t][n] = new /\ Len(stack'[t]) = n /\ stack'[t] # <<>> /\ DOMAIN stack'[t] = 1..n
  BY <1>3, <1>5
<1>9. QED
  BY <1>3, <1>5, <1>6, <1>7, <1>8

\* t has locked the mutex m, that it wants next: it took it, or was given it.
HasLocked(t, m) ==
    /\ pc[t] \in {"lock", "parked"} /\ want[t][1] = m
    /\ \A k \in Live(t) : m \notin On(t, k)
    /\ owner' \in [Mutexes -> Threads \cup {NoThread}]
    /\ \A a \in Mutexes : owner'[a] = t <=> owner[a] = t \/ a = m
    /\ signal' \in [Threads -> {"no", "woken", "handed off"}] /\ signal'[t] = "no"
    /\ SharedKept(t)
    /\ UNCHANGED <<queue, release, level>>
    /\ OthersKept(t) => Queues'

\* One mutex more of the section on top is locked.
LEMMA LockedKeeps ==
    ASSUME SectionsInv, NEW t \in Threads, NEW m \in Mutexes, HasLocked(t, m), Locked(t)
    PROVE  SectionsInv'
<1>00. /\ UNCHANGED <<queue, release, level>> /\ SharedKept(t)
       /\ pc[t] \in {"lock", "parked"} /\ want[t][1] = m
  BY DEF HasLocked
<1>0. PICK n \in Nat : n = Len(stack[t])
  BY ThreadFacts
<1>1. /\ SectionTypes /\ Queues /\ Shape(t) /\ Phase(t) /\ Owns(t)
      /\ stack[t] \in Seq(Section)
      /\ stack[t] # <<>> <=> n # 0
  BY <1>0, ThreadFacts
<1>2. Wanting(t) /\ n # 0 /\ release[t] = <<>> /\ level[t] = 0
  BY <1>00, <1>1 DEF Shape, Phase, Wanting
<1>3. Top(t) = stack[t][n] /\ TopOf(t) = stack[t][n]
  BY <1>0, SectionSeqs DEF Top, TopOf
<1>4. stack[t][n] \in Section /\ DOMAIN stack[t] = 1..n /\ n \in 1..n
  BY <1>0, <1>2, ThreadFacts
<1>5. PICK top \in Section : top = stack[t][n]
  BY <1>4
<1>6. Sorted(top.on) /\ ~top.recorded
  BY <1>0, <1>1, <1>2, <1>4, <1>5 DEF Shape
<1>7. \/ want[t] = top.on
      \/ \E a, b \in Mutexes : a < b /\ top.on = <<a, b>> /\ want[t] = <<b>>
  BY <1>1, <1>2, <1>3, <1>5 DEF Shape
<1>8. \A new \in Section :
         WithTop(t, new) = [stack EXCEPT ![t] = [stack[t] EXCEPT ![n] = new]]
  BY <1>0 DEF WithTop
<1>9. /\ want' = [want EXCEPT ![t] = Tail(@)]
      /\ IF Tail(want[t]) = <<>>
         THEN /\ stack' = WithTop(t, [top EXCEPT !.recorded = TRUE, !.active = TRUE])
              /\ pc' = [pc EXCEPT ![t] = "run"]
         ELSE /\ stack' = WithTop(t, [top EXCEPT !.active = @ \/ pc[t] = "parked"])
              /\ pc' = [pc EXCEPT ![t] = "lock"]
  BY <1>3, <1>5 DEF Locked, Goto
<1>10. \A k \in 1..n : k # n => Sorted(stack[t][k].on) /\ stack[t][k].recorded
  BY <1>0, <1>1, <1>4 DEF Shape
<1>11. \A j, k \in 1..n : j < k /\ stack[t][j].active => stack[t][k].active
  BY <1>00, <1>1, <1>4 DEF Shape
\* It was the last.
<1>12. CASE Tail(want[t]) = <<>>
  <2>1. want[t] = <<m>> /\ {top.on[i] : i \in DOMAIN top.on} = Extra(t) \cup {m}
    <3>1. ASSUME NEW a \in Mutexes, want[t] = top.on, top.on = <<a>>
          PROVE  want[t] = <<m>> /\ {top.on[i] : i \in DOMAIN top.on} = Extra(t) \cup {m}
      <4>1. a = m
        BY <1>00, <3>1
      <4>2. Extra(t) \subseteq {m}
        BY <1>00, <1>3, <1>5, <3>1, <4>1 DEF Extra
      <4>3. QED
        BY <3>1, <4>1, <4>2
    <3>2. ASSUME NEW a \in Mutexes, NEW b \in Mutexes, a < b, top.on = <<a, b>>, want[t] = <<b>>
          PROVE  want[t] = <<m>> /\ {top.on[i] : i \in DOMAIN top.on} = Extra(t) \cup {m}
      <4>1. b = m
        BY <1>00, <3>2
      <4>2. top.on # want[t] /\ top.on[1] = a
        BY <3>2
      <4>3. a \in Extra(t) /\ Extra(t) \subseteq {a, m}
        BY <1>00, <1>2, <1>3, <1>5, <4>1, <4>2 DEF Extra
      <4>4. QED
        BY <3>2, <4>1, <4>3
    <3>3. ASSUME NEW a \in Mutexes, NEW b \in Mutexes, want[t] = <<a, b>> PROVE FALSE
      BY <1>12, <3>3
    <3>4. QED
      BY <1>6, <1>7, <3>1, <3>2, <3>3 DEF Sorted
  <2>2. PICK new \in Section : /\ new = [top EXCEPT !.recorded = TRUE, !.active = TRUE]
                               /\ new.on = top.on /\ new.recorded /\ new.active
    <3>1. /\ [top EXCEPT !.recorded = TRUE, !.active = TRUE] \in Section
          /\ [top EXCEPT !.recorded = TRUE, !.active = TRUE].on = top.on
          /\ [top EXCEPT !.recorded = TRUE, !.active = TRUE].recorded
          /\ [top EXCEPT !.recorded = TRUE, !.active = TRUE].active
      BY DEF Section
    <3>2. QED
      BY <3>1
  <2>3. TopBecomes(t, n, new)
    BY <1>8, <1>9, <1>12, <2>2 DEF TopBecomes
  <2>4. /\ stack' \in [Threads -> Seq(Section)]
        /\ \A x \in Threads : x # t => stack'[x] = stack[x]
        /\ Len(stack'[t]) = n /\ stack'[t] # <<>> /\ DOMAIN stack'[t] = 1..n
        /\ TopOf(t)' = new /\ stack'[t][n] = new
        /\ \A k \in 1..n : k # n => k < n /\ stack'[t][k] = stack[t][k]
    BY <1>0, <1>2, <2>3, TopFacts
  <2>5. want' = [want EXCEPT ![t] = <<>>] /\ pc' = [pc EXCEPT ![t] = "run"]
    BY <1>9, <1>12
  <2>6. want' \in [Threads -> Seq(Mutexes)] /\ pc' \in [Threads -> CsPC]
    BY <1>1, <2>5, EmptySeq DEF SectionTypes, CsPC
  <2>7. SectionTypes'
    BY <1>00, <1>1, <2>4, <2>6 DEF SectionTypes, HasLocked
  <2>8. /\ want'[t] = <<>> /\ pc'[t] = "run" /\ release'[t] = <<>> /\ level'[t] = 0
        /\ ~Wanting(t)'
    BY <1>00, <1>1, <1>2, <2>5 DEF SectionTypes, Wanting
  <2>9. OthersKept(t)
    BY <1>00, <1>1, <2>4, <2>5 DEF OthersKept, SectionTypes
  <2>10. Shape(t)'
    <3>1. ASSUME NEW k \in 1..n PROVE Sorted(stack'[t][k].on) /\ stack'[t][k].recorded
      BY <1>6, <1>10, <2>2, <2>4
    <3>2. ASSUME NEW j \in 1..n, NEW k \in 1..n, j < k, stack'[t][j].active, ~stack'[t][k].active
          PROVE  FALSE
      <4>1. k # n
        BY <2>2, <2>4, <3>2
      <4>2. j # n
        BY <2>4, <3>2, <4>1
      <4>3. QED
        BY <1>11, <2>4, <3>2, <4>1, <4>2
    <3>3. QED
      BY <2>4, <2>8, <3>1, <3>2 DEF Shape
  <2>11. Phase(t)'
    BY <2>2, <2>4, <2>8 DEF Phase
  <2>12. Owns(t)'
    <3>1. Live(t) = {k \in 1..n : stack[t][k].active /\ stack[t][k].recorded}
      BY <1>00, <1>4 DEF Live
    <3>2. Live(t)' = {k \in 1..n : stack'[t][k].active /\ stack'[t][k].recorded}
      BY <2>4, <2>8 DEF Live
    <3>3. n \notin Live(t)
      BY <1>5, <1>6, <3>1
    <3>4. Live(t)' = Live(t) \cup {n}
      BY <1>4, <2>2, <2>4, <3>1, <3>2, <3>3
    <3>5. \A k \in Live(t) : On(t, k)' = On(t, k)
      BY <2>4, <3>1, <3>3 DEF On
    <3>6. On(t, n)' = Extra(t) \cup {m}
      <4>1. stack'[t][n].on = top.on
        BY <2>2, <2>4
      <4>2. QED
        BY <2>1, <4>1 DEF On
    <3>7. Extra(t)' = {}
      BY <2>8 DEF Extra, HasLocked
    <3>8. QED
      <4>1. /\ \A a \in Mutexes : owner'[a] = t <=> owner[a] = t \/ a = m
            /\ \A k \in Live(t) : m \notin On(t, k)
        BY DEF HasLocked
      <4>2. QED
        BY <1>1, <1>2, <2>8, <3>3, <3>4, <3>5, <3>6, <3>7, <4>1, OwnsComplete
  <2>13. QED
    BY <1>00, <2>7, <2>9, <2>10, <2>11, <2>12, StepKeepsSections DEF HasLocked
\* There is another.
<1>13. CASE Tail(want[t]) # <<>>
  <2>1. PICK b \in Mutexes : m < b /\ top.on = <<m, b>> /\ want[t] = <<m, b>>
    <3>1. ASSUME NEW a, want[t] = <<a>> PROVE FALSE
      BY <1>13, <3>1
    <3>2. want[t] = top.on
      BY <1>7, <3>1
    <3>3. PICK a \in Mutexes, b \in Mutexes : a < b /\ top.on = <<a, b>>
      BY <1>6, <3>1, <3>2 DEF Sorted
    <3>4. a = m
      BY <1>00, <3>2, <3>3
    <3>5. QED
      BY <3>2, <3>3, <3>4
  <2>2. PICK new \in Section : /\ new = [top EXCEPT !.active = @ \/ pc[t] = "parked"]
                               /\ new.on = top.on /\ ~new.recorded
                               /\ top.active => new.active
    <3>1. /\ [top EXCEPT !.active = @ \/ pc[t] = "parked"] \in Section
          /\ [top EXCEPT !.active = @ \/ pc[t] = "parked"].on = top.on
          /\ ~[top EXCEPT !.active = @ \/ pc[t] = "parked"].recorded
          /\ top.active => [top EXCEPT !.active = @ \/ pc[t] = "parked"].active
      BY <1>6 DEF Section
    <3>2. QED
      BY <3>1
  <2>3. TopBecomes(t, n, new)
    BY <1>8, <1>9, <1>13, <2>2 DEF TopBecomes
  <2>4. /\ stack' \in [Threads -> Seq(Section)]
        /\ \A x \in Threads : x # t => stack'[x] = stack[x]
        /\ Len(stack'[t]) = n /\ stack'[t] # <<>> /\ DOMAIN stack'[t] = 1..n
        /\ TopOf(t)' = new /\ stack'[t][n] = new
        /\ \A k \in 1..n : k # n => k < n /\ stack'[t][k] = stack[t][k]
    BY <1>0, <1>2, <2>3, TopFacts
  <2>5. want' = [want EXCEPT ![t] = <<b>>] /\ pc' = [pc EXCEPT ![t] = "lock"]
    BY <1>9, <1>13, <2>1
  <2>6. want' \in [Threads -> Seq(Mutexes)] /\ pc' \in [Threads -> CsPC]
    <3>1. <<b>> \in Seq(Mutexes)
      OBVIOUS
    <3>2. QED
      BY <1>1, <2>5, <3>1 DEF SectionTypes, CsPC
  <2>7. SectionTypes'
    BY <1>00, <1>1, <2>4, <2>6 DEF SectionTypes, HasLocked
  <2>8. /\ want'[t] = <<b>> /\ pc'[t] = "lock" /\ release'[t] = <<>> /\ level'[t] = 0
        /\ Wanting(t)'
    BY <1>00, <1>1, <1>2, <2>5 DEF SectionTypes, Wanting
  <2>9. OthersKept(t)
    BY <1>00, <1>1, <2>4, <2>5 DEF OthersKept, SectionTypes
  <2>10. Shape(t)'
    <3>1. ASSUME NEW k \in 1..n
          PROVE  Sorted(stack'[t][k].on) /\ (stack'[t][k].recorded <=> k # n)
      BY <1>6, <1>10, <2>2, <2>4
    <3>2. ASSUME NEW j \in 1..n, NEW k \in 1..n, j < k, stack'[t][j].active, ~stack'[t][k].active
          PROVE  FALSE
      <4>1. j # n /\ stack[t][j].active
        BY <2>4, <3>2
      <4>2. stack[t][k].active
        BY <1>11, <3>2, <4>1
      <4>3. CASE k = n
        BY <1>5, <2>2, <2>4, <3>2, <4>2, <4>3
      <4>4. CASE k # n
        <5>1. stack'[t][k] = stack[t][k]
          BY <2>4, <4>4
        <5>2. QED
          BY <3>2, <4>2, <5>1
      <4>5. QED
        BY <4>3, <4>4
    <3>3. QED
      BY <2>1, <2>2, <2>4, <2>8, <3>1, <3>2 DEF Shape
  <2>11. Phase(t)'
    BY <2>8 DEF Phase
  <2>12. Owns(t)'
    <3>1. Live(t) = {k \in 1..n : stack[t][k].active /\ stack[t][k].recorded}
      BY <1>00, <1>4 DEF Live
    <3>2. Live(t)' = {k \in 1..n : stack'[t][k].active /\ stack'[t][k].recorded}
      BY <2>4, <2>8 DEF Live
    <3>3. n \notin Live(t) /\ n \notin Live(t)'
      BY <1>5, <1>6, <2>2, <2>4, <3>1, <3>2
    <3>4. Live(t)' = Live(t)
      BY <2>4, <3>1, <3>2, <3>3
    <3>5. \A k \in Live(t) : On(t, k)' = On(t, k)
      BY <2>4, <3>1, <3>3 DEF On
    <3>6. Extra(t)' = {m}
      <4>1. TopOf(t)'.on[1] = m /\ want'[t] # TopOf(t)'.on /\ signal'[t] = "no"
        <5>1. TopOf(t)'.on = <<m, b>>
          BY <2>1, <2>2, <2>4
        <5>2. <<b>> # <<m, b>> /\ <<m, b>>[1] = m
          OBVIOUS
        <5>3. signal'[t] = "no"
          BY DEF HasLocked
        <5>4. QED
          BY <2>8, <5>1, <5>2, <5>3
      <4>2. QED
        BY <2>8, <4>1 DEF Extra
    <3>7. Extra(t) \subseteq {m}
      BY <1>00, <1>3, <1>5, <2>1 DEF Extra
    <3>8. QED
      <4>1. /\ \A a \in Mutexes : owner'[a] = t <=> owner[a] = t \/ a = m
            /\ \A k \in Live(t) : m \notin On(t, k)
        BY DEF HasLocked
      <4>2. QED
        BY <1>1, <1>2, <2>8, <3>4, <3>5, <3>6, <3>7, <4>1, OwnsStarted
  <2>13. QED
    BY <1>00, <2>7, <2>9, <2>10, <2>11, <2>12, StepKeepsSections DEF HasLocked
<1>14. QED
  BY <1>12, <1>13

\* A step that leaves what t has to do with mutexes alone.
LEMMA OwnsKept ==
    ASSUME NEW t, Owns(t), \A a \in Mutexes : owner'[a] = t <=> owner[a] = t,
           Live(t)' = Live(t), \A k \in Live(t) : On(t, k)' = On(t, k),
           Extra(t)' = Extra(t), release'[t] = release[t]
    PROVE  Owns(t)'
<1>1. Releases(t)' = Releases(t)
  BY DEF Releases
<1>2. QED
  BY <1>1 DEF Owns

\* A free mutex is taken; for another the thread queues, and sets out to
\* suspend its sections.
LEMMA LockKeeps ==
    ASSUME SectionsInv, NEW t \in Threads, Lock(t) PROVE SectionsInv'
<1>1. /\ SectionTypes /\ Queues /\ Shape(t) /\ Phase(t) /\ Owns(t)
      /\ want[t] \in Seq(Mutexes) /\ Len(stack[t]) \in Nat /\ DOMAIN stack[t] = 1..Len(stack[t])
  BY ThreadFacts
<1>2. pc[t] = "lock" /\ want[t] # <<>>
  BY <1>1 DEF Lock, Phase
<1>3. PICK m \in Mutexes : m = want[t][1] /\ m = Head(want[t])
  BY <1>1, <1>2
<1>4. signal[t] = "no" /\ \A a \in Mutexes : \A i \in DOMAIN queue[a] : queue[a][i] # t
  BY <1>2, NoSignal
<1>5. CASE Free(m)
  <2>1. /\ Take(t, m) /\ Locked(t) /\ UNCHANGED <<release, level>>
    BY <1>3, <1>5 DEF Lock
  <2>2. /\ owner' \in [Mutexes -> Threads \cup {NoThread}]
        /\ UNCHANGED <<queue, signal>>
        /\ \A a \in Mutexes : owner'[a] = t <=> owner[a] = t \/ a = m
        /\ owner[m] # t
        /\ SharedKept(t)
    BY <1>5, <2>1, TakeFacts
  <2>3. \A k \in Live(t) : m \notin On(t, k)
    BY <1>1, <2>2 DEF Owns
  <2>4. OthersKept(t) => Queues'
    BY <1>2, <2>2, QueuesKept
  <2>5. HasLocked(t, m)
    BY <1>1, <1>2, <1>3, <1>4, <2>1, <2>2, <2>3, <2>4 DEF HasLocked, SectionTypes
  <2>6. QED
    BY <2>1, <2>5, LockedKeeps
<1>6. CASE ~Free(m)
  <2>1. /\ queue' = [queue EXCEPT ![m] = Append(@, t)]
        /\ level' = [level EXCEPT ![t] = Len(stack[t])]
        /\ pc' = [pc EXCEPT ![t] = "suspend"]
        /\ UNCHANGED <<owner, signal, stack, want, release>>
    BY <1>3, <1>6 DEF Lock, Goto
  <2>2. queue[m] \in Seq(Threads)
    BY <1>1 DEF SectionTypes
  <2>3. /\ Append(queue[m], t) \in Seq(Threads) /\ Len(queue[m]) \in Nat
        /\ DOMAIN Append(queue[m], t) = (DOMAIN queue[m]) \cup {Len(queue[m]) + 1}
        /\ Len(queue[m]) + 1 \notin DOMAIN queue[m]
        /\ \A i \in DOMAIN queue[m] : Append(queue[m], t)[i] = queue[m][i]
        /\ Append(queue[m], t)[Len(queue[m]) + 1] = t
    BY <2>2, PushFacts
  <2>4. SectionTypes'
    BY <1>1, <2>1, <2>3 DEF SectionTypes, CsPC
  <2>5. OthersKept(t) /\ SharedKept(t)
    BY <1>1, <2>1 DEF OthersKept, SharedKept, SectionTypes
  <2>6. pc'[t] = "suspend" /\ level'[t] = Len(stack[t])
    BY <1>1, <2>1 DEF SectionTypes
  <2>7. queue'[m] = Append(queue[m], t) /\ \A a \in Mutexes : a # m => queue'[a] = queue[a]
    BY <1>1, <2>1 DEF SectionTypes
  <2>8. Queues'
    <3>1. ASSUME NEW a \in Mutexes, NEW i \in DOMAIN queue'[a], NEW j \in DOMAIN queue'[a],
                 queue'[a][i] = queue'[a][j]
          PROVE  i = j
      <4>1. \A p, q \in DOMAIN queue[a] : queue[a][p] = queue[a][q] => p = q
        BY <1>1 DEF Queues
      <4>2. CASE a # m
        BY <2>7, <3>1, <4>1, <4>2
      <4>3. CASE a = m
        <5>1. \A p \in DOMAIN queue[m] : queue[m][p] # t
          BY <1>4
        <5>2. queue'[a] = Append(queue[m], t)
          BY <2>7, <4>3
        <5>3. CASE i \in DOMAIN queue[m] /\ j \in DOMAIN queue[m]
          BY <2>3, <3>1, <4>1, <4>3, <5>2, <5>3
        <5>4. QED
          BY <2>3, <3>1, <5>1, <5>2, <5>3
      <4>4. QED
        BY <4>2, <4>3
    <3>2. ASSUME NEW a \in Mutexes, NEW i \in DOMAIN queue'[a], NEW x \in Threads, x = queue'[a][i]
          PROVE  /\ pc'[x] \in {"suspend", "parked"} /\ want[x] # <<>>
                 /\ want[x][1] = a /\ signal[x] = "no"
      <4>1. CASE a = m /\ i = Len(queue[m]) + 1
        BY <1>2, <1>3, <1>4, <2>3, <2>6, <2>7, <3>2, <4>1
      <4>2. CASE ~(a = m /\ i = Len(queue[m]) + 1)
        <5>1. i \in DOMAIN queue[a] /\ x = queue[a][i]
          BY <2>3, <2>7, <3>2, <4>2
        <5>2. x # t
          BY <1>4, <5>1
        <5>3. QED
          BY <1>1, <2>5, <5>1, <5>2 DEF Queues, OthersKept
      <4>3. QED
        BY <4>1, <4>2
    <3>3. ASSUME NEW x \in Threads, signal[x] # "no"
          PROVE  pc'[x] \in {"suspend", "parked"} /\ want[x] # <<>>
      BY <1>1, <1>4, <2>5, <3>3 DEF Queues, OthersKept
    <3>4. QED
      BY <2>1, <3>1, <3>2, <3>3 DEF Queues
  <2>9. Shape(t)'
    BY <1>1, <1>2, <2>1, <2>6 DEF Shape, Wanting, TopOf
  <2>10. Phase(t)'
    BY <1>1, <2>1, <2>6 DEF Phase
  <2>11. Owns(t)'
    <3>1. Live(t)' = Live(t)
      BY <1>2, <2>1, <2>6 DEF Live
    <3>2. Extra(t)' = Extra(t)
      BY <1>2, <2>1, <2>6 DEF Extra, Wanting, TopOf
    <3>3. \A k : On(t, k)' = On(t, k)
      BY <2>1 DEF On
    <3>4. QED
      BY <1>1, <2>1, <3>1, <3>2, <3>3, OwnsKept
  <2>12. QED
    BY <2>4, <2>5, <2>8, <2>9, <2>10, <2>11, StepKeepsSections
<1>7. QED
  BY <1>5, <1>6

\* A thread that was woken tries again, or has been handed the mutex.
LEMMA WokenKeeps ==
    ASSUME SectionsInv, NEW t \in Threads, Woken(t) PROVE SectionsInv'
<1>0. PICK n \in Nat : n = Len(stack[t])
  BY ThreadFacts
<1>1. /\ SectionTypes /\ Queues /\ Shape(t) /\ Phase(t) /\ Owns(t)
      /\ want[t] \in Seq(Mutexes) /\ DOMAIN stack[t] = 1..n
      /\ stack[t] # <<>> <=> n # 0
      /\ \A k \in 1..n : stack[t][k] \in Section
  BY <1>0, ThreadFacts
<1>2. /\ pc[t] = "parked" /\ want[t] # <<>> /\ signal[t] # "no"
      /\ signal' = [signal EXCEPT ![t] = "no"]
      /\ UNCHANGED <<owner, queue, release, level>>
  BY <1>1 DEF Woken, Phase
<1>3. PICK m \in Mutexes : m = want[t][1]
  BY <1>1, <1>2
<1>4. SharedKept(t) /\ signal' \in [Threads -> {"no", "woken", "handed off"}] /\ signal'[t] = "no"
  BY <1>1, <1>2 DEF SharedKept, SectionTypes
<1>5. Live(t) = {} /\ release[t] = <<>> /\ level[t] = 0 /\ \A k \in 1..n : ~stack[t][k].active
  BY <1>1, <1>2 DEF Phase, Live
<1>6. OthersKept(t) => Queues'
  <2>0. /\ \A a \in Mutexes : \A i, j \in DOMAIN queue[a] : queue[a][i] = queue[a][j] => i = j
        /\ \A a \in Mutexes : \A i \in DOMAIN queue[a] : \A x \in Threads :
              x = queue[a][i] => /\ pc[x] \in {"suspend", "parked"} /\ want[x] # <<>>
                                 /\ want[x][1] = a /\ signal[x] = "no"
        /\ \A x \in Threads :
              signal[x] # "no" => pc[x] \in {"suspend", "parked"} /\ want[x] # <<>>
    BY <1>1 DEF Queues
  <2>1. ASSUME NEW a \in Mutexes, NEW i \in DOMAIN queue[a] PROVE queue[a][i] # t
    <3>1. queue[a][i] = t => signal[t] = "no"
      BY <2>0
    <3>2. QED
      BY <1>2, <3>1
  <2>2. ASSUME OthersKept(t) PROVE Queues'
    <3>1. \A x \in Threads : x # t =>
             pc'[x] = pc[x] /\ want'[x] = want[x] /\ signal'[x] = signal[x]
      BY <1>4, <2>2 DEF OthersKept, SharedKept
    <3>2. queue' = queue /\ signal'[t] = "no"
      BY <1>2, <1>4
    <3>3. ASSUME NEW a \in Mutexes, NEW i \in DOMAIN queue[a], NEW x \in Threads, x = queue[a][i]
          PROVE  /\ pc'[x] \in {"suspend", "parked"} /\ want'[x] # <<>>
                 /\ want'[x][1] = a /\ signal'[x] = "no"
      <4>1. x # t
        BY <2>1, <3>3
      <4>2. /\ pc[x] \in {"suspend", "parked"} /\ want[x] # <<>>
            /\ want[x][1] = a /\ signal[x] = "no"
        BY <2>0, <3>3
      <4>3. QED
        BY <3>1, <4>1, <4>2
    <3>4. ASSUME NEW x \in Threads, signal'[x] # "no"
          PROVE  pc'[x] \in {"suspend", "parked"} /\ want'[x] # <<>>
      BY <2>0, <3>1, <3>2, <3>4
    <3>5. QED
      BY <2>0, <3>2, <3>3, <3>4 DEF Queues
  <2>3. QED
    BY <2>2
<1>7. CASE signal[t] = "handed off"
  <2>1. Locked(t)
    BY <1>7 DEF Woken
  <2>2. owner[m] = t
    BY <1>1, <1>3, <1>7 DEF Owns, Extra
  <2>3. HasLocked(t, m)
    BY <1>1, <1>2, <1>3, <1>4, <1>5, <1>6, <2>2 DEF HasLocked, SectionTypes
  <2>4. QED
    BY <2>1, <2>3, LockedKeeps
<1>8. CASE signal[t] # "handed off"
  <2>1. Wanting(t) /\ n # 0 /\ n \in 1..n
    BY <1>1, <1>2 DEF Wanting, Shape
  <2>2. PICK top \in Section : top = stack[t][n]
    BY <1>1, <2>1
  <2>3. Top(t) = top /\ TopOf(t) = top
    BY <1>0, <2>2, SectionSeqs DEF Top, TopOf
  <2>4. Sorted(top.on) /\ ~top.recorded
    BY <1>0, <1>1, <2>1, <2>2 DEF Shape
  <2>5. PICK new \in Section : /\ new = [top EXCEPT !.active = TRUE]
                               /\ new.on = top.on /\ ~new.recorded /\ new.active
    <3>1. /\ [top EXCEPT !.active = TRUE] \in Section
          /\ [top EXCEPT !.active = TRUE].on = top.on
          /\ ~[top EXCEPT !.active = TRUE].recorded
          /\ [top EXCEPT !.active = TRUE].active
      BY <2>4 DEF Section
    <3>2. QED
      BY <3>1
  <2>6. /\ TopBecomes(t, n, new)
        /\ pc' = [pc EXCEPT ![t] = "lock"] /\ UNCHANGED want
    BY <1>0, <1>8, <2>3, <2>5 DEF Woken, WithTop, Goto, TopBecomes
  <2>7. /\ stack' \in [Threads -> Seq(Section)]
        /\ \A x \in Threads : x # t => stack'[x] = stack[x]
        /\ Len(stack'[t]) = n /\ stack'[t] # <<>> /\ DOMAIN stack'[t] = 1..n
        /\ TopOf(t)' = new /\ stack'[t][n] = new
        /\ \A k \in 1..n : k # n => k < n /\ stack'[t][k] = stack[t][k]
    BY <1>0, <2>1, <2>6, TopFacts
  <2>8. pc' \in [Threads -> CsPC] /\ pc'[t] = "lock" /\ \A x \in Threads : x # t => pc'[x] = pc[x]
    BY <1>1, <2>6 DEF SectionTypes, CsPC
  <2>9. SectionTypes'
    BY <1>1, <1>2, <1>4, <2>6, <2>7, <2>8 DEF SectionTypes
  <2>10. OthersKept(t)
    BY <1>2, <2>6, <2>7, <2>8 DEF OthersKept
  <2>11. Wanting(t)'
    BY <1>2, <2>6, <2>8 DEF Wanting
  <2>12. Shape(t)'
    <3>1. ASSUME NEW k \in 1..n
          PROVE  Sorted(stack'[t][k].on) /\ (stack'[t][k].recorded <=> k # n)
      BY <1>0, <1>1, <2>1, <2>4, <2>5, <2>7 DEF Shape
    <3>2. ASSUME NEW j \in 1..n, NEW k \in 1..n, j < k, stack'[t][j].active PROVE FALSE
      <4>1. j # n
        BY <3>2
      <4>2. QED
        BY <1>5, <2>7, <3>2, <4>1
    <3>3. \/ want'[t] = TopOf(t)'.on
          \/ \E a, b \in Mutexes : a < b /\ TopOf(t)'.on = <<a, b>> /\ want'[t] = <<b>>
      BY <1>1, <2>1, <2>3, <2>5, <2>6, <2>7 DEF Shape
    <3>4. Len(stack'[t]) = n /\ DOMAIN stack'[t] = 1..n /\ stack'[t] # <<>>
      BY <2>7
    <3>5. QED
      BY <2>11, <3>1, <3>2, <3>3, <3>4 DEF Shape
  <2>13. Phase(t)'
    BY <1>2, <1>5, <2>6, <2>8 DEF Phase
  <2>14. Owns(t)'
    <3>1. Live(t)' = {}
      <4>1. ASSUME NEW k \in 1..n, stack'[t][k].active, stack'[t][k].recorded PROVE FALSE
        <5>1. CASE k = n
          BY <2>5, <2>7, <4>1, <5>1
        <5>2. CASE k # n
          BY <1>5, <2>7, <4>1, <5>2
        <5>3. QED
          BY <5>1, <5>2
      <4>2. QED
        BY <2>7, <4>1 DEF Live
    <3>2. Extra(t)' = Extra(t)
      <4>1. want'[t] = want[t] /\ TopOf(t)'.on = TopOf(t).on
        BY <2>3, <2>5, <2>6, <2>7
      <4>2. pc[t] # "begin2" /\ pc'[t] # "begin2"
        BY <1>2, <2>8
      <4>3. signal[t] # "handed off" /\ signal'[t] # "handed off"
        BY <1>4, <1>8
      <4>4. QED
        BY <2>1, <2>11, <4>1, <4>2, <4>3 DEF Extra
    <3>3. QED
      BY <1>1, <1>2, <1>5, <3>1, <3>2, OwnsKept
  <2>15. QED
    BY <1>4, <1>6, <2>9, <2>10, <2>12, <2>13, <2>14, StepKeepsSections
<1>9. QED
  BY <1>7, <1>8

\* A section over one mutex begins.
LEMMA BeginKeeps ==
    ASSUME SectionsInv, NEW t \in Threads, Begin(t) PROVE SectionsInv'
<1>1. PICK m \in Mutexes :
         IF Free(m)
         THEN Take(t, m) /\ Push(t, <<m>>, TRUE) /\ UNCHANGED <<want, pc>>
         ELSE BeginSlow(t, <<m>>, <<m>>)
  BY DEF Begin
<1>2. pc[t] = "run" /\ UNCHANGED <<release, level>>
  BY DEF Begin
<1>3. Sorted(<<m>>)
  BY DEF Sorted
<1>4. CASE Free(m)
  <2>1. want \in [Threads -> Seq(Mutexes)] /\ pc \in [Threads -> CsPC] /\ want[t] = <<>>
    BY <1>2, ThreadFacts DEF SectionTypes, Phase
  <2>2. want' = [want EXCEPT ![t] = <<>>] /\ pc' = [pc EXCEPT ![t] = "run"]
    BY <1>1, <1>2, <1>4, <2>1
  <2>3. QED
    BY <1>1, <1>2, <1>3, <1>4, <2>2, BeginFastKeeps
<1>5. CASE ~Free(m)
  BY <1>1, <1>2, <1>3, <1>5, BeginSlowKeeps
<1>6. QED
  BY <1>4, <1>5

\* Two mutexes are put in order.
LEMMA InOrderSorted ==
    ASSUME SectionsInv, NEW m1 \in Mutexes, NEW m2 \in Mutexes, m1 # m2
    PROVE  \E m, n \in Mutexes : m < n /\ InOrder(m1, m2) = <<m, n>>
BY DEF SectionsInv, Parameters, InOrder

\* A section over two mutexes begins, with the lower of the addresses.
LEMMA Begin2Keeps ==
    ASSUME SectionsInv, NEW t \in Threads, Begin2(t) PROVE SectionsInv'
<1>1. PICK m1 \in Mutexes, m2 \in Mutexes :
         /\ m1 # m2
         /\ IF Free(InOrder(m1, m2)[1])
            THEN /\ Take(t, InOrder(m1, m2)[1])
                 /\ want' = [want EXCEPT ![t] = InOrder(m1, m2)]
                 /\ pc' = [pc EXCEPT ![t] = "begin2"]
                 /\ UNCHANGED stack
            ELSE BeginSlow(t, InOrder(m1, m2), InOrder(m1, m2))
  BY DEF Begin2, Goto
<1>2. pc[t] = "run" /\ UNCHANGED <<release, level>>
  BY DEF Begin2
<1>3. PICK m \in Mutexes, n \in Mutexes : m < n /\ InOrder(m1, m2) = <<m, n>>
  BY <1>1, InOrderSorted
<1>4. Sorted(<<m, n>>) /\ <<m, n>>[1] = m
  BY <1>3 DEF Sorted
<1>5. CASE Free(m)
  <2>1. /\ SectionTypes /\ Queues /\ Shape(t) /\ Phase(t) /\ Owns(t)
        /\ want[t] = <<>> /\ release[t] = <<>> /\ level[t] = 0
    BY <1>2, ThreadFacts DEF Phase
  <2>2. /\ Take(t, m) /\ want' = [want EXCEPT ![t] = <<m, n>>]
        /\ pc' = [pc EXCEPT ![t] = "begin2"] /\ UNCHANGED stack
    BY <1>1, <1>3, <1>4, <1>5
  <2>3. /\ owner' \in [Mutexes -> Threads \cup {NoThread}]
        /\ UNCHANGED <<queue, signal>>
        /\ \A a \in Mutexes : owner'[a] = t <=> owner[a] = t \/ a = m
        /\ owner[m] # t
        /\ SharedKept(t)
    BY <1>5, <2>2, TakeFacts
  <2>4. <<m, n>> \in Seq(Mutexes)
    OBVIOUS
  <2>5. SectionTypes'
    BY <1>2, <2>1, <2>2, <2>3, <2>4 DEF SectionTypes, CsPC
  <2>6. /\ want'[t] = <<m, n>> /\ pc'[t] = "begin2" /\ stack'[t] = stack[t]
        /\ release'[t] = <<>> /\ level'[t] = 0 /\ signal'[t] = "no" /\ signal[t] = "no"
    BY <1>2, <2>1, <2>2, <2>3, NoSignal DEF SectionTypes
  <2>7. OthersKept(t)
    BY <1>2, <2>1, <2>2 DEF OthersKept, SectionTypes
  <2>8. Queues'
    BY <1>2, <2>3, <2>7, QueuesKept
  <2>9. Shape(t)'
    BY <1>2, <2>1, <2>6 DEF Shape, Wanting, TopOf
  <2>10. Phase(t)'
    BY <1>2, <1>3, <2>1, <2>6 DEF Phase, TopOf
  <2>11. Owns(t)'
    <3>1. Live(t)' = Live(t) /\ \A k \in Live(t) : On(t, k)' = On(t, k)
      BY <1>2, <2>6 DEF Live, On
    <3>2. Extra(t) = {}
      BY <1>2, <2>6 DEF Extra, Wanting
    <3>3. Extra(t)' = {m}
      BY <1>4, <2>6 DEF Extra, Wanting
    <3>4. \A k \in Live(t) : m \notin On(t, k)
      BY <2>1, <2>3 DEF Owns
    <3>5. QED
      BY <2>1, <2>3, <2>6, <3>1, <3>2, <3>3, <3>4, OwnsStarted
  <2>12. QED
    BY <2>3, <2>5, <2>7, <2>8, <2>9, <2>10, <2>11, StepKeepsSections
<1>6. CASE ~Free(m)
  <2>1. BeginSlow(t, <<m, n>>, <<m, n>>)
    BY <1>1, <1>3, <1>4, <1>6
  <2>2. QED
    BY <1>2, <1>4, <2>1, BeginSlowKeeps
<1>7. QED
  BY <1>5, <1>6

\* It goes on with the higher of them.
LEMMA Begin2SecondKeeps ==
    ASSUME SectionsInv, NEW t \in Threads, Begin2Second(t) PROVE SectionsInv'
<1>1. pc[t] = "begin2" /\ UNCHANGED <<release, level>>
  BY DEF Begin2Second
<1>2. PICK m \in Mutexes, n \in Mutexes : m < n /\ want[t] = <<m, n>>
  BY <1>1, ThreadFacts DEF Phase
<1>3. PICK on : on = want[t]
  OBVIOUS
<1>4. Sorted(on) /\ on[2] = n
  BY <1>2, <1>3 DEF Sorted
<1>5. CASE Free(n)
  BY <1>1, <1>3, <1>4, <1>5, BeginFastKeeps DEF Begin2Second, Goto
<1>6. CASE ~Free(n)
  BY <1>1, <1>3, <1>4, <1>6, BeginSlowKeeps DEF Begin2Second
<1>7. QED
  BY <1>5, <1>6

\* A thread that gives up its thread state sets out to suspend its sections.
LEMMA DetachKeeps ==
    ASSUME SectionsInv, NEW t \in Threads, Detach(t) PROVE SectionsInv'
<1>1. /\ SectionTypes /\ Queues /\ Shape(t) /\ Phase(t) /\ Owns(t)
      /\ Len(stack[t]) \in Nat /\ DOMAIN stack[t] = 1..Len(stack[t])
  BY ThreadFacts
<1>2. /\ pc[t] = "run"
      /\ level' = [level EXCEPT ![t] = Len(stack[t])]
      /\ pc' = [pc EXCEPT ![t] = "suspend"]
      /\ UNCHANGED <<owner, queue, signal, stack, want, release>>
  BY DEF Detach, Goto, locks
<1>3. /\ want[t] = <<>> /\ pc'[t] = "suspend" /\ level'[t] = Len(stack[t])
      /\ signal[t] = "no"
  BY <1>1, <1>2, NoSignal DEF SectionTypes, Phase
<1>4. SectionTypes'
  BY <1>1, <1>2 DEF SectionTypes, CsPC
<1>5. OthersKept(t) /\ SharedKept(t)
  BY <1>1, <1>2 DEF OthersKept, SharedKept, SectionTypes
<1>6. Queues'
  BY <1>2, <1>3, <1>5, QueuesKept
<1>7. Shape(t)'
  BY <1>1, <1>2, <1>3 DEF Shape, Wanting, TopOf
<1>8. Phase(t)'
  BY <1>1, <1>2, <1>3 DEF Phase
<1>9. Owns(t)'
  <2>1. Live(t)' = Live(t)
    BY <1>2, <1>3 DEF Live
  <2>2. Extra(t)' = Extra(t)
    BY <1>2, <1>3 DEF Extra, Wanting
  <2>3. \A k : On(t, k)' = On(t, k)
    BY <1>2 DEF On
  <2>4. QED
    BY <1>1, <1>2, <2>1, <2>2, <2>3, OwnsKept
<1>10. QED
  BY <1>4, <1>5, <1>6, <1>7, <1>8, <1>9, StepKeepsSections

\* A section gives its mutexes up: they are to be unlocked.
LEMMA OwnsReleased ==
    ASSUME NEW t, Owns(t), \A a \in Mutexes : owner'[a] = t <=> owner[a] = t,
           NEW n \in Live(t),
           Live(t)' = Live(t) \ {n}, \A k \in Live(t) : On(t, k)' = On(t, k),
           Extra(t)' = Extra(t), Releases(t) = {}, Releases(t)' = On(t, n),
           On(t, n) \subseteq Mutexes,
           \A i, j \in DOMAIN release'[t] : release'[t][i] = release'[t][j] => i = j
    PROVE  Owns(t)'
<1>1. \A m \in Mutexes : owner[m] = t <=> m \in Extra(t) \/ \E k \in Live(t) : m \in On(t, k)
  BY DEF Owns
<1>2. \A k \in Live(t) : \A m \in On(t, k) :
         m \notin Extra(t) /\ \A j \in Live(t) : m \in On(t, j) => j = k
  BY DEF Owns
<1>3. \A m \in Mutexes : owner'[m] = t <=>
         m \in Extra(t)' \/ m \in Releases(t)' \/ \E k \in Live(t)' : m \in On(t, k)'
  BY <1>1
<1>4. \A k \in Live(t)' : \A m \in On(t, k)' :
         m \notin Extra(t)' /\ m \notin Releases(t)' /\ \A j \in Live(t)' : m \in On(t, j)' => j = k
  BY <1>2
<1>5. Extra(t)' \cap Releases(t)' = {}
  BY <1>2
<1>6. QED
  BY <1>3, <1>4, <1>5 DEF Owns

\* A section's list of one mutex or two, reversed.
LEMMA ReverseFacts ==
    ASSUME SectionsInv, NEW on, Sorted(on), NEW r, r = Reverse(on)
    PROVE  /\ r \in Seq(Mutexes)
           /\ {r[i] : i \in DOMAIN r} = {on[i] : i \in DOMAIN on}
           /\ \A i, j \in DOMAIN r : r[i] = r[j] => i = j
<1>1. /\ on \in Seq(Mutexes) /\ Len(on) \in {1, 2} /\ DOMAIN on = 1..Len(on)
      /\ \A i \in DOMAIN on : on[i] \in Mutexes
      /\ \A i, j \in DOMAIN on : on[i] = on[j] => i = j
  BY SortedFacts
<1>2. r = [i \in 1..Len(on) |-> on[(Len(on) - i) + 1]]
  BY DEF Reverse
<1>3. DOMAIN r = 1..Len(on) /\ \A i \in 1..Len(on) : r[i] = on[(Len(on) - i) + 1]
  BY <1>2
<1>4. \A i \in 1..Len(on) : (Len(on) - i) + 1 \in 1..Len(on)
  BY <1>1
<1>5. r \in Seq(Mutexes)
  BY <1>1, <1>2, <1>4
<1>6. {r[i] : i \in DOMAIN r} = {on[i] : i \in DOMAIN on}
  <2>1. \A i \in 1..Len(on) : on[i] = r[(Len(on) - i) + 1]
    BY <1>1, <1>3, <1>4
  <2>2. QED
    BY <1>1, <1>3, <1>4, <2>1
<1>7. \A i, j \in DOMAIN r : r[i] = r[j] => i = j
  BY <1>1, <1>3, <1>4
<1>8. QED
  BY <1>5, <1>6, <1>7

\* A section ends: its mutexes are to be unlocked in reverse order.
LEMMA EndKeeps ==
    ASSUME SectionsInv, NEW t \in Threads, End(t) PROVE SectionsInv'
<1>0. PICK n \in Nat : n = Len(stack[t])
  BY ThreadFacts
<1>1. /\ SectionTypes /\ Queues /\ Shape(t) /\ Phase(t) /\ Owns(t)
      /\ DOMAIN stack[t] = 1..n /\ stack[t] # <<>> <=> n # 0
  BY <1>0, ThreadFacts
<1>2. /\ pc[t] = "run" /\ n \in 1..n /\ stack[t] # <<>>
      /\ release' = [release EXCEPT ![t] = Reverse(stack[t][n].on)]
      /\ pc' = [pc EXCEPT ![t] = "pop"]
      /\ UNCHANGED <<owner, queue, signal, stack, want, level>>
  <2>1. Top(t) = stack[t][n]
    BY <1>0, SectionSeqs DEF Top
  <2>2. pc[t] = "run" /\ stack[t] # <<>>
    BY DEF End
  <2>3. n \in 1..n
    BY <1>0, <1>1, <2>2
  <2>4. release' = [release EXCEPT ![t] = Reverse(stack[t][n].on)]
    BY <2>1 DEF End
  <2>5. /\ pc' = [pc EXCEPT ![t] = "pop"]
        /\ UNCHANGED <<owner, queue, signal, stack, want, level>>
    BY DEF End, Goto, locks
  <2>6. QED
    BY <2>2, <2>3, <2>4, <2>5
<1>3. /\ want[t] = <<>> /\ pc'[t] = "pop" /\ signal[t] = "no" /\ release[t] = <<>>
      /\ TopOf(t).active /\ TopOf(t) = stack[t][n] /\ ~Wanting(t)
  BY <1>0, <1>1, <1>2, NoSignal DEF SectionTypes, Phase, TopOf, Wanting
<1>4. Sorted(stack[t][n].on) /\ stack[t][n].recorded /\ stack[t][n].active
  BY <1>0, <1>1, <1>2, <1>3 DEF Shape
<1>5. PICK r \in Seq(Mutexes) :
         /\ release' = [release EXCEPT ![t] = r]
         /\ {r[i] : i \in DOMAIN r} = {stack[t][n].on[i] : i \in DOMAIN stack[t][n].on}
         /\ \A i, j \in DOMAIN r : r[i] = r[j] => i = j
  BY <1>2, <1>4, ReverseFacts
<1>6. SectionTypes'
  <2>1. /\ pc' = [pc EXCEPT ![t] = "pop"]
        /\ UNCHANGED <<owner, queue, signal, stack, want, level>>
    BY <1>2
  <2>2. release' \in [Threads -> Seq(Mutexes)]
    BY <1>1, <1>5 DEF SectionTypes
  <2>3. pc' \in [Threads -> CsPC]
    BY <1>1, <2>1 DEF SectionTypes, CsPC
  <2>4. QED
    BY <1>1, <2>1, <2>2, <2>3 DEF SectionTypes
<1>7. OthersKept(t) /\ SharedKept(t)
  BY <1>1, <1>2, <1>5 DEF OthersKept, SharedKept, SectionTypes
<1>8. Queues'
  BY <1>2, <1>3, <1>7, QueuesKept
<1>9. Shape(t)'
  BY <1>1, <1>2, <1>3 DEF Shape, Wanting, TopOf
<1>10. Phase(t)'
  BY <1>1, <1>2, <1>3 DEF Phase, TopOf
<1>11. Owns(t)'
  <2>1. n \in Live(t) /\ Live(t)' = Live(t) \ {n}
    BY <1>0, <1>1, <1>2, <1>3, <1>4 DEF Live
  <2>2. Extra(t)' = Extra(t)
    BY <1>2, <1>3 DEF Extra, Wanting
  <2>3. \A k : On(t, k)' = On(t, k)
    BY <1>2 DEF On
  <2>4. /\ Releases(t) = {} /\ Releases(t)' = On(t, n)
        /\ \A i, j \in DOMAIN release'[t] : release'[t][i] = release'[t][j] => i = j
    <3>1. release'[t] = r
      BY <1>1, <1>5 DEF SectionTypes
    <3>2. Releases(t)' = {r[i] : i \in DOMAIN r}
      BY <3>1 DEF Releases
    <3>3. Releases(t) = {}
      BY <1>3 DEF Releases
    <3>4. On(t, n) = {stack[t][n].on[i] : i \in DOMAIN stack[t][n].on}
      BY DEF On
    <3>5. QED
      BY <1>5, <3>1, <3>2, <3>3, <3>4
  <2>5. On(t, n) \subseteq Mutexes
    BY <1>4, SortedFacts DEF On
  <2>6. QED
    BY <1>1, <1>2, <2>1, <2>2, <2>3, <2>4, <2>5, OwnsReleased
<1>12. QED
  BY <1>6, <1>7, <1>8, <1>9, <1>10, <1>11, StepKeepsSections

\* SuspendAll deactivates the section at its level, ...
LEMMA SuspendOneKeeps ==
    ASSUME SectionsInv, NEW t \in Threads, SuspendAll(t),
           level[t] > 0 /\ stack[t][level[t]].active
    PROVE  SectionsInv'
<1>0. PICK n \in Nat : n = Len(stack[t])
  BY ThreadFacts
<1>1. /\ SectionTypes /\ Queues /\ Shape(t) /\ Phase(t) /\ Owns(t)
      /\ stack[t] \in Seq(Section) /\ DOMAIN stack[t] = 1..n
      /\ \A i \in DOMAIN stack[t] : stack[t][i] \in Section
  BY <1>0, ThreadFacts
<1>2. PICK k \in Nat : k = level[t]
  BY <1>1 DEF SectionTypes
<1>3. /\ pc[t] = "suspend" /\ release[t] = <<>>
      /\ k \in 1..n /\ stack[t][k].active
      /\ \A i \in 1..n : k < i => ~stack[t][i].active
  BY <1>0, <1>1, <1>2 DEF Phase, SuspendAll
<1>4. /\ stack' = [stack EXCEPT ![t][k].active = FALSE]
      /\ release' = [release EXCEPT ![t] = IF stack[t][k].recorded THEN stack[t][k].on ELSE <<>>]
      /\ level' = [level EXCEPT ![t] = k - 1]
      /\ UNCHANGED <<owner, queue, signal, want, pc>>
  BY <1>2, <1>3 DEF SuspendAll, locks
<1>5. PICK old \in Section : old = stack[t][k]
  BY <1>1, <1>3
<1>6. PICK new \in Section : /\ new = [old EXCEPT !.active = FALSE]
                             /\ new.on = old.on /\ new.recorded = old.recorded
                             /\ ~new.active
  <2>1. /\ [old EXCEPT !.active = FALSE] \in Section
        /\ [old EXCEPT !.active = FALSE].on = old.on
        /\ [old EXCEPT !.active = FALSE].recorded = old.recorded
        /\ ~[old EXCEPT !.active = FALSE].active
    BY DEF Section
  <2>2. QED
    BY <2>1
<1>7. stack' = [stack EXCEPT ![t] = [stack[t] EXCEPT ![k] = new]]
  BY <1>4, <1>5, <1>6
<1>8. /\ [stack[t] EXCEPT ![k] = new] \in Seq(Section)
      /\ Len([stack[t] EXCEPT ![k] = new]) = n
      /\ DOMAIN [stack[t] EXCEPT ![k] = new] = 1..n
      /\ \A i \in 1..n : [stack[t] EXCEPT ![k] = new][i] = IF i = k THEN new ELSE stack[t][i]
  BY <1>0, <1>1, <1>3
<1>9. /\ stack' \in [Threads -> Seq(Section)]
      /\ \A x \in Threads : x # t => stack'[x] = stack[x]
      /\ Len(stack'[t]) = n /\ DOMAIN stack'[t] = 1..n
      /\ \A i \in 1..n : stack'[t][i] = IF i = k THEN new ELSE stack[t][i]
  BY <1>1, <1>7, <1>8 DEF SectionTypes
<1>10. /\ \A i \in 1..n : Sorted(stack[t][i].on)
       /\ \A i \in 1..n : stack[t][i].recorded <=> ~(Wanting(t) /\ i = n)
  BY <1>0, <1>1 DEF Shape
<1>11. PICK r \in Seq(Mutexes) : /\ r = IF old.recorded THEN old.on ELSE <<>>
                                 /\ \A i, j \in DOMAIN r : r[i] = r[j] => i = j
  <2>1. old.on \in Seq(Mutexes) /\ \A i, j \in DOMAIN old.on : old.on[i] = old.on[j] => i = j
    BY <1>3, <1>5, <1>10, SortedFacts
  <2>2. <<>> \in Seq(Mutexes) /\ \A i, j \in DOMAIN <<>> : <<>>[i] = <<>>[j] => i = j
    BY EmptySeq
  <2>3. CASE old.recorded
    BY <2>1, <2>3
  <2>4. CASE ~old.recorded
    BY <2>2, <2>4
  <2>5. QED
    BY <2>3, <2>4
<1>12. release' = [release EXCEPT ![t] = r]
  BY <1>4, <1>5, <1>11
<1>13. SectionTypes'
  <2>1. k - 1 \in Nat
    BY <1>3
  <2>2. release' \in [Threads -> Seq(Mutexes)]
    BY <1>1, <1>12 DEF SectionTypes
  <2>3. /\ level' = [level EXCEPT ![t] = k - 1]
        /\ UNCHANGED <<owner, queue, signal, want, pc>>
    BY <1>4
  <2>4. level' \in [Threads -> Nat]
    BY <1>1, <2>1, <2>3 DEF SectionTypes
  <2>5. QED
    BY <1>1, <1>9, <2>2, <2>3, <2>4 DEF SectionTypes
<1>14. release'[t] = r /\ level'[t] = k - 1
  BY <1>1, <1>4, <1>12 DEF SectionTypes
<1>15. OthersKept(t) /\ SharedKept(t)
  BY <1>1, <1>4, <1>9, <1>12 DEF OthersKept, SharedKept, SectionTypes
<1>16. Queues'
  BY <1>3, <1>4, <1>15, QueuesKept
<1>17. /\ Wanting(t)' <=> Wanting(t)
       /\ stack'[t] # <<>> /\ stack[t] # <<>>
       /\ TopOf(t) = stack[t][n] /\ TopOf(t)' = stack'[t][n]
       /\ TopOf(t)'.on = TopOf(t).on
  <2>1. Wanting(t)' <=> Wanting(t)
    BY <1>4 DEF Wanting
  <2>2. stack'[t] # <<>> /\ stack[t] # <<>>
    BY <1>1, <1>3, <1>9
  <2>3. TopOf(t) = stack[t][n] /\ TopOf(t)' = stack'[t][n]
    BY <1>0, <1>9 DEF TopOf
  <2>4. n \in 1..n
    BY <1>3
  <2>5. stack'[t][n].on = stack[t][n].on
    BY <1>5, <1>6, <1>9, <2>4
  <2>6. QED
    BY <2>1, <2>2, <2>3, <2>5
<1>18. Shape(t)'
  <2>1. ASSUME NEW i \in 1..n
        PROVE  Sorted(stack'[t][i].on) /\ (stack'[t][i].recorded <=> ~(Wanting(t) /\ i = n))
    <3>1. stack'[t][i].on = stack[t][i].on /\ stack'[t][i].recorded = stack[t][i].recorded
      BY <1>5, <1>6, <1>9
    <3>2. QED
      BY <1>10, <3>1
  <2>2. ASSUME NEW i \in 1..n, NEW j \in 1..n, i < j, stack'[t][i].active, ~stack'[t][j].active
        PROVE  k - 1 < j
    <3>1. i # k /\ stack[t][i].active
      BY <1>6, <1>9, <2>2
    <3>2. i < k
      BY <1>3, <3>1
    <3>3. CASE j < k
      <4>1. ~stack[t][j].active
        BY <1>9, <2>2, <3>3
      <4>2. k < j
        BY <1>1, <1>2, <2>2, <3>1, <4>1 DEF Shape
      <4>3. QED
        BY <1>2, <3>3, <4>2
    <3>4. CASE ~(j < k)
      BY <3>4
    <3>5. QED
      BY <3>3, <3>4
  <2>3. Wanting(t) => \/ want[t] = TopOf(t)'.on
                      \/ \E a, b \in Mutexes : a < b /\ TopOf(t)'.on = <<a, b>> /\ want[t] = <<b>>
    BY <1>1, <1>17 DEF Shape
  <2>4. pc'[t] = "suspend" /\ want'[t] = want[t] /\ Len(stack'[t]) = n
    BY <1>3, <1>4, <1>9
  <2>5. QED
    BY <1>9, <1>14, <1>17, <2>1, <2>2, <2>3, <2>4 DEF Shape
<1>19. Phase(t)'
  <2>1. pc'[t] = "suspend"
    BY <1>3, <1>4
  <2>2. level'[t] <= Len(stack'[t])
    BY <1>3, <1>9, <1>14
  <2>3. ASSUME NEW i \in 1..n, k - 1 < i PROVE ~stack'[t][i].active
    <3>1. CASE i = k
      BY <1>6, <1>9, <3>1
    <3>2. CASE i # k
      <4>1. k < i
        BY <2>3, <3>2
      <4>2. QED
        BY <1>3, <1>9, <3>2, <4>1
    <3>3. QED
      BY <3>1, <3>2
  <2>4. QED
    BY <1>9, <1>14, <2>1, <2>2, <2>3 DEF Phase
<1>20. Owns(t)'
  <2>1. Live(t) = {i \in 1..n : stack[t][i].active /\ stack[t][i].recorded}
    BY <1>1, <1>3 DEF Live
  <2>2. Live(t)' = {i \in 1..n : stack'[t][i].active /\ stack'[t][i].recorded}
    BY <1>3, <1>4, <1>9 DEF Live
  <2>3. Live(t)' = Live(t) \ {k}
    BY <1>5, <1>6, <1>9, <2>1, <2>2
  <2>4. \A i \in Live(t) : On(t, i)' = On(t, i)
    <3>1. ASSUME NEW i \in Live(t) PROVE stack'[t][i].on = stack[t][i].on
      BY <1>5, <1>6, <1>9, <2>1
    <3>2. QED
      BY <3>1 DEF On
  <2>5. Extra(t)' = Extra(t)
    BY <1>3, <1>4, <1>17 DEF Extra
  <2>6. Releases(t) = {}
    BY <1>3 DEF Releases
  <2>7. CASE old.recorded
    <3>1. k \in Live(t)
      BY <1>3, <1>5, <2>1, <2>7
    <3>2. r = old.on /\ release'[t] = old.on
      BY <1>11, <1>14, <2>7
    <3>3. Releases(t)' = On(t, k)
      BY <1>5, <3>2 DEF Releases, On
    <3>4. On(t, k) \subseteq Mutexes
      BY <1>3, <1>5, <1>10, SortedFacts DEF On
    <3>5. /\ \A i, j \in DOMAIN release'[t] : release'[t][i] = release'[t][j] => i = j
          /\ \A a \in Mutexes : owner'[a] = t <=> owner[a] = t
      BY <1>4, <1>11, <1>14
    <3>6. QED
      BY <1>1, <2>3, <2>4, <2>5, <2>6, <3>1, <3>3, <3>4, <3>5, OwnsReleased
  <2>8. CASE ~old.recorded
    <3>1. release'[t] = release[t]
      BY <1>3, <1>11, <1>14, <2>8
    <3>2. Live(t)' = Live(t)
      BY <1>5, <2>1, <2>3, <2>8
    <3>3. QED
      BY <1>1, <1>4, <2>4, <2>5, <3>1, <3>2, OwnsKept
  <2>9. QED
    BY <2>7, <2>8
<1>21. QED
  BY <1>13, <1>15, <1>16, <1>18, <1>19, <1>20, StepKeepsSections

\* ... until there is none, or one that is inactive.
LEMMA SuspendEndKeeps ==
    ASSUME SectionsInv, NEW t \in Threads, SuspendAll(t),
           ~(level[t] > 0 /\ stack[t][level[t]].active)
    PROVE  SectionsInv'
<1>0. PICK n \in Nat : n = Len(stack[t])
  BY ThreadFacts
<1>1. /\ SectionTypes /\ Queues /\ Shape(t) /\ Phase(t) /\ Owns(t)
      /\ DOMAIN stack[t] = 1..n /\ level[t] \in Nat
  BY <1>0, ThreadFacts
<1>2. /\ pc[t] = "suspend" /\ release[t] = <<>>
      /\ level' = [level EXCEPT ![t] = 0]
      /\ pc' = [pc EXCEPT ![t] = IF want[t] = <<>> THEN "detached" ELSE "parked"]
      /\ UNCHANGED <<owner, queue, signal, stack, want, release>>
  BY DEF SuspendAll, Goto, locks
<1>3. \A k \in 1..n : ~stack[t][k].active
  <2>1. level[t] <= n /\ \A k \in 1..n : level[t] < k => ~stack[t][k].active
    BY <1>0, <1>1, <1>2 DEF Phase
  <2>2. CASE level[t] = 0
    BY <2>1, <2>2
  <2>3. ASSUME NEW k \in 1..n, level[t] # 0, stack[t][k].active PROVE FALSE
    <3>1. level[t] \in 1..n /\ ~stack[t][level[t]].active
      BY <1>1, <2>1, <2>3
    <3>2. k < level[t]
      BY <1>1, <2>1, <2>3, <3>1
    <3>3. level[t] < level[t]
      BY <1>1, <2>3, <3>1, <3>2 DEF Shape
    <3>4. QED
      BY <1>1, <3>3
  <2>4. QED
    BY <2>2, <2>3
<1>4. /\ level'[t] = 0
      /\ pc'[t] = IF want[t] = <<>> THEN "detached" ELSE "parked"
  BY <1>1, <1>2 DEF SectionTypes
<1>5. SectionTypes'
  BY <1>1, <1>2 DEF SectionTypes, CsPC
<1>6. OthersKept(t) /\ SharedKept(t)
  BY <1>1, <1>2 DEF OthersKept, SharedKept, SectionTypes
<1>7. Queues'
  BY <1>2, <1>4, <1>6, QueuesKept
<1>8. Wanting(t)' <=> Wanting(t)
  BY <1>2, <1>4 DEF Wanting
<1>9. Shape(t)'
  BY <1>0, <1>1, <1>2, <1>3, <1>8 DEF Shape, TopOf
<1>10. Phase(t)'
  BY <1>0, <1>1, <1>2, <1>3, <1>4 DEF Phase
<1>11. Owns(t)'
  <2>1. Live(t)' = Live(t) /\ Live(t) = {}
    BY <1>1, <1>2, <1>3, <1>4 DEF Live
  <2>2. Extra(t)' = Extra(t)
    <3>1. pc[t] # "begin2" /\ pc'[t] # "begin2"
      BY <1>2, <1>4
    <3>2. want'[t] = want[t] /\ signal'[t] = signal[t] /\ TopOf(t)' = TopOf(t)
      BY <1>2 DEF TopOf
    <3>3. QED
      BY <1>8, <3>1, <3>2 DEF Extra
  <2>3. QED
    BY <1>1, <1>2, <2>1, <2>2, OwnsKept
<1>12. QED
  BY <1>5, <1>6, <1>7, <1>9, <1>10, <1>11, StepKeepsSections

\* The last element of a sequence is replaced.
LEMMA LastReplaced ==
    ASSUME NEW S, NEW s \in Seq(S), s # <<>>, NEW e \in S, NEW r,
           r = Append(SubSeq(s, 1, Len(s) - 1), e)
    PROVE  /\ r \in Seq(S) /\ r # <<>> /\ Len(r) = Len(s) /\ DOMAIN r = DOMAIN s
           /\ \A i \in DOMAIN s : r[i] = IF i = Len(s) THEN e ELSE s[i]
<1>1. PICK f \in Seq(S) : /\ f = SubSeq(s, 1, Len(s) - 1) /\ Len(f) = Len(s) - 1
                          /\ \A i \in 1..(Len(s) - 1) : f[i] = s[i]
  BY FrontFacts
<1>2. r = Append(f, e)
  BY <1>1
<1>3. Len(s) \in Nat \ {0} /\ DOMAIN s = 1..Len(s)
  BY LenProperties
<1>4. QED
  BY <1>1, <1>2, <1>3, PushFacts

\* Resume: no section is active, and the one on top is to be locked.
LEMMA ResumeKeeps ==
    ASSUME SectionsInv, NEW t \in Threads, NEW n \in Nat, n # 0,
           n \in DOMAIN stack[t], NEW s \in Seq(Section),
           Len(s) = n, \A k \in 1..n : s[k] = stack[t][k] /\ ~s[k].active,
           \/ pc[t] = "detached" /\ Len(stack[t]) = n
           \/ pc[t] = "pop" /\ release[t] = <<>> /\ Len(stack[t]) = n + 1,
           Resume(t, s),
           UNCHANGED <<owner, queue, signal, release, level>>
    PROVE  SectionsInv'
<1>1. /\ SectionTypes /\ Queues /\ Shape(t) /\ Phase(t) /\ Owns(t)
      /\ DOMAIN stack[t] = 1..Len(stack[t])
  BY ThreadFacts
<1>2. /\ want[t] = <<>> /\ release[t] = <<>> /\ level[t] = 0 /\ signal[t] = "no"
      /\ ~Wanting(t)
  BY <1>1, NoSignal DEF Phase, Wanting
<1>3. s # <<>> /\ DOMAIN s = 1..n /\ n \in 1..n /\ \A k \in 1..n : s[k] \in Section
  OBVIOUS
<1>4. /\ Last(s) = s[n]
      /\ Front(s) = SubSeq(s, 1, n - 1)
  BY SectionSeqs
<1>5. PICK old \in Section : old = s[n]
  BY <1>3
<1>6. PICK new \in Section : /\ new = [old EXCEPT !.recorded = FALSE]
                             /\ new.on = old.on /\ ~new.recorded /\ ~new.active
  <2>1. ~old.active
    BY <1>3, <1>5
  <2>2. /\ [old EXCEPT !.recorded = FALSE] \in Section
        /\ [old EXCEPT !.recorded = FALSE].on = old.on
        /\ ~[old EXCEPT !.recorded = FALSE].recorded
        /\ ~[old EXCEPT !.recorded = FALSE].active
    BY <2>1 DEF Section
  <2>3. QED
    BY <2>2
<1>7. PICK r : r = Append(SubSeq(s, 1, n - 1), new)
  OBVIOUS
<1>8. /\ r \in Seq(Section) /\ r # <<>> /\ Len(r) = n /\ DOMAIN r = 1..n
      /\ \A i \in 1..n : r[i] = IF i = n THEN new ELSE s[i]
  <2>0. PICK S : S = Section
    OBVIOUS
  <2>1. s \in Seq(S) /\ s # <<>> /\ new \in S /\ r = Append(SubSeq(s, 1, Len(s) - 1), new)
    BY <1>3, <1>7, <2>0
  <2>2. /\ r \in Seq(S) /\ r # <<>>
        /\ Len(r) = Len(s)
        /\ DOMAIN r = DOMAIN s
        /\ \A i \in DOMAIN s : r[i] = IF i = Len(s) THEN new ELSE s[i]
    BY <2>1, LastReplaced
  <2>3. QED
    BY <1>3, <2>0, <2>2
<1>9. /\ stack' = [stack EXCEPT ![t] = r]
      /\ want' = [want EXCEPT ![t] = old.on]
      /\ pc' = [pc EXCEPT ![t] = "lock"]
  BY <1>4, <1>5, <1>6, <1>7 DEF Resume, Goto
<1>10. \A k \in 1..n : Sorted(stack[t][k].on) /\ stack[t][k].recorded
  BY <1>1, <1>2 DEF Shape
<1>11. Sorted(old.on) /\ old.on \in Seq(Mutexes) /\ old.on # <<>>
  BY <1>3, <1>5, <1>10, SortedFacts
<1>12. SectionTypes'
  BY <1>1, <1>8, <1>9, <1>11 DEF SectionTypes, CsPC
<1>13. /\ stack'[t] = r /\ want'[t] = old.on /\ pc'[t] = "lock"
       /\ release'[t] = <<>> /\ level'[t] = 0 /\ signal'[t] = "no"
  BY <1>1, <1>2, <1>9 DEF SectionTypes
<1>14. OthersKept(t) /\ SharedKept(t)
  BY <1>1, <1>9 DEF OthersKept, SharedKept, SectionTypes
<1>15. Queues'
  BY <1>2, <1>14, QueuesKept
<1>16. Wanting(t)' /\ TopOf(t)' = new /\ Len(stack'[t]) = n /\ DOMAIN stack'[t] = 1..n
       /\ stack'[t] # <<>>
  BY <1>3, <1>8, <1>11, <1>13 DEF Wanting, TopOf
<1>17. Shape(t)'
  <2>1. ASSUME NEW k \in 1..n PROVE Sorted(stack'[t][k].on) /\ (stack'[t][k].recorded <=> k # n)
    BY <1>6, <1>8, <1>10, <1>11, <1>13
  <2>2. ASSUME NEW k \in 1..n PROVE ~stack'[t][k].active
    BY <1>6, <1>8, <1>13
  <2>3. QED
    BY <1>6, <1>13, <1>16, <2>1, <2>2 DEF Shape
<1>18. Phase(t)'
  BY <1>11, <1>13 DEF Phase
<1>19. Owns(t)'
  <2>1. Live(t)' = {}
    <3>1. ASSUME NEW k \in 1..n PROVE ~stack'[t][k].active
      BY <1>6, <1>8, <1>13
    <3>2. QED
      BY <1>16, <3>1 DEF Live
  <2>2. Live(t) = {}
    <3>1. ASSUME NEW k \in Live(t) PROVE FALSE
      <4>1. k \in 1..Len(stack[t]) /\ stack[t][k].active
            /\ ~(pc[t] = "pop" /\ k = Len(stack[t]))
        BY <1>1, <3>1 DEF Live
      <4>2. k \in 1..n
        BY <4>1
      <4>3. QED
        BY <4>1, <4>2
    <3>2. QED
      BY <3>1
  <2>3. Extra(t) = {} /\ Extra(t)' = {}
    <3>1. want'[t] = TopOf(t)'.on
      BY <1>6, <1>13, <1>16
    <3>2. QED
      BY <1>2, <1>13, <3>1 DEF Extra
  <2>4. QED
    BY <1>1, <1>2, <1>13, <2>1, <2>2, <2>3, OwnsKept
<1>20. QED
  BY <1>12, <1>14, <1>15, <1>17, <1>18, <1>19, StepKeepsSections

\* A thread that gets its thread state back resumes the section on top, if
\* it has one.
LEMMA AttachKeeps ==
    ASSUME SectionsInv, NEW t \in Threads, Attach(t) PROVE SectionsInv'
<1>0. PICK n \in Nat : n = Len(stack[t])
  BY ThreadFacts
<1>1. /\ SectionTypes /\ Queues /\ Shape(t) /\ Phase(t) /\ Owns(t)
      /\ stack[t] \in Seq(Section) /\ DOMAIN stack[t] = 1..n
      /\ stack[t] # <<>> <=> n # 0
  BY <1>0, ThreadFacts
<1>2. pc[t] = "detached" /\ UNCHANGED <<owner, queue, signal, release, level>>
  BY DEF Attach, locks
<1>3. \A k \in 1..n : ~stack[t][k].active
  BY <1>1, <1>2 DEF Phase
<1>4. CASE stack[t] = <<>>
  <2>1. /\ pc' = [pc EXCEPT ![t] = "run"] /\ UNCHANGED <<stack, want>>
        /\ pc'[t] = "run" /\ want[t] = <<>>
    BY <1>1, <1>2, <1>4 DEF Attach, Goto, SectionTypes, Phase
  <2>2. SectionTypes'
    BY <1>1, <1>2, <2>1 DEF SectionTypes, CsPC
  <2>3. OthersKept(t) /\ SharedKept(t)
    BY <1>1, <1>2, <2>1 DEF OthersKept, SharedKept, SectionTypes
  <2>4. Queues'
    BY <1>2, <2>3, QueuesKept
  <2>5. Shape(t)'
    BY <1>1, <1>2, <2>1 DEF Shape, Wanting, TopOf
  <2>6. Phase(t)'
    BY <1>1, <1>2, <1>4, <2>1 DEF Phase
  <2>7. Owns(t)'
    <3>1. Live(t)' = Live(t)
      BY <1>2, <2>1 DEF Live
    <3>2. \A k : On(t, k)' = On(t, k)
      BY <2>1 DEF On
    <3>3. Extra(t)' = Extra(t)
      BY <1>2, <2>1 DEF Extra, Wanting
    <3>4. QED
      BY <1>1, <1>2, <3>1, <3>2, <3>3, OwnsKept
  <2>8. QED
    BY <2>2, <2>3, <2>4, <2>5, <2>6, <2>7, StepKeepsSections
<1>5. CASE stack[t] # <<>>
  <2>1. Resume(t, stack[t])
    BY <1>5 DEF Attach
  <2>2. n # 0 /\ n \in DOMAIN stack[t]
    BY <1>0, <1>1, <1>5
  <2>3. QED
    BY <1>0, <1>1, <1>2, <1>3, <2>1, <2>2, ResumeKeeps
<1>6. QED
  BY <1>4, <1>5

\* A section whose mutexes are unlocked is popped, and the one underneath,
\* when it was suspended, is to be locked again.
LEMMA PopKeeps ==
    ASSUME SectionsInv, NEW t \in Threads, Pop(t) PROVE SectionsInv'
<1>0. PICK n \in Nat : n = Len(stack[t]) - 1 /\ Len(stack[t]) = n + 1
  <2>1. Len(stack[t]) \in Nat /\ Len(stack[t]) # 0
    BY ThreadFacts DEF Pop, Phase
  <2>2. Len(stack[t]) - 1 \in Nat /\ Len(stack[t]) = (Len(stack[t]) - 1) + 1
    BY <2>1
  <2>3. QED
    BY <2>2
<1>1. /\ SectionTypes /\ Queues /\ Shape(t) /\ Phase(t) /\ Owns(t)
      /\ stack[t] \in Seq(Section) /\ DOMAIN stack[t] = 1..(n + 1) /\ stack[t] # <<>>
  BY <1>0, ThreadFacts
<1>2. PICK s \in Seq(Section) :
         /\ s = Front(stack[t]) /\ Len(s) = n /\ DOMAIN s = 1..n
         /\ \A k \in 1..n : s[k] = stack[t][k]
  <2>1. SubSeq(stack[t], 1, Len(stack[t]) - 1) \in Seq(Section)
        /\ Len(SubSeq(stack[t], 1, Len(stack[t]) - 1)) = n
        /\ DOMAIN SubSeq(stack[t], 1, Len(stack[t]) - 1) = 1..n
        /\ \A k \in 1..n : SubSeq(stack[t], 1, Len(stack[t]) - 1)[k] = stack[t][k]
    BY <1>0, <1>1, FrontFacts
  <2>2. QED
    BY <2>1, SectionSeqs
<1>3. /\ pc[t] = "pop" /\ release[t] = <<>>
      /\ UNCHANGED <<owner, queue, signal, release, level>>
      /\ IF s # <<>> /\ ~Last(s).active THEN Resume(t, s)
         ELSE /\ stack' = [stack EXCEPT ![t] = s]
              /\ pc' = [pc EXCEPT ![t] = "run"]
              /\ UNCHANGED want
  BY <1>2 DEF Pop, Goto, locks
<1>4. /\ want[t] = <<>> /\ level[t] = 0 /\ signal[t] = "no" /\ ~Wanting(t)
  BY <1>1, <1>3, NoSignal DEF Phase, Wanting
<1>5. s # <<>> <=> n # 0
  BY <1>2, EmptySeq
<1>6. Last(s) = s[n]
  BY <1>2, SectionSeqs
<1>7. \A j, k \in 1..n : j < k /\ stack[t][j].active => stack[t][k].active
  <2>1. ASSUME NEW j \in 1..n, NEW k \in 1..n, j < k, stack[t][j].active, ~stack[t][k].active
        PROVE  FALSE
    <3>1. j \in DOMAIN stack[t] /\ k \in DOMAIN stack[t]
      BY <1>1
    <3>2. QED
      BY <1>1, <1>3, <2>1, <3>1 DEF Shape
  <2>2. QED
    BY <2>1
<1>8. CASE s # <<>> /\ ~s[n].active
  <2>1. Resume(t, s)
    BY <1>3, <1>6, <1>8
  <2>2. n # 0 /\ n \in 1..n /\ n \in DOMAIN stack[t] /\ ~stack[t][n].active
    BY <1>1, <1>2, <1>5, <1>8
  <2>3. ASSUME NEW k \in 1..n PROVE s[k] = stack[t][k] /\ ~s[k].active
    <3>1. ~stack[t][k].active
      BY <1>7, <2>2, <2>3
    <3>2. QED
      BY <1>2, <3>1
  <2>4. QED
    BY <1>0, <1>2, <1>3, <2>1, <2>2, <2>3, ResumeKeeps
<1>9. CASE ~(s # <<>> /\ ~s[n].active)
  <2>1. /\ stack' = [stack EXCEPT ![t] = s]
        /\ pc' = [pc EXCEPT ![t] = "run"]
        /\ UNCHANGED want
    BY <1>3, <1>6, <1>9
  <2>2. SectionTypes'
    BY <1>1, <1>2, <1>3, <2>1 DEF SectionTypes, CsPC
  <2>3. stack'[t] = s /\ pc'[t] = "run"
    BY <1>1, <2>1 DEF SectionTypes
  <2>4. OthersKept(t) /\ SharedKept(t)
    BY <1>1, <1>3, <2>1 DEF OthersKept, SharedKept, SectionTypes
  <2>5. Queues'
    BY <1>3, <2>4, QueuesKept
  <2>6. ~Wanting(t)' /\ (s # <<>> => TopOf(t)' = s[n])
    BY <1>2, <2>3 DEF Wanting, TopOf
  <2>7. Shape(t)'
    <3>1. ASSUME NEW k \in 1..n PROVE Sorted(s[k].on) /\ s[k].recorded
      <4>1. k \in DOMAIN stack[t] /\ s[k] = stack[t][k]
        BY <1>1, <1>2
      <4>2. QED
        BY <1>1, <1>4, <4>1 DEF Shape
    <3>2. \A j, k \in 1..n : j < k /\ s[j].active => s[k].active
      BY <1>2, <1>7
    <3>3. QED
      BY <1>2, <2>3, <2>6, <3>1, <3>2 DEF Shape
  <2>8. Phase(t)'
    BY <1>3, <1>4, <1>9, <2>1, <2>3, <2>6 DEF Phase
  <2>9. Owns(t)'
    <3>1. Live(t) = {k \in 1..n : stack[t][k].active /\ stack[t][k].recorded}
      BY <1>0, <1>1, <1>3 DEF Live
    <3>2. Live(t)' = {k \in 1..n : s[k].active /\ s[k].recorded}
      BY <1>2, <2>3 DEF Live
    <3>3. Live(t)' = Live(t)
      BY <1>2, <3>1, <3>2
    <3>4. \A k \in Live(t) : On(t, k)' = On(t, k)
      BY <1>2, <2>3, <3>1 DEF On
    <3>5. Extra(t)' = Extra(t)
      BY <1>3, <1>4, <2>3, <2>6 DEF Extra
    <3>6. QED
      BY <1>1, <1>3, <3>3, <3>4, <3>5, OwnsKept
  <2>10. QED
    BY <2>2, <2>4, <2>5, <2>7, <2>8, <2>9, StepKeepsSections
<1>10. QED
  BY <1>8, <1>9

\* What an unlock of m does: it is nobody's, or that of the first that waits.
HasUnlocked(t, m) ==
    /\ owner' \in [Mutexes -> Threads \cup {NoThread}]
    /\ queue' \in [Mutexes -> Seq(Threads)]
    /\ signal' \in [Threads -> {"no", "woken", "handed off"}]
    /\ Queues'
    /\ \A x \in Threads : \A a \in Mutexes : a # m => (owner'[a] = x <=> owner[a] = x)
    /\ \A x \in Threads : owner'[m] = x <=> signal'[x] # signal[x] /\ signal'[x] = "handed off"
    /\ \A x \in Threads : signal'[x] # signal[x] =>
          /\ want[x] # <<>> /\ want[x][1] = m /\ signal[x] = "no"
          /\ pc[x] \in {"suspend", "parked"}

\* PyMutex_Unlock wakes the first of the queue, or hands the mutex over to
\* it; nobody else learns of it.
LEMMA UnlockFacts ==
    ASSUME SectionsInv, NEW t \in Threads, NEW m \in Mutexes, owner[m] = t,
           Unlock(m), UNCHANGED <<want, pc>>
    PROVE  HasUnlocked(t, m)
<1>1. /\ SectionTypes
      /\ \A a \in Mutexes : \A i, j \in DOMAIN queue[a] : queue[a][i] = queue[a][j] => i = j
      /\ \A a \in Mutexes : \A i \in DOMAIN queue[a] : \A x \in Threads :
            x = queue[a][i] => /\ pc[x] \in {"suspend", "parked"} /\ want[x] # <<>>
                               /\ want[x][1] = a /\ signal[x] = "no"
      /\ \A x \in Threads :
            signal[x] # "no" => pc[x] \in {"suspend", "parked"} /\ want[x] # <<>>
  BY DEF SectionsInv, Queues
<1>2. NoThread \notin Threads
  BY DEF SectionsInv, Parameters
<1>3. CASE queue[m] = <<>>
  <2>1. owner' = [owner EXCEPT ![m] = NoThread] /\ UNCHANGED <<queue, signal>>
    BY <1>3 DEF Unlock
  <2>2. Queues'
    <3>1. Queues
      BY DEF SectionsInv
    <3>2. QED
      BY <2>1, <3>1 DEF Queues
  <2>3. /\ owner' \in [Mutexes -> Threads \cup {NoThread}] /\ owner'[m] = NoThread
        /\ \A a \in Mutexes : a # m => owner'[a] = owner[a]
    <3>1. owner \in [Mutexes -> Threads \cup {NoThread}]
      BY <1>1 DEF SectionTypes
    <3>2. QED
      BY <2>1, <3>1
  <2>4. /\ queue' \in [Mutexes -> Seq(Threads)]
        /\ signal' \in [Threads -> {"no", "woken", "handed off"}] /\ signal' = signal
    <3>1. SectionTypes
      BY <1>1
    <3>2. QED
      BY <2>1, <3>1 DEF SectionTypes
  <2>5. QED
    BY <1>2, <2>2, <2>3, <2>4 DEF HasUnlocked
<1>4. CASE queue[m] # <<>>
  <2>1. queue[m] \in Seq(Threads)
    BY <1>1 DEF SectionTypes
  <2>2. PICK q \in Threads : q = Head(queue[m]) /\ q = queue[m][1] /\ 1 \in DOMAIN queue[m]
    BY <1>4, <2>1
  <2>3. PICK s \in Seq(Threads) : /\ s = Tail(queue[m])
                                  /\ \A i \in DOMAIN s : /\ i + 1 \in DOMAIN queue[m] /\ i \in 1..Len(s)
                                                          /\ s[i] = queue[m][i + 1]
    <3>1. PICK s \in Seq(Threads) : /\ s = Tail(queue[m]) /\ Len(s) = Len(queue[m]) - 1
                                    /\ \A i \in 1..Len(s) : s[i] = queue[m][i + 1]
      BY <1>4, <2>1, HeadTailProperties
    <3>2. DOMAIN queue[m] = 1..Len(queue[m]) /\ Len(queue[m]) \in Nat /\ DOMAIN s = 1..Len(s)
      BY <2>1, LenProperties
    <3>3. \A i \in DOMAIN s : i + 1 \in DOMAIN queue[m]
      BY <3>1, <3>2
    <3>4. QED
      BY <3>1, <3>2, <3>3
  <2>4. /\ pc[q] \in {"suspend", "parked"} /\ want[q] # <<>>
        /\ want[q][1] = m /\ signal[q] = "no"
    BY <1>1, <2>2
  <2>5. /\ queue' = [queue EXCEPT ![m] = s]
        /\ \/ /\ owner' = [owner EXCEPT ![m] = NoThread]
              /\ signal' = [signal EXCEPT ![q] = "woken"]
           \/ /\ owner' = [owner EXCEPT ![m] = q]
              /\ signal' = [signal EXCEPT ![q] = "handed off"]
    BY <1>4, <2>2, <2>3 DEF Unlock
  <2>6. \A i \in DOMAIN s : s[i] # q
    <3>1. ASSUME NEW i \in DOMAIN s, s[i] = q PROVE FALSE
      <4>1. i + 1 \in DOMAIN queue[m] /\ queue[m][i + 1] = queue[m][1] /\ i \in 1..Len(s)
        BY <2>2, <2>3, <3>1
      <4>2. i + 1 = 1
        BY <1>1, <2>2, <4>1
      <4>3. QED
        BY <4>1, <4>2
    <3>2. QED
      BY <3>1
  <2>7. /\ queue' \in [Mutexes -> Seq(Threads)]
        /\ queue'[m] = s /\ \A a \in Mutexes : a # m => queue'[a] = queue[a]
    <3>1. queue \in [Mutexes -> Seq(Threads)] /\ queue' = [queue EXCEPT ![m] = s]
      BY <1>1, <2>5 DEF SectionTypes
    <3>2. QED
      BY <3>1
  <2>8. /\ signal' \in [Threads -> {"no", "woken", "handed off"}]
        /\ signal'[q] \in {"woken", "handed off"} /\ \A x \in Threads : x # q => signal'[x] = signal[x]
    <3>1. signal \in [Threads -> {"no", "woken", "handed off"}]
      BY <1>1 DEF SectionTypes
    <3>2. signal' = [signal EXCEPT ![q] = "woken"] \/ signal' = [signal EXCEPT ![q] = "handed off"]
      BY <2>5
    <3>3. QED
      BY <3>1, <3>2
  <2>9. Queues'
    <3>1. ASSUME NEW a \in Mutexes, NEW i \in DOMAIN queue'[a], NEW j \in DOMAIN queue'[a],
                 queue'[a][i] = queue'[a][j]
          PROVE  i = j
      <4>1. CASE a = m
        <5>1. /\ i + 1 \in DOMAIN queue[m] /\ j + 1 \in DOMAIN queue[m]
              /\ queue[m][i + 1] = queue[m][j + 1] /\ i \in 1..Len(s) /\ j \in 1..Len(s)
          BY <2>3, <2>7, <3>1, <4>1
        <5>2. i + 1 = j + 1
          BY <1>1, <5>1
        <5>3. QED
          BY <5>1, <5>2
      <4>2. CASE a # m
        <5>1. queue'[a] = queue[a]
          BY <2>7, <4>2
        <5>2. i \in DOMAIN queue[a] /\ j \in DOMAIN queue[a] /\ queue[a][i] = queue[a][j]
          BY <3>1, <5>1
        <5>3. QED
          BY <1>1, <5>2
      <4>3. QED
        BY <4>1, <4>2
    <3>2. ASSUME NEW a \in Mutexes, NEW i \in DOMAIN queue'[a], NEW x \in Threads, x = queue'[a][i]
          PROVE  /\ pc[x] \in {"suspend", "parked"} /\ want[x] # <<>>
                 /\ want[x][1] = a /\ signal'[x] = "no"
      <4>1. PICK j \in DOMAIN queue[a] : queue[a][j] = x
        BY <2>3, <2>7, <3>2
      <4>2. /\ pc[x] \in {"suspend", "parked"} /\ want[x] # <<>>
            /\ want[x][1] = a /\ signal[x] = "no"
        BY <1>1, <4>1
      <4>3. x # q
        <5>1. CASE a = m
          BY <2>6, <2>7, <3>2, <5>1
        <5>2. CASE a # m
          BY <2>4, <4>2, <5>2
        <5>3. QED
          BY <5>1, <5>2
      <4>4. QED
        BY <2>8, <4>2, <4>3
    <3>3. ASSUME NEW x \in Threads, signal'[x] # "no"
          PROVE  pc[x] \in {"suspend", "parked"} /\ want[x] # <<>>
      <4>1. CASE x = q
        BY <1>1, <2>4, <4>1
      <4>2. CASE x # q
        BY <1>1, <2>8, <3>3, <4>2
      <4>3. QED
        BY <4>1, <4>2
    <3>4. pc' = pc /\ want' = want
      OBVIOUS
    <3>5. QED
      <4>1. \A a \in Mutexes : \A i, j \in DOMAIN queue'[a] : queue'[a][i] = queue'[a][j] => i = j
        BY <3>1
      <4>2. \A a \in Mutexes : \A i \in DOMAIN queue'[a] : \A x \in Threads : x = queue'[a][i] =>
               /\ pc'[x] \in {"suspend", "parked"} /\ want'[x] # <<>>
               /\ want'[x][1] = a /\ signal'[x] = "no"
        BY <3>2, <3>4
      <4>3. \A x \in Threads :
               signal'[x] # "no" => pc'[x] \in {"suspend", "parked"} /\ want'[x] # <<>>
        BY <3>3, <3>4
      <4>4. QED
        BY <4>1, <4>2, <4>3 DEF Queues
  <2>10. owner \in [Mutexes -> Threads \cup {NoThread}] /\ signal \in [Threads -> {"no", "woken", "handed off"}]
    BY <1>1 DEF SectionTypes
  <2>11. CASE owner' = [owner EXCEPT ![m] = NoThread] /\ signal' = [signal EXCEPT ![q] = "woken"]
    BY <1>2, <2>4, <2>7, <2>8, <2>9, <2>10, <2>11 DEF HasUnlocked
  <2>12. CASE owner' = [owner EXCEPT ![m] = q] /\ signal' = [signal EXCEPT ![q] = "handed off"]
    BY <1>2, <2>4, <2>7, <2>8, <2>9, <2>10, <2>12 DEF HasUnlocked
  <2>13. QED
    BY <2>5, <2>11, <2>12
<1>5. QED
  BY <1>3, <1>4

\* What a thread owns when another, or it itself, has unlocked m.
LEMMA OwnsUnlocked ==
    ASSUME NEW x, Owns(x), NEW m \in Mutexes,
           \A a \in Mutexes : a # m => (owner'[a] = x <=> owner[a] = x),
           Live(x)' = Live(x), \A k \in Live(x) : On(x, k)' = On(x, k),
           \A k \in Live(x) : m \notin On(x, k), m \notin Extra(x),
           Releases(x)' = Releases(x) \ {m},
           \/ owner'[m] # x /\ Extra(x)' = Extra(x)
           \/ owner'[m] = x /\ Extra(x)' = Extra(x) \cup {m},
           \A i, j \in DOMAIN release'[x] : release'[x][i] = release'[x][j] => i = j
    PROVE  Owns(x)'
<1>1. /\ \A a \in Mutexes : owner[a] = x <=>
            a \in Extra(x) \/ a \in Releases(x) \/ \E k \in Live(x) : a \in On(x, k)
      /\ \A k \in Live(x) : \A a \in On(x, k) :
            a \notin Extra(x) /\ a \notin Releases(x) /\ \A j \in Live(x) : a \in On(x, j) => j = k
      /\ Extra(x) \cap Releases(x) = {}
  BY DEF Owns
<1>2. \A a \in Mutexes : owner'[a] = x <=>
         a \in Extra(x)' \/ a \in Releases(x)' \/ \E k \in Live(x)' : a \in On(x, k)'
  <2>1. ASSUME NEW a \in Mutexes, a # m
        PROVE  owner'[a] = x <=>
                 a \in Extra(x)' \/ a \in Releases(x)' \/ \E k \in Live(x)' : a \in On(x, k)'
    BY <1>1, <2>1
  <2>2. owner'[m] = x <=>
          m \in Extra(x)' \/ m \in Releases(x)' \/ \E k \in Live(x)' : m \in On(x, k)'
    OBVIOUS
  <2>3. QED
    BY <2>1, <2>2
<1>3. \A k \in Live(x)' : \A a \in On(x, k)' :
         a \notin Extra(x)' /\ a \notin Releases(x)' /\ \A j \in Live(x)' : a \in On(x, j)' => j = k
  BY <1>1
<1>4. Extra(x)' \cap Releases(x)' = {}
  BY <1>1
<1>5. QED
  BY <1>2, <1>3, <1>4 DEF Owns

\* One mutex of a section that ends, or is suspended, is unlocked.
LEMMA ReleaseKeeps ==
    ASSUME SectionsInv, NEW t \in Threads, Release(t) PROVE SectionsInv'
<1>1. /\ SectionTypes /\ Queues /\ Phase(t) /\ Owns(t) /\ release[t] \in Seq(Mutexes)
      /\ release[t] # <<>>
  BY ThreadFacts DEF Release
<1>2. /\ Unlock(Head(release[t]))
      /\ release' = [release EXCEPT ![t] = Tail(@)]
      /\ UNCHANGED <<stack, want, level, pc>>
  BY DEF Release
<1>3. PICK m \in Mutexes : m = Head(release[t]) /\ m = release[t][1] /\ 1 \in DOMAIN release[t]
  <2>1. Len(release[t]) \in Nat \ {0} /\ DOMAIN release[t] = 1..Len(release[t])
    BY <1>1, LenProperties, EmptySeq
  <2>2. Head(release[t]) = release[t][1] /\ Head(release[t]) \in Mutexes
    BY <1>1, HeadTailProperties
  <2>3. 1 \in DOMAIN release[t]
    BY <2>1
  <2>4. QED
    BY <2>2, <2>3
<1>4. PICK s \in Seq(Mutexes) :
         /\ s = Tail(release[t])
         /\ DOMAIN release[t] = {1} \cup {i + 1 : i \in DOMAIN s}
         /\ DOMAIN s \subseteq Nat \ {0}
         /\ \A i \in DOMAIN s : s[i] = release[t][i + 1]
  <2>1. PICK s \in Seq(Mutexes) : /\ s = Tail(release[t]) /\ Len(s) = Len(release[t]) - 1
                                  /\ \A i \in 1..Len(s) : s[i] = release[t][i + 1]
    BY <1>1, HeadTailProperties
  <2>2. DOMAIN release[t] = 1..Len(release[t]) /\ Len(release[t]) \in Nat \ {0} /\ DOMAIN s = 1..Len(s)
    BY <1>1, LenProperties
  <2>3. 1..Len(release[t]) = {1} \cup {i + 1 : i \in 1..Len(s)}
    <3>1. ASSUME NEW k \in 1..Len(release[t]), k # 1 PROVE k \in {i + 1 : i \in 1..Len(s)}
      <4>1. k - 1 \in 1..Len(s) /\ k = (k - 1) + 1
        BY <2>1, <2>2, <3>1
      <4>2. QED
        BY <4>1
    <3>2. {i + 1 : i \in 1..Len(s)} \subseteq 1..Len(release[t])
      BY <2>1, <2>2
    <3>3. 1 \in 1..Len(release[t])
      BY <2>2
    <3>4. QED
      BY <3>1, <3>2, <3>3
  <2>4. 1..Len(s) \subseteq Nat \ {0}
    BY <2>1, <2>2
  <2>5. QED
    BY <2>1, <2>2, <2>3, <2>4
<1>5. \A i, j \in DOMAIN release[t] : release[t][i] = release[t][j] => i = j
  BY <1>1 DEF Owns
<1>6. m \in Releases(t) /\ owner[m] = t
  <2>1. m \in Releases(t)
    BY <1>3 DEF Releases
  <2>2. QED
    BY <1>1, <2>1 DEF Owns
<1>7. HasUnlocked(t, m)
  BY <1>2, <1>3, <1>6, UnlockFacts
<1>8. release' = [release EXCEPT ![t] = s] /\ release'[t] = s
  BY <1>1, <1>2, <1>4 DEF SectionTypes
<1>9. SectionTypes'
  <2>1. /\ owner' \in [Mutexes -> Threads \cup {NoThread}]
        /\ queue' \in [Mutexes -> Seq(Threads)]
        /\ signal' \in [Threads -> {"no", "woken", "handed off"}]
    BY <1>7 DEF HasUnlocked
  <2>2. release' \in [Threads -> Seq(Mutexes)]
    BY <1>1, <1>8 DEF SectionTypes
  <2>3. UNCHANGED <<stack, want, level, pc>>
    BY <1>2
  <2>4. QED
    BY <1>1, <2>1, <2>2, <2>3 DEF SectionTypes
<1>10. {s[i] : i \in DOMAIN s} = Releases(t) \ {m} /\ \A i, j \in DOMAIN s : s[i] = s[j] => i = j
  <2>1. ASSUME NEW i \in DOMAIN s PROVE s[i] \in Releases(t) /\ s[i] # m
    <3>1. i + 1 \in DOMAIN release[t] /\ i + 1 # 1
      BY <1>4
    <3>2. s[i] = release[t][i + 1]
      BY <1>4
    <3>3. release[t][i + 1] # release[t][1]
      BY <1>3, <1>5, <3>1
    <3>4. QED
      BY <1>3, <3>1, <3>2, <3>3 DEF Releases
  <2>2. ASSUME NEW a \in Releases(t), a # m PROVE a \in {s[i] : i \in DOMAIN s}
    <3>1. PICK k \in DOMAIN release[t] : release[t][k] = a
      BY DEF Releases
    <3>2. k # 1
      BY <1>3, <2>2, <3>1
    <3>3. PICK i \in DOMAIN s : k = i + 1
      BY <1>4, <3>2
    <3>4. QED
      BY <1>4, <3>1, <3>3
  <2>3. ASSUME NEW i \in DOMAIN s, NEW j \in DOMAIN s, s[i] = s[j] PROVE i = j
    <3>1. i + 1 \in DOMAIN release[t] /\ j + 1 \in DOMAIN release[t]
          /\ release[t][i + 1] = release[t][j + 1]
      BY <1>4, <2>3
    <3>2. i + 1 = j + 1 /\ i \in Nat /\ j \in Nat
      BY <1>4, <1>5, <3>1
    <3>3. QED
      BY <3>2
  <2>4. QED
    BY <2>1, <2>2, <2>3
<1>11. ASSUME NEW x \in Threads PROVE Shape(x)' /\ Phase(x)' /\ Owns(x)'
  <2>1. Shape(x) /\ Phase(x) /\ Owns(x)
    BY DEF SectionsInv
  <2>2. Shape(x)'
    BY <1>2, <2>1 DEF Shape, Wanting, TopOf
  <2>3. x # t => release'[x] = release[x]
    BY <1>1, <1>8 DEF SectionTypes
  <2>4. Phase(x)'
    <3>1. pc[x] \notin {"suspend", "pop"} => release'[x] = <<>>
      BY <1>1, <2>1, <2>3 DEF Phase
    <3>2. QED
      BY <1>2, <2>1, <3>1 DEF Phase, TopOf
  <2>5. Live(x)' = Live(x) /\ \A k \in Live(x) : On(x, k)' = On(x, k)
    BY <1>2 DEF Live, On
  <2>6. /\ \A k \in Live(x) : m \notin On(x, k)
        /\ m \notin Extra(x)
        /\ x # t => m \notin Releases(x)
    <3>1. CASE x = t
      BY <1>6, <2>1, <3>1 DEF Owns
    <3>2. CASE x # t
      BY <1>6, <2>1, <3>2 DEF Owns
    <3>3. QED
      BY <3>1, <3>2
  <2>7. /\ Releases(x)' = Releases(x) \ {m}
        /\ \A i, j \in DOMAIN release'[x] : release'[x][i] = release'[x][j] => i = j
    <3>1. CASE x = t
      <4>1. Releases(t)' = {s[i] : i \in DOMAIN s}
        BY <1>8 DEF Releases
      <4>2. QED
        BY <1>8, <1>10, <3>1, <4>1
    <3>2. CASE x # t
      <4>1. Releases(x)' = Releases(x)
        BY <2>3, <3>2 DEF Releases
      <4>2. \A i, j \in DOMAIN release[x] : release[x][i] = release[x][j] => i = j
        BY <2>1 DEF Owns
      <4>3. QED
        BY <2>3, <2>6, <3>2, <4>1, <4>2
    <3>3. QED
      BY <3>1, <3>2
  <2>8. \/ owner'[m] # x /\ Extra(x)' = Extra(x)
        \/ owner'[m] = x /\ Extra(x)' = Extra(x) \cup {m}
    <3>1. Wanting(x)' <=> Wanting(x)
      BY <1>2 DEF Wanting
    <3>2. TopOf(x)' = TopOf(x) /\ want'[x] = want[x] /\ pc'[x] = pc[x]
      BY <1>2 DEF TopOf
    <3>3. CASE signal'[x] = signal[x]
      <4>1. Extra(x)' = Extra(x)
        BY <3>1, <3>2, <3>3 DEF Extra
      <4>2. owner'[m] # x
        BY <1>7, <3>3 DEF HasUnlocked
      <4>3. QED
        BY <4>1, <4>2
    <3>4. CASE signal'[x] # signal[x]
      <4>1. want[x][1] = m /\ signal[x] = "no"
        BY <1>7, <3>4 DEF HasUnlocked
      <4>2. CASE signal'[x] = "handed off"
        <5>1. owner'[m] = x
          BY <1>7, <3>4, <4>2 DEF HasUnlocked
        <5>2. Extra(x)' = Extra(x) \cup {m}
          BY <3>1, <3>2, <4>1, <4>2 DEF Extra
        <5>3. QED
          BY <5>1, <5>2
      <4>3. CASE signal'[x] # "handed off"
        <5>1. owner'[m] # x
          BY <1>7, <4>3 DEF HasUnlocked
        <5>2. Extra(x)' = Extra(x)
          BY <3>1, <3>2, <4>1, <4>3 DEF Extra
        <5>3. QED
          BY <5>1, <5>2
      <4>4. QED
        BY <4>2, <4>3
    <3>5. QED
      BY <3>3, <3>4
  <2>9. \A a \in Mutexes : a # m => (owner'[a] = x <=> owner[a] = x)
    BY <1>7 DEF HasUnlocked
  <2>10. Owns(x)'
    BY <2>1, <2>5, <2>6, <2>7, <2>8, <2>9, OwnsUnlocked
  <2>11. QED
    BY <2>2, <2>4, <2>10
<1>12. Queues'
  BY <1>7 DEF HasUnlocked
<1>13. QED
  BY <1>9, <1>11, <1>12 DEF SectionsInv, Parameters

\* At first no thread is in a section, and every mutex is free.
LEMMA SectionsInitInv == Parameters /\ Init => SectionsInv
<1> SUFFICES ASSUME Parameters, Init PROVE SectionsInv
  OBVIOUS
<1>1. /\ owner = [m \in Mutexes |-> NoThread] /\ queue = [m \in Mutexes |-> <<>>]
      /\ signal = [t \in Threads |-> "no"] /\ stack = [t \in Threads |-> <<>>]
      /\ want = [t \in Threads |-> <<>>] /\ release = [t \in Threads |-> <<>>]
      /\ level = [t \in Threads |-> 0] /\ pc = [t \in Threads |-> "run"]
  BY DEF Init
<1>2. <<>> \in Seq(Threads) /\ <<>> \in Seq(Mutexes) /\ <<>> \in Seq(Section)
  BY EmptySeq
<1>3. SectionTypes
  BY <1>1, <1>2 DEF SectionTypes, CsPC
<1>4. Queues
  BY <1>1 DEF Queues
<1>5. ASSUME NEW t \in Threads PROVE Shape(t) /\ Phase(t) /\ Owns(t)
  <2>1. /\ stack[t] = <<>> /\ want[t] = <<>> /\ release[t] = <<>> /\ level[t] = 0
        /\ pc[t] = "run" /\ signal[t] = "no"
    BY <1>1
  <2>2. Shape(t)
    BY <2>1 DEF Shape, Wanting
  <2>3. Phase(t)
    BY <2>1 DEF Phase
  <2>4. Live(t) = {} /\ Extra(t) = {} /\ Releases(t) = {}
    BY <2>1 DEF Live, Extra, Releases, Wanting
  <2>5. \A m \in Mutexes : owner[m] # t
    BY <1>1 DEF Parameters
  <2>6. Owns(t)
    BY <2>1, <2>4, <2>5 DEF Owns
  <2>7. QED
    BY <2>2, <2>3, <2>6
<1>6. QED
  BY <1>3, <1>4, <1>5 DEF SectionsInv

\* Every step keeps the invariant.
LEMMA SectionsKeepInv == SectionsInv /\ Next => SectionsInv'
<1> SUFFICES ASSUME SectionsInv, Next PROVE SectionsInv'
  OBVIOUS
<1>1. PICK t \in Threads : Begin(t) \/ Begin2(t) \/ Detach(t) \/ Step(t)
  BY DEF Next
<1>2. CASE Begin(t)
  BY <1>2, BeginKeeps
<1>3. CASE Begin2(t)
  BY <1>3, Begin2Keeps
<1>4. CASE Detach(t)
  BY <1>4, DetachKeeps
<1>5. CASE Begin2Second(t)
  BY <1>5, Begin2SecondKeeps
<1>6. CASE Lock(t)
  BY <1>6, LockKeeps
<1>7. CASE Woken(t)
  BY <1>7, WokenKeeps
<1>8. CASE SuspendAll(t)
  BY <1>8, SuspendOneKeeps, SuspendEndKeeps
<1>9. CASE Release(t)
  BY <1>9, ReleaseKeeps
<1>10. CASE Attach(t)
  BY <1>10, AttachKeeps
<1>11. CASE End(t)
  BY <1>11, EndKeeps
<1>12. CASE Pop(t)
  BY <1>12, PopKeeps
<1>13. QED
  BY <1>1, <1>2, <1>3, <1>4, <1>5, <1>6, <1>7, <1>8, <1>9, <1>10, <1>11, <1>12 DEF Step

\* The invariant says what the types are, ...
LEMMA SectionsInvMeansTypes == SectionsInv => TypeOK
<1> SUFFICES ASSUME SectionsInv PROVE TypeOK
  OBVIOUS
<1>1. SectionTypes
  BY DEF SectionsInv
<1>2. ASSUME NEW t \in Threads
      PROVE  stack[t] \in Seq(Section) /\ level[t] \in 0..Len(stack[t])
  <2>1. /\ stack[t] \in Seq(Section) /\ Len(stack[t]) \in Nat /\ level[t] \in Nat
        /\ Phase(t)
    BY ThreadFacts
  <2>2. level[t] <= Len(stack[t])
    BY <2>1 DEF Phase
  <2>3. QED
    BY <2>1, <2>2
<1>3. QED
  BY <1>1, <1>2 DEF SectionTypes, TypeOK

\* ... that a thread that runs has the mutexes of its active sections, ...
LEMMA SectionsInvMeansActive == SectionsInv => ActiveMeansLocked
<1> SUFFICES ASSUME SectionsInv, NEW t \in Threads, pc[t] = "run", stack[t] # <<>>
             PROVE  /\ Top(t).active
                    /\ \A k \in DOMAIN stack[t] : stack[t][k].active =>
                          /\ stack[t][k].recorded
                          /\ \A m \in ToSet(stack[t][k].on) : owner[m] = t
  BY DEF ActiveMeansLocked
<1>1. Shape(t) /\ Phase(t) /\ Owns(t)
  BY ThreadFacts
<1>2. Top(t) = TopOf(t)
  BY SectionSeqs DEF Top, TopOf
<1>3. TopOf(t).active
  BY <1>1 DEF Phase
<1>4. ASSUME NEW k \in DOMAIN stack[t], stack[t][k].active
      PROVE  stack[t][k].recorded /\ \A m \in ToSet(stack[t][k].on) : owner[m] = t
  <2>1. stack[t][k].recorded /\ Sorted(stack[t][k].on)
    BY <1>1 DEF Shape, Wanting
  <2>2. k \in Live(t)
    BY <1>4, <2>1 DEF Live
  <2>3. ToSet(stack[t][k].on) = On(t, k)
    BY DEF ToSet, On
  <2>4. On(t, k) \subseteq Mutexes
    BY <2>1, SortedFacts DEF On
  <2>5. QED
    BY <1>1, <2>1, <2>2, <2>3, <2>4 DEF Owns
<1>5. QED
  BY <1>2, <1>3, <1>4

\* The order of the natural numbers is well-founded.
LEMMA NatWellFounded == IsWellFoundedOn({ss \in Nat \X Nat : ss[1] < ss[2]}, Nat)
BY NatLessThanWellFounded DEF OpToRel

\* A set of natural numbers that is not empty has a least one.
LEMMA LeastNat ==
    ASSUME NEW T \in SUBSET Nat, T # {} PROVE \E x \in T : \A y \in T : x <= y
<1> DEFINE R == {ss \in Nat \X Nat : ss[1] < ss[2]}
<1>1. IsWellFoundedOn(R, Nat)
  BY NatWellFounded
<1> HIDE DEF R
<1>2. PICK x \in T : \A y \in T : ~(<<y, x>> \in R)
  BY <1>1, WFMin
<1>3. \A y \in T : <<y, x>> \in Nat \X Nat /\ <<y, x>>[1] = y /\ <<y, x>>[2] = x
  OBVIOUS
<1>4. \A y \in T : ~(y < x)
  BY <1>2, <1>3 DEF R
<1>5. QED
  BY <1>4

\* In a finite set of threads the ranks cannot rise for ever.
LEMMA RanksEnd ==
    ASSUME NEW S, IsFiniteSet(S), S # {}, NEW f \in [S -> Nat]
    PROVE  \E t \in S : \A u \in S : ~(f[t] < f[u])
<1> SUFFICES ASSUME \A t \in S : \E u \in S : f[t] < f[u] PROVE FALSE
  OBVIOUS
<1> DEFINE Rises(T) == T # {} /\ T \subseteq S /\ \A t \in T : \E u \in T : f[t] < f[u]
           Sizes == {n \in Nat : \E T \in SUBSET S : Rises(T) /\ Cardinality(T) = n}
<1>1. \A T \in SUBSET S : IsFiniteSet(T) /\ Cardinality(T) \in Nat
  BY FS_Subset, FS_CardinalityType
<1>2. Rises(S) /\ S \in SUBSET S
  OBVIOUS
<1>3. Cardinality(S) \in Sizes
  BY <1>1, <1>2
<1>4. PICK n \in Sizes : \A k \in Sizes : n <= k
  <2>1. Sizes \in SUBSET Nat /\ Sizes # {}
    BY <1>3
  <2> HIDE DEF Sizes
  <2>2. QED
    BY <2>1, LeastNat
<1>5. PICK T \in SUBSET S : Rises(T) /\ Cardinality(T) = n
  BY <1>4
<1>6. PICK x \in T : \A y \in T : f[x] <= f[y]
  <2>1. {f[y] : y \in T} \in SUBSET Nat /\ {f[y] : y \in T} # {}
    BY <1>5
  <2>2. PICK r \in {f[y] : y \in T} : \A k \in {f[y] : y \in T} : r <= k
    BY <2>1, LeastNat
  <2>3. QED
    BY <2>2
<1>7. Rises(T \ {x})
  <2>1. T \ {x} # {} /\ T \ {x} \subseteq S
    BY <1>5, <1>6
  <2>2. ASSUME NEW t \in T \ {x} PROVE \E u \in T \ {x} : f[t] < f[u]
    <3>1. PICK u \in T : f[t] < f[u]
      BY <1>5
    <3>2. f[x] <= f[t] /\ f[x] \in Nat /\ f[t] \in Nat /\ f[u] \in Nat
      BY <1>5, <1>6
    <3>3. u # x
      BY <3>1, <3>2
    <3>4. QED
      BY <3>1, <3>3
  <2>3. QED
    BY <2>1, <2>2
<1>8. Cardinality(T \ {x}) = n - 1 /\ n \in Nat
  <2>1. Cardinality(T \ {x}) = Cardinality(T) - 1
    BY <1>1, <1>6, FS_RemoveElement
  <2>2. QED
    BY <1>4, <1>5, <2>1
<1>9. Cardinality(T \ {x}) \in Nat
  BY <1>1
<1>10. Cardinality(T \ {x}) \in Sizes
  BY <1>7, <1>9
<1>11. n <= n - 1
  BY <1>4, <1>8, <1>10
<1>12. QED
  BY <1>8, <1>11

\* When t waits for u, and u waits too, u waits for the higher address: it
\* has the mutex that t wants, and locks in the order of the addresses.
LEMMA WaitsRise ==
    ASSUME SectionsInv, NEW t \in Threads, NEW u \in Threads, NEW w,
           WaitsFor(t, u), WaitsFor(u, w)
    PROVE  want[t][1] < want[u][1]
<1>1. /\ pc[t] = "parked" /\ pc[u] = "parked" /\ signal[u] = "no"
      /\ owner[Head(want[t])] = u
  BY DEF WaitsFor
<1>2. /\ Phase(t) /\ Shape(u) /\ Phase(u) /\ Owns(u) /\ want[t] \in Seq(Mutexes)
  BY ThreadFacts
<1>3. want[t] # <<>>
  BY <1>1, <1>2 DEF Phase
<1>4. PICK m \in Mutexes : m = want[t][1] /\ owner[m] = u
  BY <1>1, <1>2, <1>3
<1>5. Live(u) = {} /\ release[u] = <<>>
  BY <1>1, <1>2 DEF Live, Phase
<1>6. Releases(u) = {}
  BY <1>5 DEF Releases
<1>7. m \in Extra(u)
  BY <1>2, <1>4, <1>5, <1>6 DEF Owns
<1>8. Wanting(u) /\ want[u] # TopOf(u).on /\ m = TopOf(u).on[1]
  BY <1>1, <1>7 DEF Extra
<1>9. PICK a \in Mutexes, b \in Mutexes : a < b /\ TopOf(u).on = <<a, b>> /\ want[u] = <<b>>
  BY <1>2, <1>8 DEF Shape
<1>10. QED
  BY <1>4, <1>8, <1>9

\* No threads wait for each other in a circle: along one the addresses
\* that they wait for would rise for ever.
LEMMA SectionsInvMeansNoCircle == SectionsInv => NoCircularWait
<1> SUFFICES ASSUME SectionsInv PROVE NoCircularWait
  OBVIOUS
<1> SUFFICES ASSUME NEW S \in SUBSET Threads, S # {}
             PROVE  \E t \in S : \A u \in S : ~WaitsFor(t, u)
  BY DEF NoCircularWait
<1> SUFFICES ASSUME \A t \in S : \E u \in S : WaitsFor(t, u) PROVE FALSE
  OBVIOUS
<1> DEFINE f == [t \in S |-> want[t][1]]
<1>0. IsFiniteSet(Threads) /\ Mutexes \subseteq Nat
  BY DEF SectionsInv, Parameters
<1>1. IsFiniteSet(S)
  BY <1>0, FS_Subset
<1>2. \A t \in S : want[t][1] \in Nat
  <2>1. ASSUME NEW t \in S PROVE want[t][1] \in Nat
    <3>1. pc[t] = "parked"
      BY DEF WaitsFor
    <3>2. want[t] \in Seq(Mutexes) /\ want[t] # <<>>
      BY <3>1, ThreadFacts DEF Phase
    <3>3. want[t][1] \in Mutexes
      BY <3>2
    <3>4. QED
      BY <1>0, <3>3
  <2>2. QED
    BY <2>1
<1>3. f \in [S -> Nat]
  BY <1>2
<1>4. PICK t \in S : \A u \in S : ~(f[t] < f[u])
  <2>1. PICK g \in [S -> Nat] : g = f
    BY <1>3
  <2>2. \E t \in S : \A u \in S : ~(g[t] < g[u])
    BY <1>1, RanksEnd
  <2>3. QED
    BY <2>1, <2>2
<1>5. PICK u \in S : WaitsFor(t, u)
  OBVIOUS
<1>6. PICK w \in S : WaitsFor(u, w)
  OBVIOUS
<1>7. want[t][1] < want[u][1]
  BY <1>5, <1>6, WaitsRise
<1>8. QED
  BY <1>4, <1>7

\* A step that changes no variable keeps the invariant.
LEMMA SectionsUnchanged == ASSUME SectionsInv, UNCHANGED vars PROVE SectionsInv'
<1>1. UNCHANGED <<owner, queue, signal, stack, want, release, level, pc>>
  BY DEF vars, locks
<1>2. Parameters' /\ SectionTypes'
  BY <1>1 DEF SectionsInv, SectionTypes, Parameters
<1>3. Queues'
  BY <1>1 DEF SectionsInv, Queues
<1>4. ASSUME NEW t \in Threads PROVE Shape(t)'
  BY <1>1 DEF SectionsInv, Shape, Wanting, TopOf
<1>5. ASSUME NEW t \in Threads PROVE Phase(t)'
  BY <1>1 DEF SectionsInv, Phase, TopOf
<1>6. ASSUME NEW t \in Threads PROVE Owns(t)'
  <2>1. Extra(t)' = Extra(t)
    BY <1>1 DEF Extra, Wanting, TopOf
  <2>2. Releases(t)' = Releases(t) /\ Live(t)' = Live(t)
    BY <1>1 DEF Releases, Live
  <2>3. \A k : On(t, k)' = On(t, k)
    BY <1>1 DEF On
  <2>4. QED
    BY <1>1, <2>1, <2>2, <2>3 DEF SectionsInv, Owns
<1>7. QED
  BY <1>2, <1>3, <1>4, <1>5, <1>6 DEF SectionsInv

=============================================================================

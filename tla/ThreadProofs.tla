---------------------------- MODULE ThreadProofs ----------------------------
(***************************************************************************)
(* What is proved of the parts of MCThreads, for every number of threads: of *)
(* thread handles, then of the GIL, then of the reference counts of an object *)
(* that threads share.  Each part has an invariant of its own, that its own *)
(* steps keep; the steps of the other parts leave its variables alone.     *)
(***************************************************************************)
EXTENDS MCThreads, SequenceTheorems, FiniteSetTheorems, TLAPS

(***************************************************************************)
(* Thread handles: ThreadHandle.                                           *)
(***************************************************************************)

\* The labels of the main thread alone, and of all threads.
MainPC == {"set_done", "next", "joined", "gives_up", "finalize"}
BootPC == {"boot", "free", "unlist", "notify", "decref"}
PC == {"unborn", "run", "gone"} \cup InCall \cup BootPC \cup MainPC

Types ==
    /\ TypeOK
    /\ daemon \in [Threads -> BOOLEAN] /\ ~daemon[Main]
    /\ shutdown \in {"no", "set_done", "joining", "done", "gave_up", "finalizing"}
    /\ pc \in [Threads -> PC]

\* The references that the thread of a handle has, ...
ThreadRefs(h) ==
    IF h = Main \/ pc[h] \in {"unborn", "gone"} THEN 0
    ELSE IF pc[h] \in {"boot", "unlist", "notify", "decref"} THEN 1 ELSE 2

\* ... and that which _shutdown has while it joins the thread.
ShutdownHolds(h) ==
    handle[Main] = h /\ pc[Main] \in InJoin \cup {"check", "joined", "gives_up"}
        /\ shutdown = "joining"

\* What is known of the reference count of a handle, ...
Counted(h) ==
    refcount[h] >= (IF object[h] THEN 1 ELSE 0) + ThreadRefs(h)
                       + (IF ShutdownHolds(h) THEN 1 ELSE 0)

\* ... of its state and that of its OS thread, ...
States(h) ==
    /\ os_thread[h] # "error"
    /\ refcount[h] = 0 => hstate[h] \in {"NOT_STARTED", "DONE"}
    /\ hstate[h] = "NOT_STARTED" =>
          os_thread[h] = "none" /\ pc[h] \in {"unborn", "gone"} /\ (object[h] => pc[h] = "unborn")
    /\ hstate[h] = "STARTING" =>
          \E t \in Threads : handle[t] = h /\ pc[t] \in {"create", "mark", "force", "forced"}
    /\ hstate[h] = "RUNNING" => os_thread[h] = IF h = Main THEN "none" ELSE "owned"
    /\ hstate[h] = "DONE" =>
          os_thread[h] # "owned" /\ (refcount[h] > 0 => once[h] # "UNLOCKED")
    /\ once[h] = "INITIALIZED" => hstate[h] = "DONE"
    /\ ready[h] => hstate[h] \in {"RUNNING", "DONE"} /\ pc[h] # "unborn"
    /\ pc[h] \notin {"unborn", "boot", "gone"} => ready[h] \/ h = Main

Off == {"unborn", "notify", "decref", "gone"}
InList == {shutdown_handles[i] : i \in DOMAIN shutdown_handles}

\* ... of a thread in a call about a handle, ...
Calls(t) ==
    LET h == handle[t] IN
    /\ pc[t] \in InStart => object[h] /\ h # Main
    /\ pc[t] \in InCall => object[h] \/ (t = Main /\ shutdown = "joining")
    /\ pc[t] \in InStart /\ ~daemon[h] => h \in InList
    /\ pc[t] = "start" => daemon[h] \/ hstate[h] = "NOT_STARTED"
    /\ pc[t] \in {"create", "force", "forced"} => hstate[h] = "STARTING" /\ pc[h] = "unborn"
                                                   /\ os_thread[h] = "none"
    /\ pc[t] = "mark" => hstate[h] = "STARTING" /\ os_thread[h] = "owned"
    /\ pc[t] = "ready" => hstate[h] = "RUNNING"
    /\ pc[t] \in {"mark", "ready"} => pc[h] = "boot" /\ ~ready[h]
    /\ pc[t] = "undo" => daemon[h] \/ pc[h] = "unborn"
    /\ pc[t] \in {"wait", "once"} => hstate[h] \in {"RUNNING", "DONE"}
    /\ pc[t] = "join" => hstate[h] = "RUNNING"
    /\ pc[t] = "joined_os" => hstate[h] = "DONE"

\* ... of who starts a handle and who has its once flag, ...
Starts(t, h) == handle[t] = h /\ pc[t] \in InStart
HasOnce(t, h) ==
    \/ handle[t] = h /\ pc[t] \in {"join", "joined_os", "forced"}
    \/ t = Main /\ h = Main /\ pc[t] = "set_done"
OneEach ==
    \A h, t, u \in Threads :
        /\ Starts(t, h) /\ Starts(u, h) => t = u
        /\ HasOnce(t, h) => once[h] = "LOCKED"
        /\ HasOnce(t, h) /\ HasOnce(u, h) => t = u

\* ... of the main thread, ...
MainThread ==
    /\ object[Main] /\ hstate[Main] \in {"RUNNING", "DONE"}
    /\ pc[Main] \notin {"unborn"} \cup BootPC
    /\ \A t \in Threads : pc[t] \in MainPC => t = Main
    /\ shutdown = "joining" =>
          pc[Main] \in InJoin \cup {"next", "check", "joined", "gives_up"}
    /\ pc[Main] \in {"next", "joined", "gives_up"} => shutdown = "joining"

\* ... and of the list, which a handle is on from before the thread is
\* created until its thread state is deleted.
Listed ==
    /\ \A i, j \in DOMAIN shutdown_handles : shutdown_handles[i] = shutdown_handles[j] => i = j
    /\ \A h \in InList : /\ h # Main /\ ~daemon[h]
                         /\ pc[h] \in Off => \E t \in Threads : Starts(t, h)
    /\ \A h \in Threads \ {Main} : ~daemon[h] /\ pc[h] \notin Off => h \in InList

HandleInv ==
    /\ Main \in Threads
    /\ Types /\ OneEach /\ MainThread /\ Listed
    /\ \A h \in Threads : Counted(h) /\ States(h) /\ Calls(h)

USE DEF InStart, InJoin, InCall, BootPC, MainPC, Off

\* The types, in the parts that the proofs use.
LEMMA TypeFacts ==
    ASSUME HandleInv
    PROVE  /\ hstate \in [Threads -> {"NOT_STARTED", "STARTING", "RUNNING", "DONE"}]
           /\ os_thread \in [Threads -> {"none", "owned", "joined", "detached", "lost", "error"}]
           /\ exiting \in [Threads -> BOOLEAN] /\ ready \in [Threads -> BOOLEAN]
           /\ once \in [Threads -> {"UNLOCKED", "LOCKED", "INITIALIZED"}]
           /\ refcount \in [Threads -> Nat] /\ object \in [Threads -> BOOLEAN]
           /\ handle \in [Threads -> Threads] /\ pc \in [Threads -> PC]
           /\ Main \in Threads
BY DEF HandleInv, Types, TypeOK

\* A step that leaves the list and its threads alone.
LEMMA ListedKept ==
    ASSUME HandleInv, UNCHANGED <<shutdown_handles, daemon>>,
           \A x \in Threads \ {Main} : pc'[x] \in Off <=> pc[x] \in Off,
           \A x, y \in Threads : Starts(y, x) => Starts(y, x)' \/ pc'[x] \notin Off \/ x \notin InList
    PROVE  Listed'
<1>1. InList' = InList /\ InList \subseteq Threads \ {Main}
  BY DEF InList, HandleInv, Listed, Types, TypeOK
<1>2. QED
  BY <1>1 DEF HandleInv, Listed

\* Removing an element of a sequence without repetitions.
LEMMA RemoveAtFacts ==
    ASSUME NEW S, NEW s \in Seq(S), NEW i \in DOMAIN s, IsInjective(s)
    PROVE  /\ RemoveAt(s, i) \in Seq(S)
           /\ Len(RemoveAt(s, i)) = Len(s) - 1
           /\ IsInjective(RemoveAt(s, i))
           /\ ToSet(RemoveAt(s, i)) = ToSet(s) \ {s[i]}
           /\ Len(s) - 1 \in Nat
           /\ s[i] \in S
<1> DEFINE r == RemoveAt(s, i)
           front == SubSeq(s, 1, i - 1)
           back == SubSeq(s, i + 1, Len(s))
<1>1. Len(s) \in Nat /\ DOMAIN s = 1..Len(s) /\ i \in 1..Len(s)
  BY LenProperties
<1>2. /\ front \in Seq(S)
      /\ Len(front) = i - 1
      /\ \A j \in 1..(i-1) : front[j] = s[j]
  <2>1. \A j \in 1..(i-1) : s[j] \in S
    BY <1>1, ElementOfSeq
  <2>2. 1 \in Int /\ i - 1 \in Int
    BY <1>1
  <2> HIDE DEF front
  <2>3. /\ front \in Seq(S)
        /\ Len(front) = IF 1 <= i-1 THEN i-1-1+1 ELSE 0
        /\ \A j \in 1..(i-1-1+1) : front[j] = s[1+j-1]
    BY <2>1, <2>2, SubSeqProperties DEF front
  <2>4. QED
    BY <1>1, <2>3
<1>3. /\ back \in Seq(S)
      /\ Len(back) = Len(s) - i
      /\ \A j \in 1..(Len(s)-i) : back[j] = s[i+j]
  <2>1. \A j \in (i+1)..Len(s) : s[j] \in S
    BY <1>1, ElementOfSeq
  <2>2. i + 1 \in Int /\ Len(s) \in Int
    BY <1>1
  <2> HIDE DEF back
  <2>3. /\ back \in Seq(S)
        /\ Len(back) = IF i+1 <= Len(s) THEN Len(s)-(i+1)+1 ELSE 0
        /\ \A j \in 1..(Len(s)-(i+1)+1) : back[j] = s[i+1+j-1]
    BY <2>1, <2>2, SubSeqProperties DEF back
  <2>4. Len(back) = Len(s) - i
    BY <1>1, <2>3
  <2>5. ASSUME NEW j \in 1..(Len(s)-i) PROVE back[j] = s[i+j]
    <3>1. j \in 1..(Len(s)-(i+1)+1) /\ i+1+j-1 = i+j
      BY <1>1
    <3>2. QED
      BY <2>3, <3>1
  <2>6. QED
    BY <2>3, <2>4, <2>5
<1>4. /\ r \in Seq(S)
      /\ Len(r) = Len(s) - 1
      /\ \A j \in 1..(Len(s)-1) : r[j] = IF j < i THEN s[j] ELSE s[j+1]
  <2> HIDE DEF front, back
  <2>1. r = front \o back
    BY DEF RemoveAt, front, back
  <2>2. /\ front \o back \in Seq(S)
        /\ Len(front \o back) = Len(front) + Len(back)
        /\ \A j \in 1..(Len(front) + Len(back)) :
             (front \o back)[j] = IF j <= Len(front) THEN front[j] ELSE back[j - Len(front)]
    BY <1>2, <1>3, ConcatProperties
  <2> HIDE DEF r
  <2>3. Len(r) = Len(s) - 1 /\ r \in Seq(S)
    BY <1>1, <1>2, <1>3, <2>1, <2>2
  <2>4. ASSUME NEW j \in 1..(Len(s)-1)
        PROVE  r[j] = IF j < i THEN s[j] ELSE s[j+1]
    <3>1. CASE j < i
      BY <1>1, <1>2, <1>3, <2>1, <2>2, <3>1
    <3>2. CASE ~(j < i)
      <4>1. j - (i-1) \in 1..(Len(s)-i) /\ i + (j - (i-1)) = j + 1
        BY <1>1, <3>2
      <4>2. r[j] = back[j - (i-1)]
        <5>1. Len(front) = i-1 /\ j \in 1..(Len(front) + Len(back)) /\ ~(j <= Len(front))
          BY <1>1, <1>2, <1>3, <3>2
        <5>2. QED
          BY <2>1, <2>2, <5>1
      <4>3. QED
        BY <1>3, <3>2, <4>1, <4>2
    <3>3. QED
      BY <3>1, <3>2
  <2>5. QED
    BY <2>3, <2>4
<1>5. DOMAIN r = 1..(Len(s) - 1)
  BY <1>1, <1>4, LenProperties
<1> HIDE DEF r
<1>6. IsInjective(r)
  <2> SUFFICES ASSUME NEW j \in DOMAIN r, NEW k \in DOMAIN r, r[j] = r[k]
               PROVE  j = k
    BY DEF IsInjective
  <2> DEFINE at(n) == IF n < i THEN n ELSE n + 1
  <2>1. ASSUME NEW n \in 1..(Len(s)-1) PROVE at(n) \in 1..Len(s) /\ r[n] = s[at(n)]
    BY <1>1, <1>4
  <2>2. at(j) = at(k)
    BY <1>1, <1>5, <2>1 DEF IsInjective
  <2>3. QED
    BY <1>1, <1>5, <2>2
<1>7. ToSet(r) = ToSet(s) \ {s[i]}
  <2>1. ASSUME NEW x \in ToSet(r) PROVE x \in ToSet(s) \ {s[i]}
    <3>1. PICK j \in 1..(Len(s)-1) : x = r[j]
      BY <1>5, <2>1 DEF ToSet
    <3>2. PICK k \in 1..Len(s) : x = s[k] /\ k # i
      BY <1>1, <1>4, <3>1
    <3>3. QED
      BY <1>1, <3>2 DEF ToSet, IsInjective
  <2>2. ASSUME NEW x \in ToSet(s) \ {s[i]} PROVE x \in ToSet(r)
    <3>1. PICK k \in 1..Len(s) : x = s[k] /\ k # i
      BY <1>1, <2>2 DEF ToSet
    <3>2. CASE k < i
      BY <1>1, <1>4, <1>5, <3>1, <3>2 DEF ToSet
    <3>3. CASE k > i
      <4>1. k - 1 \in 1..(Len(s)-1) /\ ~(k - 1 < i) /\ (k - 1) + 1 = k
        BY <1>1, <3>1, <3>3
      <4>2. r[k-1] = s[k]
        BY <1>4, <4>1
      <4>3. QED
        BY <1>5, <3>1, <4>1, <4>2 DEF ToSet
    <3>4. QED
      BY <1>1, <3>1, <3>2, <3>3
  <2>3. QED
    BY <2>1, <2>2
<1>8. QED
  BY <1>1, <1>4, <1>6, <1>7, ElementOfSeq DEF r

\* What leaving the list does to it.
LEMMA UnlistFacts ==
    ASSUME HandleInv, NEW h \in Threads, Unlist(h)
    PROVE  /\ shutdown_handles' \in Seq(Threads) /\ InList' = InList \ {h}
           /\ \A i, j \in DOMAIN shutdown_handles' :
                 shutdown_handles'[i] = shutdown_handles'[j] => i = j
<1>1. shutdown_handles \in Seq(Threads) /\ IsInjective(shutdown_handles)
  BY DEF HandleInv, Types, TypeOK, Listed, IsInjective
<1>2. CASE h \notin ToSet(shutdown_handles) /\ UNCHANGED shutdown_handles
  BY <1>1, <1>2 DEF InList, ToSet, IsInjective
<1>3. ASSUME NEW i \in DOMAIN shutdown_handles, shutdown_handles[i] = h,
             shutdown_handles' = RemoveAt(shutdown_handles, i)
      PROVE  /\ shutdown_handles' \in Seq(Threads) /\ InList' = InList \ {h}
             /\ \A k, j \in DOMAIN shutdown_handles' :
                   shutdown_handles'[k] = shutdown_handles'[j] => k = j
  <2>1. /\ shutdown_handles' \in Seq(Threads) /\ IsInjective(shutdown_handles')
        /\ ToSet(shutdown_handles') = ToSet(shutdown_handles) \ {h}
    BY <1>1, <1>3, RemoveAtFacts
  <2>2. QED
    BY <2>1 DEF InList, ToSet, IsInjective
<1>4. QED
  BY <1>2, <1>3 DEF Unlist

\* A call that ends leaves nothing behind, but for a join of _shutdown.
LEMMA ReturnFacts ==
    ASSUME HandleInv, NEW t \in Threads, pc[t] \in InCall, Return(t) \/ Raise(t)
    PROVE  /\ pc' \in [Threads -> PC] /\ handle' \in [Threads -> Threads]
           /\ \A x \in Threads : x # t => pc'[x] = pc[x] /\ handle'[x] = handle[x]
           /\ \/ pc'[t] = "run" /\ ~(t = Main /\ shutdown = "joining")
              \/ /\ pc'[t] \in {"joined", "gives_up"} /\ handle'[t] = handle[t]
                 /\ t = Main /\ shutdown = "joining"
<1>1. CASE t = Main /\ shutdown = "joining"
  <2>1. PICK l \in {"joined", "gives_up"} : pc' = [pc EXCEPT ![t] = l] /\ handle' = handle
    BY <1>1 DEF Return, Raise, Goto
  <2>2. QED
    BY <1>1, <2>1, TypeFacts DEF PC
<1>2. CASE ~(t = Main /\ shutdown = "joining")
  <2>1. pc' = [pc EXCEPT ![t] = "run"] /\ handle' = [handle EXCEPT ![t] = Main]
    BY <1>2 DEF Return, Raise, Goto
  <2>2. QED
    BY <1>2, <2>1, TypeFacts DEF PC
<1>3. QED
  BY <1>1, <1>2

\* What is left of a handle that loses a reference.
LEMMA DecRefFacts ==
    ASSUME HandleInv, NEW h \in Threads, DecRef(h), refcount[h] > 0
    PROVE  /\ refcount' \in [Threads -> Nat] /\ refcount'[h] = refcount[h] - 1
           /\ hstate' \in [Threads -> {"NOT_STARTED", "STARTING", "RUNNING", "DONE"}]
           /\ os_thread' \in [Threads -> {"none", "owned", "joined", "detached", "lost", "error"}]
           /\ \A x \in Threads : x # h => /\ refcount'[x] = refcount[x] /\ hstate'[x] = hstate[x]
                                        /\ os_thread'[x] = os_thread[x]
           /\ \/ hstate'[h] = hstate[h] /\ os_thread'[h] = os_thread[h]
                    /\ (refcount'[h] > 0 \/ hstate[h] # "RUNNING")
              \/ /\ refcount'[h] = 0 /\ hstate[h] = "RUNNING" /\ hstate'[h] = "DONE"
                 /\ os_thread'[h] \in {"none", "detached"}
<1>1. /\ refcount \in [Threads -> Nat] /\ refcount' = [refcount EXCEPT ![h] = refcount[h] - 1]
      /\ refcount[h] - 1 \in Nat /\ (refcount[h] = 1 <=> refcount[h] - 1 = 0)
      /\ (refcount[h] - 1 > 0 <=> refcount[h] # 1)
  BY DEF DecRef, HandleInv, Types, TypeOK
<1>2. /\ hstate \in [Threads -> {"NOT_STARTED", "STARTING", "RUNNING", "DONE"}]
      /\ os_thread \in [Threads -> {"none", "owned", "joined", "detached", "lost", "error"}]
      /\ hstate[h] = "RUNNING" => os_thread[h] \in {"none", "owned"}
  BY DEF HandleInv, Types, TypeOK, States
<1>3. CASE refcount[h] = 1 /\ hstate[h] = "RUNNING"
  <2>1. hstate' = [hstate EXCEPT ![h] = "DONE"]
        /\ os_thread' = [os_thread EXCEPT ![h] = IF os_thread[h] = "none" THEN "none" ELSE "detached"]
    BY <1>2, <1>3 DEF DecRef, Reaped
  <2>2. QED
    BY <1>1, <1>2, <1>3, <2>1
<1>4. CASE ~(refcount[h] = 1 /\ hstate[h] = "RUNNING")
  <2>1. UNCHANGED <<hstate, os_thread>>
    BY <1>4 DEF DecRef
  <2>2. QED
    BY <1>1, <1>2, <1>4, <2>1
<1>5. QED
  BY <1>3, <1>4

\* A thread whose call is not disturbed.
LEMMA CallsKept ==
    ASSUME HandleInv, NEW x \in Threads, NEW h \in Threads, h = handle[x],
           pc'[x] = pc[x], handle'[x] = h, daemon' = daemon,
           shutdown = "joining" => shutdown' = "joining" \/ x # Main,
           pc[x] \in InCall /\ object[h] => object'[h],
           pc[x] \in InStart /\ ~daemon[h] => h \in InList',
           pc[x] \in InStart /\ (pc[x] \in {"start", "undo"} => ~daemon[h]) =>
              /\ hstate'[h] = hstate[h] /\ os_thread'[h] = os_thread[h]
              /\ ready'[h] = ready[h] /\ pc'[h] = pc[h],
           pc[x] \in {"wait", "once"} => hstate'[h] \in {"RUNNING", "DONE"},
           pc[x] \in {"join", "joined_os"} => hstate'[h] = hstate[h]
    PROVE  Calls(x)'
<1>1. Calls(x)
  BY DEF HandleInv
<1>2. CASE pc[x] \in {"start", "undo"} /\ daemon[h]
  BY <1>1, <1>2 DEF Calls
<1>3. CASE pc[x] \in InStart /\ (pc[x] \in {"start", "undo"} => ~daemon[h])
  BY <1>1, <1>3 DEF Calls
<1>4. CASE pc[x] \notin InStart
  BY <1>1, <1>4 DEF Calls
<1>5. QED
  BY <1>2, <1>3, <1>4

\* A handle that is being started is that of a thread that does not run yet.
LEMMA StarterFacts ==
    ASSUME HandleInv, NEW x \in Threads, NEW h \in Threads, h = handle[x],
           pc[x] \in InStart, pc[x] \in {"start", "undo"} => ~daemon[h]
    PROVE  /\ pc[h] \in {"unborn", "boot", "gone"}
           /\ pc[h] = "boot" => ~ready[h]
           /\ h # Main /\ object[h] /\ h # x
<1>1. Calls(x) /\ States(h)
  BY DEF HandleInv
<1>2. QED
  BY <1>1 DEF Calls, States

\* The same of all threads, when a thread t that runs makes a step of its own,
\* in which the handle h is the only one that may change.
LEMMA OthersCall ==
    ASSUME HandleInv, NEW t \in Threads, pc[t] \notin {"unborn", "gone"}, pc[t] = "boot" => ready[t],
           NEW x \in Threads, x # t,
           \A y \in Threads : y # t => pc'[y] = pc[y],
           handle'[x] = handle[x], daemon' = daemon,
           shutdown = "joining" => shutdown' = "joining" \/ x # Main,
           pc[x] \in InCall /\ object[handle[x]] => object'[handle[x]],
           pc[x] \in InStart =>
              /\ hstate'[handle[x]] = hstate[handle[x]] /\ os_thread'[handle[x]] = os_thread[handle[x]]
              /\ ready'[handle[x]] = ready[handle[x]]
              /\ handle[x] \in InList /\ ~daemon[handle[x]] => handle[x] \in InList',
           pc[x] \in {"wait", "once"} => hstate'[handle[x]] \in {"RUNNING", "DONE"},
           pc[x] \in {"join", "joined_os"} => hstate'[handle[x]] = hstate[handle[x]]
    PROVE  Calls(x)'
<1>1. PICK h \in Threads : h = handle[x]
  BY TypeFacts
<1>2. pc[x] \in InStart /\ (pc[x] \in {"start", "undo"} => ~daemon[h]) => h # t
  BY <1>1, StarterFacts
<1>3. pc[x] \in InStart /\ ~daemon[h] => h \in InList
  BY <1>1 DEF HandleInv, Calls
<1>4. QED
  BY <1>1, <1>2, <1>3, CallsKept

\* Nobody starts a handle, or has its once flag, that did not before.
LEMMA OneEachKept ==
    ASSUME HandleInv,
           \A x, h \in Threads : Starts(x, h)' => Starts(x, h),
           \A x, h \in Threads : HasOnce(x, h)' => HasOnce(x, h) /\ once'[h] = once[h]
    PROVE  OneEach'
BY DEF HandleInv, OneEach

\* The references of a handle are at most what they were.
LEMMA CountedKept ==
    ASSUME HandleInv, NEW h \in Threads, refcount'[h] = refcount[h], object'[h] = object[h],
           ThreadRefs(h)' = ThreadRefs(h) \/ ThreadRefs(h)' = 0,
           ShutdownHolds(h)' => ShutdownHolds(h)
    PROVE  Counted(h)'
BY TypeFacts DEF HandleInv, Counted, ThreadRefs

\* A call that ends, whose effects are at most that the once flag of its handle
\* is done with, that the new thread may go on, or that its handle leaves the list.
LEMMA CallEnds ==
    ASSUME HandleInv, NEW t \in Threads, Return(t) \/ Raise(t),
           pc[t] \in {"ready", "undo", "check", "wait", "once", "joined_os"},
           UNCHANGED <<hstate, os_thread, exiting, refcount, object, daemon, shutdown>>,
           \/ once' = once
           \/ pc[t] = "joined_os" /\ once' = [once EXCEPT ![handle[t]] = "INITIALIZED"],
           \/ ready' = ready /\ pc[t] # "ready"
           \/ pc[t] = "ready" /\ ready' = [ready EXCEPT ![handle[t]] = TRUE],
           \/ shutdown_handles' = shutdown_handles /\ (pc[t] = "undo" => daemon[handle[t]])
           \/ pc[t] = "undo" /\ ~daemon[handle[t]] /\ Unlist(handle[t])
    PROVE  HandleInv'
<1>1. PICK h \in Threads : h = handle[t]
  BY TypeFacts
<1>2. Calls(t) /\ States(h) /\ MainThread /\ Listed /\ OneEach
  BY <1>1 DEF HandleInv
<1>3. /\ pc' \in [Threads -> PC] /\ handle' \in [Threads -> Threads]
      /\ \A x \in Threads : x # t => pc'[x] = pc[x] /\ handle'[x] = handle[x]
      /\ \/ pc'[t] = "run" /\ ~(t = Main /\ shutdown = "joining")
         \/ /\ pc'[t] \in {"joined", "gives_up"} /\ handle'[t] = h
            /\ t = Main /\ shutdown = "joining"
  BY <1>1, ReturnFacts
<1>4. \A x, y \in Threads : Starts(x, y)' <=> Starts(x, y) /\ x # t
  BY <1>3 DEF Starts
<1>5. \A x, y \in Threads : HasOnce(x, y)' <=> HasOnce(x, y) /\ x # t
  BY <1>1, <1>3 DEF HasOnce
<1>6. once' \in [Threads -> {"UNLOCKED", "LOCKED", "INITIALIZED"}]
      /\ \A x \in Threads : once'[x] = once[x] \/ (x = h /\ pc[t] = "joined_os" /\ once'[x] = "INITIALIZED")
  BY <1>1, TypeFacts
<1>7. ready' \in [Threads -> BOOLEAN]
      /\ \A x \in Threads : ready'[x] = ready[x] \/ (x = h /\ pc[t] = "ready" /\ ready'[x])
  <2>1. ready' = ready \/ (pc[t] = "ready" /\ ready' = [ready EXCEPT ![h] = TRUE])
    BY <1>1
  <2>2. ready \in [Threads -> BOOLEAN]
    BY TypeFacts
  <2>3. QED
    BY <2>1, <2>2
<1>8. /\ shutdown_handles' \in Seq(Threads)
      /\ \A i, j \in DOMAIN shutdown_handles' : shutdown_handles'[i] = shutdown_handles'[j] => i = j
      /\ \/ InList' = InList /\ (pc[t] = "undo" => daemon[h])
         \/ InList' = InList \ {h} /\ pc[t] = "undo" /\ ~daemon[h]
  <2>1. CASE shutdown_handles' = shutdown_handles /\ (pc[t] = "undo" => daemon[h])
    BY <1>2, <2>1 DEF InList, Listed, HandleInv, Types, TypeOK
  <2>2. CASE pc[t] = "undo" /\ ~daemon[h] /\ Unlist(h)
    BY <2>2, UnlistFacts
  <2>3. QED
    BY <1>1, <2>1, <2>2
<1>9. ASSUME NEW x \in Threads
      PROVE  /\ ThreadRefs(x)' = ThreadRefs(x) /\ (ShutdownHolds(x)' => ShutdownHolds(x))
             /\ pc'[x] \in Off <=> pc[x] \in Off
             /\ \A l \in {"unborn", "boot", "gone"} : pc'[x] = l <=> pc[x] = l
  <2>1. ShutdownHolds(x)' => ShutdownHolds(x)
    <3>1. CASE t # Main
      BY <1>3, <3>1, TypeFacts DEF ShutdownHolds
    <3>2. CASE t = Main /\ shutdown # "joining"
      BY <3>2 DEF ShutdownHolds
    <3>3. CASE t = Main /\ shutdown = "joining"
      <4>1. pc[t] \in InJoin \cup {"check"} /\ handle'[t] = handle[t]
        BY <1>1, <1>2, <1>3, <3>3 DEF MainThread
      <4>2. QED
        BY <3>3, <4>1 DEF ShutdownHolds
    <3>4. QED
      BY <3>1, <3>2, <3>3
  <2>2. CASE x # t
    <3>1. pc'[x] = pc[x]
      BY <1>3, <2>2
    <3>2. QED
      BY <2>1, <3>1 DEF ThreadRefs
  <2>3. CASE x = t
    <3>1. pc'[x] \in {"run", "joined", "gives_up"} /\ pc[x] \in {"ready", "undo", "check", "wait", "once", "joined_os"}
      BY <1>3, <2>3
    <3>2. QED
      BY <2>1, <3>1 DEF ThreadRefs
  <2>4. QED
    BY <2>2, <2>3
<1>10. Types'
  BY <1>3, <1>6, <1>7, <1>8 DEF HandleInv, Types, TypeOK
<1>11. OneEach'
  <2>1. \A x, y \in Threads : HasOnce(x, y)' => once'[y] = once[y]
    BY <1>1, <1>2, <1>5, <1>6 DEF OneEach, HasOnce
  <2>2. QED
    BY <1>4, <1>5, <2>1, OneEachKept
<1>12. MainThread'
  <2>1. pc'[Main] = pc[Main] \/ (t = Main /\ pc'[t] \in {"run", "joined", "gives_up"})
    BY <1>3, TypeFacts
  <2>2. \A x \in Threads : pc'[x] \in MainPC => x = Main
    BY <1>2, <1>3 DEF MainThread
  <2>3. /\ shutdown = "joining" =>
             pc'[Main] \in InJoin \cup {"next", "check", "joined", "gives_up"}
        /\ pc'[Main] \in {"next", "joined", "gives_up"} => shutdown = "joining"
    BY <1>2, <1>3, TypeFacts DEF MainThread
  <2>4. QED
    BY <1>2, <2>1, <2>2, <2>3 DEF MainThread
<1>13. Listed'
  <2>1. ASSUME NEW x \in InList' PROVE x # Main /\ ~daemon'[x] /\ (pc'[x] \in Off => \E y \in Threads : Starts(y, x)')
    <3>1. x \in InList /\ (x = h => pc[t] # "undo") /\ x \in Threads
      <4>1. x \in InList /\ (x = h => pc[t] # "undo")
        BY <1>2, <1>8, <2>1 DEF Listed
      <4>2. QED
        BY <4>1 DEF InList, HandleInv, Types, TypeOK
    <3>2. ASSUME pc[x] \in Off PROVE \E y \in Threads : Starts(y, x) /\ y # t
      <4>1. PICK y \in Threads : Starts(y, x)
        BY <1>2, <3>1, <3>2 DEF Listed
      <4>2. y # t
        BY <1>1, <1>2, <3>1, <3>2, <4>1 DEF Starts, Calls
      <4>3. QED
        BY <4>1, <4>2
    <3>3. QED
      BY <1>2, <1>4, <1>9, <3>1, <3>2 DEF Listed
  <2>2. ASSUME NEW x \in Threads \ {Main}, ~daemon'[x], pc'[x] \notin Off PROVE x \in InList'
    <3>1. x \in InList /\ (x = h => pc[t] # "undo")
      BY <1>1, <1>2, <1>9, <2>2 DEF Listed, Calls
    <3>2. QED
      BY <1>8, <3>1
  <2>3. QED
    BY <1>8, <2>1, <2>2 DEF Listed
<1>14. ASSUME NEW x \in Threads PROVE Counted(x)'
  BY <1>9, CountedKept
<1>15. ASSUME NEW x \in Threads PROVE States(x)'
  <2>1. States(x) /\ (x = h => States(h) /\ Calls(t))
    BY <1>2, <1>15 DEF HandleInv
  <2>2. (\E y \in Threads : handle[y] = x /\ pc[y] \in {"create", "mark", "force", "forced"})
           => \E y \in Threads : handle'[y] = x /\ pc'[y] \in {"create", "mark", "force", "forced"}
    BY <1>3
  <2>3. once'[x] = "INITIALIZED" => hstate[x] = "DONE"
    BY <1>1, <1>6, <2>1 DEF States, Calls
  <2>4. ready'[x] => hstate[x] \in {"RUNNING", "DONE"} /\ pc[x] # "unborn"
    BY <1>1, <1>7, <2>1 DEF States, Calls
  <2>5. ready[x] => ready'[x]
    BY <1>1, TypeFacts
  <2>6. once[x] # "UNLOCKED" => once'[x] # "UNLOCKED"
    BY <1>6
  <2>7. QED
    BY <1>9, <2>1, <2>2, <2>3, <2>4, <2>5, <2>6 DEF States
<1>16. ASSUME NEW x \in Threads PROVE Calls(x)'
  <2>1. CASE x = t
    BY <1>3, <2>1 DEF Calls
  <2>2. CASE x # t
    <3>1. PICK k \in Threads : k = handle[x] /\ handle'[x] = k
      BY <1>3, <2>2, TypeFacts
    <3>2. pc[x] \in InStart /\ k = h => pc[t] \notin InStart
      BY <1>1, <1>2, <2>2, <3>1 DEF OneEach, Starts
    <3>3. pc[x] \in InStart => (ready'[k] <=> ready[k]) /\ (k \in InList => k \in InList')
      BY <1>7, <1>8, <3>2
    <3>4. pc[t] \notin {"unborn", "gone", "boot"}
      OBVIOUS
    <3>5. pc[x] \in {"wait", "once"} => hstate[k] \in {"RUNNING", "DONE"}
      BY <3>1 DEF HandleInv, Calls
    <3>6. ready'[k] \in BOOLEAN /\ ready[k] \in BOOLEAN
      BY <1>7, TypeFacts
    <3>7. QED
      BY <1>3, <2>2, <3>1, <3>3, <3>4, <3>5, <3>6, OthersCall
  <2>3. QED
    BY <2>1, <2>2
<1>17. QED
  BY <1>10, <1>11, <1>12, <1>13, <1>14, <1>15, <1>16 DEF HandleInv

\* A reference is given up by one that has it: no call is disturbed.
LEMMA DecRefCalls ==
    ASSUME HandleInv, NEW h \in Threads, DecRef(h), refcount[h] > 0,
           \A y \in Threads : Counted(y)',
           UNCHANGED <<daemon, ready, shutdown_handles, handle>>,
           shutdown' = shutdown \/ pc[Main] \notin InCall,
           \A y \in Threads : \/ pc'[y] = pc[y]
                              \/ /\ pc'[y] \notin InCall /\ pc[y] \notin {"unborn", "gone"}
                                 /\ pc[y] = "boot" => ready[y],
           \A y \in Threads : pc[y] \in InCall => (object'[handle[y]] <=> object[handle[y]]),
           object' \in [Threads -> BOOLEAN], NEW x \in Threads
    PROVE  Calls(x)'
<1>1. PICK k \in Threads : k = handle[x] /\ handle'[x] = k
  BY TypeFacts
<1>2. CASE pc'[x] # pc[x]
  BY <1>2 DEF Calls
<1>3. CASE pc'[x] = pc[x]
  <2>1. Calls(x) /\ InList' = InList
    BY DEF HandleInv, InList
  <2>2. pc[x] \in InStart /\ (pc[x] \in {"start", "undo"} => ~daemon[k]) => pc'[k] = pc[k]
    BY <1>1, StarterFacts
  <2>3. ASSUME pc[x] \in InCall, k = h PROVE refcount'[h] > 0
    <3>1. Counted(h)' /\ refcount'[h] \in Nat /\ ThreadRefs(h)' \in {0, 1, 2}
      BY DecRefFacts DEF ThreadRefs
    <3>2. CASE object'[h]
      BY <3>1, <3>2 DEF Counted
    <3>3. CASE ~object'[h]
      <4>1. x = Main /\ shutdown' = "joining"
        BY <1>1, <2>1, <2>3, <3>3 DEF Calls
      <4>2. pc[x] \in InJoin \cup {"check"}
        BY <1>1, <2>1, <2>3, <3>3, TypeFacts DEF Calls
      <4>3. ShutdownHolds(h)'
        BY <1>1, <1>3, <2>3, <4>1, <4>2 DEF ShutdownHolds
      <4>4. QED
        BY <3>1, <4>3 DEF Counted
    <3>4. QED
      BY <3>2, <3>3
  <2>4. pc[x] \in InCall => hstate'[k] = hstate[k] /\ os_thread'[k] = os_thread[k]
    BY <2>3, DecRefFacts
  <2>5. /\ pc[x] \in InCall /\ object[k] => object'[k]
        /\ pc[x] \in InStart /\ ~daemon[k] => k \in InList'
        /\ pc[x] \in {"wait", "once"} => hstate[k] \in {"RUNNING", "DONE"}
        /\ shutdown = "joining" => shutdown' = "joining" \/ x # Main \/ pc[x] \notin InCall
    BY <1>1, <2>1 DEF Calls
  <2>6. CASE pc[x] \in InCall
    <3>1. shutdown = "joining" => shutdown' = "joining" \/ x # Main
      BY <2>5, <2>6
    <3>2. pc[x] \in {"wait", "once"} => hstate'[k] \in {"RUNNING", "DONE"}
      BY <2>4, <2>5
    <3>3. QED
      BY <1>1, <1>3, <2>2, <2>4, <2>5, <3>1, <3>2, CallsKept
  <2>7. CASE pc[x] \notin InCall
    BY <1>3, <2>7 DEF Calls
  <2>8. QED
    BY <2>6, <2>7
<1>4. QED
  BY <1>2, <1>3

\* ThreadHandle_start marks the handle, or finds that it may not.
LEMMA StartingKeeps ==
    ASSUME HandleInv, NEW t \in Threads, Starting(t)
    PROVE  HandleInv'
<1>1. Types'
  <2>1. pc' \in [Threads -> PC]
    BY TypeFacts DEF Starting, Goto, PC
  <2>2. hstate' \in [Threads -> {"NOT_STARTED", "STARTING", "RUNNING", "DONE"}]
    BY TypeFacts DEF Starting
  <2>3. QED
    BY <2>1, <2>2 DEF Starting, HandleInv, Types, TypeOK
<1>2. OneEach'
  BY TypeFacts DEF Starting, HandleInv, Goto, OneEach, Starts, HasOnce
<1>3. MainThread'
  BY TypeFacts DEF Starting, HandleInv, Goto, MainThread
<1>4. Listed'
  BY TypeFacts, ListedKept DEF Starting, Goto, Starts
<1>5. ASSUME NEW x \in Threads PROVE Counted(x)'
  BY DEF Starting, HandleInv, Types, Goto, Counted, ThreadRefs, ShutdownHolds
<1>6. ASSUME NEW x \in Threads PROVE States(x)'
  BY DEF Starting, HandleInv, Types, TypeOK, Goto, States, Calls, Counted, MainThread, ThreadRefs, ShutdownHolds
<1>7. ASSUME NEW x \in Threads PROVE Calls(x)'
  <2>1. CASE x = t
    <3>1. PICK h \in Threads : h = handle[t] /\ Calls(t) /\ States(h)
      BY TypeFacts DEF HandleInv
    <3>2. CASE hstate[h] = "NOT_STARTED"
      <4>1. pc'[t] = "create" /\ pc[h] = "unborn" /\ h # t /\ hstate'[h] = "STARTING"
        BY <3>1, <3>2, TypeFacts DEF Starting, Goto, Calls, States
      <4>2. pc'[h] = "unborn"
        BY <3>1, <4>1, TypeFacts DEF Starting, Goto
      <4>3. QED
        BY <2>1, <3>1, <3>2, <4>1, <4>2 DEF Starting, Calls, States, InList
    <3>3. CASE hstate[h] # "NOT_STARTED"
      <4>1. pc'[t] = "undo" /\ daemon[h]
        BY <3>1, <3>3, TypeFacts DEF Starting, Goto, Calls
      <4>2. QED
        BY <2>1, <3>1, <4>1 DEF Starting, Calls, InList
    <3>4. QED
      BY <3>2, <3>3
  <2>2. CASE x # t
    <3>1. PICK k \in Threads : k = handle[x] /\ handle'[x] = k
      BY <2>2, TypeFacts DEF Starting
    <3>2. \A y \in Threads : y # t => pc'[y] = pc[y]
      BY TypeFacts DEF Starting, Goto
    <3>3. pc[x] \in InStart => k # handle[t]
      BY <2>2, <3>1 DEF HandleInv, OneEach, Starts, Starting
    <3>4. Calls(x)
      BY DEF HandleInv
    <3>5. k = handle[t] => hstate'[k] = hstate[k] \/ (hstate[k] = "NOT_STARTED" /\ hstate'[k] = "STARTING")
      BY <3>1, TypeFacts DEF Starting
    <3>6. k # handle[t] => hstate'[k] = hstate[k]
      BY <3>1, TypeFacts DEF Starting
    <3>7. /\ pc[x] \in {"wait", "once"} => hstate'[k] \in {"RUNNING", "DONE"}
          /\ pc[x] \in {"join", "joined_os"} => hstate'[k] = hstate[k]
      BY <3>1, <3>4, <3>5, <3>6 DEF Calls
    <3>8. InList' = InList
      BY DEF Starting, InList
    <3>9. QED
      BY <2>2, <3>1, <3>2, <3>3, <3>6, <3>7, <3>8, OthersCall DEF Starting
  <2>3. QED
    BY <2>1, <2>2
<1>8. Main \in Threads
  BY DEF HandleInv
<1>9. QED
  BY <1>1, <1>2, <1>3, <1>4, <1>5, <1>6, <1>7, <1>8 DEF HandleInv

\* The new thread has a reference of its own, and somebody owns the OS thread.
LEMMA CreateThreadKeeps ==
    ASSUME HandleInv, NEW t \in Threads, CreateThread(t)
    PROVE  HandleInv'
<1>01. PICK h \in Threads : h = handle[t]
  BY TypeFacts
<1>02. Calls(t) /\ States(h) /\ Counted(h) /\ MainThread /\ Listed /\ OneEach
  BY DEF HandleInv
<1>03. /\ pc[t] = "create" /\ pc[h] = "unborn" /\ h # t /\ h # Main /\ ~ready[h]
       /\ hstate[h] = "STARTING" /\ os_thread[h] = "none" /\ object[h]
       /\ ~daemon[h] => h \in InList
  BY <1>01, <1>02 DEF CreateThread, Calls, States
<1>04. /\ refcount' = [refcount EXCEPT ![h] = refcount[h] + 1]
       /\ os_thread' = [os_thread EXCEPT ![h] = "owned"]
       /\ pc' = [pc EXCEPT ![t] = "mark", ![h] = "boot"]
       /\ UNCHANGED <<hstate, exiting, once, object, daemon, ready,
                      shutdown_handles, handle, shutdown, forked>>
  BY <1>01 DEF CreateThread, IncRef
<1>05. /\ pc'[t] = "mark" /\ pc'[h] = "boot" /\ pc' \in [Threads -> PC]
       /\ \A x \in Threads : x # t /\ x # h => pc'[x] = pc[x]
  BY <1>03, <1>04, TypeFacts DEF PC
<1>06. /\ refcount' \in [Threads -> Nat] /\ refcount'[h] = refcount[h] + 1
       /\ os_thread' \in [Threads -> {"none", "owned", "joined", "detached", "lost", "error"}]
       /\ os_thread'[h] = "owned"
       /\ \A x \in Threads : x # h => refcount'[x] = refcount[x] /\ os_thread'[x] = os_thread[x]
  BY <1>04, TypeFacts
<1>07. \A x, y \in Threads : Starts(x, y)' <=> Starts(x, y)
  BY <1>03, <1>04, <1>05 DEF Starts
<1>1. Types'
  BY <1>04, <1>05, <1>06 DEF HandleInv, Types, TypeOK
<1>2. OneEach'
  <2>1. \A x, y \in Threads : HasOnce(x, y)' => HasOnce(x, y)
    BY <1>03, <1>04, <1>05 DEF HasOnce
  <2>2. QED
    BY <1>04, <1>07, <2>1, OneEachKept
<1>3. MainThread'
  <2>1. pc'[Main] = pc[Main] \/ (t = Main /\ pc'[Main] = "mark")
    BY <1>03, <1>05, TypeFacts
  <2>2. \A x \in Threads : pc'[x] \in MainPC => x = Main
    BY <1>02, <1>05 DEF MainThread
  <2>3. t = Main => shutdown # "joining"
    BY <1>02, <1>03 DEF MainThread
  <2>4. QED
    BY <1>02, <1>04, <2>1, <2>2, <2>3 DEF MainThread
<1>4. Listed'
  <2>1. InList' = InList /\ InList \subseteq Threads
    BY <1>04 DEF InList, HandleInv, Types, TypeOK
  <2>2. \A x \in Threads : x # h => (pc'[x] \in Off <=> pc[x] \in Off)
    BY <1>03, <1>05
  <2>3. pc'[h] \notin Off
    BY <1>05
  <2>4. QED
    BY <1>02, <1>03, <1>04, <1>07, <2>1, <2>2, <2>3 DEF Listed
<1>5. ASSUME NEW x \in Threads PROVE Counted(x)'
  <2>1. Counted(x)
    BY DEF HandleInv
  <2>2. ShutdownHolds(x)' => ShutdownHolds(x)
    BY <1>03, <1>04, <1>05, TypeFacts DEF ShutdownHolds
  <2>3. CASE x # h
    <3>1. ThreadRefs(x)' = ThreadRefs(x)
      BY <1>03, <1>05, <2>3 DEF ThreadRefs
    <3>2. QED
      BY <1>04, <1>06, <2>2, <2>3, <3>1, CountedKept
  <2>4. CASE x = h
    <3>1. ThreadRefs(x)' = 1 /\ ThreadRefs(x) = 0
      BY <1>03, <1>05, <2>4 DEF ThreadRefs
    <3>2. QED
      BY <1>04, <1>06, <2>1, <2>2, <2>4, <3>1, TypeFacts DEF Counted
  <2>5. QED
    BY <2>3, <2>4
<1>6. ASSUME NEW x \in Threads PROVE States(x)'
  <2>1. States(x)
    BY DEF HandleInv
  <2>2. CASE x = h
    <3>1. handle'[t] = x /\ pc'[t] = "mark"
      BY <1>01, <1>04, <1>05, <2>2
    <3>2. /\ hstate'[x] = "STARTING" /\ os_thread'[x] = "owned" /\ once'[x] = once[x]
          /\ once[x] # "INITIALIZED" /\ ~ready'[x] /\ pc'[x] = "boot" /\ refcount'[x] > 0
      BY <1>02, <1>03, <1>04, <1>05, <1>06, <2>1, <2>2, TypeFacts DEF States
    <3>3. QED
      BY <3>1, <3>2 DEF States
  <2>3. CASE x # h
    <3>1. hstate[x] = "STARTING" => \E y \in Threads : handle'[y] = x /\ pc'[y] \in {"create", "mark", "force", "forced"}
      BY <1>01, <1>03, <1>04, <1>05, <2>1, <2>3 DEF States
    <3>2. \A l \in {"unborn", "boot", "gone"} : pc'[x] = l <=> pc[x] = l
      BY <1>03, <1>05, <2>3
    <3>3. QED
      BY <1>04, <1>06, <2>1, <2>3, <3>1, <3>2 DEF States
  <2>4. QED
    BY <2>2, <2>3
<1>7. ASSUME NEW x \in Threads PROVE Calls(x)'
  <2>1. CASE x = t
    BY <1>01, <1>02, <1>03, <1>04, <1>05, <1>06, <2>1 DEF Calls, InList
  <2>2. CASE x = h
    BY <1>05, <2>2 DEF Calls
  <2>3. CASE x # t /\ x # h
    <3>1. PICK k \in Threads : k = handle[x] /\ handle'[x] = k
      BY <1>04, TypeFacts
    <3>2. pc[x] \in InStart => k # h
      BY <1>01, <1>02, <1>03, <2>3, <3>1 DEF OneEach, Starts
    <3>3. pc[x] \in InStart /\ (pc[x] \in {"start", "undo"} => ~daemon[k]) => k # t
      BY <1>03, <3>1, StarterFacts
    <3>4. /\ pc[x] \in InStart /\ ~daemon[k] => k \in InList'
          /\ pc[x] \in {"wait", "once"} => hstate[k] \in {"RUNNING", "DONE"}
      BY <1>04, <3>1 DEF HandleInv, Calls, InList
    <3>5. QED
      BY <1>04, <1>05, <1>06, <2>3, <3>1, <3>2, <3>3, <3>4, CallsKept
  <2>4. QED
    BY <2>1, <2>2, <2>3
<1>8. QED
  BY <1>1, <1>2, <1>3, <1>4, <1>5, <1>6, <1>7, TypeFacts DEF HandleInv

\* Nothing is created.
LEMMA CannotCreateKeeps ==
    ASSUME HandleInv, NEW t \in Threads, CannotCreate(t)
    PROVE  HandleInv'
<1>1. Types'
  BY DEF CannotCreate, HandleInv, Types, TypeOK, PC, handles, Goto
<1>2. OneEach'
  BY DEF CannotCreate, HandleInv, handles, Goto, OneEach, Starts, HasOnce
<1>3. MainThread'
  BY DEF CannotCreate, HandleInv, handles, Goto, MainThread
<1>4. Listed'
  BY ListedKept DEF CannotCreate, handles, Goto, Starts
<1>5. ASSUME NEW x \in Threads PROVE Counted(x)'
  BY TypeFacts, SMTT(40) DEF CannotCreate, HandleInv, Types, TypeOK, PC, handles, Goto, Counted, MainThread, ThreadRefs, ShutdownHolds, States, Calls
<1>6. ASSUME NEW x \in Threads PROVE States(x)'
  BY DEF CannotCreate, HandleInv, handles, Goto, States
<1>7. ASSUME NEW x \in Threads PROVE Calls(x)'
  BY SMTT(40) DEF CannotCreate, HandleInv, Types, TypeOK, PC, handles, Goto, Calls, States, Counted, MainThread, ThreadRefs, ShutdownHolds, OneEach, HasOnce, Starts, InList
<1>8. Main \in Threads
  BY DEF HandleInv
<1>9. QED
  BY <1>1, <1>2, <1>3, <1>4, <1>5, <1>6, <1>7, <1>8 DEF HandleInv

\* The handle says that its thread runs.
LEMMA MarkRunningKeeps ==
    ASSUME HandleInv, NEW t \in Threads, MarkRunning(t)
    PROVE  HandleInv'
<1>1. Types'
  BY DEF MarkRunning, HandleInv, Types, TypeOK, PC, Goto
<1>2. OneEach'
  BY DEF MarkRunning, HandleInv, Goto, OneEach, Starts, HasOnce
<1>3. MainThread'
  BY DEF MarkRunning, HandleInv, Goto, MainThread
<1>4. Listed'
  BY ListedKept DEF MarkRunning, Goto, Starts
<1>5. ASSUME NEW x \in Threads PROVE Counted(x)'
  BY TypeFacts, SMTT(40) DEF MarkRunning, HandleInv, Types, TypeOK, PC, handles, Goto, Counted, MainThread, ThreadRefs, ShutdownHolds, States, Calls
<1>6. ASSUME NEW x \in Threads PROVE States(x)'
  BY TypeFacts DEF MarkRunning, HandleInv, Goto, States, Calls
<1>7. ASSUME NEW x \in Threads PROVE Calls(x)'
  BY TypeFacts DEF MarkRunning, HandleInv, Types, TypeOK, PC, handles, Goto, Calls, States, Counted, MainThread, ThreadRefs, ShutdownHolds, OneEach, HasOnce, Starts, InList
<1>8. Main \in Threads
  BY DEF HandleInv
<1>9. QED
  BY <1>1, <1>2, <1>3, <1>4, <1>5, <1>6, <1>7, <1>8 DEF HandleInv

\* The starter lets its thread go on, and its call is over.
LEMMA NotifyReadyKeeps ==
    ASSUME HandleInv, NEW t \in Threads, NotifyReady(t)
    PROVE  HandleInv'
  BY CallEnds DEF NotifyReady, handles

\* A start that fails takes the once flag, as a join would.
LEMMA ForceDoneKeeps ==
    ASSUME HandleInv, NEW t \in Threads, ForceDone(t)
    PROVE  HandleInv'
<1>1. Types'
  BY DEF ForceDone, HandleInv, Types, TypeOK, PC, Goto
<1>2. OneEach'
  BY TypeFacts DEF ForceDone, HandleInv, Goto, OneEach, Starts, HasOnce
<1>3. MainThread'
  BY DEF ForceDone, HandleInv, Goto, MainThread
<1>4. Listed'
  BY ListedKept DEF ForceDone, Goto, Starts
<1>5. ASSUME NEW x \in Threads PROVE Counted(x)'
  BY TypeFacts, SMTT(40) DEF ForceDone, HandleInv, Types, TypeOK, PC, handles, Goto, Counted, MainThread, ThreadRefs, ShutdownHolds, States, Calls
<1>6. ASSUME NEW x \in Threads PROVE States(x)'
  BY DEF ForceDone, HandleInv, Goto, States
<1>7. ASSUME NEW x \in Threads PROVE Calls(x)'
  BY TypeFacts, SMTT(40) DEF ForceDone, HandleInv, Types, TypeOK, PC, handles, Goto, Calls, States, Counted, MainThread, ThreadRefs, ShutdownHolds, OneEach, HasOnce, Starts, InList
<1>8. Main \in Threads
  BY DEF HandleInv
<1>9. QED
  BY <1>1, <1>2, <1>3, <1>4, <1>5, <1>6, <1>7, <1>8 DEF HandleInv

\* A handle whose start has failed is done.
LEMMA ForcedDoneKeeps ==
    ASSUME HandleInv, NEW t \in Threads, ForcedDone(t)
    PROVE  HandleInv'
<1>1. Types'
  BY DEF ForcedDone, HandleInv, Types, TypeOK, PC, Goto
<1>2. OneEach'
  BY TypeFacts DEF ForcedDone, HandleInv, Goto, OneEach, Starts, HasOnce
<1>3. MainThread'
  BY DEF ForcedDone, HandleInv, Goto, MainThread
<1>4. Listed'
  BY ListedKept DEF ForcedDone, Goto, Starts
<1>5. ASSUME NEW x \in Threads PROVE Counted(x)'
  <2>1. pc' = [pc EXCEPT ![t] = "undo"] /\ pc[t] = "forced" /\ UNCHANGED <<refcount, object, handle, shutdown>>
    BY DEF ForcedDone, Goto
  <2>2. ThreadRefs(x)' = ThreadRefs(x) /\ (ShutdownHolds(x)' => ShutdownHolds(x))
    BY <2>1, TypeFacts DEF ThreadRefs, ShutdownHolds
  <2>3. QED
    BY <2>1, <2>2, CountedKept
<1>6. ASSUME NEW x \in Threads PROVE States(x)'
  BY TypeFacts DEF ForcedDone, HandleInv, Goto, States, Calls
<1>7. ASSUME NEW x \in Threads PROVE Calls(x)'
  BY DEF ForcedDone, HandleInv, Types, TypeOK, PC, handles, Goto, Calls, States, Counted, MainThread, ThreadRefs, ShutdownHolds, OneEach, HasOnce, Starts, InList
<1>8. Main \in Threads
  BY DEF HandleInv
<1>9. QED
  BY <1>1, <1>2, <1>3, <1>4, <1>5, <1>6, <1>7, <1>8 DEF HandleInv

\* The handle leaves the list again.
LEMMA StartFailsKeeps ==
    ASSUME HandleInv, NEW t \in Threads, StartFails(t)
    PROVE  HandleInv'
  BY CallEnds DEF StartFails, handles

\* The thread takes a reference for its function.
LEMMA BootKeeps ==
    ASSUME HandleInv, NEW t \in Threads, Boot(t)
    PROVE  HandleInv'
<1>1. Types'
  <2>1. pc' \in [Threads -> PC]
    BY TypeFacts DEF Boot, Goto, PC
  <2>2. refcount' \in [Threads -> Nat]
    BY TypeFacts DEF Boot, IncRef
  <2>3. QED
    BY <2>1, <2>2 DEF Boot, HandleInv, Types, TypeOK
<1>2. OneEach'
  BY DEF Boot, HandleInv, Goto, OneEach, Starts, HasOnce
<1>3. MainThread'
  BY DEF Boot, HandleInv, Goto, MainThread
<1>4. Listed'
  BY ListedKept DEF Boot, Goto, Starts
<1>5. ASSUME NEW x \in Threads PROVE Counted(x)'
  BY TypeFacts DEF Boot, HandleInv, Goto, IncRef, Counted, ThreadRefs, ShutdownHolds
<1>6. ASSUME NEW x \in Threads PROVE States(x)'
  BY DEF Boot, HandleInv, Types, TypeOK, Goto, IncRef, States, Calls, Counted, MainThread, ThreadRefs, ShutdownHolds
<1>7. ASSUME NEW x \in Threads PROVE Calls(x)'
  BY DEF Boot, HandleInv, Goto, Calls, InList
<1>8. Main \in Threads
  BY DEF HandleInv
<1>9. QED
  BY <1>1, <1>2, <1>3, <1>4, <1>5, <1>6, <1>7, <1>8 DEF HandleInv

\* The boot state's reference goes, and the thread's own remains.
LEMMA BootFreeKeeps ==
    ASSUME HandleInv, NEW t \in Threads, BootFree(t)
    PROVE  HandleInv'
<1>00. refcount[t] > 0 /\ DecRef(t)
  BY TypeFacts DEF BootFree, HandleInv, Counted, ThreadRefs, MainThread
<1>1. Types'
  BY <1>00, DecRefFacts DEF BootFree, HandleInv, Types, TypeOK, PC, Goto
<1>2. OneEach'
  BY <1>00, DecRefFacts DEF BootFree, HandleInv, Goto, OneEach, Starts, HasOnce
<1>3. MainThread'
  BY <1>00, DecRefFacts DEF BootFree, HandleInv, Goto, MainThread
<1>4. Listed'
  BY ListedKept, <1>00, DecRefFacts DEF BootFree, Goto, Starts
<1>5. ASSUME NEW x \in Threads PROVE Counted(x)'
  BY TypeFacts, <1>00, DecRefFacts, SMTT(40) DEF BootFree, HandleInv, Types, TypeOK, PC, handles, Goto, Counted, MainThread, ThreadRefs, ShutdownHolds, States, Calls
<1>6. ASSUME NEW x \in Threads PROVE States(x)'
  <2>1. States(x) /\ Counted(x)' /\ MainThread
    BY <1>5 DEF HandleInv
  <2>2. pc' = [pc EXCEPT ![t] = "unlist"] /\ pc[t] = "free" /\ UNCHANGED <<once, object, ready, handle>>
    BY DEF BootFree, Goto
  <2>3. \A l \in {"unborn", "boot", "gone"} : pc'[x] = l <=> pc[x] = l
    BY <2>2, TypeFacts
  <2>4. hstate[x] = "STARTING" => \E y \in Threads : handle'[y] = x /\ pc'[y] \in {"create", "mark", "force", "forced"}
    BY <2>1, <2>2, TypeFacts DEF States
  <2>5. CASE x # t
    BY <1>00, <2>1, <2>2, <2>3, <2>4, <2>5, DecRefFacts DEF States
  <2>6. CASE x = t
    <3>1. refcount'[x] > 0 /\ refcount[x] > 0
      <4>1. ThreadRefs(x)' = 1
        BY <2>1, <2>2, <2>6, TypeFacts DEF ThreadRefs, MainThread
      <4>2. QED
        BY <1>00, <2>1, <2>6, <4>1, DecRefFacts DEF Counted
    <3>2. hstate'[x] = hstate[x] /\ os_thread'[x] = os_thread[x]
      BY <1>00, <2>6, <3>1, DecRefFacts
    <3>3. QED
      BY <2>1, <2>2, <2>3, <2>4, <3>1, <3>2 DEF States
  <2>7. QED
    BY <2>5, <2>6
<1>7. ASSUME NEW x \in Threads PROVE Calls(x)'
  <2>1. \A y \in Threads : \/ pc'[y] = pc[y]
                              \/ /\ pc'[y] \notin InCall /\ pc[y] \notin {"unborn", "gone"}
                                 /\ pc[y] = "boot" => ready[y]
    BY TypeFacts DEF BootFree, Goto
  <2>2. \A y \in Threads : pc[y] \in InCall => (object'[handle[y]] <=> object[handle[y]])
    BY TypeFacts DEF BootFree
  <2>3. object' \in [Threads -> BOOLEAN]
    BY TypeFacts DEF BootFree
  <2>4. UNCHANGED <<daemon, ready, shutdown_handles, handle>> /\ (shutdown' = shutdown \/ pc[Main] \notin InCall)
    BY DEF BootFree
  <2>5. QED
    BY <1>00, <1>5, <2>1, <2>2, <2>3, <2>4, DecRefCalls
<1>8. Main \in Threads
  BY DEF HandleInv
<1>9. QED
  BY <1>1, <1>2, <1>3, <1>4, <1>5, <1>6, <1>7, <1>8 DEF HandleInv

\* The thread leaves the list while its handle is alive.
LEMMA ThreadUnlistKeeps ==
    ASSUME HandleInv, NEW t \in Threads, ThreadUnlist(t)
    PROVE  HandleInv'
<1>1. Types'
  BY UnlistFacts DEF ThreadUnlist, HandleInv, Types, TypeOK, PC, handles, Goto
<1>2. OneEach'
  BY UnlistFacts DEF ThreadUnlist, HandleInv, handles, Goto, OneEach, Starts, HasOnce
<1>3. MainThread'
  BY UnlistFacts DEF ThreadUnlist, HandleInv, handles, Goto, MainThread
<1>4. Listed'
  <2>1. /\ pc' = [pc EXCEPT ![t] = "notify"] /\ pc[t] = "unlist" /\ UNCHANGED <<daemon, handle>>
        /\ InList' = InList \ {t}
        /\ \A i, j \in DOMAIN shutdown_handles' : shutdown_handles'[i] = shutdown_handles'[j] => i = j
    BY UnlistFacts DEF ThreadUnlist, Goto, handles
  <2>2. InList \subseteq Threads /\ Listed
    BY DEF InList, HandleInv, Types, TypeOK
  <2>3. \A y, k \in Threads : Starts(y, k) => Starts(y, k)'
    BY <2>1, TypeFacts DEF Starts
  <2>4. \A y \in Threads \ {t} : pc'[y] = pc[y]
    BY <2>1
  <2>5. pc'[t] \in Off
    BY <2>1, TypeFacts
  <2>6. QED
    BY <2>1, <2>2, <2>3, <2>4, <2>5 DEF Listed
<1>5. ASSUME NEW x \in Threads PROVE Counted(x)'
  BY UnlistFacts DEF ThreadUnlist, HandleInv, TypeOK, handles, Goto, Counted, ThreadRefs, ShutdownHolds
<1>6. ASSUME NEW x \in Threads PROVE States(x)'
  BY UnlistFacts DEF ThreadUnlist, HandleInv, Types, TypeOK, PC, handles, Goto, States, Calls, OneEach, Starts
<1>7. ASSUME NEW x \in Threads PROVE Calls(x)'
  <2>1. CASE x = t
    BY <2>1, TypeFacts DEF ThreadUnlist, Goto, Calls
  <2>2. CASE x # t
    <3>1. PICK k \in Threads : k = handle[x] /\ handle'[x] = k
      BY <2>2, TypeFacts DEF ThreadUnlist
    <3>2. \A y \in Threads : y # t => pc'[y] = pc[y]
      BY TypeFacts DEF ThreadUnlist, Goto
    <3>3. InList' = InList \ {t}
      BY UnlistFacts DEF ThreadUnlist
    <3>4. pc[x] \in InStart /\ ~daemon[k] => k # t
      BY <3>1, StarterFacts DEF ThreadUnlist
    <3>5. pc[x] \in {"wait", "once"} => hstate[k] \in {"RUNNING", "DONE"}
      BY <3>1 DEF HandleInv, Calls
    <3>6. QED
      BY <2>2, <3>1, <3>2, <3>3, <3>4, <3>5, OthersCall DEF ThreadUnlist, handles
  <2>3. QED
    BY <2>1, <2>2
<1>8. Main \in Threads
  BY DEF HandleInv
<1>9. QED
  BY <1>1, <1>2, <1>3, <1>4, <1>5, <1>6, <1>7, <1>8 DEF HandleInv

\* Those who wait for the thread may go on.
LEMMA NotifyExitingKeeps ==
    ASSUME HandleInv, NEW t \in Threads, NotifyExiting(t)
    PROVE  HandleInv'
<1>1. Types'
  BY DEF NotifyExiting, HandleInv, Types, TypeOK, PC, Goto
<1>2. OneEach'
  BY DEF NotifyExiting, HandleInv, Goto, OneEach, Starts, HasOnce
<1>3. MainThread'
  BY DEF NotifyExiting, HandleInv, Goto, MainThread
<1>4. Listed'
  BY ListedKept DEF NotifyExiting, Goto, Starts
<1>5. ASSUME NEW x \in Threads PROVE Counted(x)'
  BY DEF NotifyExiting, HandleInv, Goto, Counted, ThreadRefs, ShutdownHolds
<1>6. ASSUME NEW x \in Threads PROVE States(x)'
  BY DEF NotifyExiting, HandleInv, TypeOK, Goto, States, Calls
<1>7. ASSUME NEW x \in Threads PROVE Calls(x)'
  BY DEF NotifyExiting, HandleInv, Goto, Calls, InList
<1>8. Main \in Threads
  BY DEF HandleInv
<1>9. QED
  BY <1>1, <1>2, <1>3, <1>4, <1>5, <1>6, <1>7, <1>8 DEF HandleInv

\* The thread's last reference goes, and with the last of all the OS thread is detached.
LEMMA ThreadDecRefKeeps ==
    ASSUME HandleInv, NEW t \in Threads, ThreadDecRef(t)
    PROVE  HandleInv'
<1>00. refcount[t] > 0 /\ DecRef(t)
  BY TypeFacts DEF ThreadDecRef, HandleInv, Counted, ThreadRefs, MainThread
<1>1. Types'
  BY <1>00, DecRefFacts DEF ThreadDecRef, HandleInv, Types, TypeOK, PC, Goto
<1>2. OneEach'
  BY <1>00, DecRefFacts DEF ThreadDecRef, HandleInv, Goto, OneEach, Starts, HasOnce
<1>3. MainThread'
  BY <1>00, DecRefFacts DEF ThreadDecRef, HandleInv, Goto, MainThread
<1>4. Listed'
  BY ListedKept, <1>00, DecRefFacts DEF ThreadDecRef, Goto, Starts
<1>5. ASSUME NEW x \in Threads PROVE Counted(x)'
  <2>1. Counted(x) /\ MainThread
    BY DEF HandleInv
  <2>2. pc' = [pc EXCEPT ![t] = "gone"] /\ pc[t] = "decref" /\ UNCHANGED <<object, handle, shutdown>> /\ t # Main
    BY <2>1 DEF ThreadDecRef, Goto, MainThread
  <2>3. ShutdownHolds(x)' <=> ShutdownHolds(x)
    BY <2>2, TypeFacts DEF ShutdownHolds
  <2>4. CASE x # t
    <3>1. refcount'[x] = refcount[x] /\ pc'[x] = pc[x]
      BY <1>00, <2>2, <2>4, DecRefFacts, TypeFacts
    <3>2. QED
      BY <2>1, <2>2, <2>3, <3>1 DEF Counted, ThreadRefs
  <2>5. CASE x = t
    <3>1. refcount'[x] = refcount[x] - 1 /\ ThreadRefs(x) = 1 /\ ThreadRefs(x)' = 0
      BY <1>00, <2>2, <2>5, DecRefFacts, TypeFacts DEF ThreadRefs
    <3>2. refcount[x] \in Nat
      BY TypeFacts
    <3>3. QED
      BY <2>1, <2>2, <2>3, <3>1, <3>2 DEF Counted
  <2>6. QED
    BY <2>4, <2>5
<1>6. ASSUME NEW x \in Threads PROVE States(x)'
  BY TypeFacts, <1>00, DecRefFacts, SMTT(40) DEF ThreadDecRef, HandleInv, Types, TypeOK, PC, handles, Goto, States, Calls, Counted, MainThread, ThreadRefs, ShutdownHolds, OneEach, HasOnce, Starts
<1>7. ASSUME NEW x \in Threads PROVE Calls(x)'
  <2>1. \A y \in Threads : \/ pc'[y] = pc[y]
                              \/ /\ pc'[y] \notin InCall /\ pc[y] \notin {"unborn", "gone"}
                                 /\ pc[y] = "boot" => ready[y]
    BY TypeFacts DEF ThreadDecRef, Goto
  <2>2. \A y \in Threads : pc[y] \in InCall => (object'[handle[y]] <=> object[handle[y]])
    BY TypeFacts DEF ThreadDecRef
  <2>3. object' \in [Threads -> BOOLEAN]
    BY TypeFacts DEF ThreadDecRef
  <2>4. UNCHANGED <<daemon, ready, shutdown_handles, handle>> /\ (shutdown' = shutdown \/ pc[Main] \notin InCall)
    BY DEF ThreadDecRef
  <2>5. QED
    BY <1>00, <1>5, <2>1, <2>2, <2>3, <2>4, DecRefCalls
<1>8. Main \in Threads
  BY DEF HandleInv
<1>9. QED
  BY <1>1, <1>2, <1>3, <1>4, <1>5, <1>6, <1>7, <1>8 DEF HandleInv

\* A join goes on only with a handle that has been started.
LEMMA JoinCheckKeeps ==
    ASSUME HandleInv, NEW t \in Threads, JoinCheck(t)
    PROVE  HandleInv'
<1>1. CASE Raise(t)
  BY <1>1, CallEnds DEF JoinCheck, handles
<1>2. CASE Goto(t, "wait") /\ UNCHANGED handle /\ hstate[handle[t]] \notin {"NOT_STARTED", "STARTING"}
  <2>1. Types'
    BY <1>2 DEF JoinCheck, HandleInv, Types, TypeOK, PC, handles, Goto
  <2>2. OneEach'
    BY <1>2 DEF JoinCheck, HandleInv, handles, Goto, OneEach, Starts, HasOnce
  <2>3. MainThread'
    BY <1>2 DEF JoinCheck, HandleInv, handles, Goto, MainThread
  <2>4. Listed'
    BY ListedKept, <1>2 DEF JoinCheck, handles, Goto, Starts
  <2>5. ASSUME NEW x \in Threads PROVE Counted(x)'
    BY <1>2 DEF JoinCheck, HandleInv, handles, Goto, Counted, ThreadRefs, ShutdownHolds
  <2>6. ASSUME NEW x \in Threads PROVE States(x)'
    BY <1>2 DEF JoinCheck, HandleInv, handles, Goto, States
  <2>7. ASSUME NEW x \in Threads PROVE Calls(x)'
    BY <1>2 DEF JoinCheck, HandleInv, Types, TypeOK, handles, Goto, Calls, InList
  <2>8. QED
    BY <2>1, <2>2, <2>3, <2>4, <2>5, <2>6, <2>7 DEF HandleInv
<1>3. QED
  BY <1>1, <1>2 DEF JoinCheck

\* A join goes on when the thread is exiting.
LEMMA JoinWaitKeeps ==
    ASSUME HandleInv, NEW t \in Threads, JoinWait(t)
    PROVE  HandleInv'
<1>1. Types'
  BY DEF JoinWait, HandleInv, Types, TypeOK, PC, handles, Goto
<1>2. OneEach'
  BY DEF JoinWait, HandleInv, handles, Goto, OneEach, Starts, HasOnce
<1>3. MainThread'
  BY DEF JoinWait, HandleInv, handles, Goto, MainThread
<1>4. Listed'
  BY ListedKept DEF JoinWait, handles, Goto, Starts
<1>5. ASSUME NEW x \in Threads PROVE Counted(x)'
  BY DEF JoinWait, HandleInv, handles, Goto, Counted, ThreadRefs, ShutdownHolds
<1>6. ASSUME NEW x \in Threads PROVE States(x)'
  BY DEF JoinWait, HandleInv, handles, Goto, States
<1>7. ASSUME NEW x \in Threads PROVE Calls(x)'
  BY DEF JoinWait, HandleInv, handles, Goto, Calls, InList
<1>8. Main \in Threads
  BY DEF HandleInv
<1>9. QED
  BY <1>1, <1>2, <1>3, <1>4, <1>5, <1>6, <1>7, <1>8 DEF HandleInv

\* One join takes the once flag, and those after it find the thread joined.
LEMMA JoinOnceKeeps ==
    ASSUME HandleInv, NEW t \in Threads, JoinOnce(t)
    PROVE  HandleInv'
<1>1. CASE once[handle[t]] = "INITIALIZED" /\ Return(t) /\ UNCHANGED once
  BY <1>1, CallEnds DEF JoinOnce, handles
<1>2. CASE once[handle[t]] = "UNLOCKED" /\ once' = [once EXCEPT ![handle[t]] = "LOCKED"] /\ Goto(t, "join") /\ UNCHANGED handle
  <2>1. Types'
    BY <1>2 DEF JoinOnce, HandleInv, Types, TypeOK, PC, Goto
  <2>2. OneEach'
    BY TypeFacts, <1>2 DEF JoinOnce, HandleInv, Goto, OneEach, Starts, HasOnce
  <2>3. MainThread'
    BY <1>2 DEF JoinOnce, HandleInv, Goto, MainThread
  <2>4. Listed'
    BY ListedKept, <1>2 DEF JoinOnce, Goto, Starts
  <2>5. ASSUME NEW x \in Threads PROVE Counted(x)'
    BY <1>2 DEF JoinOnce, HandleInv, Goto, Counted, ThreadRefs, ShutdownHolds
  <2>6. ASSUME NEW x \in Threads PROVE States(x)'
    BY <1>2 DEF JoinOnce, HandleInv, Goto, States
  <2>7. ASSUME NEW x \in Threads PROVE Calls(x)'
    <3>1. PICK h \in Threads : h = handle[t] /\ Calls(t) /\ States(h) /\ Counted(h)
      BY TypeFacts DEF HandleInv
    <3>2. pc[t] = "once" /\ pc' = [pc EXCEPT ![t] = "join"]
      BY <1>2 DEF JoinOnce, Goto
    <3>3. CASE x = t
      <4>1. object[h] \/ ShutdownHolds(h)
        BY <3>1, <3>2 DEF Calls, ShutdownHolds
      <4>2. refcount[h] > 0
        <5>1. ThreadRefs(h) \in Nat /\ refcount[h] \in Nat
          BY TypeFacts DEF ThreadRefs
        <5>2. QED
          BY <3>1, <4>1, <5>1 DEF Counted
      <4>3. hstate[h] = "RUNNING"
        BY <1>2, <3>1, <3>2, <4>2 DEF Calls, States
      <4>4. QED
        BY <1>2, <3>1, <3>2, <3>3, <4>3 DEF JoinOnce, Calls
    <3>4. CASE x # t
      <4>1. PICK k \in Threads : k = handle[x] /\ handle'[x] = k
        BY <1>2, TypeFacts
      <4>2. pc[x] \in {"wait", "once"} => hstate[k] \in {"RUNNING", "DONE"}
        BY <4>1 DEF HandleInv, Calls
      <4>3. QED
        BY <3>2, <3>4, <4>1, <4>2, OthersCall DEF JoinOnce, InList
    <3>5. QED
      BY <3>3, <3>4
  <2>8. QED
    BY <2>1, <2>2, <2>3, <2>4, <2>5, <2>6, <2>7 DEF HandleInv
<1>3. QED
  BY <1>1, <1>2 DEF JoinOnce

\* The one join reaps the OS thread, which nobody has reaped before.
LEMMA JoinThreadKeeps ==
    ASSUME HandleInv, NEW t \in Threads, JoinThread(t)
    PROVE  HandleInv'
<1>1. Types'
  BY DEF JoinThread, HandleInv, Types, TypeOK, PC, Goto, Reaped
<1>2. OneEach'
  BY DEF JoinThread, HandleInv, Goto, OneEach, Starts, HasOnce
<1>3. MainThread'
  BY DEF JoinThread, HandleInv, Goto, MainThread
<1>4. Listed'
  BY ListedKept DEF JoinThread, Goto, Starts
<1>5. ASSUME NEW x \in Threads PROVE Counted(x)'
  BY DEF JoinThread, HandleInv, Goto, Counted, ThreadRefs, ShutdownHolds
<1>6. ASSUME NEW x \in Threads PROVE States(x)'
  BY DEF JoinThread, HandleInv, Types, TypeOK, Goto, Reaped, States, Calls, OneEach, HasOnce
<1>7. ASSUME NEW x \in Threads PROVE Calls(x)'
  BY SMTT(40) DEF JoinThread, HandleInv, Types, TypeOK, PC, handles, Goto, Reaped, Calls, States, Counted, MainThread, ThreadRefs, ShutdownHolds, OneEach, HasOnce, Starts, InList
<1>8. Main \in Threads
  BY DEF HandleInv
<1>9. QED
  BY <1>1, <1>2, <1>3, <1>4, <1>5, <1>6, <1>7, <1>8 DEF HandleInv

\* The flag tells the others.
LEMMA JoinedOnceKeeps ==
    ASSUME HandleInv, NEW t \in Threads, JoinedOnce(t)
    PROVE  HandleInv'
  BY CallEnds DEF JoinedOnce, handles

\* The thread's function is over.
LEMMA FunctionReturnsKeeps ==
    ASSUME HandleInv, NEW t \in Threads, FunctionReturns(t)
    PROVE  HandleInv'
<1>1. Types'
  BY DEF FunctionReturns, HandleInv, Types, TypeOK, PC, handles, Goto
<1>2. OneEach'
  BY DEF FunctionReturns, HandleInv, handles, Goto, OneEach, Starts, HasOnce
<1>3. MainThread'
  BY DEF FunctionReturns, HandleInv, handles, Goto, MainThread
<1>4. Listed'
  BY ListedKept DEF FunctionReturns, handles, Goto, Starts
<1>5. ASSUME NEW x \in Threads PROVE Counted(x)'
  BY DEF FunctionReturns, HandleInv, handles, Goto, Counted, ThreadRefs, ShutdownHolds
<1>6. ASSUME NEW x \in Threads PROVE States(x)'
  BY DEF FunctionReturns, HandleInv, handles, Goto, States
<1>7. ASSUME NEW x \in Threads PROVE Calls(x)'
  BY DEF FunctionReturns, HandleInv, handles, Goto, Calls, InList
<1>8. Main \in Threads
  BY DEF HandleInv
<1>9. QED
  BY <1>1, <1>2, <1>3, <1>4, <1>5, <1>6, <1>7, <1>8 DEF HandleInv

\* A join times out before it has done anything.
LEMMA JoinGivesUpKeeps ==
    ASSUME HandleInv, NEW t \in Threads, JoinGivesUp(t)
    PROVE  HandleInv'
  BY CallEnds DEF JoinGivesUp, handles

\* The handle's object goes, with its reference.
LEMMA DeallocKeeps ==
    ASSUME HandleInv, NEW t \in Threads, Dealloc(t)
    PROVE  HandleInv'
<1>00. refcount[t] > 0 /\ DecRef(t)
  BY TypeFacts DEF Dealloc, HandleInv, Counted, ThreadRefs
<1>1. Types'
  BY <1>00, DecRefFacts DEF Dealloc, HandleInv, Types, TypeOK
<1>2. OneEach'
  BY <1>00, DecRefFacts DEF Dealloc, HandleInv, OneEach, Starts, HasOnce
<1>3. MainThread'
  BY <1>00, DecRefFacts DEF Dealloc, HandleInv, MainThread
<1>4. Listed'
  BY ListedKept, <1>00, DecRefFacts DEF Dealloc, Starts
<1>5. ASSUME NEW x \in Threads PROVE Counted(x)'
  BY TypeFacts, <1>00, DecRefFacts, SMTT(40) DEF Dealloc, HandleInv, Types, TypeOK, PC, handles, Counted, MainThread, ThreadRefs, ShutdownHolds, States, Calls
<1>6. ASSUME NEW x \in Threads PROVE States(x)'
  <2>1. /\ UNCHANGED <<once, ready, pc, handle>> /\ (object'[x] => object[x]) /\ refcount[t] \in Nat
        /\ \A u \in Threads : handle[u] = t => pc[u] \notin InCall
    BY DEF Dealloc, HandleInv, Types, TypeOK
  <2>2. States(x)
    BY DEF HandleInv
  <2>3. CASE x # t
    <3>1. refcount'[x] = refcount[x] /\ hstate'[x] = hstate[x] /\ os_thread'[x] = os_thread[x]
      BY <1>00, <2>3, DecRefFacts
    <3>2. QED
      BY <2>1, <2>2, <3>1 DEF States
  <2>4. CASE x = t
    <3>1. hstate[t] # "STARTING"
      BY <2>1, <2>2, <2>4 DEF States, InCall, InStart
    <3>2. /\ refcount'[t] = refcount[t] - 1
          /\ \/ hstate'[t] = hstate[t] /\ os_thread'[t] = os_thread[t]
                /\ (refcount'[t] > 0 \/ hstate[t] # "RUNNING")
             \/ /\ refcount'[t] = 0 /\ hstate[t] = "RUNNING" /\ hstate'[t] = "DONE"
                /\ os_thread'[t] \in {"none", "detached"}
      BY <1>00, DecRefFacts
    <3>3. refcount'[t] \in Nat /\ refcount[t] > 0
      BY <1>00, DecRefFacts
    <3>4. hstate[t] \in {"NOT_STARTED", "STARTING", "RUNNING", "DONE"}
      BY DEF HandleInv, Types, TypeOK
    <3>5. QED
      BY <2>1, <2>2, <2>4, <3>1, <3>2, <3>3, <3>4 DEF States
  <2>5. QED
    BY <2>3, <2>4
<1>7. ASSUME NEW x \in Threads PROVE Calls(x)'
  <2>1. \A y \in Threads : \/ pc'[y] = pc[y]
                              \/ /\ pc'[y] \notin InCall /\ pc[y] \notin {"unborn", "gone"}
                                 /\ pc[y] = "boot" => ready[y]
    BY TypeFacts DEF Dealloc, Goto
  <2>2. \A y \in Threads : pc[y] \in InCall => (object'[handle[y]] <=> object[handle[y]])
    BY TypeFacts DEF Dealloc
  <2>3. object' \in [Threads -> BOOLEAN]
    BY TypeFacts DEF Dealloc
  <2>4. UNCHANGED <<daemon, ready, shutdown_handles, handle>> /\ (shutdown' = shutdown \/ pc[Main] \notin InCall)
    BY DEF Dealloc
  <2>5. QED
    BY <1>00, <1>5, <2>1, <2>2, <2>3, <2>4, DecRefCalls
<1>8. Main \in Threads
  BY DEF HandleInv
<1>9. QED
  BY <1>1, <1>2, <1>3, <1>4, <1>5, <1>6, <1>7, <1>8 DEF HandleInv

\* In the child of a fork the other threads are done, and nobody owns them.
LEMMA ForkKeeps ==
    ASSUME HandleInv, NEW t \in Threads, Fork(t)
    PROVE  HandleInv'
<1>01. /\ pc[t] = "run" /\ shutdown = "no" /\ shutdown' = "no"
       /\ UNCHANGED <<refcount, object, daemon, ready, handle>>
       /\ pc' = [u \in Threads |-> IF u = t THEN "run" ELSE "gone"]
       /\ shutdown_handles' = IF t \in ToSet(shutdown_handles) THEN <<t>> ELSE <<>>
       /\ hstate' = [x \in Threads |-> IF x \in Others(t) THEN "DONE" ELSE hstate[x]]
       /\ once' = [x \in Threads |-> IF x \in Others(t) THEN "INITIALIZED" ELSE once[x]]
       /\ exiting' = [x \in Threads |-> x \in Others(t) \/ exiting[x]]
       /\ os_thread' = [x \in Threads |-> IF x # t /\ os_thread[x] = "owned" THEN "lost"
                                                                    ELSE os_thread[x]]
  BY DEF Fork, AfterFork
<1>02. States(t) /\ MainThread /\ Listed
  BY DEF HandleInv
<1>03. \/ shutdown_handles' = <<t>> /\ t \in InList
       \/ shutdown_handles' = <<>> /\ t \notin InList
  BY <1>01 DEF InList, ToSet
<1>04. InList' = IF t \in InList THEN {t} ELSE {}
  BY <1>03 DEF InList
<1>1. Types'
  <2>1. shutdown_handles' \in Seq(Threads)
    <3>1. <<t>> \in Seq(Threads) /\ <<>> \in Seq(Threads)
      OBVIOUS
    <3>2. QED
      BY <1>03, <3>1
  <2>2. hstate' \in [Threads -> {"NOT_STARTED", "STARTING", "RUNNING", "DONE"}]
    BY <1>01, TypeFacts
  <2>3. os_thread' \in [Threads -> {"none", "owned", "joined", "detached", "lost", "error"}]
    BY <1>01, TypeFacts
  <2>4. once' \in [Threads -> {"UNLOCKED", "LOCKED", "INITIALIZED"}]
    BY <1>01, TypeFacts
  <2>5. exiting' \in [Threads -> BOOLEAN]
    BY <1>01, TypeFacts
  <2>6. pc' \in [Threads -> PC]
    BY <1>01 DEF PC
  <2>7. QED
    BY <1>01, <2>1, <2>2, <2>3, <2>4, <2>5, <2>6 DEF HandleInv, Types, TypeOK
<1>2. OneEach'
  <2>1. \A y \in Threads : pc'[y] \in {"run", "gone"}
    BY <1>01
  <2>2. QED
    BY <2>1, TypeFacts DEF OneEach, Starts, HasOnce
<1>3. MainThread'
  <2>1. \A y \in Threads : pc'[y] \in {"run", "gone"}
    BY <1>01
  <2>2. hstate'[Main] \in {"RUNNING", "DONE"}
    BY <1>01, <1>02, TypeFacts DEF MainThread
  <2>3. QED
    BY <1>01, <1>02, <2>1, <2>2, TypeFacts DEF MainThread
<1>4. Listed'
  <2>1. pc'[t] = "run" /\ \A y \in Threads : y # t => pc'[y] = "gone"
    BY <1>01
  <2>2. \A i, j \in DOMAIN shutdown_handles' : shutdown_handles'[i] = shutdown_handles'[j] => i = j
    BY <1>03
  <2>3. t # Main /\ ~daemon[t] => t \in InList
    BY <1>01, <1>02 DEF Listed
  <2>4. QED
    BY <1>01, <1>02, <1>04, <2>1, <2>2, <2>3 DEF Listed
<1>5. ASSUME NEW x \in Threads PROVE Counted(x)'
  <2>1. ThreadRefs(x)' = ThreadRefs(x) \/ ThreadRefs(x)' = 0
    BY <1>01 DEF ThreadRefs
  <2>2. ~ShutdownHolds(x)'
    BY <1>01 DEF ShutdownHolds
  <2>3. QED
    BY <1>01, <2>1, <2>2, CountedKept
<1>6. ASSUME NEW x \in Threads PROVE States(x)'
  <2>1. States(x) /\ Counted(x)
    BY DEF HandleInv
  <2>2. pc'[x] = (IF x = t THEN "run" ELSE "gone") /\ refcount[x] \in Nat
    BY <1>01, TypeFacts
  <2>3. CASE x \in Others(t)
    <3>1. hstate'[x] = "DONE" /\ once'[x] = "INITIALIZED" /\ x # t /\ pc'[x] = "gone"
          /\ os_thread'[x] = IF os_thread[x] = "owned" THEN "lost" ELSE os_thread[x]
      BY <1>01, <2>2, <2>3 DEF Others
    <3>2. pc[x] \notin {"unborn", "boot", "gone"} => ready[x] \/ x = Main
      BY <2>1 DEF States
    <3>3. QED
      BY <1>01, <2>1, <3>1, <3>2 DEF States
  <2>4. CASE x # t /\ x \notin Others(t)
    <3>1. /\ refcount[x] = 0 /\ hstate'[x] = hstate[x] /\ once'[x] = once[x] /\ pc'[x] = "gone"
          /\ os_thread'[x] = IF os_thread[x] = "owned" THEN "lost" ELSE os_thread[x]
      BY <1>01, <2>2, <2>4 DEF Others
    <3>2. ~object[x]
      BY <2>1, <3>1 DEF Counted, ThreadRefs
    <3>3. QED
      BY <1>01, <2>1, <3>1, <3>2 DEF States
  <2>5. CASE x = t
    <3>1. hstate'[x] = hstate[x] /\ once'[x] = once[x] /\ pc'[x] = "run" /\ os_thread'[x] = os_thread[x]
      BY <1>01, <2>2, <2>5 DEF Others
    <3>2. hstate[x] # "STARTING"
      <4>1. ASSUME NEW y \in Threads, handle[y] = t, pc[y] \in {"create", "mark", "force", "forced"}
            PROVE  pc[t] \in {"unborn", "boot"}
        BY <4>1 DEF HandleInv, Calls
      <4>2. QED
        BY <1>01, <2>1, <2>5, <4>1 DEF States
    <3>3. QED
      BY <1>01, <2>1, <2>5, <3>1, <3>2 DEF States
  <2>6. QED
    BY <2>3, <2>4, <2>5
<1>7. ASSUME NEW x \in Threads PROVE Calls(x)'
  <2>1. pc'[x] \in {"run", "gone"}
    BY <1>01
  <2>2. QED
    BY <2>1 DEF Calls
<1>8. QED
  BY <1>1, <1>2, <1>3, <1>4, <1>5, <1>6, <1>7, TypeFacts DEF HandleInv

\* A start takes a handle that no other start has, and puts it in the list.
LEMMA StartKeeps ==
    ASSUME HandleInv, NEW t \in Threads, NEW h \in Threads, Start(t, h)
    PROVE  HandleInv'
<1>1. Types'
  BY DEF Start, HandleInv, Types, TypeOK, PC, handles, Goto
<1>2. OneEach'
  BY DEF Start, HandleInv, Types, TypeOK, handles, Goto, OneEach, Starts, HasOnce
<1>3. MainThread'
  BY DEF Start, HandleInv, handles, Goto, MainThread
<1>4. Listed'
  <2>1. Listed /\ InList \subseteq Threads /\ MainThread /\ States(h) /\ shutdown_handles \in Seq(Threads)
    BY DEF HandleInv, Types, TypeOK, InList
  <2>2. /\ pc' = [pc EXCEPT ![t] = "start"] /\ pc[t] = "run" /\ object[h] /\ daemon' = daemon
        /\ handle' = [handle EXCEPT ![t] = h]
        /\ daemon[h] \/ hstate[h] = "NOT_STARTED"
        /\ \A u \in Threads : handle[u] = h => pc[u] \notin InStart
    BY DEF Start, Goto, handles
  <2>3. \A x, y \in Threads : Starts(x, y) => Starts(x, y)'
    BY <2>2, TypeFacts DEF Starts
  <2>4. Starts(t, h)'
    BY <2>2, TypeFacts DEF Starts
  <2>5. \A x \in Threads : pc'[x] \in Off <=> pc[x] \in Off
    BY <2>2, TypeFacts
  <2>6. CASE daemon[h]
    <3>1. InList' = InList /\ shutdown_handles' = shutdown_handles
      BY <2>6 DEF Start, InList
    <3>2. QED
      BY <2>1, <2>2, <2>3, <2>5, <3>1 DEF Listed
  <2>7. CASE ~daemon[h]
    <3>1. h # Main /\ pc[h] \in Off
      BY <2>1, <2>2, <2>7 DEF MainThread, States
    <3>2. h \notin InList
      BY <2>1, <2>2, <3>1 DEF Listed, Starts
    <3>3. /\ InList' = InList \cup {h}
          /\ \A i, j \in DOMAIN shutdown_handles' : shutdown_handles'[i] = shutdown_handles'[j] => i = j
      <4>1. shutdown_handles' = Append(shutdown_handles, h)
        BY <2>7 DEF Start
      <4>2. PICK n \in Nat : n = Len(shutdown_handles) /\ DOMAIN shutdown_handles = 1..n
        BY <2>1, LenProperties
      <4>3. /\ DOMAIN shutdown_handles' = 1..(n + 1) /\ shutdown_handles'[n + 1] = h
            /\ \A i \in 1..n : shutdown_handles'[i] = shutdown_handles[i]
        BY <2>1, <4>1, <4>2, AppendProperties
      <4>4. \A i \in 1..(n + 1) : i \in 1..n \/ i = n + 1
        OBVIOUS
      <4>5. InList' = InList \cup {h}
        BY <4>2, <4>3, <4>4 DEF InList
      <4>6. \A i, j \in 1..(n + 1) : shutdown_handles'[i] = shutdown_handles'[j] => i = j
        BY <2>1, <3>2, <4>2, <4>3, <4>4 DEF InList, Listed
      <4>7. QED
        BY <4>3, <4>5, <4>6
    <3>4. QED
      BY <2>1, <2>2, <2>3, <2>4, <2>5, <2>7, <3>1, <3>3 DEF Listed
  <2>8. QED
    BY <2>6, <2>7
<1>5. ASSUME NEW x \in Threads PROVE Counted(x)'
  BY SMTT(40) DEF Start, HandleInv, Types, TypeOK, PC, handles, Goto, Counted, MainThread, ThreadRefs, ShutdownHolds, States, Calls
<1>6. ASSUME NEW x \in Threads PROVE States(x)'
  BY DEF Start, HandleInv, handles, Goto, States
<1>7. ASSUME NEW x \in Threads PROVE Calls(x)'
  <2>1. /\ pc' = [pc EXCEPT ![t] = "start"] /\ pc[t] = "run" /\ object[h]
        /\ handle' = [handle EXCEPT ![t] = h]
        /\ UNCHANGED <<hstate, os_thread, object, daemon, ready, shutdown>>
        /\ daemon[h] \/ hstate[h] = "NOT_STARTED"
        /\ \A u \in Threads : handle[u] = h => pc[u] \notin InStart
    BY DEF Start, Goto, handles
  <2>2. InList \subseteq InList' /\ (~daemon[h] => h \in InList')
    <3>1. CASE daemon[h]
      BY <3>1 DEF Start, InList
    <3>2. CASE ~daemon[h]
      <4>1. shutdown_handles' = Append(shutdown_handles, h) /\ shutdown_handles \in Seq(Threads)
        BY <3>2 DEF Start, HandleInv, Types, TypeOK
      <4>2. PICK n \in Nat : n = Len(shutdown_handles) /\ DOMAIN shutdown_handles = 1..n
        BY <4>1, LenProperties
      <4>3. /\ DOMAIN shutdown_handles' = 1..(n + 1) /\ shutdown_handles'[n + 1] = h
            /\ \A i \in 1..n : shutdown_handles'[i] = shutdown_handles[i]
        BY <4>1, <4>2, AppendProperties
      <4>4. QED
        BY <4>2, <4>3 DEF InList
    <3>3. QED
      BY <3>1, <3>2
  <2>3. CASE x = t
    <3>1. pc'[t] = "start" /\ handle'[t] = h
      BY <2>1, TypeFacts
    <3>2. h # Main
      BY <2>1 DEF HandleInv, Types, MainThread
    <3>3. QED
      BY <2>1, <2>2, <2>3, <3>1, <3>2 DEF Calls
  <2>4. CASE x # t
    <3>1. PICK k \in Threads : k = handle[x] /\ handle'[x] = k
      BY <2>1, <2>4, TypeFacts
    <3>2. \A y \in Threads : y # t => pc'[y] = pc[y]
      BY <2>1
    <3>3. pc[x] \in {"wait", "once"} => hstate[k] \in {"RUNNING", "DONE"}
      BY <3>1 DEF HandleInv, Calls
    <3>4. QED
      BY <2>1, <2>2, <2>4, <3>1, <3>2, <3>3, OthersCall
  <2>5. QED
    BY <2>3, <2>4
<1>8. Main \in Threads
  BY DEF HandleInv
<1>9. QED
  BY <1>1, <1>2, <1>3, <1>4, <1>5, <1>6, <1>7, <1>8 DEF HandleInv

\* A join keeps the handle's object alive.
LEMMA JoinKeeps ==
    ASSUME HandleInv, NEW t \in Threads, NEW h \in Threads, Join(t, h)
    PROVE  HandleInv'
<1>1. Types'
  BY DEF Join, HandleInv, Types, TypeOK, PC, handles, Goto
<1>2. OneEach'
  BY DEF Join, HandleInv, handles, Goto, OneEach, Starts, HasOnce
<1>3. MainThread'
  BY DEF Join, HandleInv, handles, Goto, MainThread
<1>4. Listed'
  BY ListedKept DEF Join, handles, Goto, Starts
<1>5. ASSUME NEW x \in Threads PROVE Counted(x)'
  <2>1. pc' = [pc EXCEPT ![t] = "check"] /\ pc[t] = "run" /\ UNCHANGED <<refcount, object, shutdown>>
        /\ handle' = [handle EXCEPT ![t] = h]
    BY DEF Join, Goto, handles
  <2>2. ThreadRefs(x)' = ThreadRefs(x)
    BY <2>1, TypeFacts DEF ThreadRefs
  <2>3. ShutdownHolds(x)' => ShutdownHolds(x)
    BY <2>1, TypeFacts DEF ShutdownHolds, HandleInv, MainThread
  <2>4. QED
    BY <2>1, <2>2, <2>3, CountedKept
<1>6. ASSUME NEW x \in Threads PROVE States(x)'
  BY DEF Join, HandleInv, handles, Goto, States
<1>7. ASSUME NEW x \in Threads PROVE Calls(x)'
  BY TypeFacts DEF Join, HandleInv, handles, Goto, Calls, InList
<1>8. Main \in Threads
  BY DEF HandleInv
<1>9. QED
  BY <1>1, <1>2, <1>3, <1>4, <1>5, <1>6, <1>7, <1>8 DEF HandleInv

\* _shutdown takes the main thread's once flag.
LEMMA ShutdownKeeps ==
    ASSUME HandleInv, Shutdown
    PROVE  HandleInv'
<1>1. Types'
  BY DEF Shutdown, HandleInv, Types, TypeOK, PC, Goto
<1>2. OneEach'
  BY TypeFacts DEF Shutdown, HandleInv, Goto, OneEach, Starts, HasOnce
<1>3. MainThread'
  BY DEF Shutdown, HandleInv, Goto, MainThread
<1>4. Listed'
  BY ListedKept DEF Shutdown, Goto, Starts
<1>5. ASSUME NEW x \in Threads PROVE Counted(x)'
  BY DEF Shutdown, HandleInv, Goto, Counted, ThreadRefs, ShutdownHolds
<1>6. ASSUME NEW x \in Threads PROVE States(x)'
  BY DEF Shutdown, HandleInv, Types, TypeOK, Goto, States, Calls
<1>7. ASSUME NEW x \in Threads PROVE Calls(x)'
  BY DEF Shutdown, HandleInv, Goto, Calls, InList
<1>8. Main \in Threads
  BY DEF HandleInv
<1>9. QED
  BY <1>1, <1>2, <1>3, <1>4, <1>5, <1>6, <1>7, <1>8 DEF HandleInv

\* The main thread's handle is done.
LEMMA SetDoneKeeps ==
    ASSUME HandleInv, SetDone
    PROVE  HandleInv'
<1>1. Types'
  BY DEF SetDone, HandleInv, Types, TypeOK, PC, Goto
<1>2. OneEach'
  BY TypeFacts DEF SetDone, HandleInv, Goto, OneEach, Starts, HasOnce
<1>3. MainThread'
  BY TypeFacts DEF SetDone, HandleInv, Goto, MainThread
<1>4. Listed'
  BY ListedKept DEF SetDone, Goto, Starts
<1>5. ASSUME NEW x \in Threads PROVE Counted(x)'
  BY DEF SetDone, HandleInv, Goto, Counted, ThreadRefs, ShutdownHolds
<1>6. ASSUME NEW x \in Threads PROVE States(x)'
  BY TypeFacts DEF SetDone, HandleInv, Goto, States, Calls
<1>7. ASSUME NEW x \in Threads PROVE Calls(x)'
  BY DEF SetDone, HandleInv, Goto, Calls, OneEach, HasOnce, InList
<1>8. Main \in Threads
  BY DEF HandleInv
<1>9. QED
  BY <1>1, <1>2, <1>3, <1>4, <1>5, <1>6, <1>7, <1>8 DEF HandleInv

\* _shutdown takes a handle from the list, and a reference for itself.
LEMMA ShutdownNextKeeps ==
    ASSUME HandleInv, ShutdownNext
    PROVE  HandleInv'
<1>1. Types'
  BY DEF ShutdownNext, HandleInv, Types, TypeOK, PC, Goto, IncRef
<1>2. OneEach'
  BY DEF ShutdownNext, HandleInv, Goto, OneEach, Starts, HasOnce
<1>3. MainThread'
  BY DEF ShutdownNext, HandleInv, Goto, MainThread
<1>4. Listed'
  BY ListedKept DEF ShutdownNext, Goto, Starts
<1>5. ASSUME NEW x \in Threads PROVE Counted(x)'
  BY DEF ShutdownNext, HandleInv, Types, TypeOK, Goto, IncRef, Counted, MainThread, ThreadRefs, ShutdownHolds, States
<1>6. ASSUME NEW x \in Threads PROVE States(x)'
  <2>1. PICK h \in Threads : h = Head(shutdown_handles)
    BY HeadTailProperties DEF ShutdownNext, HandleInv, Types, TypeOK
  <2>2. /\ pc[Main] = "next" /\ pc' = [pc EXCEPT ![Main] = "check"]
        /\ handle' = [handle EXCEPT ![Main] = h] /\ refcount' = [refcount EXCEPT ![h] = @ + 1]
        /\ UNCHANGED <<hstate, os_thread, once, object, ready>>
    BY <2>1 DEF ShutdownNext, Goto, IncRef
  <2>3. States(x)
    BY DEF HandleInv
  <2>4. \A y \in Threads : y # Main => pc'[y] = pc[y] /\ handle'[y] = handle[y]
    BY <2>2
  <2>5. hstate[x] = "STARTING" => \E y \in Threads : handle'[y] = x /\ pc'[y] \in {"create", "mark", "force", "forced"}
    BY <2>2, <2>3, <2>4 DEF States
  <2>6. (refcount'[x] = 0 => refcount[x] = 0) /\ (x = h => refcount'[x] > 0)
    BY <2>2, TypeFacts
  <2>7. \A l \in {"unborn", "boot", "gone"} : pc'[x] = l <=> pc[x] = l
    BY <2>2, TypeFacts
  <2>8. refcount[x] > 0 \/ refcount'[x] = refcount[x]
    <3>1. CASE x = h
      <4>1. h \in InList /\ Listed /\ h # Main
        BY <2>1, HeadTailProperties, EmptySeq DEF ShutdownNext, HandleInv, Types, TypeOK, InList, Listed
      <4>2. CASE pc[h] \in Off
        <5>1. PICK y \in Threads : Starts(y, h)
          BY <4>1, <4>2 DEF Listed
        <5>2. object[h] /\ Counted(h)
          BY <5>1 DEF HandleInv, Calls, Starts
        <5>3. QED
          BY <3>1, <5>2, TypeFacts DEF Counted, ThreadRefs
      <4>3. CASE pc[h] \notin Off
        <5>1. ThreadRefs(h) > 0 /\ Counted(h) /\ ThreadRefs(h) \in Nat
          BY <4>1, <4>3 DEF ThreadRefs, HandleInv
        <5>2. QED
          BY <3>1, <5>1, TypeFacts DEF Counted
      <4>4. QED
        BY <4>2, <4>3
    <3>2. CASE x # h
      BY <2>2, <3>2, TypeFacts
    <3>3. QED
      BY <3>1, <3>2
  <2>9. QED
    BY <2>2, <2>3, <2>5, <2>6, <2>7, <2>8 DEF States
<1>7. ASSUME NEW x \in Threads PROVE Calls(x)'
  BY TypeFacts DEF ShutdownNext, HandleInv, Types, TypeOK, PC, handles, Goto, IncRef, Calls, States, Counted, MainThread, ThreadRefs, ShutdownHolds, OneEach, HasOnce, Starts, InList
<1>8. Main \in Threads
  BY DEF HandleInv
<1>9. QED
  BY <1>1, <1>2, <1>3, <1>4, <1>5, <1>6, <1>7, <1>8 DEF HandleInv

\* It drops the reference when the thread is joined.
LEMMA ShutdownJoinedKeeps ==
    ASSUME HandleInv, ShutdownJoined
    PROVE  HandleInv'
<1>00. handle[Main] \in Threads /\ refcount[handle[Main]] > 0 /\ DecRef(handle[Main])
  BY TypeFacts DEF ShutdownJoined, HandleInv, Counted, ThreadRefs, ShutdownHolds, MainThread
<1>1. Types'
  BY <1>00, DecRefFacts DEF ShutdownJoined, HandleInv, Types, TypeOK, PC, Goto
<1>2. OneEach'
  BY <1>00, DecRefFacts DEF ShutdownJoined, HandleInv, handles, Goto, OneEach, Starts, HasOnce
<1>3. MainThread'
  BY <1>00, DecRefFacts DEF ShutdownJoined, HandleInv, Types, Goto, MainThread
<1>4. Listed'
  BY ListedKept, <1>00, DecRefFacts DEF ShutdownJoined, TypeOK, Goto, Starts
<1>5. ASSUME NEW x \in Threads PROVE Counted(x)'
  <2>1. Counted(x) /\ MainThread
    BY DEF HandleInv
  <2>2. /\ pc[Main] \in {"joined", "gives_up"} /\ UNCHANGED <<object, handle>>
        /\ \E l \in MainPC : pc' = [pc EXCEPT ![Main] = l] /\ l \in {"next", "finalize"}
    BY DEF ShutdownJoined, Goto
  <2>3. ~ShutdownHolds(x)' /\ (ShutdownHolds(x) <=> x = handle[Main])
    BY <2>1, <2>2, TypeFacts DEF ShutdownHolds, MainThread
  <2>4. ThreadRefs(x)' = ThreadRefs(x) /\ ThreadRefs(x) \in Nat
    BY <2>2, TypeFacts DEF ThreadRefs
  <2>5. CASE x # handle[Main]
    <3>1. refcount'[x] = refcount[x]
      BY <1>00, <2>5, DecRefFacts
    <3>2. QED
      BY <2>1, <2>2, <2>3, <2>4, <3>1, TypeFacts DEF Counted
  <2>6. CASE x = handle[Main]
    <3>1. refcount'[x] = refcount[x] - 1 /\ refcount[x] \in Nat
      BY <1>00, <2>6, DecRefFacts, TypeFacts
    <3>2. QED
      BY <2>1, <2>2, <2>3, <2>4, <2>6, <3>1 DEF Counted
  <2>7. QED
    BY <2>5, <2>6
<1>6. ASSUME NEW x \in Threads PROVE States(x)'
  BY TypeFacts, <1>00, DecRefFacts, SMTT(40) DEF ShutdownJoined, HandleInv, Types, TypeOK, PC, handles, Goto, States, Calls, Counted, MainThread, ThreadRefs, ShutdownHolds, OneEach, HasOnce, Starts
<1>7. ASSUME NEW x \in Threads PROVE Calls(x)'
  <2>1. \A y \in Threads : \/ pc'[y] = pc[y]
                              \/ /\ pc'[y] \notin InCall /\ pc[y] \notin {"unborn", "gone"}
                                 /\ pc[y] = "boot" => ready[y]
    BY TypeFacts DEF ShutdownJoined, Goto
  <2>2. \A y \in Threads : pc[y] \in InCall => (object'[handle[y]] <=> object[handle[y]])
    BY TypeFacts DEF ShutdownJoined
  <2>3. object' \in [Threads -> BOOLEAN]
    BY TypeFacts DEF ShutdownJoined
  <2>4. UNCHANGED <<daemon, ready, shutdown_handles, handle>> /\ (shutdown' = shutdown \/ pc[Main] \notin InCall)
    BY DEF ShutdownJoined
  <2>5. QED
    BY <1>00, <1>5, <2>1, <2>2, <2>3, <2>4, DecRefCalls
<1>8. Main \in Threads
  BY DEF HandleInv
<1>9. QED
  BY <1>1, <1>2, <1>3, <1>4, <1>5, <1>6, <1>7, <1>8 DEF HandleInv

\* The list is empty.
LEMMA ShutdownEndsKeeps ==
    ASSUME HandleInv, ShutdownEnds
    PROVE  HandleInv'
<1>1. Types'
  BY DEF ShutdownEnds, HandleInv, Types, TypeOK, PC, handles, Goto
<1>2. OneEach'
  BY DEF ShutdownEnds, HandleInv, handles, Goto, OneEach, Starts, HasOnce
<1>3. MainThread'
  BY TypeFacts DEF ShutdownEnds, HandleInv, handles, Goto, MainThread
<1>4. Listed'
  BY ListedKept DEF ShutdownEnds, handles, Goto, Starts
<1>5. ASSUME NEW x \in Threads PROVE Counted(x)'
  BY DEF ShutdownEnds, HandleInv, handles, Goto, Counted, ThreadRefs, ShutdownHolds
<1>6. ASSUME NEW x \in Threads PROVE States(x)'
  BY TypeFacts DEF ShutdownEnds, HandleInv, Types, TypeOK, handles, Goto, States, Counted, MainThread, ThreadRefs, ShutdownHolds, OneEach, HasOnce, Starts
<1>7. ASSUME NEW x \in Threads PROVE Calls(x)'
  BY DEF ShutdownEnds, HandleInv, handles, Goto, Calls, InList
<1>8. Main \in Threads
  BY DEF HandleInv
<1>9. QED
  BY <1>1, <1>2, <1>3, <1>4, <1>5, <1>6, <1>7, <1>8 DEF HandleInv

\* An exception ends _shutdown, with its reference dropped.
LEMMA ShutdownGivesUpKeeps ==
    ASSUME HandleInv, ShutdownGivesUp
    PROVE  HandleInv'
<1>00. handle[Main] \in Threads /\ refcount[handle[Main]] > 0 /\ DecRef(handle[Main])
  BY TypeFacts DEF ShutdownGivesUp, HandleInv, Counted, ThreadRefs, ShutdownHolds, MainThread
<1>1. Types'
  BY <1>00, DecRefFacts DEF ShutdownGivesUp, HandleInv, Types, TypeOK, PC, Goto
<1>2. OneEach'
  BY <1>00, DecRefFacts DEF ShutdownGivesUp, HandleInv, Goto, OneEach, Starts, HasOnce
<1>3. MainThread'
  BY TypeFacts, <1>00, DecRefFacts DEF ShutdownGivesUp, HandleInv, Goto, MainThread
<1>4. Listed'
  BY ListedKept, <1>00, DecRefFacts DEF ShutdownGivesUp, Goto, Starts
<1>5. ASSUME NEW x \in Threads PROVE Counted(x)'
  <2>1. Counted(x) /\ MainThread
    BY DEF HandleInv
  <2>2. /\ pc[Main] \in {"joined", "gives_up"} /\ UNCHANGED <<object, handle>>
        /\ \E l \in MainPC : pc' = [pc EXCEPT ![Main] = l] /\ l \in {"next", "finalize"}
    BY DEF ShutdownGivesUp, Goto
  <2>3. ~ShutdownHolds(x)' /\ (ShutdownHolds(x) <=> x = handle[Main])
    BY <2>1, <2>2, TypeFacts DEF ShutdownHolds, MainThread
  <2>4. ThreadRefs(x)' = ThreadRefs(x) /\ ThreadRefs(x) \in Nat
    BY <2>2, TypeFacts DEF ThreadRefs
  <2>5. CASE x # handle[Main]
    <3>1. refcount'[x] = refcount[x]
      BY <1>00, <2>5, DecRefFacts
    <3>2. QED
      BY <2>1, <2>2, <2>3, <2>4, <3>1, TypeFacts DEF Counted
  <2>6. CASE x = handle[Main]
    <3>1. refcount'[x] = refcount[x] - 1 /\ refcount[x] \in Nat
      BY <1>00, <2>6, DecRefFacts, TypeFacts
    <3>2. QED
      BY <2>1, <2>2, <2>3, <2>4, <2>6, <3>1 DEF Counted
  <2>7. QED
    BY <2>5, <2>6
<1>6. ASSUME NEW x \in Threads PROVE States(x)'
  BY <1>00, DecRefFacts DEF ShutdownGivesUp, HandleInv, Types, TypeOK, PC, handles, Goto, States, Calls, Counted, MainThread, ThreadRefs, ShutdownHolds, OneEach, HasOnce, Starts
<1>7. ASSUME NEW x \in Threads PROVE Calls(x)'
  <2>1. \A y \in Threads : \/ pc'[y] = pc[y]
                              \/ /\ pc'[y] \notin InCall /\ pc[y] \notin {"unborn", "gone"}
                                 /\ pc[y] = "boot" => ready[y]
    BY TypeFacts DEF ShutdownGivesUp, Goto
  <2>2. \A y \in Threads : pc[y] \in InCall => (object'[handle[y]] <=> object[handle[y]])
    BY TypeFacts DEF ShutdownGivesUp
  <2>3. object' \in [Threads -> BOOLEAN]
    BY TypeFacts DEF ShutdownGivesUp
  <2>4. UNCHANGED <<daemon, ready, shutdown_handles, handle>> /\ (shutdown' = shutdown \/ pc[Main] \notin InCall)
    BY DEF ShutdownGivesUp
  <2>5. QED
    BY <1>00, <1>5, <2>1, <2>2, <2>3, <2>4, DecRefCalls
<1>8. Main \in Threads
  BY DEF HandleInv
<1>9. QED
  BY <1>1, <1>2, <1>3, <1>4, <1>5, <1>6, <1>7, <1>8 DEF HandleInv

\* The interpreter is finalized.
LEMMA FinalizeKeeps ==
    ASSUME HandleInv, Finalize
    PROVE  HandleInv'
<1>1. Types'
  BY DEF Finalize, HandleInv, Types, TypeOK, PC, handles, Goto
<1>2. OneEach'
  BY DEF Finalize, HandleInv, handles, Goto, OneEach, Starts, HasOnce
<1>3. MainThread'
  BY DEF Finalize, HandleInv, handles, Goto, MainThread
<1>4. Listed'
  BY ListedKept DEF Finalize, handles, Goto, Starts
<1>5. ASSUME NEW x \in Threads PROVE Counted(x)'
  BY DEF Finalize, HandleInv, handles, Goto, Counted, ThreadRefs, ShutdownHolds
<1>6. ASSUME NEW x \in Threads PROVE States(x)'
  BY DEF Finalize, HandleInv, handles, Goto, States, Calls
<1>7. ASSUME NEW x \in Threads PROVE Calls(x)'
  BY DEF Finalize, HandleInv, handles, Goto, Calls, InList
<1>8. Main \in Threads
  BY DEF HandleInv
<1>9. QED
  BY <1>1, <1>2, <1>3, <1>4, <1>5, <1>6, <1>7, <1>8 DEF HandleInv

\* At first only the main thread runs, and every handle has its object's reference.
LEMMA HandleInitHolds ==
    ASSUME Parameters, Init
    PROVE  HandleInv
<1>1. Types
  BY DEF Parameters, Init, Types, TypeOK, PC
<1>2. InList = {}
  BY DEF Init, InList
<1>3. /\ \A t \in Threads : pc[t] = (IF t = Main THEN "run" ELSE "unborn") /\ once[t] = "UNLOCKED"
      /\ shutdown = "no" /\ Main \in Threads
  BY DEF Init, Parameters
<1>4. OneEach /\ Listed
  BY <1>2, <1>3 DEF OneEach, Starts, HasOnce, Listed, Init
<1>5. MainThread
  BY <1>3 DEF MainThread, Init
<1>6. ASSUME NEW h \in Threads PROVE Counted(h) /\ States(h) /\ Calls(h)
  <2>1. Counted(h)
    BY <1>3 DEF Init, Counted, ThreadRefs, ShutdownHolds
  <2>2. States(h)
    BY <1>3 DEF Init, States
  <2>3. Calls(h)
    BY <1>3 DEF Calls
  <2>4. QED
    BY <2>1, <2>2, <2>3
<1>7. QED
  BY <1>1, <1>3, <1>4, <1>5, <1>6 DEF HandleInv

\* A step of another part leaves the handles alone.
LEMMA HandleStutter ==
    ASSUME HandleInv, UNCHANGED vars
    PROVE  HandleInv'
<1>1. Types' /\ OneEach' /\ MainThread' /\ Listed'
  BY DEF HandleInv, vars, handles, Types, TypeOK, OneEach, Starts, HasOnce, MainThread, Listed, InList
<1>2. ASSUME NEW h \in Threads PROVE Counted(h)' /\ States(h)' /\ Calls(h)'
  BY DEF HandleInv, vars, handles, Counted, ThreadRefs, ShutdownHolds, States, Calls, InList
<1>3. QED
  BY <1>1, <1>2 DEF HandleInv

\* Every step keeps the invariant.
LEMMA HandleStep ==
    ASSUME HandleInv, Next
    PROVE  HandleInv'
<1>1. ASSUME NEW t \in Threads, Step(t) PROVE HandleInv'
  BY <1>1, StartingKeeps, CreateThreadKeeps, CannotCreateKeeps, MarkRunningKeeps, NotifyReadyKeeps, ForceDoneKeeps, ForcedDoneKeeps, StartFailsKeeps, BootKeeps, BootFreeKeeps, ThreadUnlistKeeps, NotifyExitingKeeps, ThreadDecRefKeeps, JoinCheckKeeps, JoinWaitKeeps, JoinOnceKeeps, JoinThreadKeeps, JoinedOnceKeeps
     DEF Step
<1>2. ASSUME NEW t \in Threads, FunctionReturns(t) \/ JoinGivesUp(t) \/ Dealloc(t) \/ Fork(t) PROVE HandleInv'
  BY <1>2, FunctionReturnsKeeps, JoinGivesUpKeeps, DeallocKeeps, ForkKeeps
<1>3. ASSUME NEW t \in Threads, NEW h \in Threads, Start(t, h) \/ Join(t, h) PROVE HandleInv'
  BY <1>3, StartKeeps, JoinKeeps
<1>4. CASE Shutdown \/ ShutdownStep
  BY <1>4, ShutdownKeeps, SetDoneKeeps, ShutdownNextKeeps, ShutdownJoinedKeeps, ShutdownEndsKeeps,
     ShutdownGivesUpKeeps, FinalizeKeeps DEF ShutdownStep
<1>5. QED
  BY <1>1, <1>2, <1>3, <1>4 DEF Next

\* What the invariant says of handles and of those who join.
LEMMA HandleInvSays ==
    ASSUME HandleInv
    PROVE  HandleLifetime /\ JoinedMeansDone
<1>1. ASSUME NEW h \in Threads
      PROVE  /\ os_thread[h] # "error" /\ (refcount[h] = 0 => os_thread[h] # "owned")
             /\ once[h] = "INITIALIZED" => hstate[h] = "DONE" /\ os_thread[h] # "owned"
  BY DEF HandleInv, States
<1>2. ASSUME NEW h \in Threads, refcount[h] = 0
      PROVE  /\ ~object[h] /\ pc[h] \in {"unborn", "gone"} /\ h \notin ToSet(shutdown_handles)
             /\ \A t \in Threads : handle[t] = h => pc[t] \notin InCall
  <2>1. Counted(h) /\ MainThread /\ Listed
    BY DEF HandleInv
  <2>2. ~object[h] /\ pc[h] \in {"unborn", "gone"} /\ ~ShutdownHolds(h)
    BY <1>2, <2>1 DEF Counted, ThreadRefs, MainThread
  <2>3. ASSUME NEW t \in Threads, handle[t] = h PROVE pc[t] \notin InCall
    <3>1. Calls(t)
      BY DEF HandleInv
    <3>2. QED
      BY <2>2, <2>3, <3>1 DEF Calls, ShutdownHolds
  <2>4. h \notin InList
    BY <2>1, <2>2, <2>3 DEF Listed, Starts
  <2>5. QED
    BY <2>2, <2>3, <2>4 DEF InList, ToSet
<1>3. TypeOK
  BY DEF HandleInv, Types
<1>4. QED
  BY <1>1, <1>2, <1>3 DEF HandleLifetime, ReapedOnce, AliveInUse, JoinedMeansDone

\* The step that ends _shutdown finds every thread it waits for on its way out.
LEMMA HandleShutdownWaits ==
    ASSUME HandleInv, [Next]_vars, shutdown = "joining", shutdown' = "done"
    PROVE  \A h \in Threads \ {Main} :
               ~daemon[h] /\ ready[h] => pc[h] \in {"notify", "decref", "gone"}
<1>1. ~UNCHANGED vars
  BY DEF vars
<1>2. ASSUME NEW t \in Threads, Step(t) PROVE FALSE
  <2>1. Step(t) => shutdown' = shutdown
    BY DEF Step, Starting, CreateThread, CannotCreate, MarkRunning, NotifyReady, ForceDone, ForcedDone,
           StartFails, Boot, BootFree, ThreadUnlist, NotifyExiting, ThreadDecRef, JoinCheck, JoinWait,
           JoinOnce, JoinThread, JoinedOnce
  <2>2. QED
    BY <1>2, <2>1
<1>3. ASSUME NEW t \in Threads,
             \/ FunctionReturns(t) \/ JoinGivesUp(t) \/ Dealloc(t) \/ Fork(t)
             \/ \E h \in Threads : Start(t, h) \/ Join(t, h)
      PROVE  FALSE
  BY <1>3 DEF FunctionReturns, JoinGivesUp, Dealloc, Fork, Start, Join
<1>4. ~Shutdown /\ ~SetDone /\ ~ShutdownNext /\ ~ShutdownJoined /\ ~ShutdownGivesUp /\ ~Finalize
  BY DEF Shutdown, SetDone, ShutdownNext, ShutdownJoined, ShutdownGivesUp, Finalize
<1>5. ShutdownEnds
  BY <1>1, <1>2, <1>3, <1>4 DEF Next, ShutdownStep
<1>6. InList = {}
  BY <1>5 DEF ShutdownEnds, InList
<1>7. ASSUME NEW h \in Threads \ {Main}, ~daemon[h], ready[h]
      PROVE  pc[h] \in {"notify", "decref", "gone"}
  BY <1>6, <1>7 DEF HandleInv, Listed, States
<1>8. QED
  BY <1>7

\* In a behaviour of all parts the handles take their own steps.
LEMMA HandlesPart == AllSpec => Init /\ [][Next]_vars
<1>1. AllInit => Init
  BY DEF AllInit
<1>2. [AllNext]_allVars => [Next]_vars
  BY DEF AllNext, allVars
<1>3. QED
  BY <1>1, <1>2, PTL DEF AllSpec

\* The invariant of the handles holds of the whole.
LEMMA HandleInvariance == AllSpec => []HandleInv
<1>1. Init => HandleInv
  BY ThreadsAssumption, HandleInitHolds DEF Parameters
<1>2. HandleInv /\ [Next]_vars => HandleInv'
  BY HandleStep, HandleStutter
<1>3. QED
  BY <1>1, <1>2, HandlesPart, PTL

\* However many threads start, join and drop handles, fork or shut down: an OS
\* thread is joined or detached once at most, a handle is not freed while it
\* owns one, and none is freed that a call, a thread or the list still uses.
THEOREM HandlesLiveLongEnough == AllSpec => []HandleLifetime
BY HandleInvariance, HandleInvSays, PTL

\* Whoever finds the once flag of a handle set finds the handle done, with no
\* OS thread left to join.
THEOREM JoinsWaitForTheEnd == AllSpec => []JoinedMeansDone
BY HandleInvariance, HandleInvSays, PTL

\* _shutdown returns only when every other thread that is not a daemon has
\* deleted its thread state.
THEOREM ShutdownWaitsForThreads == AllSpec => ShutdownWaits
<1>1. HandleInv /\ [Next]_vars =>
        [shutdown = "joining" /\ shutdown' = "done" =>
            \A h \in Threads \ {Main} :
                ~daemon[h] /\ ready[h] => pc[h] \in {"notify", "decref", "gone"}]_vars
  BY HandleShutdownWaits
<1>2. QED
  BY <1>1, HandleInvariance, HandlesPart, PTL DEF ShutdownWaits

(***************************************************************************)
(* The GIL: GIL.                                                           *)
(***************************************************************************)

\* In a behaviour of all parts the GIL's takes its own steps.
LEMMA GILPart == AllSpec => GIL!Init /\ [][GIL!Next]_(GIL!vars)
<1>1. AllInit => GIL!Init
  BY DEF AllInit
<1>2. [AllNext]_allVars => [GIL!Next]_(GIL!vars)
  BY DEF AllNext, allVars, gilVars, GIL!vars, GIL!gil, GIL!takers
<1>3. QED
  BY <1>1, <1>2, PTL DEF AllSpec

\* A request that is pending to the last holder finds it where it will still
\* look at it, or is past doing so for good.
RequestsSeen ==
    \A t \in Threads : last_holder = t /\ drop_request[t] =>
        g_pc[t] \in {"run", "dropping", "final_drop", "dropped", "switch", "gone"}

GILInv == GIL!TypeOK /\ GIL!OneHolder /\ RequestsSeen

\* At first nobody holds the GIL.
LEMMA GILInit == GIL!Init => GILInv
BY DEF GIL!Init, GILInv, GIL!TypeOK, GIL!PC, GIL!OneHolder, GIL!Holding, RequestsSeen

\* When t takes the free GIL it is the only holder, and has no request.
LEMMA AcquireKeepsGIL ==
    ASSUME GILInv, NEW t \in Threads, ~locked, GIL!Acquire(t),
           g_pc[t] \in {"take", "signaled", "timed_out"}
    PROVE  GILInv'
<1> DEFINE label == IF GIL!MustExit(t) THEN "final_drop" ELSE "run"
<1>1. GIL!Holding = {}
  BY DEF GILInv, GIL!OneHolder
<1>2. /\ g_pc' \in [Threads -> GIL!PC]
      /\ g_pc'[t] = label
      /\ \A u \in Threads \ {t} : g_pc'[u] = g_pc[u] \/ g_pc'[u] = "out"
  <2>1. CASE g_pc' = [g_pc EXCEPT ![t] = label]
    BY <2>1 DEF GILInv, GIL!TypeOK, GIL!PC
  <2>2. CASE \E u \in Threads : g_pc[u] = "switch_wait"
                                /\ g_pc' = [g_pc EXCEPT ![t] = label, ![u] = "out"]
    BY <2>2 DEF GILInv, GIL!TypeOK, GIL!PC
  <2>3. QED
    BY <2>1, <2>2 DEF GIL!Acquire, GIL!GotoSignaling, GIL!Goto
<1>3. GIL!TypeOK'
  BY <1>2 DEF GILInv, GIL!TypeOK, GIL!Acquire
<1>4. GIL!Holding' = {t}
  BY <1>1, <1>2 DEF GIL!Holding
<1>5. GIL!OneHolder'
  BY <1>4 DEF GIL!OneHolder, GIL!Acquire
<1>6. RequestsSeen'
  BY <1>2 DEF RequestsSeen, GIL!Acquire
<1>7. QED
  BY <1>3, <1>5, <1>6 DEF GILInv

\* A thread whose interval is over asks the holder of that moment, or takes a GIL it finds free.
LEMMA TimedOutKeepsGIL ==
    ASSUME GILInv, NEW t \in Threads, GIL!TimedOut(t)
    PROVE  GILInv'
<1>1. CASE ~locked /\ GIL!Acquire(t)
  BY <1>1, AcquireKeepsGIL DEF GIL!TimedOut
<1>2. CASE locked /\ GIL!WaitAgain(t) /\ UNCHANGED <<GIL!gil, abandoned, finalizing, g_forked>>
  <2>1. /\ g_pc[t] = "timed_out" /\ g_pc' = [g_pc EXCEPT ![t] = "cond"]
        /\ UNCHANGED <<locked, last_holder, abandoned, finalizing, g_forked>>
        /\ switched' \in [Threads -> BOOLEAN]
    BY <1>2 DEF GIL!TimedOut, GIL!WaitAgain, GIL!Goto, GIL!gil, GILInv, GIL!TypeOK
  <2>2. PICK u \in Threads : u \in GIL!Holding /\ last_holder = u
    BY <1>2 DEF GILInv, GIL!OneHolder, GIL!Holding
  <2>3. \/ UNCHANGED <<drop_request, drop_requested>>
        \/ /\ drop_request' = [drop_request EXCEPT ![u] = TRUE]
           /\ drop_requested' = [drop_requested EXCEPT ![t] = TRUE]
    BY <1>2, <2>2 DEF GIL!TimedOut, GIL!Acquire
  <2>4. GIL!TypeOK'
    BY <2>1, <2>3 DEF GILInv, GIL!TypeOK, GIL!PC
  <2>5. GIL!Holding' = GIL!Holding
    BY <2>1 DEF GIL!Holding, GILInv, GIL!TypeOK
  <2>6. GIL!OneHolder'
    BY <2>1, <2>5 DEF GILInv, GIL!OneHolder
  <2>7. RequestsSeen'
    BY <2>1, <2>2, <2>3 DEF GILInv, GIL!TypeOK, RequestsSeen, GIL!Holding
  <2>8. QED
    BY <2>4, <2>6, <2>7 DEF GILInv
<1>3. QED
  BY <1>1, <1>2 DEF GIL!TimedOut

\* The holder lets go before it can be asked again.
LEMMA DropImplKeepsGIL ==
    ASSUME GILInv, NEW t \in Threads, GIL!DropImpl(t)
    PROVE  GILInv'
<1> DEFINE label == IF g_pc[t] = "dropping" THEN "dropped" ELSE "gone"
<1>1. /\ g_pc' \in [Threads -> GIL!PC]
      /\ g_pc'[t] = label
      /\ \A u \in Threads \ {t} : g_pc'[u] = g_pc[u] \/ (g_pc[u] = "cond" /\ g_pc'[u] = "signaled")
  <2>1. CASE g_pc' = [g_pc EXCEPT ![t] = label]
    BY <2>1 DEF GILInv, GIL!TypeOK, GIL!PC
  <2>2. CASE \E u \in GIL!InCond : g_pc' = [g_pc EXCEPT ![t] = label, ![u] = "signaled"]
    BY <2>2 DEF GILInv, GIL!TypeOK, GIL!PC, GIL!InCond, GIL!DropImpl
  <2>3. QED
    BY <2>1, <2>2 DEF GIL!DropImpl, GIL!GotoSignaling, GIL!Goto
<1>2. GIL!Holding = {t}
  BY DEF GIL!DropImpl, GIL!Holding, GILInv, GIL!OneHolder
<1>3. GIL!Holding' = {}
  BY <1>1, <1>2 DEF GIL!Holding
<1>4. GIL!TypeOK'
  BY <1>1 DEF GIL!DropImpl, GILInv, GIL!TypeOK, GIL!takers
<1>5. GIL!OneHolder'
  BY <1>3 DEF GIL!DropImpl, GIL!OneHolder
<1>6. RequestsSeen'
  BY <1>1 DEF GIL!DropImpl, GILInv, RequestsSeen
<1>7. QED
  BY <1>4, <1>5, <1>6 DEF GILInv

\* The holder that forks is the only one in the child.
LEMMA ForkKeepsGIL ==
    ASSUME GILInv, NEW t \in Threads, GIL!Fork(t)
    PROVE  GILInv'
<1>1. GIL!Holding' = {t}
  BY DEF GIL!Fork, GIL!Holding
<1>2. GIL!TypeOK'
  BY DEF GIL!Fork, GIL!ReInit, GILInv, GIL!TypeOK, GIL!PC, GIL!takers
<1>3. GIL!OneHolder'
  BY <1>1 DEF GIL!Fork, GIL!ReInit, GIL!OneHolder
<1>4. RequestsSeen'
  BY DEF GIL!Fork, RequestsSeen
<1>5. QED
  BY <1>2, <1>3, <1>4 DEF GILInv

\* A thread that was asked to drop the GIL resets the request before it waits
\* for the switch.
LEMMA SwitchKeepsGIL ==
    ASSUME GILInv, NEW t \in Threads, GIL!Switch(t)
    PROVE  GILInv'
<1>1. /\ g_pc[t] = "switch"
      /\ UNCHANGED <<locked, last_holder, drop_requested, switched, abandoned, finalizing, g_forked>>
  BY DEF GIL!Switch, GIL!gil, GIL!takers
<1>2. \/ /\ last_holder = t /\ drop_request' = [drop_request EXCEPT ![t] = FALSE]
         /\ g_pc' = [g_pc EXCEPT ![t] = "switch_wait"]
      \/ /\ last_holder # t /\ UNCHANGED drop_request
         /\ g_pc' = [g_pc EXCEPT ![t] = "out"]
  BY DEF GIL!Switch, GIL!Goto
<1>3. GIL!TypeOK'
  BY <1>1, <1>2 DEF GILInv, GIL!TypeOK, GIL!PC
<1>4. GIL!Holding' = GIL!Holding
  BY <1>1, <1>2 DEF GILInv, GIL!TypeOK, GIL!PC, GIL!Holding
<1>5. GIL!OneHolder'
  BY <1>1, <1>4 DEF GILInv, GIL!OneHolder
<1>6. RequestsSeen'
  BY <1>1, <1>2 DEF GILInv, GIL!TypeOK, GIL!PC, RequestsSeen
<1>7. QED
  BY <1>3, <1>5, <1>6 DEF GILInv

\* Every step keeps one holder, and requests where they are seen.
LEMMA GILStep == GILInv /\ [GIL!Next]_(GIL!vars) => GILInv'
<1> SUFFICES ASSUME GILInv, [GIL!Next]_(GIL!vars) PROVE GILInv'
  OBVIOUS
<1> USE DEF GILInv, GIL!TypeOK, GIL!PC, GIL!OneHolder, GIL!Holding, RequestsSeen, GIL!Goto, GIL!gil, GIL!takers
<1>1. ASSUME NEW t \in Threads, GIL!Take(t) PROVE GILInv'
  BY <1>1 DEF GIL!Take
<1>2. ASSUME NEW t \in Threads, GIL!TakeLoop(t) PROVE GILInv'
  <2>1. CASE ~locked /\ GIL!Acquire(t)
    <3>1. g_pc[t] \in {"take", "signaled", "timed_out"}
      BY <1>2 DEF GIL!TakeLoop
    <3>2. QED
      BY <2>1, <3>1, AcquireKeepsGIL
  <2>2. CASE locked /\ GIL!WaitAgain(t)
             /\ UNCHANGED <<GIL!gil, drop_request, drop_requested, abandoned, finalizing, g_forked>>
    BY <1>2, <2>2 DEF GIL!TakeLoop, GIL!WaitAgain
  <2>3. QED
    BY <1>2, <2>1, <2>2 DEF GIL!TakeLoop
<1>3. ASSUME NEW t \in Threads, GIL!IntervalEnds(t) PROVE GILInv'
  BY <1>3 DEF GIL!IntervalEnds
<1>4. ASSUME NEW t \in Threads, GIL!TimedOut(t) PROVE GILInv'
  BY <1>4, TimedOutKeepsGIL
<1>5. ASSUME NEW t \in Threads, GIL!WaiterExits(t) PROVE GILInv'
  BY <1>5 DEF GIL!WaiterExits
<1>6. ASSUME NEW t \in Threads, GIL!ResetRequest(t) PROVE GILInv'
  BY <1>6 DEF GIL!ResetRequest
<1>7. ASSUME NEW t \in Threads, GIL!Detach(t) PROVE GILInv'
  BY <1>7 DEF GIL!Detach
<1>8. ASSUME NEW t \in Threads, GIL!DropImpl(t) PROVE GILInv'
  BY <1>8, DropImplKeepsGIL
<1>9. ASSUME NEW t \in Threads, GIL!FinalDrop(t) PROVE GILInv'
  BY <1>9 DEF GIL!FinalDrop
<1>10. ASSUME NEW t \in Threads, GIL!Dropped(t) PROVE GILInv'
  BY <1>10 DEF GIL!Dropped
<1>11. ASSUME NEW t \in Threads, GIL!Switch(t) PROVE GILInv'
  BY <1>11, SwitchKeepsGIL
<1>12. ASSUME NEW t \in Threads, GIL!Finalize(t) PROVE GILInv'
  BY <1>12 DEF GIL!Finalize
<1>13. ASSUME NEW t \in Threads, GIL!Fork(t) PROVE GILInv'
  BY <1>13, ForkKeepsGIL
<1>14. CASE UNCHANGED GIL!vars
  BY <1>14 DEF GIL!vars
<1>15. QED
  BY <1>1, <1>2, <1>3, <1>4, <1>5, <1>6, <1>7, <1>8, <1>9, <1>10, <1>11, <1>12, <1>13, <1>14
     DEF GIL!Next, GIL!Step, GIL!HandlePending

\* What holds of the GIL holds of the whole.
LEMMA GILInvariance == AllSpec => []GILInv
BY GILInit, GILStep, GILPart, PTL

\* The variables keep their types.
THEOREM GILTypes == AllSpec => []GIL!TypeOK
BY GILInvariance, PTL DEF GILInv

\* One thread at most holds the GIL: gil->locked says whether there is one
\* and gil->last_holder which, between steps of take_gil and drop_gil too.
THEOREM GILHolderConsistent == AllSpec => []HolderConsistent
<1>1. GILInv => HolderConsistent
  BY DEF GILInv, HolderConsistent, GIL!HolderConsistent
<1>2. QED
  BY <1>1, GILInvariance, PTL

\* The steps of the threads that do not take the GIL take it from nobody.
LEMMA OnlyTakersTake ==
    ASSUME GILInv, [GIL!Next]_(GIL!vars), NEW t \in Threads, t \in GIL!Holding' \ GIL!Holding
    PROVE  g_pc[t] \in {"take", "signaled", "timed_out"}
<1> USE DEF GILInv, GIL!TypeOK, GIL!PC, GIL!Holding, GIL!Goto
<1>1. g_pc[t] \notin {"run", "dropping", "final_drop"}
      /\ g_pc'[t] \in {"run", "dropping", "final_drop"}
  OBVIOUS
<1>2. CASE \E u \in Threads : GIL!TakeLoop(u) \/ GIL!TimedOut(u)
  <2>1. PICK u \in Threads : GIL!TakeLoop(u) \/ GIL!TimedOut(u)
    BY <1>2
  <2>2. g_pc[u] \in {"take", "signaled", "timed_out"}
    BY <2>1 DEF GIL!TakeLoop, GIL!TimedOut
  <2>3. CASE u # t /\ GIL!Acquire(u)
    BY <1>1, <2>3 DEF GIL!Acquire, GIL!GotoSignaling
  <2>4. CASE u # t /\ GIL!WaitAgain(u)
    BY <1>1, <2>4 DEF GIL!WaitAgain
  <2>5. QED
    BY <2>1, <2>2, <2>3, <2>4 DEF GIL!TakeLoop, GIL!TimedOut
<1>3. CASE \E u \in Threads : GIL!DropImpl(u)
  BY <1>1, <1>3 DEF GIL!DropImpl, GIL!GotoSignaling, GIL!InCond
<1>4. CASE \E u \in Threads : GIL!Fork(u)
  BY <1>1, <1>4 DEF GIL!Fork
<1>5. CASE \E u \in Threads : \/ GIL!Take(u) \/ GIL!IntervalEnds(u) \/ GIL!WaiterExits(u)
                              \/ GIL!ResetRequest(u) \/ GIL!Detach(u)
  BY <1>1, <1>5 DEF GIL!Take, GIL!IntervalEnds, GIL!WaiterExits, GIL!ResetRequest, GIL!Detach
<1>6. CASE \E u \in Threads : GIL!FinalDrop(u) \/ GIL!Dropped(u) \/ GIL!Switch(u) \/ GIL!Finalize(u)
  BY <1>1, <1>6 DEF GIL!FinalDrop, GIL!Dropped, GIL!Switch, GIL!Finalize
<1>7. CASE UNCHANGED GIL!vars
  BY <1>1, <1>7 DEF GIL!vars
<1>8. QED
  BY <1>2, <1>3, <1>4, <1>5, <1>6, <1>7 DEF GIL!Next, GIL!Step, GIL!HandlePending

\* A thread with a request pending does not take the GIL again before another
\* thread has had it: forced switching, for any number of threads.
THEOREM GILRequestSwitches == AllSpec => RequestSwitches
<1>1. ASSUME GILInv, [GIL!Next]_(GIL!vars)
      PROVE  [\A t \in Threads : t \in GIL!Holding' \ GIL!Holding /\ last_holder = t
                                   => ~drop_request[t]]_(GIL!vars)
  <2>1. SUFFICES ASSUME NEW t \in Threads, t \in GIL!Holding' \ GIL!Holding, last_holder = t
                 PROVE  ~drop_request[t]
    OBVIOUS
  <2>2. g_pc[t] \in {"take", "signaled", "timed_out"}
    BY <1>1, <2>1, OnlyTakersTake
  <2>3. QED
    BY <1>1, <2>1, <2>2 DEF GILInv, RequestsSeen
<1>2. QED
  BY <1>1, GILInvariance, GILPart, PTL DEF RequestSwitches, GIL!RequestSwitches

(***************************************************************************)
(* Biased reference counts: BiasedRefcount.                                *)
(***************************************************************************)

\* What a function on threads stands for: so many pairs of each thread.
LEMMA PairsFinite ==
    ASSUME IsFiniteSet(Threads), NEW f \in [Threads -> Nat]
    PROVE  IsFiniteSet(Refs!Pairs(f))
<1> DEFINE S == {{t} \X (1..f[t]) : t \in Threads}
           surj == [t \in Threads |-> {t} \X (1..f[t])]
<1>1. surj \in Surjection(Threads, S)
  BY DEF Surjection
<1>2. IsFiniteSet(S)
  BY <1>1, FS_Surjection DEF ExistsSurjection
<1>3. ASSUME NEW T \in S PROVE IsFiniteSet(T)
  <2>1. PICK t \in Threads : T = {t} \X (1..f[t])
    OBVIOUS
  <2>2. f[t] \in Nat /\ 1 \in Int /\ f[t] \in Int
    OBVIOUS
  <2>3. IsFiniteSet(1..f[t])
    BY <2>2, FS_Interval
  <2>4. QED
    BY <2>1, <2>3, FS_Singleton, FS_Product
<1>4. IsFiniteSet(UNION S)
  BY <1>2, <1>3, FS_UNION
<1>5. QED
  BY <1>4 DEF Refs!Pairs

\* The sum is how many there are of them.
LEMMA TotalIs == \A f : Refs!Total(f) = Cardinality(Refs!Pairs(f))
BY DEF Refs!Total, Cardinality, Refs!Cardinality

\* The sum of a function is what it has for one thread and the sum of the rest.
LEMMA TotalSplit ==
    ASSUME IsFiniteSet(Threads), NEW f \in [Threads -> Nat], NEW t \in Threads
    PROVE  /\ Refs!Total([f EXCEPT ![t] = 0]) \in Nat
           /\ Refs!Total(f) = Refs!Total([f EXCEPT ![t] = 0]) + f[t]
<1> DEFINE g == [f EXCEPT ![t] = 0]
           own == {t} \X (1..f[t])
<1>1. g \in [Threads -> Nat]
  OBVIOUS
<1>2. IsFiniteSet(Refs!Pairs(g)) /\ Cardinality(Refs!Pairs(g)) \in Nat
  BY <1>1, PairsFinite, FS_CardinalityType
<1>3. IsFiniteSet(own) /\ Cardinality(own) = f[t]
  <2>0. f[t] \in Nat /\ 1 \in Int /\ f[t] \in Int
    OBVIOUS
  <2>1. IsFiniteSet(1..f[t]) /\ Cardinality(1..f[t]) = f[t]
    BY <2>0, FS_Interval
  <2>2. Cardinality(own) = Cardinality({t}) * Cardinality(1..f[t]) /\ IsFiniteSet(own)
    BY <2>1, FS_Singleton, FS_Product
  <2>3. Cardinality({t}) = 1
    BY FS_Singleton
  <2>4. QED
    BY <2>0, <2>1, <2>2, <2>3
<1>4. Refs!Pairs(f) = Refs!Pairs(g) \cup own
  <2>1. ASSUME NEW p PROVE p \in Refs!Pairs(f) <=> \E u \in Threads : p \in {u} \X (1..f[u])
    BY DEF Refs!Pairs
  <2>2. ASSUME NEW p PROVE p \in Refs!Pairs(g) <=> \E u \in Threads : p \in {u} \X (1..g[u])
    BY DEF Refs!Pairs
  <2>3. 1..g[t] = {} /\ \A u \in Threads \ {t} : g[u] = f[u]
    OBVIOUS
  <2>4. QED
    BY <2>1, <2>2, <2>3
<1>5. Refs!Pairs(g) \cap own = {}
  <2>1. ASSUME NEW p \in Refs!Pairs(g) PROVE p \notin own
    <3>1. PICK u \in Threads : p \in {u} \X (1..g[u])
      BY DEF Refs!Pairs
    <3>2. CASE u = t
      BY <3>1, <3>2
    <3>3. CASE u # t
      BY <3>1, <3>3
    <3>4. QED
      BY <3>2, <3>3
  <2>2. QED
    BY <2>1
<1>6. Cardinality(Refs!Pairs(f)) = Cardinality(Refs!Pairs(g)) + Cardinality(own) - Cardinality(Refs!Pairs(g) \cap own)
  BY <1>2, <1>3, <1>4, FS_Union
<1>7. Cardinality(Refs!Pairs(g) \cap own) = 0
  BY <1>5, FS_EmptySet
<1>8. QED
  BY <1>1, <1>2, <1>3, <1>6, <1>7, TotalIs

\* What one thread has changes the sum by so much, and is no more than it.
LEMMA TotalChange ==
    ASSUME IsFiniteSet(Threads), NEW f \in [Threads -> Nat], NEW g \in [Threads -> Nat],
           NEW t \in Threads, \A u \in Threads \ {t} : g[u] = f[u]
    PROVE  /\ Refs!Total(f) \in Nat /\ Refs!Total(g) \in Nat
           /\ f[t] <= Refs!Total(f)
           /\ Refs!Total(g) = Refs!Total(f) - f[t] + g[t]
<1>1. [f EXCEPT ![t] = 0] = [g EXCEPT ![t] = 0]
  OBVIOUS
<1>2. /\ Refs!Total([f EXCEPT ![t] = 0]) \in Nat
      /\ Refs!Total(f) = Refs!Total([f EXCEPT ![t] = 0]) + f[t]
      /\ Refs!Total(g) = Refs!Total([g EXCEPT ![t] = 0]) + g[t]
  BY TotalSplit
<1>3. f[t] \in Nat /\ g[t] \in Nat
  OBVIOUS
<1>4. QED
  BY <1>1, <1>2, <1>3

\* The sum of nothing.
LEMMA TotalZero ==
    ASSUME NEW f \in [Threads -> Nat], \A t \in Threads : f[t] = 0
    PROVE  Refs!Total(f) = 0
<1>1. ASSUME NEW p PROVE p \notin Refs!Pairs(f)
  BY DEF Refs!Pairs
<1>2. QED
  BY <1>1, FS_EmptySet, TotalIs


Labels == Refs!Stoppable \cup {"merge_zero", "disown", "mark", "merge", "queue"}

\* The references of threads, in queues and of calls, and what a thread that
\* merges the counts has of them in its hands.
Held == Refs!Total(refs)
Queued == Refs!Total(objects_to_merge) + Refs!Total(local_objects_to_merge)
Keepers == {t \in Threads : r_pc[t] \in Refs!Keeping}
Kept == Cardinality(Keepers)
InHand == Refs!Total(local)

Over == freed \/ \E t \in Threads : r_pc[t] = "dealloc"

RefTypes == Refs!TypeOK /\ r_pc \in [Threads -> Labels] /\ Held <= MaxRefs

RefSum == ob_ref_local + ob_ref_shared.count + InHand = Held + Queued + Kept

\* One reference at most is on its way to be merged.
RefOne == Queued + Kept <= 1

\* What ob_tid and the flags say of the counts.
RefOwner ==
    /\ ob_tid \in {t1, NoThread}
    /\ ob_tid = NoThread => ob_ref_local = 0
    /\ ob_tid = t1 /\ ob_ref_local = 0 => r_pc[t1] \in {"merge_zero", "disown"} \/ Over
    /\ ob_ref_shared.flags = "merged" => ob_tid = NoThread /\ \A t \in Threads : local[t] = 0
    /\ ob_ref_shared.flags \in {"none", "weakref"} => Queued + Kept = 0 /\ ob_ref_shared.count >= 0

\* What a thread does, and who it is.
RefPlace(t) ==
    /\ r_pc[t] \in {"merge_zero", "disown"} => t = t1 /\ ob_tid = t1 /\ ob_ref_local = 0
    /\ r_pc[t] = "mark" => t = t1 /\ ob_tid = NoThread /\ ob_ref_shared.flags # "merged"
    /\ objects_to_merge[t] > 0 \/ local_objects_to_merge[t] > 0 => t = t1
    /\ target[t] = IF r_pc[t] = "bucket" THEN t1 ELSE NoThread
    /\ r_pc[t] = "merge" => ob_tid = NoThread /\ (t = t1 \/ (r_pc[t1] = "gone" /\ mutex = t))
    /\ local[t] > 0 => r_pc[t] = "merge"
    /\ mutex = t => r_pc[t] = "merge" /\ r_pc[t1] = "gone"
    /\ in_table[t] <=> r_pc[t] # "gone"
    /\ r_pc[t] = "drop" => ob_ref_shared.flags = "merged"

\* What is so when the object is deallocated.
RefOver ==
    Over => /\ Held + Queued + Kept = 0
            /\ freed => ~weak /\ \A t \in Threads : r_pc[t] # "dealloc"
            /\ \A t, u \in Threads : r_pc[t] = "dealloc" /\ r_pc[u] = "dealloc" => t = u
            /\ \A t \in Threads : r_pc[t] \notin {"merge_zero", "disown", "mark"}
            /\ \/ ob_ref_shared = Refs!REF_MERGED
               \/ ob_ref_shared = Refs!REF_SHARED_INIT /\ ob_tid = t1 /\ (freed \/ r_pc[t1] = "dealloc")

RefInv ==
    /\ Refs!Parameters /\ RefTypes /\ RefSum /\ RefOne /\ RefOwner /\ RefOver /\ Refs!UnownedIsMerged
    /\ \A t \in Threads : RefPlace(t)

USE DEF Refs!Keeping, Refs!Stoppable, Labels

\* The types, in the parts that the proofs use.
LEMMA RefFacts ==
    ASSUME RefInv
    PROVE  /\ IsFiniteSet(Threads) /\ t1 \in Threads /\ NoThread \notin Threads
           /\ ob_tid \in {t1, NoThread} /\ ob_ref_local \in Nat
           /\ ob_ref_shared \in [count : Int, flags : {"none", "weakref", "queued", "merged"}]
           /\ ob_ref_shared.count \in Int
           /\ freed \in BOOLEAN /\ weak \in BOOLEAN
           /\ refs \in [Threads -> Nat] /\ Held <= MaxRefs /\ MaxRefs \in Nat
           /\ objects_to_merge \in [Threads -> Nat]
           /\ local_objects_to_merge \in [Threads -> Nat]
           /\ in_table \in [Threads -> BOOLEAN] /\ breaker \in [Threads -> BOOLEAN]
           /\ mutex \in Threads \cup {NoThread}
           /\ target \in [Threads -> Threads \cup {NoThread}]
           /\ local \in [Threads -> Nat] /\ leaving \in [Threads -> BOOLEAN]
           /\ r_pc \in [Threads -> Labels]
<1>1. IsFiniteSet(Threads)
  BY DEF RefInv, Refs!Parameters, IsFiniteSet, Refs!IsFiniteSet
<1>2. QED
  BY <1>1 DEF RefInv, Refs!Parameters, RefTypes, RefOwner, Refs!TypeOK

\* The calls that have a reference can be counted.
LEMMA KeepersFinite ==
    ASSUME IsFiniteSet(Threads)
    PROVE  IsFiniteSet(Keepers) /\ Kept \in Nat
<1>1. Keepers \in SUBSET Threads
  BY DEF Keepers
<1>2. QED
  BY <1>1, FS_Subset, FS_CardinalityType DEF Kept

\* The sums are numbers, and a thread has no more of them than all.
LEMMA RefNumbers ==
    ASSUME RefInv
    PROVE  /\ Held \in Nat /\ Queued \in Nat /\ Kept \in Nat /\ InHand \in Nat
           /\ \A t \in Threads : /\ refs[t] <= Held /\ local[t] <= InHand
                                 /\ objects_to_merge[t] + local_objects_to_merge[t] <= Queued
           /\ \A t \in Threads : r_pc[t] \in Refs!Keeping => Kept >= 1
           /\ \A t, u \in Threads : r_pc[t] \in Refs!Keeping /\ r_pc[u] \in Refs!Keeping /\ t # u => Kept >= 2
<1>1. IsFiniteSet(Threads) /\ t1 \in Threads
  BY RefFacts
<1>2. ASSUME NEW f \in [Threads -> Nat], NEW t \in Threads
      PROVE  Refs!Total(f) \in Nat /\ f[t] <= Refs!Total(f)
  BY <1>1, TotalChange
<1>3. Held \in Nat /\ Queued \in Nat /\ InHand \in Nat
  BY <1>1, <1>2, RefFacts DEF Held, Queued, InHand
<1>4. ASSUME NEW t \in Threads
      PROVE  /\ refs[t] <= Held /\ local[t] <= InHand
             /\ objects_to_merge[t] + local_objects_to_merge[t] <= Queued
  <2>1. /\ refs[t] <= Refs!Total(refs) /\ local[t] <= Refs!Total(local)
        /\ objects_to_merge[t] <= Refs!Total(objects_to_merge)
        /\ local_objects_to_merge[t] <= Refs!Total(local_objects_to_merge)
        /\ Refs!Total(objects_to_merge) \in Nat /\ Refs!Total(local_objects_to_merge) \in Nat
        /\ objects_to_merge[t] \in Nat /\ local_objects_to_merge[t] \in Nat
    BY <1>2, RefFacts
  <2>2. QED
    BY <2>1 DEF Held, Queued, InHand
<1>5. ASSUME NEW t \in Threads, NEW u \in Threads, r_pc[t] \in Refs!Keeping, r_pc[u] \in Refs!Keeping
      PROVE  Kept >= (IF t = u THEN 1 ELSE 2)
  <2>1. {t, u} \in SUBSET Keepers /\ IsFiniteSet(Keepers)
    BY <1>1, <1>5, KeepersFinite DEF Keepers
  <2>2. Cardinality({t, u}) <= Kept
    BY <2>1, FS_Subset DEF Kept
  <2>3. Cardinality({t}) = 1 /\ IsFiniteSet({t})
    BY FS_Singleton
  <2>4. Cardinality({t} \cup {u}) = IF u \in {t} THEN 1 ELSE 2
    BY <2>3, FS_AddElement
  <2>5. {t} \cup {u} = {t, u}
    OBVIOUS
  <2>6. QED
    BY <1>1, <2>2, <2>4, <2>5, KeepersFinite
<1>6. Kept \in Nat
  BY <1>1, KeepersFinite
<1>7. ASSUME NEW t \in Threads, r_pc[t] \in Refs!Keeping PROVE Kept >= 1
  BY <1>5, <1>7
<1>8. ASSUME NEW t \in Threads, NEW u \in Threads, r_pc[t] \in Refs!Keeping, r_pc[u] \in Refs!Keeping, t # u PROVE Kept >= 2
  BY <1>5, <1>8
<1>9. QED
  BY <1>3, <1>4, <1>6, <1>7, <1>8

\* A thread that goes somewhere takes a reference over or gives it away.
LEMMA Moved ==
    ASSUME RefInv, NEW t \in Threads, NEW label, Refs!Goto(t, label)
    PROVE  /\ r_pc'[t] = label /\ \A u \in Threads : u # t => r_pc'[u] = r_pc[u]
           /\ label \in Labels => r_pc' \in [Threads -> Labels]
           /\ Kept' = Kept + (IF label \in Refs!Keeping THEN 1 ELSE 0)
                           - (IF r_pc[t] \in Refs!Keeping THEN 1 ELSE 0)
<1>1. /\ r_pc'[t] = label /\ \A u \in Threads : u # t => r_pc'[u] = r_pc[u]
      /\ label \in Labels => r_pc' \in [Threads -> Labels]
  BY RefFacts DEF Refs!Goto
<1>2. IsFiniteSet(Keepers) /\ Kept \in Nat
  BY RefFacts, KeepersFinite
<1>3. CASE label \in Refs!Keeping
  <2>1. Keepers' = Keepers \cup {t}
    BY <1>1, <1>3 DEF Keepers
  <2>2. Kept' = IF t \in Keepers THEN Kept ELSE Kept + 1
    BY <1>2, <2>1, FS_AddElement DEF Kept
  <2>3. QED
    BY <1>1, <1>2, <1>3, <2>2 DEF Keepers
<1>4. CASE label \notin Refs!Keeping
  <2>1. Keepers' = Keepers \ {t}
    BY <1>1, <1>4 DEF Keepers
  <2>2. Kept' = IF t \in Keepers THEN Kept - 1 ELSE Kept
    BY <1>2, <2>1, FS_RemoveElement DEF Kept
  <2>3. QED
    BY <1>1, <1>2, <1>4, <2>2 DEF Keepers
<1>5. QED
  BY <1>1, <1>3, <1>4

\* Where a call returns to.
LEMMA BackLabels ==
    ASSUME NEW t, NEW n
    PROVE  Refs!Back(t, n) \in {"pop", "check", "run"}
BY DEF Refs!Back

\* As long as somebody refers to the object it is not deallocated.
LEMMA NotOver ==
    ASSUME RefInv, NEW t \in Threads,
           \/ refs[t] > 0 \/ r_pc[t] \in Refs!Keeping
           \/ objects_to_merge[t] > 0 \/ local_objects_to_merge[t] > 0
           \/ r_pc[t] \in {"merge_zero", "disown", "mark"}
    PROVE  ~Over
<1>1. /\ refs[t] \in Nat /\ objects_to_merge[t] \in Nat /\ local_objects_to_merge[t] \in Nat
      /\ Held \in Nat /\ Queued \in Nat /\ Kept \in Nat
      /\ refs[t] <= Held /\ objects_to_merge[t] + local_objects_to_merge[t] <= Queued
      /\ r_pc[t] \in Refs!Keeping => Kept >= 1
  BY RefFacts, RefNumbers
<1>2. RefOver
  BY DEF RefInv
<1>3. QED
  BY <1>1, <1>2 DEF RefOver

\* Only a thread that merges the counts has any of them in its hands.
LEMMA NothingInHand ==
    ASSUME RefInv, \A t \in Threads : r_pc[t] # "merge"
    PROVE  InHand = 0 /\ \A t \in Threads : local[t] = 0
<1>1. \A t \in Threads : local[t] = 0
  BY RefFacts DEF RefInv, RefPlace
<1>2. QED
  BY <1>1, RefFacts, TotalZero DEF InHand

\* Sums of what a step leaves alone.
LEMMA SumsKept ==
    /\ UNCHANGED refs => Held' = Held
    /\ UNCHANGED <<objects_to_merge, local_objects_to_merge>> => Queued' = Queued
    /\ UNCHANGED r_pc => Kept' = Kept
    /\ UNCHANGED local => InHand' = InHand
BY DEF Held, Queued, Kept, Keepers, InHand

\* The references of one thread change.
LEMMA HeldChanged ==
    ASSUME RefInv, NEW t \in Threads, NEW n \in Int, refs[t] + n >= 0, refs' = Refs!Add(refs, t, n)
    PROVE  /\ Held' = Held + n /\ refs' \in [Threads -> Nat]
           /\ Held + n <= MaxRefs => refs' \in [Threads -> 0..MaxRefs]
<1>1. refs \in [Threads -> Nat] /\ IsFiniteSet(Threads) /\ Held <= MaxRefs /\ MaxRefs \in Nat
  BY RefFacts
<1>2. /\ refs' \in [Threads -> Nat] /\ refs'[t] = refs[t] + n
      /\ \A u \in Threads \ {t} : refs'[u] = refs[u]
  BY <1>1 DEF Refs!Add
<1>3. Refs!Total(refs') = Refs!Total(refs) - refs[t] + refs'[t] /\ Refs!Total(refs) \in Nat
  BY <1>1, <1>2, TotalChange
<1>4. Held' = Held + n
  BY <1>1, <1>2, <1>3 DEF Held
<1>5. ASSUME NEW u \in Threads PROVE refs'[u] \in Nat /\ refs'[u] <= Held'
  BY <1>1, <1>2, TotalChange DEF Held
<1>6. QED
  BY <1>1, <1>2, <1>4, <1>5

\* A step that only moves a thread, between places without references.
LEMMA QuietMove ==
    ASSUME RefInv, NEW t \in Threads, NEW label \in {"run", "check", "pop", "take", "disown", "gone", "no_memory"},
           Refs!Goto(t, label), UNCHANGED <<refs, objects_to_merge, local_objects_to_merge, local>>,
           label = "no_memory" <=> r_pc[t] \in Refs!Keeping
    PROVE  /\ Held' = Held /\ Queued' = Queued /\ Kept' = Kept /\ InHand' = InHand
           /\ r_pc' \in [Threads -> Labels] /\ r_pc'[t] = label
           /\ \A u \in Threads : u # t => r_pc'[u] = r_pc[u]
BY SumsKept, Moved, RefNumbers

\* A thread takes references, or gives them up, and one of the two counts shows it:
\* the sum is exact again.
LEMMA CountedKeepsRef ==
    ASSUME RefInv, NEW t \in Threads, Refs!Counted(t), r_pc[t] = "run", ~Over
    PROVE  RefInv'
<1>1. /\ Held < MaxRefs /\ refs' = Refs!Add(refs, t, 1)
      /\ UNCHANGED <<ob_tid, freed, weak, Refs!queues, target, local, leaving, r_pc>>
  BY DEF Refs!Counted, Held
<1>2. refs[t] + 1 >= 0 /\ Held + 1 <= MaxRefs
  BY <1>1, RefFacts, RefNumbers
<1>3. /\ Held' = Held + 1 /\ refs' \in [Threads -> 0..MaxRefs]
      /\ Queued' = Queued /\ Kept' = Kept /\ InHand' = InHand
  BY <1>1, <1>2, HeldChanged, SumsKept DEF Refs!queues
<1>4. /\ \/ ob_tid = t /\ ob_ref_local' = ob_ref_local + 1 /\ UNCHANGED ob_ref_shared
         \/ /\ ob_tid # t /\ UNCHANGED ob_ref_local
            /\ ob_ref_shared'.count = ob_ref_shared.count + 1
            /\ ob_ref_shared'.flags = ob_ref_shared.flags
      /\ ob_ref_shared' \in [count : Int, flags : {"none", "weakref", "queued", "merged"}]
      /\ ob_ref_local' \in Nat
  BY RefFacts DEF Refs!Counted
<1>5. RefTypes'
  BY <1>1, <1>2, <1>3, <1>4, RefFacts DEF RefInv, RefTypes, Refs!TypeOK, Refs!queues
<1>6. RefSum' /\ RefOne'
  <2>1. ob_ref_local' + ob_ref_shared'.count = ob_ref_local + ob_ref_shared.count + 1
    BY <1>4, RefFacts
  <2>2. RefSum /\ RefOne /\ ob_ref_shared'.count \in Int /\ ob_ref_local' \in Int
    BY <1>4 DEF RefInv
  <2>3. /\ Held \in Nat /\ Queued \in Nat /\ Kept \in Nat /\ InHand \in Nat
        /\ ob_ref_local \in Int /\ ob_ref_shared.count \in Int
    BY RefFacts, RefNumbers
  <2>4. QED
    BY <1>3, <2>1, <2>2, <2>3 DEF RefSum, RefOne
<1>7. ~Over'
  BY <1>1 DEF Over
<1>8. RefOwner' /\ Refs!UnownedIsMerged'
  BY <1>1, <1>3, <1>4, RefFacts, RefNumbers DEF RefInv, RefOwner, Refs!UnownedIsMerged, Over
<1>9. ASSUME NEW u \in Threads PROVE RefPlace(u)'
  BY <1>1, <1>4, RefFacts DEF RefInv, RefPlace, RefOwner, Refs!queues
<1>10. QED
  BY <1>5, <1>6, <1>7, <1>8, <1>9 DEF RefInv, RefOver

\* _Py_INCREF and _Py_TryIncref, in the count that the thread may use.
LEMMA IncRefKeepsRef ==
    ASSUME RefInv, NEW t \in Threads, Refs!IncRef(t) \/ Refs!TryIncRef(t)
    PROVE  RefInv'
<1>1. r_pc[t] = "run" /\ Refs!Counted(t)
  BY DEF Refs!IncRef, Refs!TryIncRef
<1>2. CASE Refs!IncRef(t)
  BY <1>1, <1>2, NotOver, CountedKeepsRef DEF Refs!IncRef
<1>3. CASE Refs!TryIncRef(t)
  <2>1. ASSUME Over PROVE FALSE
    <3>1. ~freed /\ weak /\ (ob_tid = t \/ ob_ref_shared \notin {Refs!REF_SHARED_INIT, Refs!REF_MERGED})
      BY <1>3, <2>1 DEF Refs!TryIncRef, RefInv, RefOver
    <3>2. CASE ob_ref_shared = Refs!REF_MERGED
      BY <2>1, <3>1, <3>2, RefFacts DEF RefInv, RefOwner, Refs!REF_MERGED, Refs!Shared
    <3>3. CASE ob_ref_shared # Refs!REF_MERGED
      BY <1>1, <2>1, <3>1, <3>3, RefFacts DEF RefInv, RefOver
    <3>4. QED
      BY <3>2, <3>3
  <2>2. QED
    BY <1>1, <2>1, CountedKeepsRef
<1>4. QED
  BY <1>2, <1>3

\* A reference changes hands, and no count changes.
LEMMA GiveKeepsRef ==
    ASSUME RefInv, NEW t \in Threads, NEW u \in Threads, Refs!Give(t, u)
    PROVE  RefInv'
<1> DEFINE between == Refs!Add(refs, t, -1)
<1>1. /\ refs[t] > 0 /\ t # u /\ r_pc[t] = "run"
      /\ refs' = Refs!Add(between, u, 1)
      /\ UNCHANGED <<ob_tid, ob_ref_local, ob_ref_shared, freed, weak, objects_to_merge, local_objects_to_merge,
                     in_table, breaker, mutex, target, local, leaving, r_pc>>
  BY DEF Refs!Give, Refs!object, Refs!queues
<1>2. /\ refs \in [Threads -> Nat] /\ IsFiniteSet(Threads) /\ Held <= MaxRefs /\ MaxRefs \in Nat
  BY RefFacts
<1>3. /\ between \in [Threads -> Nat] /\ between[t] = refs[t] - 1
      /\ \A v \in Threads \ {t} : between[v] = refs[v]
  BY <1>1, <1>2 DEF Refs!Add
<1>4. /\ refs' \in [Threads -> Nat] /\ refs'[u] = between[u] + 1
      /\ \A v \in Threads \ {u} : refs'[v] = between[v]
  BY <1>1, <1>3 DEF Refs!Add
<1>5. Refs!Total(between) = Refs!Total(refs) - refs[t] + between[t] /\ Refs!Total(refs) \in Nat /\ Refs!Total(between) \in Nat
  BY <1>2, <1>3, TotalChange
<1>6. Refs!Total(refs') = Refs!Total(between) - between[u] + refs'[u]
  BY <1>2, <1>3, <1>4, TotalChange
<1>7. Held' = Held /\ Queued' = Queued /\ Kept' = Kept /\ InHand' = InHand
  BY <1>1, <1>2, <1>3, <1>4, <1>5, <1>6, SumsKept DEF Held
<1>8. ASSUME NEW v \in Threads PROVE refs'[v] \in Nat /\ refs'[v] <= Held'
  BY <1>2, <1>4, TotalChange DEF Held
<1>9. refs' \in [Threads -> 0..MaxRefs]
  <2>1. \A v \in Threads : refs'[v] \in 0..MaxRefs
    BY <1>2, <1>7, <1>8, RefNumbers
  <2>2. QED
    BY <1>4, <2>1
<1>10. RefTypes'
  BY <1>1, <1>7, <1>9 DEF RefInv, RefTypes, Refs!TypeOK
<1>11. ~Over /\ ~Over'
  BY <1>1, NotOver DEF Over
<1>12. RefSum' /\ RefOne' /\ RefOwner' /\ Refs!UnownedIsMerged'
  BY <1>1, <1>7, <1>11 DEF RefInv, RefSum, RefOne, RefOwner, Refs!UnownedIsMerged
<1>13. ASSUME NEW v \in Threads PROVE RefPlace(v)'
  BY <1>1 DEF RefInv, RefPlace
<1>14. QED
  BY <1>10, <1>11, <1>12, <1>13 DEF RefInv, RefOver

\* The flag that allows weak references leaves the counts alone.
LEMMA SetMaybeWeakrefKeepsRef ==
    ASSUME RefInv, NEW t \in Threads, Refs!SetMaybeWeakref(t)
    PROVE  RefInv'
<1>1. /\ refs[t] > 0 /\ r_pc[t] = "run" /\ weak' = TRUE
      /\ UNCHANGED <<ob_tid, ob_ref_local, freed, refs, objects_to_merge, local_objects_to_merge,
                     in_table, breaker, mutex, target, local, leaving, r_pc>>
  BY DEF Refs!SetMaybeWeakref, Refs!queues
<1>2. /\ ob_ref_shared' \in [count : Int, flags : {"none", "weakref", "queued", "merged"}]
      /\ ob_ref_shared'.count = ob_ref_shared.count
      /\ \/ ob_ref_shared'.flags = ob_ref_shared.flags
         \/ ob_ref_shared.flags = "none" /\ ob_ref_shared'.flags = "weakref"
  BY RefFacts DEF Refs!SetMaybeWeakref
<1>3. Held' = Held /\ Queued' = Queued /\ Kept' = Kept /\ InHand' = InHand
  BY <1>1, SumsKept
<1>4. ~Over /\ ~Over'
  BY <1>1, NotOver DEF Over
<1>5. RefTypes'
  BY <1>1, <1>2, <1>3 DEF RefInv, RefTypes, Refs!TypeOK
<1>6. RefSum' /\ RefOne'
  BY <1>1, <1>2, <1>3 DEF RefInv, RefSum, RefOne
<1>7. RefOwner' /\ Refs!UnownedIsMerged'
  BY <1>1, <1>2, <1>3, <1>4 DEF RefInv, RefOwner, Refs!UnownedIsMerged
<1>8. ASSUME NEW u \in Threads PROVE RefPlace(u)'
  BY <1>1, <1>2 DEF RefInv, RefPlace
<1>9. QED
  BY <1>4, <1>5, <1>6, <1>7, <1>8 DEF RefInv, RefOver

\* A decrement of the shared count, which the reference is taken from that the
\* thread had, as a thread or in a call.
LEMMA DecRefSharedKeepsRef ==
    ASSUME RefInv, NEW t \in Threads, Refs!DecRefShared(t),
           UNCHANGED <<ob_tid, ob_ref_local, freed, weak, Refs!queues, target, local, leaving>>,
           \/ r_pc[t] = "run" /\ ob_tid # t /\ refs[t] > 0 /\ refs' = Refs!Add(refs, t, -1)
           \/ r_pc[t] \in {"queue", "drop"} /\ ob_tid = NoThread /\ UNCHANGED refs
    PROVE  RefInv'
<1>1. UNCHANGED <<ob_tid, ob_ref_local, freed, weak, objects_to_merge, local_objects_to_merge,
                  in_table, breaker, mutex, target, local, leaving>>
  BY DEF Refs!queues
<1>2. /\ Held' = Held - (IF r_pc[t] = "run" THEN 1 ELSE 0) /\ refs' \in [Threads -> 0..MaxRefs]
      /\ Held' <= MaxRefs
  <2>1. CASE r_pc[t] = "run"
    <3>1. refs[t] - 1 >= 0 /\ Held - 1 <= MaxRefs /\ -1 \in Int /\ Held + (-1) = Held - 1
      BY <2>1, RefFacts, RefNumbers
    <3>2. QED
      BY <2>1, <3>1, HeldChanged
  <2>2. CASE r_pc[t] # "run"
    BY <2>2, SumsKept, RefNumbers, RefFacts DEF RefInv, RefTypes, Refs!TypeOK
  <2>3. QED
    BY <2>1, <2>2
<1>3. Queued' = Queued /\ InHand' = InHand
  BY <1>1, SumsKept
<1>4. /\ Held \in Nat /\ Queued \in Nat /\ Kept \in Nat /\ InHand \in Nat
      /\ ob_ref_local \in Int /\ ob_ref_shared.count \in Int
      /\ r_pc[t] \in Refs!Keeping => Kept >= 1
  BY RefFacts, RefNumbers
<1>5. ~Over
  BY NotOver
<1>6. RefSum /\ RefOne /\ RefOwner /\ RefTypes /\ Refs!UnownedIsMerged /\ ob_ref_shared = Refs!Shared(ob_ref_shared.count, ob_ref_shared.flags)
  BY RefFacts DEF RefInv, Refs!Shared
<1>7. /\ r_pc[t] \in {"run", "queue", "drop"} /\ mutex # t /\ target[t] = NoThread
      /\ local[t] = 0 /\ in_table[t] /\ RefPlace(t)
  BY RefFacts DEF RefInv, RefPlace
<1>8. CASE ob_ref_shared \in {Refs!REF_SHARED_INIT, Refs!REF_MAYBE_WEAKREF}
  <2>1. Refs!Goto(t, "queue") /\ ob_ref_shared' = Refs!Shared(0, "queued")
    BY <1>8 DEF Refs!DecRefShared
  <2>2. /\ ob_ref_shared.count = 0 /\ ob_ref_shared.flags \in {"none", "weakref"}
        /\ ob_ref_shared'.count = 0 /\ ob_ref_shared'.flags = "queued"
        /\ ob_ref_shared' \in [count : Int, flags : {"none", "weakref", "queued", "merged"}]
    BY <1>8, <2>1 DEF Refs!REF_SHARED_INIT, Refs!REF_MAYBE_WEAKREF, Refs!Shared
  <2>3. Queued + Kept = 0
    BY <1>6, <2>2 DEF RefOwner
  <2>4. r_pc[t] = "run" /\ Kept' = Kept + 1
    <3>1. Kept = 0
      BY <1>4, <2>3
    <3>2. r_pc[t] \notin Refs!Keeping
      BY <3>1, RefNumbers
    <3>3. QED
      BY <1>7, <2>1, <3>1, <3>2, Moved
  <2>5. /\ r_pc' \in [Threads -> Labels] /\ r_pc'[t] = "queue"
        /\ \A u \in Threads : u # t => r_pc'[u] = r_pc[u]
    BY <2>1, Moved
  <2>6. RefTypes'
    BY <1>1, <1>2, <1>6, <2>2, <2>5 DEF RefTypes, Refs!TypeOK
  <2>7. RefSum' /\ RefOne'
    BY <1>1, <1>2, <1>3, <1>4, <1>6, <2>2, <2>3, <2>4 DEF RefSum, RefOne
  <2>8. ~Over'
    BY <1>1, <1>5, <2>5 DEF Over
  <2>9. RefOwner' /\ Refs!UnownedIsMerged'
    BY <1>1, <1>5, <1>6, <1>7, <2>2, <2>4, <2>5, RefFacts DEF RefOwner, Refs!UnownedIsMerged
  <2>10. ASSUME NEW u \in Threads PROVE RefPlace(u)'
    BY <1>1, <1>7, <2>2, <2>4, <2>5, RefFacts DEF RefInv, RefPlace
  <2>11. QED
    BY <2>6, <2>7, <2>8, <2>9, <2>10 DEF RefInv, RefOver
<1>9. CASE ob_ref_shared \notin {Refs!REF_SHARED_INIT, Refs!REF_MAYBE_WEAKREF}
  <2> DEFINE last == ob_ref_shared' = Refs!REF_MERGED
             label == IF last THEN "dealloc" ELSE Refs!Back(t, local_objects_to_merge[t])
  <2>1. Refs!Goto(t, label) /\ ob_ref_shared' = [ob_ref_shared EXCEPT !.count = @ - 1]
    BY <1>9 DEF Refs!DecRefShared, Refs!DeallocOrBack
  <2>2. /\ ob_ref_shared'.count = ob_ref_shared.count - 1 /\ ob_ref_shared'.flags = ob_ref_shared.flags
        /\ ob_ref_shared' \in [count : Int, flags : {"none", "weakref", "queued", "merged"}]
    BY <2>1, RefFacts
  <2>3. ob_ref_shared.flags \in {"none", "weakref"} => ob_ref_shared'.count >= 0
    BY <1>4, <1>6, <1>9, <2>2 DEF Refs!REF_SHARED_INIT, Refs!REF_MAYBE_WEAKREF, RefOwner
  <2>4. label \in {"dealloc", "pop", "check", "run"} /\ (label = "dealloc" <=> last)
    BY BackLabels
  <2>5. /\ r_pc' \in [Threads -> Labels] /\ r_pc'[t] = label
        /\ \A u \in Threads : u # t => r_pc'[u] = r_pc[u]
        /\ Kept' = Kept - (IF r_pc[t] = "run" THEN 0 ELSE 1)
    BY <1>4, <1>7, <2>1, <2>4, Moved
  <2>6. RefTypes'
    BY <1>1, <1>2, <1>6, <2>2, <2>5 DEF RefTypes, Refs!TypeOK
  <2>7. RefSum' /\ RefOne'
    BY <1>1, <1>2, <1>3, <1>4, <1>6, <1>7, <2>2, <2>5 DEF RefSum, RefOne
  <2>8. Over' <=> last
    BY <1>1, <1>5, <2>4, <2>5 DEF Over
  <2>9. RefOwner' /\ Refs!UnownedIsMerged'
    <3>1. ob_ref_shared.flags \in {"none", "weakref"} => Queued' + Kept' = 0
      <4>1. SUFFICES ASSUME ob_ref_shared.flags \in {"none", "weakref"} PROVE Queued' + Kept' = 0
        OBVIOUS
      <4>2. Queued + Kept = 0
        BY <1>6, <4>1 DEF RefOwner
      <4>3. r_pc[t] = "run"
        BY <1>4, <1>7, <4>2
      <4>4. QED
        BY <1>3, <1>4, <2>5, <4>2, <4>3
    <3>2. QED
      BY <1>1, <1>5, <1>6, <1>7, <2>2, <2>3, <2>5, <3>1, RefFacts DEF RefOwner, Refs!UnownedIsMerged
  <2>10. ASSUME NEW u \in Threads PROVE RefPlace(u)'
    BY <1>1, <1>7, <2>2, <2>4, <2>5, RefFacts DEF RefInv, RefPlace
  <2>11. RefOver'
    <3>1. SUFFICES ASSUME last PROVE RefOver'
      BY <2>8 DEF RefOver
    <3>2. ob_ref_shared'.count = 0 /\ ob_ref_shared.flags = "merged"
      BY <2>2, <3>1 DEF Refs!REF_MERGED, Refs!Shared
    <3>3. ob_tid = NoThread /\ ob_ref_local = 0 /\ \A u \in Threads : local[u] = 0
      BY <1>6, <3>2, RefFacts DEF RefOwner
    <3>4. InHand = 0
      BY <3>3, RefFacts, TotalZero DEF InHand
    <3>5. Held' + Queued' + Kept' = 0
      BY <1>1, <1>3, <1>4, <2>7, <3>2, <3>3, <3>4 DEF RefSum
    <3>6. \A u \in Threads : r_pc'[u] \notin {"merge_zero", "disown", "mark"}
      BY <2>4, <2>5, <3>2, <3>3, RefFacts DEF RefInv, RefPlace
    <3>7. QED
      BY <1>1, <1>5, <2>5, <3>1, <3>5, <3>6 DEF RefOver, Over
  <2>12. QED
    BY <2>6, <2>7, <2>9, <2>10, <2>11 DEF RefInv
<1>10. QED
  BY <1>8, <1>9

\* _Py_DECREF, in the count of the owner or in the shared one.
LEMMA DecRefKeepsRef ==
    ASSUME RefInv, NEW t \in Threads, Refs!DecRef(t)
    PROVE  RefInv'
<1>1. CASE ob_tid # t /\ Refs!DecRefShared(t) /\ UNCHANGED ob_ref_local
  BY <1>1, DecRefSharedKeepsRef DEF Refs!DecRef
<1>2. CASE ob_tid = t /\ UNCHANGED ob_ref_shared
  <2> DEFINE label == IF ob_ref_local = 1 THEN "merge_zero" ELSE "run"
  <2>1. /\ r_pc[t] = "run" /\ refs[t] > 0 /\ refs' = Refs!Add(refs, t, -1)
        /\ ob_ref_local' = ob_ref_local - 1 /\ Refs!Goto(t, label)
        /\ UNCHANGED <<ob_tid, ob_ref_shared, freed, weak, objects_to_merge, local_objects_to_merge,
                       in_table, breaker, mutex, target, local, leaving>>
    BY <1>2 DEF Refs!DecRef, Refs!queues
  <2>2. ~Over
    BY <2>1, NotOver
  <2>3. t = t1 /\ ob_ref_local > 0 /\ ob_ref_local' \in Nat
    BY <1>2, <2>1, <2>2, RefFacts DEF RefInv, RefOwner
  <2>4. Held' = Held - 1 /\ refs' \in [Threads -> 0..MaxRefs] /\ Held' <= MaxRefs
    <3>1. refs[t] - 1 >= 0 /\ Held - 1 <= MaxRefs /\ -1 \in Int /\ Held + (-1) = Held - 1
      BY <2>1, RefFacts, RefNumbers
    <3>2. QED
      BY <2>1, <3>1, HeldChanged
  <2>5. /\ r_pc' \in [Threads -> Labels] /\ r_pc'[t] = label /\ Kept' = Kept
        /\ \A u \in Threads : u # t => r_pc'[u] = r_pc[u]
    BY <2>1, Moved, RefNumbers
  <2>6. Queued' = Queued /\ InHand' = InHand
    BY <2>1, SumsKept
  <2>7. RefTypes'
    BY <2>1, <2>3, <2>4, <2>5 DEF RefInv, RefTypes, Refs!TypeOK
  <2>8. RefSum' /\ RefOne'
    <3>1. /\ Held \in Nat /\ Queued \in Nat /\ Kept \in Nat /\ InHand \in Nat
          /\ ob_ref_local \in Int /\ ob_ref_shared.count \in Int /\ RefSum /\ RefOne
      BY RefFacts, RefNumbers DEF RefInv
    <3>2. QED
      <4>1. /\ ob_ref_local' = ob_ref_local - 1 /\ ob_ref_shared'.count = ob_ref_shared.count
            /\ Held' = Held - 1 /\ Queued' = Queued /\ Kept' = Kept /\ InHand' = InHand
        BY <2>1, <2>4, <2>5, <2>6
      <4>2. QED
        BY <3>1, <4>1 DEF RefSum, RefOne
  <2>9. ~Over'
    BY <2>1, <2>2, <2>5 DEF Over
  <2>10. RefOwner' /\ Refs!UnownedIsMerged'
    BY <1>2, <2>1, <2>2, <2>3, <2>5, <2>6, RefFacts DEF RefInv, RefOwner, Refs!UnownedIsMerged
  <2>11. ASSUME NEW u \in Threads PROVE RefPlace(u)'
    BY <1>2, <2>1, <2>3, <2>5, RefFacts DEF RefInv, RefPlace
  <2>12. QED
    BY <2>7, <2>8, <2>9, <2>10, <2>11 DEF RefInv, RefOver
<1>3. QED
  BY <1>1, <1>2 DEF Refs!DecRef

\* The reference of a call that queues goes on with the same call.
LEMMA QueueObjectKeepsRef ==
    ASSUME RefInv, NEW t \in Threads, Refs!QueueObject(t)
    PROVE  RefInv'
<1>1. CASE ob_tid = NoThread /\ Refs!DecRefShared(t) /\ UNCHANGED target
  BY <1>1, DecRefSharedKeepsRef DEF Refs!QueueObject
<1>2. CASE ob_tid # NoThread /\ target' = [target EXCEPT ![t] = ob_tid] /\ Refs!Goto(t, "bucket") /\ UNCHANGED ob_ref_shared
  <2>1. /\ r_pc[t] = "queue" /\ ob_tid = t1
        /\ UNCHANGED <<ob_tid, ob_ref_local, ob_ref_shared, freed, weak, refs, objects_to_merge, local_objects_to_merge,
                       in_table, breaker, mutex, local, leaving>>
    BY <1>2, RefFacts DEF Refs!QueueObject, Refs!queues
  <2>2. /\ r_pc' \in [Threads -> Labels] /\ r_pc'[t] = "bucket" /\ Kept' = Kept
        /\ \A u \in Threads : u # t => r_pc'[u] = r_pc[u]
    BY <1>2, <2>1, Moved, RefNumbers
  <2>3. Held' = Held /\ Queued' = Queued /\ InHand' = InHand
    BY <2>1, SumsKept
  <2>4. /\ target' \in [Threads -> Threads \cup {NoThread}] /\ target'[t] = t1
        /\ \A u \in Threads : u # t => target'[u] = target[u]
    BY <1>2, <2>1, RefFacts
  <2>5. ~Over /\ ~Over'
    BY <2>1, <2>2, NotOver DEF Over
  <2>6. RefTypes'
    BY <2>1, <2>2, <2>3, <2>4 DEF RefInv, RefTypes, Refs!TypeOK
  <2>7. RefSum' /\ RefOne'
    BY <2>1, <2>2, <2>3 DEF RefInv, RefSum, RefOne
  <2>8. RefOwner' /\ Refs!UnownedIsMerged'
    BY <2>1, <2>2, <2>3, <2>5, RefFacts DEF RefInv, RefOwner, Refs!UnownedIsMerged
  <2>9. ASSUME NEW u \in Threads PROVE RefPlace(u)'
    BY <2>1, <2>2, <2>4, RefFacts DEF RefInv, RefPlace
  <2>10. QED
    BY <2>5, <2>6, <2>7, <2>8, <2>9 DEF RefInv, RefOver
<1>3. QED
  BY <1>1, <1>2 DEF Refs!QueueObject

\* The call that cleans the list of work up is over.
LEMMA CleanupWorklistKeepsRef ==
    ASSUME RefInv, NEW t \in Threads, Refs!CleanupWorklist(t)
    PROVE  RefInv'
<1>1. r_pc[t] = "drop" /\ ob_tid = NoThread
  BY DEF Refs!CleanupWorklist, RefInv, RefPlace, RefOwner
<1>2. QED
  BY <1>1, DecRefSharedKeepsRef DEF Refs!CleanupWorklist

\* A step between two calls, that leaves the counts and the queues alone.
LEMMA BetweenCallsKeepsRef ==
    ASSUME RefInv, NEW t \in Threads, NEW label \in {"run", "take", "pop", "check"},
           r_pc[t] \in {"run", "take", "pop", "check"}, Refs!Goto(t, label),
           UNCHANGED <<ob_tid, ob_ref_local, ob_ref_shared, freed, weak, refs, objects_to_merge,
                       local_objects_to_merge, in_table, mutex, target, local>>,
           breaker' \in [Threads -> BOOLEAN], leaving' \in [Threads -> BOOLEAN]
    PROVE  RefInv'
<1>1. /\ r_pc' \in [Threads -> Labels] /\ r_pc'[t] = label /\ Kept' = Kept
      /\ \A u \in Threads : u # t => r_pc'[u] = r_pc[u]
  BY Moved, RefNumbers
<1>2. Held' = Held /\ Queued' = Queued /\ InHand' = InHand
  BY SumsKept
<1>3. Over' <=> Over
  BY <1>1 DEF Over
<1>4. RefTypes'
  BY <1>1, <1>2 DEF RefInv, RefTypes, Refs!TypeOK
<1>5. RefSum' /\ RefOne'
  BY <1>1, <1>2 DEF RefInv, RefSum, RefOne
<1>6. RefOwner' /\ Refs!UnownedIsMerged'
  BY <1>1, <1>2, <1>3, RefFacts DEF RefInv, RefOwner, Refs!UnownedIsMerged
<1>7. ASSUME NEW u \in Threads PROVE RefPlace(u)'
  BY <1>1, RefFacts DEF RefInv, RefPlace
<1>8. RefOver'
  BY <1>1, <1>2, <1>3, RefFacts DEF RefInv, RefOver
<1>9. QED
  BY <1>4, <1>5, <1>6, <1>7, <1>8 DEF RefInv

\* A thread that takes up its duties between two calls changes no count.
LEMMA HandlePendingKeepsRef ==
    ASSUME RefInv, NEW t \in Threads, Refs!HandlePending(t) \/ Refs!Clear(t)
    PROVE  RefInv'
<1>1. CASE Refs!HandlePending(t)
  BY <1>1, BetweenCallsKeepsRef, RefFacts DEF Refs!HandlePending, Refs!object
<1>2. CASE Refs!Clear(t)
  BY <1>2, BetweenCallsKeepsRef, RefFacts DEF Refs!Clear, Refs!object, Refs!queues
<1>3. QED
  BY <1>1, <1>2

\* The object is freed once: the thread that deallocates it is the only one.
LEMMA DeallocKeepsRef ==
    ASSUME RefInv, NEW t \in Threads, Refs!Dealloc(t)
    PROVE  RefInv'
<1>1. /\ r_pc[t] = "dealloc" /\ freed' = TRUE /\ weak' = FALSE
      /\ Refs!Goto(t, Refs!Back(t, local_objects_to_merge[t]))
      /\ UNCHANGED <<ob_tid, ob_ref_local, ob_ref_shared, refs, objects_to_merge, local_objects_to_merge,
                     in_table, breaker, mutex, target, local, leaving>>
  BY DEF Refs!Dealloc, Refs!object, Refs!queues
<1>2. PICK label \in {"pop", "check", "run"} : Refs!Goto(t, label)
  BY <1>1, BackLabels
<1>3. /\ r_pc' \in [Threads -> Labels] /\ r_pc'[t] = label /\ Kept' = Kept
      /\ \A u \in Threads : u # t => r_pc'[u] = r_pc[u]
  BY <1>1, <1>2, Moved, RefNumbers
<1>4. Held' = Held /\ Queued' = Queued /\ InHand' = InHand
  BY <1>1, SumsKept
<1>5. Over /\ Over'
  BY <1>1 DEF Over
<1>6. RefTypes'
  BY <1>1, <1>3, <1>4 DEF RefInv, RefTypes, Refs!TypeOK
<1>7. RefSum' /\ RefOne'
  BY <1>1, <1>3, <1>4 DEF RefInv, RefSum, RefOne
<1>8. RefOwner' /\ Refs!UnownedIsMerged'
  BY <1>1, <1>3, <1>4, <1>5, RefFacts DEF RefInv, RefOwner, Refs!UnownedIsMerged
<1>9. ASSUME NEW u \in Threads PROVE RefPlace(u)'
  BY <1>1, <1>3, RefFacts DEF RefInv, RefPlace
<1>10. RefOver'
  BY <1>1, <1>3, <1>4, <1>5, RefFacts DEF RefInv, RefOver
<1>11. QED
  BY <1>6, <1>7, <1>8, <1>9, <1>10 DEF RefInv

\* At zero the owner deallocates an object that nobody else has counted, or gives it up.
LEMMA MergeZeroKeepsRef ==
    ASSUME RefInv, NEW t \in Threads, Refs!MergeZero(t)
    PROVE  RefInv'
<1> DEFINE label == IF ob_ref_shared = Refs!REF_SHARED_INIT THEN "dealloc" ELSE "disown"
<1>1. /\ r_pc[t] = "merge_zero" /\ Refs!Goto(t, label)
      /\ UNCHANGED <<ob_tid, ob_ref_local, ob_ref_shared, freed, weak, refs, objects_to_merge, local_objects_to_merge,
                     in_table, breaker, mutex, target, local, leaving>>
  BY DEF Refs!MergeZero, Refs!object, Refs!queues
<1>2. /\ r_pc' \in [Threads -> Labels] /\ r_pc'[t] = label /\ Kept' = Kept
      /\ \A u \in Threads : u # t => r_pc'[u] = r_pc[u]
  BY <1>1, Moved, RefNumbers
<1>3. Held' = Held /\ Queued' = Queued /\ InHand' = InHand
  BY <1>1, SumsKept
<1>4. ~Over /\ t = t1 /\ ob_tid = t1 /\ ob_ref_local = 0
  BY <1>1, NotOver DEF RefInv, RefPlace
<1>5. Over' <=> ob_ref_shared = Refs!REF_SHARED_INIT
  BY <1>1, <1>2, <1>4 DEF Over
<1>6. RefTypes'
  BY <1>1, <1>2, <1>3 DEF RefInv, RefTypes, Refs!TypeOK
<1>7. RefSum' /\ RefOne'
  BY <1>1, <1>2, <1>3 DEF RefInv, RefSum, RefOne
<1>8. RefOwner' /\ Refs!UnownedIsMerged'
  BY <1>1, <1>2, <1>3, <1>4, <1>5, RefFacts DEF RefInv, RefOwner, Refs!UnownedIsMerged
<1>9. ASSUME NEW u \in Threads PROVE RefPlace(u)'
  BY <1>1, <1>2, <1>4, RefFacts DEF RefInv, RefPlace
<1>10. ASSUME ob_ref_shared = Refs!REF_SHARED_INIT PROVE RefOver'
  <2>1. ob_ref_shared.count = 0
    BY <1>10 DEF Refs!REF_SHARED_INIT, Refs!Shared
  <2>2. InHand = 0
    BY <1>4, RefFacts, NothingInHand DEF RefInv, RefPlace
  <2>3. Held + Queued + Kept = 0
    BY <1>4, <2>1, <2>2, RefNumbers DEF RefInv, RefSum
  <2>4. \A u \in Threads : r_pc'[u] \notin {"merge_zero", "disown", "mark"}
    BY <1>2, <1>4, <1>10 DEF RefInv, RefPlace
  <2>5. QED
    BY <1>1, <1>2, <1>3, <1>4, <1>10, <2>3, <2>4 DEF RefOver, Over
<1>11. QED
  BY <1>5, <1>6, <1>7, <1>8, <1>9, <1>10 DEF RefInv, RefOver

\* The owner, which has no reference left, gives the object up.
LEMMA DisownKeepsRef ==
    ASSUME RefInv, NEW t \in Threads, Refs!Disown(t)
    PROVE  RefInv'
<1>1. /\ r_pc[t] = "disown" /\ Refs!Goto(t, "mark") /\ ob_tid' = NoThread
      /\ UNCHANGED <<ob_ref_local, ob_ref_shared, freed, weak, refs, objects_to_merge, local_objects_to_merge,
                     in_table, breaker, mutex, target, local, leaving>>
  BY DEF Refs!Disown, Refs!queues
<1>2. /\ r_pc' \in [Threads -> Labels] /\ r_pc'[t] = "mark" /\ Kept' = Kept
      /\ \A u \in Threads : u # t => r_pc'[u] = r_pc[u]
  BY <1>1, Moved, RefNumbers
<1>3. Held' = Held /\ Queued' = Queued /\ InHand' = InHand
  BY <1>1, SumsKept
<1>4. ~Over /\ t = t1 /\ ob_tid = t1 /\ ob_ref_local = 0
  BY <1>1, NotOver DEF RefInv, RefPlace
<1>5. ~Over'
  BY <1>1, <1>2, <1>4 DEF Over
<1>6. RefTypes'
  BY <1>1, <1>2, <1>3 DEF RefInv, RefTypes, Refs!TypeOK
<1>7. RefSum' /\ RefOne'
  BY <1>1, <1>2, <1>3 DEF RefInv, RefSum, RefOne
<1>8. RefOwner' /\ Refs!UnownedIsMerged'
  BY <1>1, <1>2, <1>3, <1>4, RefFacts DEF RefInv, RefOwner, Refs!UnownedIsMerged
<1>9. ASSUME NEW u \in Threads PROVE RefPlace(u)'
  BY <1>1, <1>2, <1>4, RefFacts DEF RefInv, RefPlace, RefOwner
<1>10. QED
  BY <1>5, <1>6, <1>7, <1>8, <1>9 DEF RefInv, RefOver

\* The owner marks the shared count as merged, and deallocates what is left at zero.
LEMMA MarkMergedKeepsRef ==
    ASSUME RefInv, NEW t \in Threads, Refs!MarkMerged(t)
    PROVE  RefInv'
<1> DEFINE last == ob_ref_shared' = Refs!REF_MERGED
           label == IF last THEN "dealloc" ELSE Refs!Back(t, local_objects_to_merge[t])
<1>1. /\ r_pc[t] = "mark" /\ Refs!Goto(t, label)
      /\ ob_ref_shared' = [ob_ref_shared EXCEPT !.flags = "merged"]
      /\ UNCHANGED <<ob_tid, ob_ref_local, freed, weak, refs, objects_to_merge, local_objects_to_merge,
                     in_table, breaker, mutex, target, local, leaving>>
  BY DEF Refs!MarkMerged, Refs!DeallocOrBack, Refs!queues
<1>2. /\ ob_ref_shared'.count = ob_ref_shared.count /\ ob_ref_shared'.flags = "merged"
      /\ ob_ref_shared' \in [count : Int, flags : {"none", "weakref", "queued", "merged"}]
  BY <1>1, RefFacts
<1>3. label \in {"dealloc", "pop", "check", "run"} /\ (label = "dealloc" <=> last)
  BY BackLabels
<1>4. /\ r_pc' \in [Threads -> Labels] /\ r_pc'[t] = label /\ Kept' = Kept
      /\ \A u \in Threads : u # t => r_pc'[u] = r_pc[u]
  BY <1>1, <1>3, Moved, RefNumbers
<1>5. Held' = Held /\ Queued' = Queued /\ InHand' = InHand
  BY <1>1, SumsKept
<1>6. ~Over /\ t = t1 /\ ob_tid = NoThread /\ ob_ref_local = 0
  BY <1>1, NotOver DEF RefInv, RefPlace, RefOwner
<1>7. Over' <=> last
  BY <1>1, <1>3, <1>4, <1>6 DEF Over
<1>8. InHand = 0 /\ \A u \in Threads : local[u] = 0
  BY <1>1, <1>6, NothingInHand DEF RefInv, RefPlace
<1>9. RefTypes'
  BY <1>1, <1>2, <1>4, <1>5 DEF RefInv, RefTypes, Refs!TypeOK
<1>10. RefSum' /\ RefOne'
  BY <1>1, <1>2, <1>4, <1>5 DEF RefInv, RefSum, RefOne
<1>11. RefOwner' /\ Refs!UnownedIsMerged'
  BY <1>1, <1>2, <1>4, <1>5, <1>6, <1>8, RefFacts DEF RefInv, RefOwner, Refs!UnownedIsMerged
<1>12. ASSUME NEW u \in Threads PROVE RefPlace(u)'
  BY <1>1, <1>2, <1>3, <1>4, <1>6, RefFacts DEF RefInv, RefPlace
<1>13. ASSUME last PROVE RefOver'
  <2>1. ob_ref_shared.count = 0
    BY <1>2, <1>13 DEF Refs!REF_MERGED, Refs!Shared
  <2>2. Held + Queued + Kept = 0
    BY <1>6, <1>8, <2>1, RefNumbers DEF RefInv, RefSum
  <2>3. \A u \in Threads : r_pc'[u] \notin {"merge_zero", "disown", "mark"}
    BY <1>3, <1>4, <1>6 DEF RefInv, RefPlace
  <2>4. QED
    BY <1>1, <1>4, <1>5, <1>6, <1>13, <2>2, <2>3 DEF RefOver, Over
<1>14. QED
  BY <1>7, <1>9, <1>10, <1>11, <1>12, <1>13 DEF RefInv, RefOver

\* Two threads cannot be about to merge, nor one of them and the queues.
LEMMA OneMerges ==
    ASSUME RefInv, NEW t \in Threads, r_pc[t] \in Refs!Keeping
    PROVE  /\ Kept = 1 /\ Queued = 0 /\ \A u \in Threads : u # t => r_pc[u] \notin Refs!Keeping
           /\ \A u \in Threads : objects_to_merge[u] = 0 /\ local_objects_to_merge[u] = 0
<1>1. Kept >= 1 /\ Kept \in Nat /\ Queued \in Nat /\ Queued + Kept <= 1
  BY RefNumbers DEF RefInv, RefOne
<1>2. Kept = 1 /\ Queued = 0
  BY <1>1
<1>3. ASSUME NEW u \in Threads
      PROVE  objects_to_merge[u] = 0 /\ local_objects_to_merge[u] = 0
  <2>1. /\ objects_to_merge[u] \in Nat /\ local_objects_to_merge[u] \in Nat
        /\ objects_to_merge[u] + local_objects_to_merge[u] <= Queued
    BY RefFacts, RefNumbers
  <2>2. QED
    BY <1>2, <2>1
<1>4. ASSUME NEW u \in Threads, u # t PROVE r_pc[u] \notin Refs!Keeping
  <2>1. r_pc[u] \in Refs!Keeping => Kept >= 2
    BY <1>4, RefNumbers
  <2>2. QED
    BY <1>2, <2>1
<1>5. QED
  BY <1>2, <1>3, <1>4

\* The counts have been merged by a thread that drops a reference with it.
LEMMA MergedKeepsRef ==
    ASSUME RefInv, NEW t \in Threads, NEW refcnt \in Int,
           r_pc[t] \in {"merge", "no_memory"},
           \A u \in Threads : r_pc[u] \notin {"merge_zero", "disown", "mark"},
           ob_tid' = NoThread, ob_ref_local' = 0, ob_ref_shared' = Refs!Shared(refcnt, "merged"),
           refcnt = ob_ref_shared.count + ob_ref_local + local[t] - 1,
           local' = [local EXCEPT ![t] = 0], mutex' = (IF mutex = t THEN NoThread ELSE mutex),
           Refs!DeallocOrBack(t, refcnt = 0),
           UNCHANGED <<freed, weak, refs, objects_to_merge, local_objects_to_merge, in_table,
                       breaker, target, leaving>>
    PROVE  RefInv'
<1> DEFINE label == IF refcnt = 0 THEN "dealloc" ELSE Refs!Back(t, local_objects_to_merge[t])
<1>1. /\ label \in {"dealloc", "pop", "check", "run"} /\ (label = "dealloc" <=> refcnt = 0)
      /\ Refs!Goto(t, label)
  BY BackLabels DEF Refs!DeallocOrBack
<1>2. /\ Kept = 1 /\ Queued = 0 /\ \A u \in Threads : u # t => r_pc[u] \notin Refs!Keeping
      /\ Held \in Nat /\ InHand \in Nat /\ local[t] \in Nat
  BY OneMerges, RefNumbers, RefFacts
<1>3. /\ r_pc' \in [Threads -> Labels] /\ r_pc'[t] = label /\ Kept' = 0
      /\ \A u \in Threads : u # t => r_pc'[u] = r_pc[u]
  BY <1>1, <1>2, Moved
<1>4. Held' = Held /\ Queued' = Queued
  BY SumsKept
<1>5. ASSUME NEW u \in Threads PROVE local'[u] = 0
  BY <1>2, <1>5, RefFacts DEF RefInv, RefPlace
<1>6. local' \in [Threads -> Nat]
  BY RefFacts
<1>7. InHand = local[t] /\ InHand' = 0
  <2>1. Refs!Total(local') = Refs!Total(local) - local[t] + local'[t] /\ Refs!Total(local) \in Nat
    <3>1. /\ local \in [Threads -> Nat] /\ IsFiniteSet(Threads)
          /\ \A u \in Threads \ {t} : local'[u] = local[u]
      BY RefFacts
    <3>2. QED
      BY <1>6, <3>1, TotalChange
  <2>2. Refs!Total(local') = 0
    BY <1>5, <1>6, TotalZero
  <2>3. QED
    BY <1>2, <1>5, <2>1, <2>2 DEF InHand
<1>8. /\ ob_ref_shared'.count = refcnt /\ ob_ref_shared'.flags = "merged"
      /\ ob_ref_shared' \in [count : Int, flags : {"none", "weakref", "queued", "merged"}]
  BY DEF Refs!Shared
<1>9. ~Over /\ (Over' <=> refcnt = 0)
  <2>1. ~Over
    BY NotOver
  <2>2. QED
    BY <1>1, <1>3, <2>1 DEF Over
<1>10. RefTypes'
  BY <1>3, <1>4, <1>6, <1>8, RefFacts DEF RefInv, RefTypes, Refs!TypeOK
<1>11. RefSum' /\ RefOne'
  <2>1. ob_ref_local + ob_ref_shared.count + local[t] = Held + 1
    BY <1>2, <1>7, RefFacts DEF RefInv, RefSum
  <2>2. refcnt = Held
    BY <1>2, <2>1, RefFacts
  <2>3. QED
    BY <1>2, <1>3, <1>4, <1>7, <1>8, <2>2 DEF RefSum, RefOne
<1>12. RefOwner' /\ Refs!UnownedIsMerged'
  BY <1>5, <1>8, RefFacts DEF RefOwner, Refs!UnownedIsMerged
<1>13. ASSUME NEW u \in Threads PROVE RefPlace(u)'
  BY <1>1, <1>2, <1>3, <1>5, <1>8, RefFacts DEF RefInv, RefPlace
<1>14. ASSUME refcnt = 0 PROVE RefOver'
  <2>1. Held' + Queued' + Kept' = 0
    BY <1>2, <1>3, <1>4, <1>7, <1>8, <1>11, <1>14 DEF RefSum
  <2>2. \A u \in Threads : r_pc'[u] \notin {"merge_zero", "disown", "mark"}
    BY <1>1, <1>3
  <2>3. ob_ref_shared' = Refs!REF_MERGED
    BY <1>14 DEF Refs!REF_MERGED
  <2>4. QED
    BY <1>3, <1>9, <1>14, <2>1, <2>2, <2>3 DEF RefOver, Over
<1>15. QED
  BY <1>9, <1>10, <1>11, <1>12, <1>13, <1>14 DEF RefInv, RefOver

\* _Py_ExplicitMergeRefcount: what a thread has in its hands goes into the shared count.
LEMMA ExplicitMergeKeepsRef ==
    ASSUME RefInv, NEW t \in Threads, Refs!ExplicitMerge(t)
    PROVE  RefInv'
<1> DEFINE refcnt == ob_ref_shared.count + local[t] - 1
<1>1. r_pc[t] = "merge" /\ ob_tid = NoThread /\ ob_ref_local = 0
  BY DEF Refs!ExplicitMerge, RefInv, RefPlace, RefOwner
<1>2. \A u \in Threads : r_pc[u] \notin {"mark", "merge_zero", "disown"}
  BY <1>1, RefFacts DEF RefInv, RefPlace
<1>3. refcnt \in Int /\ refcnt = ob_ref_shared.count + ob_ref_local + local[t] - 1
  BY <1>1, RefFacts
<1>4. QED
  BY <1>1, <1>2, <1>3, MergedKeepsRef DEF Refs!ExplicitMerge

\* The collector merges counts while the world is stopped.
LEMMA MergeStoppedKeepsRef ==
    ASSUME RefInv, NEW t \in Threads, Refs!MergeStopped(t)
    PROVE  RefInv'
<1> DEFINE refcnt == ob_ref_shared.count + ob_ref_local - 1
<1>1. r_pc[t] = "no_memory" /\ local[t] = 0 /\ mutex # t
  BY RefFacts DEF Refs!MergeStopped, RefInv, RefPlace
<1>2. \A u \in Threads : r_pc[u] \notin {"mark", "merge_zero", "disown"}
  BY <1>1 DEF Refs!MergeStopped, Refs!WorldStops
<1>3. refcnt \in Int /\ refcnt = ob_ref_shared.count + ob_ref_local + local[t] - 1
  BY <1>1, RefFacts
<1>4. local' = [local EXCEPT ![t] = 0] /\ mutex' = (IF mutex = t THEN NoThread ELSE mutex)
  BY <1>1, RefFacts DEF Refs!MergeStopped, Refs!queues
<1>5. QED
  BY <1>1, <1>2, <1>3, <1>4, MergedKeepsRef DEF Refs!MergeStopped, Refs!queues

\* A reference goes to the owner's queue: one of a call becomes one of a queue.
LEMMA PushKeepsRef ==
    ASSUME RefInv, NEW t \in Threads, Refs!Push(t)
    PROVE  RefInv'
<1>1. /\ r_pc[t] = "bucket" /\ mutex = NoThread /\ target[t] = t1 /\ in_table[t1]
      /\ target' = [target EXCEPT ![t] = NoThread]
      /\ UNCHANGED <<ob_tid, ob_ref_local, ob_ref_shared, freed, weak, refs, local_objects_to_merge,
                     in_table, mutex, local, leaving>>
  BY DEF Refs!Push, Refs!object, RefInv, RefPlace
<1>2. /\ target' \in [Threads -> Threads \cup {NoThread}] /\ target'[t] = NoThread
      /\ \A u \in Threads : u # t => target'[u] = target[u]
  BY <1>1, RefFacts
<1>3. /\ Kept = 1 /\ Queued = 0 /\ \A u \in Threads : u # t => r_pc[u] \notin Refs!Keeping
      /\ \A u \in Threads : objects_to_merge[u] = 0 /\ local_objects_to_merge[u] = 0
  BY <1>1, OneMerges
<1>4. Held' = Held /\ InHand' = InHand
  BY <1>1, SumsKept
<1>5. PICK label \in {"no_memory", "pop", "check", "run"} :
        /\ Refs!Goto(t, label) /\ breaker' \in [Threads -> BOOLEAN]
        /\ IF label = "no_memory" THEN UNCHANGED objects_to_merge
           ELSE objects_to_merge' = Refs!Add(objects_to_merge, t1, 1)
  <2>1. CASE Refs!Goto(t, "no_memory") /\ UNCHANGED <<objects_to_merge, breaker>>
    BY <2>1, RefFacts
  <2>2. CASE /\ objects_to_merge' = Refs!Add(objects_to_merge, target[t], 1)
             /\ breaker' = [breaker EXCEPT ![target[t]] = TRUE]
             /\ Refs!Goto(t, Refs!Back(t, local_objects_to_merge[t]))
    BY <1>1, <2>2, BackLabels, RefFacts
  <2>3. QED
    BY <2>1, <2>2 DEF Refs!Push
<1>6. /\ r_pc' \in [Threads -> Labels] /\ r_pc'[t] = label
      /\ Kept' = IF label = "no_memory" THEN 1 ELSE 0
      /\ \A u \in Threads : u # t => r_pc'[u] = r_pc[u]
  BY <1>1, <1>3, <1>5, Moved
<1>7. /\ objects_to_merge' \in [Threads -> Nat]
      /\ \A u \in Threads : u # t1 => objects_to_merge'[u] = 0
      /\ Queued' = IF label = "no_memory" THEN 0 ELSE 1
  <2>1. CASE label = "no_memory"
    BY <1>1, <1>3, <1>5, <2>1, SumsKept, RefFacts
  <2>2. CASE label # "no_memory"
    <3>1. /\ objects_to_merge' \in [Threads -> Nat] /\ objects_to_merge'[t1] = 1
          /\ \A u \in Threads \ {t1} : objects_to_merge'[u] = objects_to_merge[u]
      BY <1>3, <1>5, <2>2, RefFacts DEF Refs!Add
    <3>2. Refs!Total(objects_to_merge') = Refs!Total(objects_to_merge) - objects_to_merge[t1] + objects_to_merge'[t1]
      BY <3>1, RefFacts, TotalChange
    <3>3. Refs!Total(objects_to_merge) = 0 /\ Refs!Total(local_objects_to_merge) = 0
      BY <1>3, RefFacts, TotalZero
    <3>4. QED
      BY <1>1, <1>3, <2>2, <3>1, <3>2, <3>3, RefFacts DEF Queued
  <2>3. QED
    BY <2>1, <2>2
<1>8. ~Over /\ ~Over'
  <2>1. ~Over
    BY <1>1, NotOver
  <2>2. QED
    BY <1>1, <1>5, <1>6, <2>1 DEF Over
<1>9. RefTypes'
  BY <1>1, <1>2, <1>4, <1>5, <1>6, <1>7 DEF RefInv, RefTypes, Refs!TypeOK
<1>10. RefSum' /\ RefOne'
  BY <1>1, <1>3, <1>4, <1>6, <1>7, RefNumbers DEF RefInv, RefSum, RefOne
<1>11. RefOwner' /\ Refs!UnownedIsMerged'
  BY <1>1, <1>3, <1>5, <1>6, <1>7, <1>8, RefFacts DEF RefInv, RefOwner, Refs!UnownedIsMerged
<1>12. ASSUME NEW u \in Threads PROVE RefPlace(u)'
  BY <1>1, <1>2, <1>3, <1>5, <1>6, <1>7, RefFacts DEF RefInv, RefPlace
<1>13. QED
  BY <1>8, <1>9, <1>10, <1>11, <1>12 DEF RefInv, RefOver

\* A thread takes the local count in its hands, with the reference it has or
\* takes from its queue, and the owner is gone or it is the thread.
Emptied(t) ==
    /\ Refs!Empty(t) /\ ~Over
    /\ t = t1 \/ (r_pc[t1] = "gone" /\ mutex' = t /\ r_pc[t] = "bucket")
    /\ mutex' = mutex \/ (mutex = NoThread /\ mutex' = t)
    /\ target' = [target EXCEPT ![t] = NoThread] /\ (mutex' = t => r_pc[t1] = "gone")
    /\ r_pc[t] \in {"bucket", "pop"} /\ Queued' + Kept' = Queued + Kept /\ Queued' \in Nat
    /\ objects_to_merge' \in [Threads -> Nat] /\ local_objects_to_merge' \in [Threads -> Nat]
    /\ \A u \in Threads : objects_to_merge'[u] > 0 \/ local_objects_to_merge'[u] > 0 => u = t1
    /\ UNCHANGED <<ob_ref_shared, freed, weak, refs, in_table, breaker, leaving>>

\* What the thread has now is in its hands, and still counts.
LEMMA EmptyKeepsRef ==
    ASSUME RefInv, NEW t \in Threads, Emptied(t)
    PROVE  RefInv'
<1>0. /\ t = t1 \/ (r_pc[t1] = "gone" /\ mutex' = t /\ r_pc[t] = "bucket")
      /\ mutex' \in Threads \cup {NoThread} /\ (mutex' = mutex \/ mutex' = t)
      /\ mutex = NoThread \/ mutex' = mutex
      /\ target' = [target EXCEPT ![t] = NoThread] /\ (mutex' = t => r_pc[t1] = "gone")
      /\ r_pc[t] \in {"bucket", "pop"} /\ ~Over
      /\ objects_to_merge' \in [Threads -> Nat] /\ local_objects_to_merge' \in [Threads -> Nat]
      /\ \A u \in Threads : objects_to_merge'[u] > 0 \/ local_objects_to_merge'[u] > 0 => u = t1
      /\ UNCHANGED <<ob_ref_shared, freed, weak, refs, in_table, breaker, leaving>>
  BY RefFacts DEF Emptied
<1>1. /\ local' = [local EXCEPT ![t] = ob_ref_local] /\ ob_ref_local' = 0 /\ ob_tid' = NoThread
      /\ Refs!Goto(t, "merge")
  BY DEF Emptied, Refs!Empty
<1>2. /\ r_pc' \in [Threads -> Labels] /\ r_pc'[t] = "merge"
      /\ \A u \in Threads : u # t => r_pc'[u] = r_pc[u]
  BY <1>1, Moved
<1>3. Held' = Held
  BY <1>0, SumsKept
<1>4. local[t] = 0
  BY <1>0, RefFacts DEF RefInv, RefPlace
<1>5. /\ local' \in [Threads -> Nat] /\ local'[t] = ob_ref_local
      /\ \A u \in Threads \ {t} : local'[u] = local[u]
  BY <1>1, RefFacts
<1>6. InHand' = InHand + ob_ref_local
  <2>1. Refs!Total(local') = Refs!Total(local) - local[t] + local'[t] /\ Refs!Total(local) \in Nat
    BY <1>5, RefFacts, TotalChange
  <2>2. QED
    BY <1>4, <1>5, <2>1, RefFacts DEF InHand
<1>7. /\ target' \in [Threads -> Threads \cup {NoThread}] /\ target'[t] = NoThread
      /\ \A u \in Threads : u # t => target'[u] = target[u]
  BY <1>0, RefFacts
<1>8. ~Over'
  BY <1>0, <1>2 DEF Over
<1>9. RefTypes'
  BY <1>0, <1>1, <1>2, <1>3, <1>5, <1>7, RefFacts DEF RefInv, RefTypes, Refs!TypeOK
<1>10. RefSum' /\ RefOne'
  <2>1. /\ Held \in Nat /\ Queued \in Nat /\ Kept \in Nat /\ InHand \in Nat
        /\ ob_ref_local \in Int /\ ob_ref_shared.count \in Int /\ RefSum /\ RefOne
    BY RefFacts, RefNumbers DEF RefInv
  <2>2. Kept' \in Nat
    BY RefFacts, KeepersFinite, <1>1, <2>1, Moved
  <2>3. Queued' + Kept' = Queued + Kept /\ Queued' \in Nat /\ ob_ref_shared' = ob_ref_shared
    BY DEF Emptied
  <2>4. RefOne'
    BY <2>1, <2>3 DEF RefOne
  <2>5. ob_ref_local + ob_ref_shared.count + InHand = Held + Queued + Kept
    BY <2>1 DEF RefSum
  <2>6. ob_ref_local' = 0 /\ Held' = Held /\ ob_ref_shared'.count = ob_ref_shared.count
    BY <1>1, <1>3, <2>3
  <2>7. ob_ref_local' + ob_ref_shared'.count + InHand' = Held' + Queued' + Kept'
    <3>1. PICK q \in Nat, k \in Nat : q = Queued' /\ k = Kept'
      BY <2>2, <2>3
    <3>2. q + k = Queued + Kept
      BY <2>3, <3>1
    <3>3. ob_ref_shared.count + (InHand + ob_ref_local) = Held + q + k
      BY <2>1, <2>5, <3>2
    <3>4. QED
      BY <1>6, <2>1, <2>6, <3>1, <3>3
  <2>8. QED
    BY <2>4, <2>7 DEF RefSum
<1>11. RefOwner' /\ Refs!UnownedIsMerged'
  <2>1. Refs!UnownedIsMerged'
    BY <1>0, <1>1, <1>2 DEF Refs!UnownedIsMerged
  <2>2. ob_ref_shared.flags = "merged" => \A u \in Threads : local'[u] = 0
    BY <1>0, <1>5 DEF RefInv, RefOwner
  <2>3. QED
    <3>1. RefOwner
      BY DEF RefInv
    <3>2. ob_ref_shared'.flags \in {"none", "weakref"} => Queued' + Kept' = 0 /\ ob_ref_shared'.count >= 0
      <4>1. ob_ref_shared.flags \in {"none", "weakref"} => Queued + Kept = 0 /\ ob_ref_shared.count >= 0
        BY <3>1 DEF RefOwner
      <4>2. Queued' + Kept' = Queued + Kept /\ ob_ref_shared' = ob_ref_shared
        BY DEF Emptied
      <4>3. QED
        BY <4>1, <4>2
    <3>3. ob_ref_shared.flags = "merged" => \A u \in Threads : local'[u] = 0
      BY <2>2
    <3>4. ob_ref_shared'.flags = "merged" => ob_tid' = NoThread /\ \A u \in Threads : local'[u] = 0
      BY <1>0, <1>1, <3>3
    <3>5. ob_tid' = NoThread /\ ob_ref_local' = 0 /\ t1 # NoThread
      BY <1>1, RefFacts
    <3>6. /\ ob_tid' \in {t1, NoThread} /\ (ob_tid' = NoThread => ob_ref_local' = 0)
          /\ ob_tid' = t1 /\ ob_ref_local' = 0 => r_pc'[t1] \in {"merge_zero", "disown"} \/ Over'
      BY <3>5
    <3>7. QED
      BY <2>1, <3>2, <3>4, <3>6 DEF RefOwner
<1>12. ASSUME NEW u \in Threads PROVE RefPlace(u)'
  BY <1>0, <1>1, <1>2, <1>5, <1>7, RefFacts DEF RefInv, RefPlace
<1>13. QED
  BY <1>8, <1>9, <1>10, <1>11, <1>12 DEF RefInv, RefOver

\* The owner is gone, and the thread that wanted to queue the object merges it.
LEMMA AbandonedKeepsRef ==
    ASSUME RefInv, NEW t \in Threads, Refs!Abandoned(t)
    PROVE  RefInv'
<1>1. /\ r_pc[t] = "bucket" /\ mutex = NoThread /\ mutex' = t /\ Refs!Empty(t) /\ ~in_table[target[t]]
      /\ target' = [target EXCEPT ![t] = NoThread]
      /\ UNCHANGED <<ob_ref_shared, freed, weak, refs, objects_to_merge, local_objects_to_merge,
                     in_table, breaker, leaving>>
  BY DEF Refs!Abandoned
<1>2. target[t] = t1 /\ r_pc[t1] = "gone"
  BY <1>1, RefFacts DEF RefInv, RefPlace
<1>3. ~Over
  BY <1>1, NotOver
<1>4. Queued' = Queued /\ Kept' = Kept
  BY <1>1, SumsKept, Moved, RefNumbers DEF Refs!Empty
<1>5. \A u \in Threads : objects_to_merge'[u] > 0 \/ local_objects_to_merge'[u] > 0 => u = t1
  BY <1>1 DEF RefInv, RefPlace
<1>6. objects_to_merge' \in [Threads -> Nat] /\ local_objects_to_merge' \in [Threads -> Nat]
  BY <1>1, RefFacts
<1>7. Queued' \in Nat /\ Queued' + Kept' = Queued + Kept
  BY <1>4, RefNumbers
<1>8. Emptied(t)
  BY <1>1, <1>2, <1>3, <1>5, <1>6, <1>7 DEF Emptied
<1>9. QED
  BY <1>8, EmptyKeepsRef

\* The owner takes an object from its queue, with the reference that it holds.
LEMMA PopKeepsRef ==
    ASSUME RefInv, NEW t \in Threads, Refs!Pop(t)
    PROVE  RefInv'
<1>1. /\ r_pc[t] = "pop"
      /\ UNCHANGED <<ob_ref_shared, freed, weak, refs, objects_to_merge, in_table, breaker,
                     mutex, target, leaving>>
  BY DEF Refs!Pop
<1>2. CASE /\ local_objects_to_merge[t] > 0 /\ Refs!Empty(t)
           /\ local_objects_to_merge' = Refs!Add(local_objects_to_merge, t, -1)
  <2>1. t = t1 /\ ~Over
    BY <1>2, NotOver DEF RefInv, RefPlace
  <2>2. /\ local_objects_to_merge' \in [Threads -> Nat]
        /\ local_objects_to_merge'[t] = local_objects_to_merge[t] - 1
        /\ \A u \in Threads \ {t} : local_objects_to_merge'[u] = local_objects_to_merge[u]
    BY <1>2, RefFacts DEF Refs!Add
  <2>3. /\ Refs!Total(local_objects_to_merge') = Refs!Total(local_objects_to_merge) - local_objects_to_merge[t]
                                                + local_objects_to_merge'[t]
        /\ Refs!Total(local_objects_to_merge) \in Nat /\ Refs!Total(local_objects_to_merge') \in Nat
    <3>1. local_objects_to_merge \in [Threads -> Nat] /\ IsFiniteSet(Threads)
      BY RefFacts
    <3>2. QED
      BY <2>2, <3>1, TotalChange
  <2>4. Refs!Total(objects_to_merge) \in Nat
    BY RefFacts, TotalChange
  <2>5. Queued' = Queued - 1 /\ Queued' \in Nat
    BY <1>1, <2>2, <2>3, <2>4, RefFacts DEF Queued
  <2>6. Kept' = Kept + 1
    BY <1>1, <1>2, Moved, RefNumbers DEF Refs!Empty
  <2>7. \A u \in Threads : objects_to_merge'[u] > 0 \/ local_objects_to_merge'[u] > 0 => u = t1
    BY <1>1, <2>1, <2>2 DEF RefInv, RefPlace
  <2>8. target' = [target EXCEPT ![t] = NoThread] /\ mutex # t
    BY <1>1, RefFacts DEF RefInv, RefPlace
  <2>9. Queued' + Kept' = Queued + Kept
    BY <2>5, <2>6, RefNumbers
  <2>10. Emptied(t)
    BY <1>1, <1>2, <2>1, <2>2, <2>5, <2>7, <2>8, <2>9, RefFacts DEF Emptied
  <2>11. QED
    BY <2>10, EmptyKeepsRef
<1>3. CASE Refs!Goto(t, Refs!Back(t, 0)) /\ UNCHANGED <<ob_tid, ob_ref_local, local, local_objects_to_merge>>
  BY <1>1, <1>3, BackLabels, BetweenCallsKeepsRef, RefFacts
<1>4. QED
  BY <1>2, <1>3 DEF Refs!Pop

\* The owner takes its queue over: what is in the two lists together does not change.
LEMMA TakeObjectsKeepsRef ==
    ASSUME RefInv, NEW t \in Threads, r_pc[t] \in {"take", "check"}, Refs!TakeObjects(t)
    PROVE  RefInv'
<1> DEFINE n == local_objects_to_merge[t] + objects_to_merge[t]
<1>1. /\ mutex = NoThread
      /\ local_objects_to_merge' = [local_objects_to_merge EXCEPT ![t] = n]
      /\ objects_to_merge' = [objects_to_merge EXCEPT ![t] = 0]
      /\ UNCHANGED <<ob_tid, ob_ref_local, ob_ref_shared, freed, weak, refs, in_table, breaker,
                     mutex, target, local, leaving>>
  BY DEF Refs!TakeObjects, Refs!object
<1>2. PICK label \in {"pop", "check", "run"} : Refs!Goto(t, label)
  BY BackLabels DEF Refs!TakeObjects
<1>3. /\ r_pc' \in [Threads -> Labels] /\ r_pc'[t] = label /\ Kept' = Kept
      /\ \A u \in Threads : u # t => r_pc'[u] = r_pc[u]
  BY <1>2, Moved, RefNumbers
<1>4. /\ objects_to_merge' \in [Threads -> Nat] /\ objects_to_merge'[t] = 0
      /\ local_objects_to_merge' \in [Threads -> Nat] /\ local_objects_to_merge'[t] = n
      /\ \A u \in Threads \ {t} : /\ objects_to_merge'[u] = objects_to_merge[u]
                                  /\ local_objects_to_merge'[u] = local_objects_to_merge[u]
  BY <1>1, RefFacts
<1>5. Queued' = Queued
  <2>0. /\ objects_to_merge \in [Threads -> Nat] /\ local_objects_to_merge \in [Threads -> Nat]
        /\ IsFiniteSet(Threads)
        /\ \A u \in Threads \ {t} : objects_to_merge'[u] = objects_to_merge[u]
        /\ \A u \in Threads \ {t} : local_objects_to_merge'[u] = local_objects_to_merge[u]
    BY <1>4, RefFacts
  <2>1. /\ Refs!Total(objects_to_merge') = Refs!Total(objects_to_merge) - objects_to_merge[t] + objects_to_merge'[t]
        /\ Refs!Total(objects_to_merge) \in Nat
    BY <1>4, <2>0, TotalChange
  <2>2. /\ Refs!Total(local_objects_to_merge') = Refs!Total(local_objects_to_merge) - local_objects_to_merge[t]
                                                + local_objects_to_merge'[t]
        /\ Refs!Total(local_objects_to_merge) \in Nat
    BY <1>4, <2>0, TotalChange
  <2>3. objects_to_merge[t] \in Nat /\ local_objects_to_merge[t] \in Nat
    BY RefFacts
  <2>4. QED
    BY <1>4, <2>1, <2>2, <2>3 DEF Queued
<1>6. Held' = Held /\ InHand' = InHand
  BY <1>1, SumsKept
<1>7. Over' <=> Over
  BY <1>1, <1>3 DEF Over
<1>8. RefTypes'
  BY <1>1, <1>3, <1>4, <1>6 DEF RefInv, RefTypes, Refs!TypeOK
<1>9. RefSum' /\ RefOne'
  BY <1>1, <1>3, <1>5, <1>6 DEF RefInv, RefSum, RefOne
<1>10. RefOwner' /\ Refs!UnownedIsMerged'
  BY <1>1, <1>3, <1>5, <1>7, RefFacts DEF RefInv, RefOwner, Refs!UnownedIsMerged
<1>11. ASSUME NEW u \in Threads PROVE RefPlace(u)'
  BY <1>1, <1>3, <1>4, RefFacts DEF RefInv, RefPlace
<1>12. RefOver'
  BY <1>1, <1>3, <1>5, <1>6, <1>7, RefFacts DEF RefInv, RefOver
<1>13. QED
  BY <1>8, <1>9, <1>10, <1>11, <1>12 DEF RefInv

\* A thread leaves the table, or a new one gets its id.
LEMMA TableKeepsRef ==
    ASSUME RefInv, NEW t \in Threads, (r_pc[t] = "check" /\ mutex = NoThread /\ Refs!Removed(t)) \/ Refs!InitThread(t)
    PROVE  RefInv'
<1>1. /\ mutex = NoThread /\ breaker' \in [Threads -> BOOLEAN] /\ leaving' \in [Threads -> BOOLEAN]
      /\ UNCHANGED <<ob_tid, ob_ref_local, ob_ref_shared, freed, weak, refs, objects_to_merge,
                     local_objects_to_merge, mutex, target, local>>
  BY RefFacts DEF Refs!Removed, Refs!InitThread, Refs!object
<1>2. PICK label \in {"gone", "run"} :
        /\ Refs!Goto(t, label) /\ r_pc[t] = (IF label = "gone" THEN "check" ELSE "gone")
        /\ in_table' = [in_table EXCEPT ![t] = label # "gone"]
  <2>1. CASE r_pc[t] = "check" /\ Refs!Removed(t)
    BY <2>1 DEF Refs!Removed
  <2>2. CASE Refs!InitThread(t)
    BY <2>2 DEF Refs!InitThread
  <2>3. QED
    BY <2>1, <2>2
<1>3. /\ r_pc' \in [Threads -> Labels] /\ r_pc'[t] = label /\ Kept' = Kept
      /\ \A u \in Threads : u # t => r_pc'[u] = r_pc[u]
  BY <1>2, Moved, RefNumbers
<1>4. /\ in_table' \in [Threads -> BOOLEAN] /\ in_table'[t] = (label # "gone")
      /\ \A u \in Threads : u # t => in_table'[u] = in_table[u]
  BY <1>2, RefFacts
<1>5. Held' = Held /\ Queued' = Queued /\ InHand' = InHand
  BY <1>1, SumsKept
<1>6. Over' <=> Over
  BY <1>1, <1>2, <1>3 DEF Over
<1>7. RefTypes'
  BY <1>1, <1>3, <1>4, <1>5 DEF RefInv, RefTypes, Refs!TypeOK
<1>8. RefSum' /\ RefOne'
  BY <1>1, <1>3, <1>5 DEF RefInv, RefSum, RefOne
<1>9. RefOwner' /\ Refs!UnownedIsMerged'
  BY <1>1, <1>2, <1>3, <1>5, <1>6, RefFacts DEF RefInv, RefOwner, Refs!UnownedIsMerged
<1>10. ASSUME NEW u \in Threads PROVE RefPlace(u)'
  <2>1. RefPlace(u) /\ mutex # u /\ mutex # t
    BY <1>1, RefFacts DEF RefInv
  <2>2. CASE u = t
    BY <1>1, <1>2, <1>3, <1>4, <2>1, <2>2 DEF RefPlace
  <2>3. CASE u # t
    <3>1. r_pc[u] = "merge" => u = t1
      BY <2>1 DEF RefPlace
    <3>2. r_pc'[u] = r_pc[u] /\ in_table'[u] = in_table[u]
      BY <1>3, <1>4, <2>3
    <3>3. QED
      BY <1>1, <2>1, <3>1, <3>2 DEF RefPlace
  <2>4. QED
    BY <2>2, <2>3
<1>11. RefOver'
  BY <1>1, <1>2, <1>3, <1>5, <1>6, RefFacts DEF RefInv, RefOver
<1>12. QED
  BY <1>7, <1>8, <1>9, <1>10, <1>11 DEF RefInv

\* A collection merges what is queued, and gives its references up.
LEMMA MergeAllQueuedKeepsRef ==
    ASSUME RefInv, NEW t \in Threads, Refs!MergeAllQueued(t)
    PROVE  RefInv'
<1> DEFINE rest == ob_ref_local + ob_ref_shared.count - Queued
           label == IF rest = 0 THEN "drop" ELSE "run"
<1>1. /\ r_pc[t] = "run" /\ Refs!WorldStops(t) /\ Queued > 0
      /\ objects_to_merge' = [u \in Threads |-> 0] /\ local_objects_to_merge' = [u \in Threads |-> 0]
      /\ ob_tid' = NoThread /\ ob_ref_local' = 0
      /\ ob_ref_shared' = Refs!Shared(IF rest = 0 THEN 1 ELSE rest, "merged")
      /\ Refs!Goto(t, label)
      /\ UNCHANGED <<freed, weak, refs, in_table, breaker, mutex, target, local, leaving>>
  BY DEF Refs!MergeAllQueued, Queued
<1>2. Queued = 1 /\ Kept = 0 /\ Held \in Nat /\ InHand \in Nat
  BY <1>1, RefNumbers DEF RefInv, RefOne
<1>3. \A u \in Threads : r_pc[u] \notin Refs!Keeping
  BY <1>2, RefNumbers
<1>4. /\ r_pc' \in [Threads -> Labels] /\ r_pc'[t] = label
      /\ Kept' = IF rest = 0 THEN 1 ELSE 0
      /\ \A u \in Threads : u # t => r_pc'[u] = r_pc[u]
  BY <1>1, <1>2, Moved
<1>5. Queued' = 0 /\ Held' = Held /\ InHand' = InHand
  BY <1>1, SumsKept, TotalZero DEF Queued
<1>6. InHand = 0 /\ \A u \in Threads : local[u] = 0
  BY <1>3, NothingInHand
<1>7. rest = Held
  BY <1>2, <1>6, RefFacts DEF RefInv, RefSum
<1>8. /\ ob_ref_shared'.count = (IF rest = 0 THEN 1 ELSE rest) /\ ob_ref_shared'.flags = "merged"
      /\ ob_ref_shared' \in [count : Int, flags : {"none", "weakref", "queued", "merged"}]
  BY <1>1, <1>2, <1>7 DEF Refs!Shared
<1>9. ~Over
  BY <1>2 DEF RefInv, RefOver
<1>10. ~Over'
  BY <1>1, <1>4, <1>9 DEF Over
<1>11. RefTypes'
  BY <1>1, <1>4, <1>5, <1>8, RefFacts DEF RefInv, RefTypes, Refs!TypeOK
<1>12. RefSum' /\ RefOne'
  BY <1>1, <1>2, <1>4, <1>5, <1>6, <1>7, <1>8 DEF RefSum, RefOne
<1>13. RefOwner' /\ Refs!UnownedIsMerged'
  BY <1>1, <1>6, <1>8, RefFacts DEF RefOwner, Refs!UnownedIsMerged
<1>14. ASSUME NEW u \in Threads PROVE RefPlace(u)'
  BY <1>1, <1>3, <1>4, <1>6, <1>8, RefFacts DEF RefInv, RefPlace, Refs!WorldStops
<1>15. QED
  BY <1>10, <1>11, <1>12, <1>13, <1>14 DEF RefInv, RefOver

\* At first the creator has the only reference.
LEMMA RefInit ==
    ASSUME Refs!Parameters, Refs!Init
    PROVE  RefInv
<1>1. /\ IsFiniteSet(Threads) /\ t1 \in Threads /\ NoThread \notin Threads /\ MaxRefs \in Nat \ {0}
      /\ \A t \in Threads : r_pc[t] = "run"
  BY DEF Refs!Parameters, Refs!Init, IsFiniteSet, Refs!IsFiniteSet
<1>2. Held = 1 /\ Queued = 0 /\ InHand = 0
  <2>1. /\ refs \in [Threads -> Nat] /\ refs[t1] = 1
        /\ \A t \in Threads \ {t1} : refs[t] = 0
        /\ objects_to_merge \in [Threads -> Nat] /\ local_objects_to_merge \in [Threads -> Nat]
        /\ local \in [Threads -> Nat]
        /\ \A t \in Threads : objects_to_merge[t] = 0 /\ local_objects_to_merge[t] = 0 /\ local[t] = 0
    BY <1>1 DEF Refs!Init
  <2>2. Refs!Total(refs) = Refs!Total(local) - local[t1] + refs[t1]
    BY <1>1, <2>1, TotalChange
  <2>3. Refs!Total(objects_to_merge) = 0 /\ Refs!Total(local_objects_to_merge) = 0 /\ Refs!Total(local) = 0
    BY <2>1, TotalZero
  <2>4. QED
    BY <1>1, <2>1, <2>2, <2>3 DEF Held, Queued, InHand
<1>3. Kept = 0
  <2>1. Keepers = {}
    BY <1>1 DEF Keepers
  <2>2. QED
    BY <2>1, FS_EmptySet DEF Kept
<1>4. ~Over
  BY <1>1 DEF Over, Refs!Init
<1>5. RefTypes
  <2>1. refs \in [Threads -> 0..MaxRefs] /\ Held <= MaxRefs
    BY <1>1, <1>2 DEF Refs!Init
  <2>2. ob_ref_shared \in [count : Int, flags : {"none", "weakref", "queued", "merged"}]
    BY DEF Refs!Init, Refs!REF_SHARED_INIT, Refs!Shared
  <2>3. r_pc \in [Threads -> Labels]
    BY DEF Refs!Init
  <2>4. QED
    BY <1>1, <2>1, <2>2, <2>3 DEF RefTypes, Refs!TypeOK, Refs!Init
<1>6. RefSum /\ RefOne /\ RefOwner /\ Refs!UnownedIsMerged
  BY <1>1, <1>2, <1>3 DEF RefSum, RefOne, RefOwner, Refs!UnownedIsMerged, Refs!Init, Refs!REF_SHARED_INIT, Refs!Shared
<1>7. ASSUME NEW t \in Threads PROVE RefPlace(t)
  BY <1>1 DEF RefPlace, Refs!Init
<1>8. QED
  BY <1>4, <1>5, <1>6, <1>7 DEF RefInv, RefOver

\* Every step keeps the counts exact.
LEMMA RefStep ==
    ASSUME RefInv, [Refs!Next]_(Refs!vars)
    PROVE  RefInv'
<1>1. ASSUME NEW t \in Threads, Refs!Step(t) PROVE RefInv'
  <2>1. CASE Refs!Take(t) \/ Refs!RemoveThread(t)
    BY <2>1, TakeObjectsKeepsRef, TableKeepsRef DEF Refs!Take, Refs!RemoveThread
  <2>2. CASE ~Refs!Take(t) /\ ~Refs!RemoveThread(t)
    BY <1>1, <2>2, MergeZeroKeepsRef, DisownKeepsRef, MarkMergedKeepsRef, DeallocKeepsRef, QueueObjectKeepsRef,
       PushKeepsRef, AbandonedKeepsRef, ExplicitMergeKeepsRef, MergeStoppedKeepsRef,
       HandlePendingKeepsRef, PopKeepsRef, CleanupWorklistKeepsRef
       DEF Refs!Step
  <2>3. QED
    BY <2>1, <2>2
<1>2. ASSUME NEW t \in Threads, Refs!IncRef(t) \/ Refs!TryIncRef(t) \/ Refs!DecRef(t) \/ Refs!SetMaybeWeakref(t) PROVE RefInv'
  BY <1>2, IncRefKeepsRef, DecRefKeepsRef, SetMaybeWeakrefKeepsRef
<1>3. ASSUME NEW t \in Threads, NEW u \in Threads, Refs!Give(t, u) PROVE RefInv'
  BY <1>3, GiveKeepsRef
<1>4. ASSUME NEW t \in Threads, Refs!Clear(t) \/ Refs!InitThread(t) \/ Refs!MergeAllQueued(t) PROVE RefInv'
  BY <1>4, HandlePendingKeepsRef, TableKeepsRef, MergeAllQueuedKeepsRef
<1>5. CASE UNCHANGED Refs!vars
  <2>1. UNCHANGED <<ob_tid, ob_ref_local, ob_ref_shared, freed, weak, refs, objects_to_merge, local_objects_to_merge,
                    in_table, breaker, mutex, target, local, leaving, r_pc>>
    BY <1>5 DEF Refs!vars, Refs!object, Refs!queues
  <2>2. Held' = Held /\ Queued' = Queued /\ Kept' = Kept /\ InHand' = InHand
    BY <2>1, SumsKept
  <2>3. Over' <=> Over
    BY <2>1 DEF Over
  <2>4. RefTypes' /\ RefSum' /\ RefOne' /\ RefOwner' /\ Refs!UnownedIsMerged' /\ RefOver'
    BY <2>1, <2>2, <2>3 DEF RefInv, RefTypes, Refs!TypeOK, RefSum, RefOne, RefOwner, Refs!UnownedIsMerged, RefOver
  <2>5. ASSUME NEW t \in Threads PROVE RefPlace(t)'
    BY <2>1 DEF RefInv, RefPlace
  <2>6. QED
    BY <2>4, <2>5 DEF RefInv
<1>6. QED
  BY <1>1, <1>2, <1>3, <1>4, <1>5 DEF Refs!Next

\* What the invariant says of the counts.
LEMMA RefInvSays ==
    ASSUME RefInv
    PROVE  Refs!RefcountExact
<1>1. Held \in Nat /\ Queued \in Nat /\ Kept \in Nat /\ Refs!References = Held + Queued + Kept
  <2>1. Refs!References = Refs!Total(refs) + Refs!Total(objects_to_merge) + Refs!Total(local_objects_to_merge) + Kept
    BY DEF Refs!References, Kept, Keepers, Cardinality, Refs!Cardinality
  <2>2. Refs!Total(objects_to_merge) \in Nat /\ Refs!Total(local_objects_to_merge) \in Nat
    BY RefFacts, TotalChange
  <2>3. QED
    BY <2>1, <2>2, RefNumbers DEF Held, Queued
<1>2. Refs!SumIsExact
  BY <1>1 DEF RefInv, RefSum, Refs!SumIsExact, InHand
<1>3. Refs!DeallocatedUnused
  <2> DEFINE deallocating == {t \in Threads : r_pc[t] = "dealloc"}
  <2>1. SUFFICES ASSUME freed \/ deallocating # {}
                 PROVE  /\ Refs!References = 0
                        /\ Cardinality(deallocating) + (IF freed THEN 1 ELSE 0) = 1
                        /\ \A t \in Threads : r_pc[t] \notin {"merge_zero", "disown", "mark"}
    BY DEF Refs!DeallocatedUnused, Cardinality, Refs!Cardinality
  <2>2. Over
    BY <2>1 DEF Over
  <2>3. /\ Refs!References = 0
        /\ \A t \in Threads : r_pc[t] \notin {"merge_zero", "disown", "mark"}
        /\ freed => deallocating = {}
        /\ \A t, u \in deallocating : t = u
    BY <1>1, <2>2 DEF RefInv, RefOver
  <2>4. CASE freed
    BY <2>3, <2>4, FS_EmptySet
  <2>5. CASE ~freed
    <3>1. PICK t \in deallocating : deallocating = {t}
      BY <2>1, <2>3, <2>5
    <3>2. Cardinality(deallocating) = 1
      BY <3>1, FS_Singleton
    <3>3. QED
      BY <2>3, <2>5, <3>2
  <2>6. QED
    BY <2>4, <2>5
<1>4. QED
  BY <1>2, <1>3 DEF RefInv, RefTypes, Refs!RefcountExact

\* In a behaviour of all parts the object's counts take their own steps.
LEMMA RefsPart == AllSpec => Refs!Init /\ [][Refs!Next]_(Refs!vars)
<1>1. AllInit => Refs!Init
  BY DEF AllInit
<1>2. [AllNext]_allVars => [Refs!Next]_(Refs!vars)
  BY DEF AllNext, allVars, refVars, Refs!vars, Refs!object, Refs!queues
<1>3. QED
  BY <1>1, <1>2, PTL DEF AllSpec

\* However many threads share the object, in whatever order they give its
\* references away, merge its counts and exit: the two fields and what is on
\* its way between them add up to the references there are, and it is freed
\* once, when there are none.
THEOREM RefcountStaysExact == AllSpec => []RefcountExact
<1>1. Refs!Init => RefInv
  BY ThreadsAssumption, RefInit
<1>2. RefInv /\ [Refs!Next]_(Refs!vars) => RefInv'
  BY RefStep
<1>3. RefInv => RefcountExact
  BY RefInvSays DEF RefcountExact
<1>4. QED
  BY <1>1, <1>2, <1>3, RefsPart, PTL

=============================================================================

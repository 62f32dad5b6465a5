-------------------------- MODULE CriticalSection --------------------------
(***************************************************************************)
(* Critical sections (Python/critical_section.c and its header, in the     *)
(* free-threaded build): a thread begins and ends nested sections, each    *)
(* on one or two objects' mutexes, in whatever order its calls nest.  When *)
(* the thread detaches, to block on a mutex or for another reason, all its *)
(* sections are suspended: they give up their mutexes.  Only the section   *)
(* on top is resumed when the thread attaches, the others when they come   *)
(* on top again.                                                           *)
(*                                                                         *)
(* The mutexes are PyMutexes.  PyMutex and ParkingLot show what is taken   *)
(* here as a step: a lock that is free is taken, one that is not is        *)
(* waited for in a queue, and unlocking wakes the first in the queue, to   *)
(* which it may hand the lock off.                                         *)
(***************************************************************************)
EXTENDS Integers, FiniteSets, SequencesExt

CONSTANTS Threads, NoThread,
          Mutexes,     \* the addresses of the mutexes
          MaxDepth     \* bound: how deep sections nest

Parameters ==
    /\ NoThread \notin Threads
    /\ IsFiniteSet(Threads)
    /\ Mutexes \subseteq Nat
    /\ MaxDepth \in Nat

VARIABLES owner,    \* the thread that has locked each mutex
          queue,    \* the threads that wait for each mutex
          signal,   \* how a waiting thread was woken, if it was
          stack,    \* tstate->critical_section and the _cs_prev links; top last
          want,     \* the mutexes a thread has yet to lock
          release,  \* the mutexes a thread has yet to unlock
          level,    \* the section that SuspendAll is at
          pc        \* where each thread is

locks == <<owner, queue, signal>>
vars == <<locks, stack, want, release, level, pc>>

\* A section: the mutexes it is on, in the order of their addresses; are they
\* recorded in it (_cs_mutex), or still NULL?  Is it active?
Section == [on : Seq(Mutexes), recorded : BOOLEAN, active : BOOLEAN]

Init ==
    /\ owner = [m \in Mutexes |-> NoThread]
    /\ queue = [m \in Mutexes |-> <<>>]
    /\ signal = [t \in Threads |-> "no"]
    /\ stack = [t \in Threads |-> <<>>]
    /\ want = [t \in Threads |-> <<>>]
    /\ release = [t \in Threads |-> <<>>]
    /\ level = [t \in Threads |-> 0]
    /\ pc = [t \in Threads |-> "run"]

Goto(t, label) == pc' = [pc EXCEPT ![t] = label]

Top(t) == Last(stack[t])

\* stack, with another section on top.
WithTop(t, section) == [stack EXCEPT ![t][Len(stack[t])] = section]

Push(t, on, locked) ==
    stack' = [stack EXCEPT ![t] = Append(@, [on |-> on, recorded |-> locked, active |-> TRUE])]

(***************************************************************************)
(* The mutexes.                                                            *)
(***************************************************************************)

Free(m) == owner[m] = NoThread

Take(t, m) == owner' = [owner EXCEPT ![m] = t] /\ UNCHANGED <<queue, signal>>

\* PyMutex_Unlock: the first that waits is woken, with or without the lock.
Unlock(m) ==
    IF queue[m] = <<>>
    THEN owner' = [owner EXCEPT ![m] = NoThread] /\ UNCHANGED <<queue, signal>>
    ELSE /\ queue' = [queue EXCEPT ![m] = Tail(@)]
         /\ \/ /\ owner' = [owner EXCEPT ![m] = NoThread]
               /\ signal' = [signal EXCEPT ![Head(queue[m])] = "woken"]
            \/ /\ owner' = [owner EXCEPT ![m] = Head(queue[m])]
               /\ signal' = [signal EXCEPT ![Head(queue[m])] = "handed off"]

(***************************************************************************)
(* Begin.                                                                  *)
(***************************************************************************)

\* The slow paths: the section is on top, with nothing recorded, while its
\* mutexes are locked.
BeginSlow(t, on, rest) ==
    /\ Push(t, on, FALSE)
    /\ want' = [want EXCEPT ![t] = rest]
    /\ Goto(t, "lock")
    /\ UNCHANGED locks

\* _PyCriticalSection_BeginMutex.
Begin(t) ==
    /\ pc[t] = "run" /\ Len(stack[t]) < MaxDepth
    /\ \E m \in Mutexes :
          IF Free(m) THEN Take(t, m) /\ Push(t, <<m>>, TRUE) /\ UNCHANGED <<want, pc>>
                     ELSE BeginSlow(t, <<m>>, <<m>>)
    /\ UNCHANGED <<release, level>>

\* Faulty: in whatever order the objects come.
InGivenOrder(m1, m2) == <<m1, m2>>

\* "Sort the mutexes so that the lower address is locked first."
InOrder(m1, m2) == IF m2 < m1 THEN <<m2, m1>> ELSE <<m1, m2>>

\* _PyCriticalSection2_BeginMutex, of two mutexes that differ (Begin, if they
\* do not): the first compare-and-swap ...
Begin2(t) ==
    /\ pc[t] = "run" /\ Len(stack[t]) < MaxDepth
    /\ \E m1, m2 \in Mutexes :
          LET on == InOrder(m1, m2) IN
          /\ m1 # m2
          /\ IF Free(on[1])
             THEN /\ Take(t, on[1])
                  /\ want' = [want EXCEPT ![t] = on]
                  /\ Goto(t, "begin2")
                  /\ UNCHANGED stack
             ELSE BeginSlow(t, on, on)
    /\ UNCHANGED <<release, level>>

\* ... and the second.
Begin2Second(t) ==
    /\ pc[t] = "begin2"
    /\ LET on == want[t] IN
       IF Free(on[2])
       THEN /\ Take(t, on[2])
            /\ Push(t, on, TRUE)
            /\ want' = [want EXCEPT ![t] = <<>>]
            /\ Goto(t, "run")
       ELSE BeginSlow(t, on, <<on[2]>>)
    /\ UNCHANGED <<release, level>>

\* One mutex less to lock; the section is complete when none is left.
Locked(t) ==
    /\ want' = [want EXCEPT ![t] = Tail(@)]
    /\ IF Tail(want[t]) = <<>>
       THEN /\ stack' = WithTop(t, [Top(t) EXCEPT !.recorded = TRUE, !.active = TRUE])
            /\ Goto(t, "run")
       ELSE /\ stack' = WithTop(t, [Top(t) EXCEPT !.active = @ \/ pc[t] = "parked"])
            /\ Goto(t, "lock")

\* PyMutex_Lock, of a mutex that is free, or of one that is not: the thread
\* joins the queue and detaches.
Lock(t) ==
    LET m == Head(want[t]) IN
    /\ pc[t] = "lock"
    /\ IF Free(m)
       THEN Take(t, m) /\ Locked(t) /\ UNCHANGED <<release, level>>
       ELSE /\ queue' = [queue EXCEPT ![m] = Append(@, t)]
            /\ level' = [level EXCEPT ![t] = Len(stack[t])]
            /\ Goto(t, "suspend")
            /\ UNCHANGED <<owner, signal, stack, want, release>>

\* The thread is woken, attaches and so makes the section on top active again
\* (nothing is recorded in it); it has the lock or tries again.
Woken(t) ==
    /\ pc[t] = "parked" /\ signal[t] # "no"
    /\ signal' = [signal EXCEPT ![t] = "no"]
    /\ IF signal[t] = "handed off" THEN Locked(t)
       ELSE /\ stack' = WithTop(t, [Top(t) EXCEPT !.active = TRUE])
            /\ Goto(t, "lock")
            /\ UNCHANGED want
    /\ UNCHANGED <<owner, queue, release, level>>

(***************************************************************************)
(* Suspend and resume.                                                     *)
(***************************************************************************)

\* A thread detaches of its own accord, or to stop for another thread.
Detach(t) ==
    /\ pc[t] = "run"
    /\ level' = [level EXCEPT ![t] = Len(stack[t])]
    /\ Goto(t, "suspend")
    /\ UNCHANGED <<locks, stack, want, release>>

\* Faulty: only the section on top is suspended.
SuspendTop(t) ==
    LET k == level[t] IN
    /\ pc[t] = "suspend" /\ release[t] = <<>>
    /\ IF k = Len(stack[t]) /\ k > 0 /\ stack[t][k].active
       THEN /\ stack' = [stack EXCEPT ![t][k].active = FALSE]
            /\ release' = [release EXCEPT ![t] = IF stack[t][k].recorded THEN stack[t][k].on ELSE <<>>]
            /\ level' = [level EXCEPT ![t] = k - 1]
            /\ UNCHANGED pc
       ELSE /\ level' = [level EXCEPT ![t] = 0]
            /\ Goto(t, IF want[t] = <<>> THEN "detached" ELSE "parked")
            /\ UNCHANGED <<stack, release>>
    /\ UNCHANGED <<locks, want>>

\* _PyCriticalSection_SuspendAll, section by section until one is inactive.
SuspendAll(t) ==
    LET k == level[t] IN
    /\ pc[t] = "suspend" /\ release[t] = <<>>
    /\ IF k > 0 /\ stack[t][k].active
       THEN /\ stack' = [stack EXCEPT ![t][k].active = FALSE]
            /\ release' = [release EXCEPT ![t] = IF stack[t][k].recorded THEN stack[t][k].on ELSE <<>>]
            /\ level' = [level EXCEPT ![t] = k - 1]
            /\ UNCHANGED pc
       ELSE /\ level' = [level EXCEPT ![t] = 0]
            /\ Goto(t, IF want[t] = <<>> THEN "detached" ELSE "parked")
            /\ UNCHANGED <<stack, release>>
    /\ UNCHANGED <<locks, want>>

\* A mutex of the section that is suspended or ended.
Release(t) ==
    /\ release[t] # <<>>
    /\ Unlock(Head(release[t]))
    /\ release' = [release EXCEPT ![t] = Tail(@)]
    /\ UNCHANGED <<stack, want, level, pc>>

\* _PyCriticalSection_Resume: nothing is recorded in the section while its
\* mutexes are locked again.
Resume(t, sections) ==
    /\ stack' = [stack EXCEPT ![t] = Append(Front(sections), [Last(sections) EXCEPT !.recorded = FALSE])]
    /\ want' = [want EXCEPT ![t] = Last(sections).on]
    /\ Goto(t, "lock")

\* The thread attaches.
Attach(t) ==
    /\ pc[t] = "detached"
    /\ IF stack[t] = <<>> THEN Goto(t, "run") /\ UNCHANGED <<stack, want>>
                          ELSE Resume(t, stack[t])
    /\ UNCHANGED <<locks, release, level>>

(***************************************************************************)
(* End.                                                                    *)
(***************************************************************************)

\* _PyCriticalSection_End and _PyCriticalSection2_End unlock the mutexes ...
End(t) ==
    /\ pc[t] = "run" /\ stack[t] # <<>>
    /\ release' = [release EXCEPT ![t] = Reverse(Top(t).on)]
    /\ Goto(t, "pop")
    /\ UNCHANGED <<locks, stack, want, level>>

\* Faulty: the section underneath stays suspended.
PopUnresumed(t) ==
    /\ pc[t] = "pop" /\ release[t] = <<>>
    /\ stack' = [stack EXCEPT ![t] = Front(@)]
    /\ Goto(t, "run")
    /\ UNCHANGED <<locks, want, release, level>>

\* ... and pop the section; the one underneath is resumed if it is inactive.
Pop(t) ==
    LET rest == Front(stack[t]) IN
    /\ pc[t] = "pop" /\ release[t] = <<>>
    /\ IF rest # <<>> /\ ~Last(rest).active THEN Resume(t, rest)
       ELSE /\ stack' = [stack EXCEPT ![t] = rest]
            /\ Goto(t, "run")
            /\ UNCHANGED want
    /\ UNCHANGED <<locks, release, level>>

Step(t) ==
    \/ Begin2Second(t) \/ Lock(t) \/ Woken(t) \/ SuspendAll(t) \/ Release(t)
    \/ Attach(t) \/ End(t) \/ Pop(t)

Next == \E t \in Threads : Begin(t) \/ Begin2(t) \/ Detach(t) \/ Step(t)

Spec == Init /\ [][Next]_vars

\* What is begun is ended; nobody has to begin or detach.
FairSpec == Spec /\ \A t \in Threads : WF_vars(Step(t))

(***************************************************************************)
(* Properties.                                                             *)
(***************************************************************************)

TypeOK ==
    /\ owner \in [Mutexes -> Threads \cup {NoThread}]
    /\ queue \in [Mutexes -> Seq(Threads)]
    /\ signal \in [Threads -> {"no", "woken", "handed off"}]
    /\ \A t \in Threads : stack[t] \in Seq(Section) /\ level[t] \in 0..Len(stack[t])
    /\ want \in [Threads -> Seq(Mutexes)] /\ release \in [Threads -> Seq(Mutexes)]

\* "Only the top-most critical section is guaranteed to be active": it is
\* whenever its thread runs, and the thread has the mutexes of every section
\* that is active, although others may have had them in between.
ActiveMeansLocked ==
    \A t \in Threads : pc[t] = "run" /\ stack[t] # <<>> =>
        /\ Top(t).active
        /\ \A k \in DOMAIN stack[t] : stack[t][k].active =>
              stack[t][k].recorded /\ \A m \in ToSet(stack[t][k].on) : owner[m] = t

\* A thread waits: it is asleep and the mutex is not yet its own.
WaitsFor(t, u) ==
    pc[t] = "parked" /\ signal[t] = "no" /\ owner[Head(want[t])] = u

\* "If threads were to acquire the same locks in different orders, they would
\* deadlock": no threads wait for each other in a circle, nor one for itself,
\* in whatever order their sections nest.
NoCircularWait ==
    \A S \in (SUBSET Threads) \ {{}} : \E t \in S : \A u \in S : ~WaitsFor(t, u)

\* Somebody always gets on: whatever threads ask for, they are not all left
\* waiting, be it for each other or for a mutex that nobody has.
SectionsProgress == []<>(\E t \in Threads : pc[t] = "run")

=============================================================================

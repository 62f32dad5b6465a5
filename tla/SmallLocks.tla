----------------------------- MODULE SmallLocks -----------------------------
(***************************************************************************)
(* The small locks, next to each other: in a behaviour threads use the one *)
(* that which names.  Those over the parking lot share its state, and the  *)
(* lock at the address lock.  RawMutex is extended, the others are         *)
(* instances.                                                              *)
(***************************************************************************)
EXTENDS RawMutex, Sequences

CONSTANTS Addrs, NoAddr, Buckets, BucketOf,  \* the parking lot's
          lock,       \* the address of the lock that is used
          MaxDepth,   \* bound: how deep a recursive lock or sections nest
          Nesters,    \* the threads that nest critical sections
          Mutexes     \* the mutexes that those are on

ASSUME SmallLocksAssumption ==
         /\ BucketOf \in [Addrs -> Buckets]
         /\ NoAddr \notin Addrs
         /\ lock \in Addrs
         /\ MaxDepth \in Nat
         /\ Nesters \subseteq Threads
         /\ Mutexes \subseteq Nat
         /\ IsFiniteSet(Threads)

VARIABLES which,
          owners_rec, thread, level, rec_pc, depth,
          addr, waiters, num_waiters, is_unparking, lot_sema, parked, to_wake, lock_pc,
          bits, want, rw_v,
          evt, timed, ret,
          flag, once_v, res,
          owner, queue, signal, stack, cs_want, release, cs_level, cs_pc

Rec == INSTANCE RecursiveMutex WITH owners <- owners_rec, pc <- rec_pc

RW == INSTANCE RWMutex WITH
    rwmutex <- lock, Interruptible <- TRUE, sema <- lot_sema, pc <- lock_pc, v <- rw_v

Event == INSTANCE PyEvent WITH
    event <- lock, Interruptible <- TRUE, sema <- lot_sema, pc <- lock_pc

Once == INSTANCE OnceFlag WITH
    once <- lock, Interruptible <- TRUE, sema <- lot_sema, pc <- lock_pc, v <- once_v

Sections == INSTANCE CriticalSection WITH
    Threads <- Nesters, want <- cs_want, level <- cs_level, pc <- cs_pc

ASSUME Rec!Parameters /\ RW!Parameters /\ Event!Parameters /\ Once!Parameters /\ Sections!Parameters

recVars == <<owners_rec, thread, level, rec_pc, depth>>
lotVars == <<addr, waiters, num_waiters, is_unparking, lot_sema, parked, to_wake, lock_pc>>
rwVars == <<bits, want, rw_v>>
eventVars == <<evt, timed, ret>>
onceVars == <<flag, once_v, res>>
sectionVars == <<owner, queue, signal, stack, cs_want, release, cs_level, cs_pc>>

allVars == <<which, vars, recVars, lotVars, rwVars, eventVars, onceVars, sectionVars>>

AllInit ==
    /\ which \in {"recursive", "raw", "rw", "event", "once", "sections"}
    /\ Init /\ Rec!Init /\ RW!Init /\ Event!Init /\ Once!Init /\ Sections!Init

OnLot == UNCHANGED <<vars, recVars, sectionVars>>

AllNext ==
    /\ UNCHANGED which
    /\ \/ which = "recursive" /\ Rec!Next
          /\ UNCHANGED <<vars, lotVars, rwVars, eventVars, onceVars, sectionVars>>
       \/ which = "raw" /\ Next
          /\ UNCHANGED <<recVars, lotVars, rwVars, eventVars, onceVars, sectionVars>>
       \/ which = "rw" /\ RW!Next /\ OnLot /\ UNCHANGED <<eventVars, onceVars>>
       \/ which = "event" /\ Event!Next /\ OnLot /\ UNCHANGED <<rwVars, onceVars>>
       \/ which = "once" /\ Once!Next /\ OnLot /\ UNCHANGED <<rwVars, eventVars>>
       \/ which = "sections" /\ Sections!Next
          /\ UNCHANGED <<vars, recVars, lotVars, rwVars, eventVars, onceVars>>

\* The steps that the modules are fair to.
FairStep(t) ==
    /\ UNCHANGED which
    /\ \/ which = "raw" /\ Step(t)
          /\ UNCHANGED <<recVars, lotVars, rwVars, eventVars, onceVars, sectionVars>>
       \/ which = "rw" /\ RW!Step(t)
          /\ OnLot /\ UNCHANGED <<eventVars, onceVars>>
       \/ which = "event" /\ Event!Step(t)
          /\ OnLot /\ UNCHANGED <<rwVars, onceVars>>
       \/ which = "once" /\ Once!Step(t)
          /\ OnLot /\ UNCHANGED <<rwVars, eventVars>>
       \/ which = "sections" /\ t \in Nesters /\ Sections!Step(t)
          /\ UNCHANGED <<vars, recVars, lotVars, rwVars, eventVars, onceVars>>

AllSpec == AllInit /\ [][AllNext]_allVars /\ \A t \in Threads : WF_allVars(FairStep(t))

(***************************************************************************)
(* Properties: those of the module that which names.                       *)
(***************************************************************************)

\* The type invariants.
TypesOK ==
    /\ TypeOK /\ Rec!TypeOK /\ Sections!TypeOK
    /\ which = "rw" => RW!TypeOK
    /\ which = "event" => Event!TypeOK
    /\ which = "once" => Once!TypeOK

HeldUntilOutermost == Rec!HeldUntilOutermost
OwnerKnowsItself == Rec!OwnerKnowsItself

BitsExact == which = "rw" => RW!BitsExact
WriterGetsIn == RW!WriterGetsIn

WokenMeansSet == which = "event" => Event!WokenMeansSet
SetReleasesAll == Event!SetReleasesAll

RunsOnce == which = "once" => Once!RunsOnce

\* (Of the readers-writer lock too, which has the same label.)
SleepersWake == which \in {"rw", "once"} => Once!SleepersWake

ActiveMeansLocked == Sections!ActiveMeansLocked
NoCircularWait == Sections!NoCircularWait
SectionsProgress == Sections!SectionsProgress

=============================================================================

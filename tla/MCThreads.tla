----------------------------- MODULE MCThreads -----------------------------
(***************************************************************************)
(* What threads go through besides locks, for TLC, next to each other: in  *)
(* a behaviour they use the GIL, their handles, or an object that they     *)
(* share, as which says.  ThreadHandle is extended, GIL and BiasedRefcount *)
(* are instances.                                                          *)
(***************************************************************************)
EXTENDS ThreadHandle

CONSTANTS NoThread, t1, MaxRefs

VARIABLES which,
          locked, last_holder, drop_request, drop_requested, switched, abandoned,
          g_pc, finalizing, g_forked,
          ob_tid, ob_ref_local, ob_ref_shared, freed, weak, refs,
          objects_to_merge, local_objects_to_merge, in_table, breaker, mutex,
          target, local, leaving, r_pc

GIL == INSTANCE GIL WITH pc <- g_pc, forked <- g_forked

Refs == INSTANCE BiasedRefcount WITH Unowned <- NoThread, Creator <- t1, pc <- r_pc

ASSUME ThreadsAssumption == Parameters /\ GIL!Parameters /\ Refs!Parameters

gilVars == <<locked, last_holder, drop_request, drop_requested, switched, abandoned,
             g_pc, finalizing, g_forked>>
refVars == <<ob_tid, ob_ref_local, ob_ref_shared, freed, weak, refs,
             objects_to_merge, local_objects_to_merge, in_table, breaker, mutex,
             target, local, leaving, r_pc>>
allVars == <<which, gilVars, vars, refVars>>

AllInit ==
    /\ which \in {"gil", "handles", "refs"}
    /\ GIL!Init /\ Init /\ Refs!Init
    /\ which # "handles" => daemon = [t \in Threads |-> FALSE]

AllNext ==
    /\ UNCHANGED which
    /\ \/ which = "gil" /\ GIL!Next /\ UNCHANGED <<vars, refVars>>
       \/ which = "handles" /\ Next /\ UNCHANGED <<gilVars, refVars>>
       \/ which = "refs" /\ Refs!Next /\ UNCHANGED <<gilVars, vars>>

\* The steps that the modules are fair to.
FairStep(t) ==
    /\ UNCHANGED which
    /\ \/ which = "gil" /\ GIL!Step(t) /\ UNCHANGED <<vars, refVars>>
       \/ which = "handles" /\ Step(t) /\ UNCHANGED <<gilVars, refVars>>
       \/ which = "refs" /\ Refs!Step(t) /\ UNCHANGED <<gilVars, vars>>

FairShutdown ==
    /\ UNCHANGED which
    /\ which = "handles" /\ ShutdownStep /\ UNCHANGED <<gilVars, refVars>>

AllSpec ==
    /\ AllInit /\ [][AllNext]_allVars
    /\ \A t \in Threads : WF_allVars(FairStep(t))
    /\ WF_allVars(FairShutdown)

HolderConsistent == GIL!HolderConsistent
RequestSwitches == GIL!RequestSwitches
DropperResumes == GIL!DropperResumes
RefcountExact == Refs!RefcountExact
GarbageFreed == which = "refs" => Refs!GarbageFreed

=============================================================================

--------------------------- MODULE MCThreadStates ---------------------------
(***************************************************************************)
(* Thread states for TLC: in a behaviour the threads stop each other's     *)
(* world, or they reclaim memory, as which says.  StopTheWorld is          *)
(* extended, with two interpreters, of the first of which t1 stays and t2  *)
(* comes and goes; QSBR is an instance, with threads of its own.           *)
(***************************************************************************)
EXTENDS MCStopTheWorld, Sequences, TLC

CONSTANTS Reclaimers, Blocks, NoBlock, MinArraySize, DeferredLimit, MaxSeq

VARIABLES which,
          wr_seq, rd_seq, array, freelist, qsbr, shared, freed, holds,
          queue, interp, q_pc, resume, seq, min_seq, i, removed, child

Reclaim == INSTANCE QSBR WITH Threads <- Reclaimers, Main <- t1, pc <- q_pc

ASSUME ReclaimAssumption == Reclaim!Parameters

reclaimVars == <<wr_seq, rd_seq, array, freelist, qsbr, shared, freed, holds,
                 queue, interp, q_pc, resume, seq, min_seq, i, removed, child>>

allVars == <<which, vars, reclaimVars>>

AllInit == which \in {"world", "reclaim"} /\ Init /\ Reclaim!Init

AllNext ==
    /\ UNCHANGED which
    /\ \/ which = "world" /\ Next /\ UNCHANGED reclaimVars
       \/ which = "reclaim" /\ Reclaim!Next /\ UNCHANGED vars

AllSpec == AllInit /\ [][AllNext]_allVars

NoUseAfterFree == which = "reclaim" => Reclaim!NoUseAfterFree
FreedOnce == which = "reclaim" => Reclaim!FreedOnce
SlotsOwned == which = "reclaim" => Reclaim!SlotsOwned
OnlyHandedOffIsLeft == Reclaim!OnlyHandedOffIsLeft

Symmetry == Permutations(Blocks)

=============================================================================

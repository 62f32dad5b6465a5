------------------------------ MODULE SeqLock ------------------------------
(***************************************************************************)
(* _PySeqLock (Python/lock.c) and its user, an entry of the type attribute *)
(* cache (Objects/typeobject.c, free-threaded build).  Writers make the    *)
(* sequence odd while they write the three fields; a reader accepts what   *)
(* it read if the sequence was even and has not moved.                     *)
(*                                                                         *)
(* The fields are read and written with relaxed atomics, whose order only  *)
(* the sequence's barriers constrain: here they are read, and written, in  *)
(* any order between those barriers.                                       *)
(***************************************************************************)
EXTENDS Naturals, FiniteSets

CONSTANTS Threads,
          Versions,    \* type versions, positive
          Names,       \* attribute names
          NoName,      \* Py_None, the name of an empty entry
          NULL,        \* no value
          Wrap,        \* the sequence counts modulo Wrap (2^32)
          MaxWrites    \* bound: updates that may start during one read

ASSUME SeqLockAssumption ==
         /\ Versions \subseteq Nat \ {0}
         /\ NoName \notin Names
         /\ Wrap \in Nat /\ Wrap > 0 /\ Wrap % 2 = 0
         /\ MaxWrites \in Nat

VARIABLES sequence,   \* entry->sequence
          entry,      \* the other fields of the entry
          pc,         \* where each thread is
          seq,        \* its local copy of the sequence: prev, or sequence
          key,        \* the version and name it looks up, or caches
          got,        \* the fields it has read so far
          todo,       \* the fields it has yet to read, or write
          writes      \* updates started since it began to read

locals == <<pc, seq, key, got, todo, writes>>
vars == <<sequence, entry, locals>>

Fields == {"version", "name", "value"}

\* What the mro lookup finds for a name in a version of the type.
ValueOf(k) == k

Keys == Versions \X Names

\* The contents of the entry for a key, and those of a cleared entry.
Contents(k) == [version |-> k[1], name |-> k[2], value |-> ValueOf(k)]

Empty == [version |-> 0, name |-> NoName, value |-> NULL]

NoKey == <<0, NoName>>

NewContents(t) == IF key[t] = NoKey THEN Empty ELSE Contents(key[t])

IsUpdating(s) == s % 2 = 1

Init ==
    /\ sequence = 0
    /\ entry = Empty
    /\ pc = [t \in Threads |-> "idle"]
    /\ seq = [t \in Threads |-> 0]
    /\ key = [t \in Threads |-> NoKey]
    /\ got = [t \in Threads |-> Empty]
    /\ todo = [t \in Threads |-> {}]
    /\ writes = [t \in Threads |-> 0]

Goto(t, label) == pc' = [pc EXCEPT ![t] = label]

\* The locals of a call die with it.
Return(t) ==
    /\ Goto(t, "idle")
    /\ seq' = [seq EXCEPT ![t] = 0]
    /\ key' = [key EXCEPT ![t] = NoKey]
    /\ got' = [got EXCEPT ![t] = Empty]
    /\ todo' = [todo EXCEPT ![t] = {}]
    /\ writes' = [writes EXCEPT ![t] = 0]

(***************************************************************************)
(* Writers: update_cache_gil_disabled and type_cache_clear (NoKey).        *)
(***************************************************************************)

\* _PySeqLock_LockWrite: the load.
LockWrite(t, k) ==
    /\ pc[t] = "idle"
    /\ key' = [key EXCEPT ![t] = k]
    /\ seq' = [seq EXCEPT ![t] = sequence]
    /\ Goto(t, "lock")
    /\ UNCHANGED <<sequence, entry, got, todo, writes>>

\* The retry: somebody else updates, or did in between.
LockWriteAgain(t) ==
    /\ pc[t] = "lock"
    /\ IsUpdating(seq[t]) \/ sequence # seq[t]
    /\ seq' = [seq EXCEPT ![t] = sequence]
    /\ UNCHANGED <<sequence, entry, pc, key, got, todo, writes>>

\* The compare-and-swap from an even sequence to the next one.
LockWriteGrab(t) ==
    /\ pc[t] = "lock"
    /\ ~IsUpdating(seq[t])
    /\ sequence = seq[t]
    /\ sequence' = (sequence + 1) % Wrap
    /\ \A u \in Threads : pc[u] = "read" => writes[u] < MaxWrites
    /\ writes' = [u \in Threads |-> IF pc[u] = "read" THEN writes[u] + 1 ELSE writes[u]]
    /\ seq' = [seq EXCEPT ![t] = 0]
    /\ Goto(t, "locked")
    /\ UNCHANGED <<entry, key, got, todo>>

\* _PySeqLock_AbandonWrite: the entry has the contents already.
AbandonWrite(t) ==
    /\ pc[t] = "locked"
    /\ key[t] # NoKey
    /\ entry = NewContents(t)
    /\ sequence' = (sequence - 1) % Wrap
    /\ Return(t)
    /\ UNCHANGED entry

StartUpdate(t) ==
    /\ pc[t] = "locked"
    /\ key[t] = NoKey \/ entry # NewContents(t)
    /\ todo' = [todo EXCEPT ![t] = Fields]
    /\ Goto(t, "write")
    /\ UNCHANGED <<sequence, entry, seq, key, got, writes>>

WriteField(t, f) ==
    /\ pc[t] = "write"
    /\ f \in todo[t]
    /\ entry' = [entry EXCEPT ![f] = NewContents(t)[f]]
    /\ todo' = [todo EXCEPT ![t] = @ \ {f}]
    /\ UNCHANGED <<sequence, pc, seq, key, got, writes>>

UnlockWrite(t) ==
    /\ pc[t] = "write"
    /\ todo[t] = {}
    /\ sequence' = (sequence + 1) % Wrap
    /\ Return(t)
    /\ UNCHANGED entry

(***************************************************************************)
(* Readers: _PyType_LookupRef.                                             *)
(***************************************************************************)

\* _PySeqLock_BeginRead returns when it has seen an even sequence.
BeginRead(t, k) ==
    /\ pc[t] \in {"idle", "again"}
    /\ pc[t] = "again" => k = key[t]
    /\ ~IsUpdating(sequence)
    /\ key' = [key EXCEPT ![t] = k]
    /\ seq' = [seq EXCEPT ![t] = sequence]
    /\ todo' = [todo EXCEPT ![t] = Fields]
    /\ writes' = [writes EXCEPT ![t] = 0]
    /\ Goto(t, "read")
    /\ UNCHANGED <<sequence, entry, got>>

ReadField(t, f) ==
    /\ pc[t] = "read"
    /\ f \in todo[t]
    /\ got' = [got EXCEPT ![t][f] = entry[f]]
    /\ todo' = [todo EXCEPT ![t] = @ \ {f}]
    /\ UNCHANGED <<sequence, entry, pc, seq, key, writes>>

IsHit(t) == got[t].version = key[t][1] /\ got[t].name = key[t][2]

\* A cache miss: the reader looks the name up without the cache.
Miss(t) ==
    /\ pc[t] = "read"
    /\ todo[t] = {}
    /\ ~IsHit(t)
    /\ Return(t)
    /\ UNCHANGED <<sequence, entry>>

\* _Py_TryIncref fails, for the cached value is being deallocated: the reader
\* falls back to the slow lookup.
TryIncrefFails(t) ==
    /\ pc[t] = "read"
    /\ todo[t] = {}
    /\ IsHit(t) /\ got[t].value # NULL
    /\ Return(t)
    /\ UNCHANGED <<sequence, entry>>

\* Faulty: accepts what it read whatever the sequence.
EndReadUnchecked(t) ==
    /\ pc[t] = "read"
    /\ todo[t] = {}
    /\ IsHit(t)
    /\ Goto(t, "hit")
    /\ UNCHANGED <<sequence, entry, seq, key, got, todo, writes>>

\* _PySeqLock_EndRead: the value is returned, or everything read again.
EndRead(t) ==
    /\ pc[t] = "read"
    /\ todo[t] = {}
    /\ IsHit(t)
    /\ Goto(t, IF sequence = seq[t] THEN "hit" ELSE "again")
    /\ seq' = [seq EXCEPT ![t] = 0]
    /\ writes' = [writes EXCEPT ![t] = 0]
    /\ UNCHANGED <<sequence, entry, key, got, todo>>

ReturnHit(t) ==
    /\ pc[t] = "hit"
    /\ Return(t)
    /\ UNCHANGED <<sequence, entry>>

(***************************************************************************)
(* _PyTypes_AfterFork, in the child of a fork.                             *)
(***************************************************************************)

\* In the child every thread but t is gone, and t is in no call.
OnlyCallerSurvives(t) ==
    /\ pc[t] = "idle"
    /\ pc' = [u \in Threads |-> "idle"]
    /\ seq' = [u \in Threads |-> 0]
    /\ key' = [u \in Threads |-> NoKey]
    /\ got' = [u \in Threads |-> Empty]
    /\ todo' = [u \in Threads |-> {}]
    /\ writes' = [u \in Threads |-> 0]

\* The lock of a writer that is gone is released (_PySeqLock_AfterFork) and
\* its half-written entry cleared.
Fork(t) ==
    /\ OnlyCallerSurvives(t)
    /\ IF IsUpdating(sequence)
       THEN sequence' = 0 /\ entry' = Empty
       ELSE UNCHANGED <<sequence, entry>>

Next ==
    \E t \in Threads :
        \/ \E k \in Keys \cup {NoKey} : LockWrite(t, k)
        \/ LockWriteAgain(t) \/ LockWriteGrab(t)
        \/ AbandonWrite(t) \/ StartUpdate(t) \/ UnlockWrite(t)
        \/ \E k \in Keys : BeginRead(t, k)
        \/ \E f \in Fields : WriteField(t, f) \/ ReadField(t, f)
        \/ Miss(t) \/ TryIncrefFails(t) \/ EndRead(t) \/ ReturnHit(t)
        \/ Fork(t)

Spec == Init /\ [][Next]_vars

(***************************************************************************)
(* Properties.                                                             *)
(***************************************************************************)

Entries == [version : Versions \cup {0}, name : Names \cup {NoName}, value : Keys \cup {NULL}]

TypeOK ==
    /\ sequence \in 0..(Wrap-1)
    /\ entry \in Entries
    /\ got \in [Threads -> Entries]
    /\ pc \in [Threads -> {"idle", "lock", "locked", "write", "read", "again", "hit"}]
    /\ seq \in [Threads -> 0..(Wrap-1)]
    /\ key \in [Threads -> Keys \cup {NoKey}]
    /\ todo \in [Threads -> SUBSET Fields]
    /\ writes \in [Threads -> 0..MaxWrites]

IsWhole(e) == e = Empty \/ \E k \in Keys : e = Contents(k)

\* While no writer is at work the entry is one that somebody wrote as a
\* whole, in the child of a fork too.
EvenMeansWhole == ~IsUpdating(sequence) => IsWhole(entry)

\* "If the sequence has not changed the data is valid": a value that a
\* lookup returns is the one cached for its version and its name, never one
\* that another update left behind or put in between.
HitIsRight == \A t \in Threads : pc[t] = "hit" => got[t] = Contents(key[t])

\* The entry is what the sequence vouches for, to writers and to readers.
SequenceVouches == TypeOK /\ EvenMeansWhole /\ HitIsRight

=============================================================================

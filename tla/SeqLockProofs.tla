---------------------------- MODULE SeqLockProofs ----------------------------
(***************************************************************************)
(* What the sequence vouches for, for any number of threads, versions and  *)
(* names, and as many updates during one read as the sequence can tell     *)
(* apart.                                                                  *)
(***************************************************************************)
EXTENDS SeqLock, Integers, TLAPS

Labels == {"idle", "lock", "locked", "write", "read", "again", "hit"}

\* Who has made the sequence odd.
Writing(t) == pc[t] \in {"locked", "write"}

OneWriter ==
    /\ \A t, u \in Threads : Writing(t) /\ Writing(u) => t = u
    /\ IsUpdating(sequence) <=> \E t \in Threads : Writing(t)

\* The entry is whole unless somebody writes it, who has written the fields that
\* he has not yet to write.
EntryInv ==
    /\ (\A t \in Threads : pc[t] # "write") => IsWhole(entry)
    /\ \A t \in Threads : pc[t] = "write" =>
          \A f \in Fields \ todo[t] : entry[f] = NewContents(t)[f]

\* What t has read so far is in the entry.
Agrees(t) == \A f \in Fields \ todo[t] : got[t][f] = entry[f]

\* The sequence has moved on by k since t read it.
Ahead(t, k) == sequence = seq[t] + k \/ sequence = seq[t] + k - Wrap

\* A reader has seen an even sequence, which two steps of each update, or one and
\* back, have moved since; as long as none has begun to write, what it read is
\* in the entry.
Reader(t) ==
    /\ ~IsUpdating(seq[t])
    /\ \E k \in 0..(2 * writes[t]) :
          /\ Ahead(t, k)
          /\ k = 0 => Agrees(t)
          /\ k = 1 => Agrees(t) \/ \E u \in Threads : pc[u] = "write"

Readers ==
    \A t \in Threads : /\ pc[t] = "read" => Reader(t)
                       /\ pc[t] \in {"read", "again", "hit"} => key[t] \in Keys

SeqInv == TypeOK /\ OneWriter /\ EntryInv /\ Readers /\ HitIsRight

\* The sequence counts modulo Wrap.
LEMMA Modulo ==
    ASSUME NEW s \in 0..(Wrap - 1)
    PROVE  /\ (s + 1) % Wrap = IF s + 1 = Wrap THEN 0 ELSE s + 1
           /\ s > 0 => (s - 1) % Wrap = s - 1
<1>1. Wrap \in Nat /\ Wrap > 0
  BY SeqLockAssumption
<1>2. \A x \in 0..(Wrap - 1) : x % Wrap = x
  BY <1>1
<1>3. Wrap % Wrap = 0
  BY <1>1
<1>4. QED
  BY <1>1, <1>2, <1>3

\* An update that starts or ends turns the parity around.
LEMMA Parity ==
    ASSUME NEW s \in 0..(Wrap - 1)
    PROVE  /\ (s + 1) % Wrap \in 0..(Wrap - 1)
           /\ IsUpdating((s + 1) % Wrap) <=> ~IsUpdating(s)
           /\ IsUpdating(s) => /\ s > 0 /\ (s - 1) % Wrap = s - 1 /\ s - 1 \in 0..(Wrap - 1)
                               /\ ~IsUpdating(s - 1)
<1>1. Wrap \in Nat /\ Wrap > 0 /\ Wrap % 2 = 0
  BY SeqLockAssumption
<1>2. QED
  BY <1>1, Modulo DEF IsUpdating

\* Keys have contents of an entry, which are not those of a cleared one.
LEMMA KeyFacts ==
    /\ \A k \in Keys : k # NoKey /\ Contents(k) \in Entries /\ Contents(k).version # 0
                          /\ k = <<Contents(k).version, Contents(k).name>>
    /\ Empty \in Entries /\ Empty.version = 0
BY SeqLockAssumption DEF Keys, NoKey, Contents, ValueOf, Entries, Empty

\* The types of the locals, one by one.
LEMMA LocalTypes ==
    ASSUME SeqInv
    PROVE  /\ pc \in [Threads -> Labels] /\ seq \in [Threads -> 0..(Wrap - 1)]
           /\ key \in [Threads -> Keys \cup {NoKey}] /\ got \in [Threads -> Entries]
           /\ todo \in [Threads -> SUBSET Fields] /\ writes \in [Threads -> 0..MaxWrites]
           /\ sequence \in 0..(Wrap - 1) /\ entry \in Entries
           /\ Wrap \in Nat /\ MaxWrites \in Nat
BY SeqLockAssumption DEF SeqInv, TypeOK, Labels

\* A call ends that is not in the middle of an update.
LEMMA ReturnFacts ==
    ASSUME SeqInv, NEW t \in Threads, Return(t)
    PROVE  /\ pc' \in [Threads -> Labels] /\ seq' \in [Threads -> 0..(Wrap - 1)]
           /\ key' \in [Threads -> Keys \cup {NoKey}] /\ got' \in [Threads -> Entries]
           /\ todo' \in [Threads -> SUBSET Fields] /\ writes' \in [Threads -> 0..MaxWrites]
           /\ pc'[t] = "idle"
           /\ \A u \in Threads : u # t =>
                 /\ pc'[u] = pc[u] /\ seq'[u] = seq[u] /\ key'[u] = key[u]
                 /\ got'[u] = got[u] /\ todo'[u] = todo[u] /\ writes'[u] = writes[u]
<1>1. 0 \in 0..(Wrap - 1) /\ 0 \in 0..MaxWrites
  BY SeqLockAssumption
<1>2. pc' = [pc EXCEPT ![t] = "idle"] /\ pc' \in [Threads -> Labels]
  BY LocalTypes DEF Return, Goto, Labels
<1>3. /\ seq' = [seq EXCEPT ![t] = 0] /\ key' = [key EXCEPT ![t] = NoKey] /\ got' = [got EXCEPT ![t] = Empty]
      /\ todo' = [todo EXCEPT ![t] = {}] /\ writes' = [writes EXCEPT ![t] = 0]
  BY DEF Return
<1>4. QED
  BY <1>1, <1>2, <1>3, LocalTypes, KeyFacts

\* A reader that is not disturbed: the sequence stands, and if the entry is
\* written to somebody is in the middle of an update.
LEMMA ReaderKept ==
    ASSUME SeqInv, NEW u \in Threads, pc[u] = "read", UNCHANGED sequence,
           seq'[u] = seq[u], got'[u] = got[u], todo'[u] = todo[u], writes'[u] = writes[u],
           entry' = entry \/ \E w \in Threads : pc[w] = "write",
           \A w \in Threads : pc[w] = "write" => pc'[w] = "write"
    PROVE  Reader(u)'
<1>1. PICK k \in 0..(2 * writes[u]) :
         /\ Ahead(u, k) /\ (k = 0 => Agrees(u))
         /\ k = 1 => Agrees(u) \/ \E w \in Threads : pc[w] = "write"
  BY DEF SeqInv, Readers, Reader
<1>2. ~IsUpdating(seq[u]) /\ Ahead(u, k)'
  BY <1>1 DEF SeqInv, Readers, Reader, Ahead
<1>3. CASE entry' = entry
  <2>1. Agrees(u)' <=> Agrees(u)
    BY <1>3 DEF Agrees
  <2>2. QED
    BY <1>1, <1>2, <2>1 DEF Reader
<1>4. CASE \E w \in Threads : pc[w] = "write"
  <2>1. IsUpdating(sequence)
    BY <1>4 DEF SeqInv, OneWriter, Writing
  <2>2. k # 0
    BY <1>1, <1>2, <2>1, LocalTypes DEF Ahead, IsUpdating
  <2>3. QED
    BY <1>1, <1>2, <1>4, <2>2 DEF Reader
<1>5. QED
  BY <1>3, <1>4

\* A step of one thread that is no part of an update.
LEMMA QuietStep ==
    ASSUME SeqInv, TypeOK', NEW t \in Threads, ~Writing(t), ~Writing(t)',
           UNCHANGED <<sequence, entry>>,
           \A u \in Threads : u # t =>
              /\ pc'[u] = pc[u] /\ seq'[u] = seq[u] /\ key'[u] = key[u]
              /\ got'[u] = got[u] /\ todo'[u] = todo[u] /\ writes'[u] = writes[u],
           pc'[t] = "read" => Reader(t)',
           pc'[t] \in {"read", "again", "hit"} => key'[t] \in Keys,
           pc'[t] = "hit" => got'[t] = Contents(key'[t])
    PROVE  SeqInv'
<1>1. \A u \in Threads : (Writing(u)' <=> Writing(u)) /\ (pc'[u] = "write" <=> pc[u] = "write")
  BY DEF Writing
<1>2. OneWriter'
  BY <1>1 DEF SeqInv, OneWriter, IsUpdating
<1>3. EntryInv'
  <2>1. (\A u \in Threads : pc'[u] # "write") => IsWhole(entry')
    BY <1>1 DEF SeqInv, EntryInv
  <2>2. ASSUME NEW u \in Threads, pc'[u] = "write" PROVE \A f \in Fields \ todo'[u] : entry'[f] = NewContents(u)'[f]
    <3>1. pc[u] = "write" /\ u # t
      BY <1>1, <2>2 DEF Writing
    <3>2. QED
      BY <3>1 DEF SeqInv, EntryInv, NewContents
  <2>3. QED
    BY <2>1, <2>2 DEF EntryInv
<1>4. ASSUME NEW u \in Threads
      PROVE  /\ pc'[u] = "read" => Reader(u)'
             /\ pc'[u] \in {"read", "again", "hit"} => key'[u] \in Keys
             /\ pc'[u] = "hit" => got'[u] = Contents(key'[u])
  <2>1. CASE u = t
    BY <2>1
  <2>2. CASE u # t
    <3>1. pc'[u] = "read" => Reader(u)'
      BY <1>1, <2>2, ReaderKept
    <3>2. QED
      BY <2>2, <3>1 DEF SeqInv, Readers, HitIsRight
  <2>3. QED
    BY <2>1, <2>2
<1>5. QED
  BY <1>2, <1>3, <1>4 DEF SeqInv, Readers, HitIsRight

\* A writer begins to take the lock.
LEMMA LockWriteKeeps ==
    ASSUME SeqInv, NEW t \in Threads, NEW k \in Keys \cup {NoKey}, LockWrite(t, k)
    PROVE  SeqInv'
<1>1. /\ pc[t] = "idle" /\ pc' = [pc EXCEPT ![t] = "lock"] /\ key' = [key EXCEPT ![t] = k]
      /\ seq' = [seq EXCEPT ![t] = sequence] /\ UNCHANGED <<sequence, entry, got, todo, writes>>
  BY DEF LockWrite, Goto
<1>2. TypeOK'
  BY <1>1, LocalTypes DEF TypeOK, Labels
<1>3. pc'[t] = "lock" /\ ~Writing(t) /\ ~Writing(t)'
  BY <1>1, LocalTypes DEF Writing
<1>4. QED
  BY <1>1, <1>2, <1>3, QuietStep

\* It finds the lock taken, or loses the exchange, and tries again.
LEMMA LockWriteAgainKeeps ==
    ASSUME SeqInv, NEW t \in Threads, LockWriteAgain(t)
    PROVE  SeqInv'
<1>1. /\ pc[t] = "lock" /\ seq' = [seq EXCEPT ![t] = sequence]
      /\ UNCHANGED <<sequence, entry, pc, key, got, todo, writes>>
  BY DEF LockWriteAgain
<1>2. TypeOK'
  BY <1>1, LocalTypes DEF TypeOK, Labels
<1>3. pc'[t] = "lock" /\ ~Writing(t) /\ ~Writing(t)'
  BY <1>1, LocalTypes DEF Writing
<1>4. QED
  BY <1>1, <1>2, <1>3, QuietStep

\* A reader that an update overtakes: what it read is in the entry as long as
\* nothing is written.
LEMMA Overtaken ==
    ASSUME SeqInv, 2 * MaxWrites < Wrap, NEW u \in Threads, pc[u] = "read", pc'[u] = "read",
           ~IsUpdating(sequence), sequence' = (sequence + 1) % Wrap, entry' = entry,
           seq'[u] = seq[u], got'[u] = got[u], todo'[u] = todo[u],
           writes[u] < MaxWrites, writes'[u] = writes[u] + 1
    PROVE  Reader(u)'
<1>1. PICK k \in 0..(2 * writes[u]) :
         /\ Ahead(u, k) /\ (k = 0 => Agrees(u))
         /\ k = 1 => Agrees(u) \/ \E w \in Threads : pc[w] = "write"
  BY DEF SeqInv, Readers, Reader
<1>2. ~IsUpdating(seq[u]) /\ Wrap % 2 = 0
  BY SeqLockAssumption DEF SeqInv, Readers, Reader
<1>3. k \in Nat /\ k + 1 \in Nat /\ k + 1 \in 0..(2 * writes'[u]) /\ k + 1 < Wrap /\ k + 1 # 0
  BY <1>1, LocalTypes
<1>4. Ahead(u, k + 1)'
  <2>1. sequence' = IF sequence + 1 = Wrap THEN 0 ELSE sequence + 1
    BY LocalTypes, Modulo
  <2>2. CASE sequence + 1 = Wrap
    BY <1>1, <1>3, <2>1, <2>2, LocalTypes DEF Ahead
  <2>3. CASE sequence + 1 # Wrap
    BY <1>1, <1>3, <2>1, <2>3, LocalTypes DEF Ahead
  <2>4. QED
    BY <2>2, <2>3
<1>5. k + 1 = 1 => Agrees(u)'
  BY <1>1, <1>3 DEF Agrees
<1>6. QED
  BY <1>2, <1>3, <1>4, <1>5 DEF Reader

\* It takes the lock: the sequence becomes odd, and it is the only writer.
LEMMA LockWriteGrabKeeps ==
    ASSUME SeqInv, 2 * MaxWrites < Wrap, NEW t \in Threads, LockWriteGrab(t)
    PROVE  SeqInv'
<1>1. /\ pc[t] = "lock" /\ ~IsUpdating(sequence) /\ sequence' = (sequence + 1) % Wrap
      /\ \A u \in Threads : pc[u] = "read" => writes[u] < MaxWrites
      /\ writes' = [u \in Threads |-> IF pc[u] = "read" THEN writes[u] + 1 ELSE writes[u]]
      /\ seq' = [seq EXCEPT ![t] = 0] /\ pc' = [pc EXCEPT ![t] = "locked"]
      /\ UNCHANGED <<entry, key, got, todo>>
  BY DEF LockWriteGrab, Goto
<1>2. sequence' \in 0..(Wrap - 1) /\ IsUpdating(sequence')
  BY <1>1, Parity, LocalTypes
<1>3. TypeOK'
  <2>1. writes' \in [Threads -> 0..MaxWrites]
    BY <1>1, LocalTypes
  <2>2. seq' \in [Threads -> 0..(Wrap - 1)]
    BY <1>1, <1>2, LocalTypes
  <2>3. pc' \in [Threads -> Labels]
    BY <1>1, LocalTypes DEF Labels
  <2>4. QED
    BY <1>1, <1>2, <2>1, <2>2, <2>3, LocalTypes DEF TypeOK, Labels
<1>4. pc'[t] = "locked" /\ \A u \in Threads : u # t => pc'[u] = pc[u]
  BY <1>1, LocalTypes
<1>5. \A u \in Threads : ~Writing(u)
  BY <1>1 DEF SeqInv, OneWriter
<1>6. OneWriter'
  BY <1>2, <1>4, <1>5 DEF OneWriter, Writing
<1>7. EntryInv'
  BY <1>1, <1>4, <1>5 DEF SeqInv, EntryInv, Writing
<1>8. ASSUME NEW u \in Threads
      PROVE  /\ pc'[u] = "read" => Reader(u)'
             /\ pc'[u] \in {"read", "again", "hit"} => key'[u] \in Keys
             /\ pc'[u] = "hit" => got'[u] = Contents(key'[u])
  <2>1. CASE u = t
    BY <1>4, <2>1
  <2>2. CASE u # t
    <3>1. pc'[u] = "read" => Reader(u)'
      <4>1. ASSUME pc[u] = "read" PROVE writes'[u] = writes[u] + 1 /\ seq'[u] = seq[u] /\ writes[u] < MaxWrites
        BY <1>1, <2>2, <4>1
      <4>2. QED
        BY <1>1, <1>4, <2>2, <4>1, Overtaken
    <3>2. QED
      BY <1>1, <1>4, <2>2, <3>1 DEF SeqInv, Readers, HitIsRight
  <2>3. QED
    BY <2>1, <2>2
<1>9. QED
  BY <1>3, <1>6, <1>7, <1>8 DEF SeqInv, Readers, HitIsRight

\* A reader when an update ends, or is given up: the sequence goes to the next
\* number or back to the one before.
LEMMA Passed ==
    ASSUME SeqInv, 2 * MaxWrites < Wrap, NEW u \in Threads, pc[u] = "read", pc'[u] = "read",
           IsUpdating(sequence), entry' = entry,
           \/ sequence' = (sequence + 1) % Wrap
           \/ sequence' = (sequence - 1) % Wrap /\ \A w \in Threads : pc[w] # "write",
           seq'[u] = seq[u], got'[u] = got[u], todo'[u] = todo[u], writes'[u] = writes[u]
    PROVE  Reader(u)'
<1>1. PICK k \in 0..(2 * writes[u]) :
         /\ Ahead(u, k) /\ (k = 0 => Agrees(u))
         /\ k = 1 => Agrees(u) \/ \E w \in Threads : pc[w] = "write"
  BY DEF SeqInv, Readers, Reader
<1>2. ~IsUpdating(seq[u]) /\ Wrap % 2 = 0
  BY SeqLockAssumption DEF SeqInv, Readers, Reader
<1>3. k % 2 = 1
  <2>1. PICK a, b, c \in Int : seq[u] = 2 * a /\ Wrap = 2 * b /\ sequence = 2 * c + 1
    <3>1. \A x \in Nat : \E a \in Int : x = 2 * a + (x % 2) /\ x % 2 \in {0, 1}
      OBVIOUS
    <3>2. seq[u] % 2 = 0 /\ sequence % 2 = 1 /\ seq[u] \in Nat /\ sequence \in Nat /\ Wrap \in Nat
      BY <1>2, <3>1, LocalTypes DEF IsUpdating
    <3>3. QED
      BY <1>2, <3>1, <3>2
  <2>2. k = 2 * (c - a) + 1 \/ k = 2 * (c - a + b) + 1
    BY <1>1, <2>1, LocalTypes DEF Ahead
  <2>3. QED
    BY <2>1, <2>2
<1>4. /\ k >= 1 /\ k + 1 \in 0..(2 * writes[u]) /\ k + 1 # 1 /\ k + 1 # 0
      /\ k - 1 \in 0..(2 * writes[u]) /\ k - 1 # 1
  BY <1>1, <1>3, LocalTypes
<1>5. CASE sequence' = (sequence + 1) % Wrap
  <2>1. sequence' = IF sequence + 1 = Wrap THEN 0 ELSE sequence + 1
    BY <1>5, LocalTypes, Modulo
  <2>2. k + 1 < Wrap
    BY <1>4, LocalTypes
  <2>3. CASE sequence + 1 = Wrap
    <3>1. Ahead(u, k + 1)'
      BY <1>1, <1>4, <2>1, <2>2, <2>3, LocalTypes DEF Ahead
    <3>2. QED
      BY <1>2, <1>4, <3>1 DEF Reader
  <2>4. CASE sequence + 1 # Wrap
    <3>1. Ahead(u, k + 1)'
      BY <1>1, <1>4, <2>1, <2>4, LocalTypes DEF Ahead
    <3>2. QED
      BY <1>2, <1>4, <3>1 DEF Reader
  <2>5. QED
    BY <2>3, <2>4
<1>6. CASE sequence' = (sequence - 1) % Wrap /\ \A w \in Threads : pc[w] # "write"
  <2>1. sequence' = sequence - 1 /\ sequence > 0
    BY <1>6, Parity, LocalTypes
  <2>2. Ahead(u, k - 1)'
    BY <1>1, <1>4, <2>1, LocalTypes DEF Ahead
  <2>3. k - 1 = 0 => Agrees(u)'
    BY <1>1, <1>4, <1>6 DEF Agrees
  <2>4. QED
    BY <1>2, <1>4, <2>2, <2>3 DEF Reader
<1>7. QED
  BY <1>5, <1>6

\* An update ends, with the entry whole.
LEMMA UpdateEnds ==
    ASSUME SeqInv, 2 * MaxWrites < Wrap, NEW t \in Threads, Return(t), UNCHANGED entry,
           IsWhole(entry), Writing(t),
           \/ sequence' = (sequence + 1) % Wrap
           \/ sequence' = (sequence - 1) % Wrap /\ pc[t] = "locked"
    PROVE  SeqInv'
<1>1. /\ pc'[t] = "idle"
      /\ \A u \in Threads : u # t =>
            /\ pc'[u] = pc[u] /\ seq'[u] = seq[u] /\ key'[u] = key[u]
            /\ got'[u] = got[u] /\ todo'[u] = todo[u] /\ writes'[u] = writes[u]
  BY ReturnFacts
<1>2. IsUpdating(sequence) /\ \A u \in Threads : u # t => ~Writing(u)
  BY DEF SeqInv, OneWriter
<1>3. sequence' \in 0..(Wrap - 1) /\ ~IsUpdating(sequence')
  BY <1>2, Parity, LocalTypes
<1>4. TypeOK'
  BY <1>3, ReturnFacts, LocalTypes DEF TypeOK, Labels
<1>5. \A u \in Threads : ~Writing(u)'
  BY <1>1, <1>2 DEF Writing
<1>6. OneWriter'
  BY <1>3, <1>5 DEF OneWriter
<1>7. EntryInv'
  BY <1>5 DEF EntryInv, Writing
<1>8. ASSUME NEW u \in Threads
      PROVE  /\ pc'[u] = "read" => Reader(u)'
             /\ pc'[u] \in {"read", "again", "hit"} => key'[u] \in Keys
             /\ pc'[u] = "hit" => got'[u] = Contents(key'[u])
  <2>1. CASE u = t
    BY <1>1, <2>1
  <2>2. CASE u # t
    <3>1. pc[t] = "locked" => \A w \in Threads : pc[w] # "write"
      BY <1>2 DEF Writing
    <3>2. pc'[u] = "read" => Reader(u)'
      BY <1>1, <1>2, <2>2, <3>1, Passed
    <3>3. QED
      BY <1>1, <2>2, <3>2 DEF SeqInv, Readers, HitIsRight
  <2>3. QED
    BY <2>1, <2>2
<1>9. QED
  BY <1>4, <1>6, <1>7, <1>8 DEF SeqInv, Readers, HitIsRight

\* A write that is abandoned has changed no field.
LEMMA AbandonWriteKeeps ==
    ASSUME SeqInv, 2 * MaxWrites < Wrap, NEW t \in Threads, AbandonWrite(t)
    PROVE  SeqInv'
<1>1. /\ pc[t] = "locked" /\ key[t] # NoKey /\ entry = NewContents(t)
      /\ sequence' = (sequence - 1) % Wrap /\ Return(t) /\ UNCHANGED entry
  BY DEF AbandonWrite
<1>2. IsWhole(entry) /\ Writing(t)
  BY <1>1, LocalTypes DEF IsWhole, NewContents, Writing
<1>3. QED
  BY <1>1, <1>2, UpdateEnds

\* The fields agree again when the writer lets go.
LEMMA UnlockWriteKeeps ==
    ASSUME SeqInv, 2 * MaxWrites < Wrap, NEW t \in Threads, UnlockWrite(t)
    PROVE  SeqInv'
<1>1. /\ pc[t] = "write" /\ todo[t] = {} /\ sequence' = (sequence + 1) % Wrap /\ Return(t) /\ UNCHANGED entry
  BY DEF UnlockWrite
<1>2. PICK c \in Entries : c = NewContents(t) /\ IsWhole(c)
  BY LocalTypes, KeyFacts DEF NewContents, IsWhole
<1>3. \A f \in Fields : entry[f] = c[f]
  BY <1>1, <1>2 DEF SeqInv, EntryInv
<1>4. entry = c
  <2>1. entry.version = c.version /\ entry.name = c.name /\ entry.value = c.value
    BY <1>3 DEF Fields
  <2>2. QED
    BY <1>2, <2>1, LocalTypes DEF Entries
<1>5. QED
  BY <1>1, <1>2, <1>4, UpdateEnds DEF Writing

\* A writer begins with new values.
LEMMA StartUpdateKeeps ==
    ASSUME SeqInv, NEW t \in Threads, StartUpdate(t)
    PROVE  SeqInv'
<1>1. /\ pc[t] = "locked" /\ todo' = [todo EXCEPT ![t] = Fields] /\ pc' = [pc EXCEPT ![t] = "write"]
      /\ UNCHANGED <<sequence, entry, seq, key, got, writes>>
  BY DEF StartUpdate, Goto
<1>2. TypeOK'
  BY <1>1, LocalTypes DEF TypeOK, Labels
<1>3. pc'[t] = "write" /\ todo'[t] = Fields /\ \A u \in Threads : u # t => pc'[u] = pc[u] /\ todo'[u] = todo[u]
  BY <1>1, LocalTypes
<1>4. \A u \in Threads : (Writing(u)' <=> Writing(u)) /\ (Writing(u) => u = t)
  BY <1>1, <1>3 DEF SeqInv, OneWriter, Writing
<1>5. OneWriter'
  BY <1>1, <1>4 DEF SeqInv, OneWriter
<1>6. EntryInv'
  BY <1>3, <1>4 DEF EntryInv, Writing
<1>7. ASSUME NEW u \in Threads
      PROVE  /\ pc'[u] = "read" => Reader(u)'
             /\ pc'[u] \in {"read", "again", "hit"} => key'[u] \in Keys
             /\ pc'[u] = "hit" => got'[u] = Contents(key'[u])
  <2>1. CASE u = t
    BY <1>3, <2>1
  <2>2. CASE u # t
    <3>1. pc'[u] = "read" => Reader(u)'
      BY <1>1, <1>3, <2>2, ReaderKept
    <3>2. QED
      BY <1>1, <1>3, <2>2, <3>1 DEF SeqInv, Readers, HitIsRight
  <2>3. QED
    BY <2>1, <2>2
<1>8. QED
  BY <1>2, <1>5, <1>6, <1>7 DEF SeqInv, Readers, HitIsRight

\* Fields are written under the writer's lock only.
LEMMA WriteFieldKeeps ==
    ASSUME SeqInv, NEW t \in Threads, NEW f \in Fields, WriteField(t, f)
    PROVE  SeqInv'
<1>1. /\ pc[t] = "write" /\ f \in todo[t] /\ entry' = [entry EXCEPT ![f] = NewContents(t)[f]]
      /\ todo' = [todo EXCEPT ![t] = todo[t] \ {f}]
      /\ UNCHANGED <<sequence, pc, seq, key, got, writes>>
  BY DEF WriteField
<1>2. NewContents(t) \in Entries /\ NewContents(t)' = NewContents(t)
  BY <1>1, LocalTypes, KeyFacts DEF NewContents
<1>3. /\ entry' \in Entries /\ entry'[f] = NewContents(t)[f]
      /\ \A g \in Fields : g # f => entry'[g] = entry[g]
  <2>1. PICK e, d \in Entries : e = entry /\ d = NewContents(t)
    BY <1>2, LocalTypes
  <2>2. entry' = [e EXCEPT ![f] = d[f]]
    BY <1>1, <2>1
  <2>3. entry' \in Entries /\ entry'[f] = d[f] /\ \A g \in Fields : g # f => entry'[g] = e[g]
    <3>1. CASE f = "version"
      BY <2>2, <3>1 DEF Entries, Fields
    <3>2. CASE f = "name"
      BY <2>2, <3>2 DEF Entries, Fields
    <3>3. CASE f = "value"
      BY <2>2, <3>3 DEF Entries, Fields
    <3>4. QED
      BY <3>1, <3>2, <3>3 DEF Fields
  <2>4. QED
    BY <2>1, <2>3
<1>4. TypeOK'
  BY <1>1, <1>3, LocalTypes DEF TypeOK, Labels
<1>5. OneWriter'
  BY <1>1 DEF SeqInv, OneWriter, Writing
<1>6. \A u \in Threads : u # t => pc[u] # "write" /\ todo'[u] = todo[u]
  BY <1>1 DEF SeqInv, OneWriter, Writing
<1>7. EntryInv'
  <2>1. \A g \in Fields \ todo'[t] : entry'[g] = NewContents(t)[g]
    <3>1. \A g \in Fields \ todo'[t] : g = f \/ g \in Fields \ todo[t]
      BY <1>1, LocalTypes
    <3>2. QED
      BY <1>1, <1>3, <3>1 DEF SeqInv, EntryInv
  <2>2. QED
    BY <1>1, <1>2, <1>6, <2>1 DEF EntryInv
<1>8. ASSUME NEW u \in Threads
      PROVE  /\ pc'[u] = "read" => Reader(u)'
             /\ pc'[u] \in {"read", "again", "hit"} => key'[u] \in Keys
             /\ pc'[u] = "hit" => got'[u] = Contents(key'[u])
  <2>1. pc[u] = "read" => todo'[u] = todo[u]
    BY <1>1, <1>6
  <2>2. pc'[u] = "read" => Reader(u)'
    BY <1>1, <2>1, ReaderKept
  <2>3. QED
    BY <1>1, <2>2 DEF SeqInv, Readers, HitIsRight
<1>9. QED
  BY <1>4, <1>5, <1>7, <1>8 DEF SeqInv, Readers, HitIsRight

\* A reader remembers an even sequence, or waits.
LEMMA BeginReadKeeps ==
    ASSUME SeqInv, NEW t \in Threads, NEW k \in Keys, BeginRead(t, k)
    PROVE  SeqInv'
<1>1. /\ pc[t] \in {"idle", "again"} /\ ~IsUpdating(sequence)
      /\ key' = [key EXCEPT ![t] = k] /\ seq' = [seq EXCEPT ![t] = sequence]
      /\ todo' = [todo EXCEPT ![t] = Fields] /\ writes' = [writes EXCEPT ![t] = 0]
      /\ pc' = [pc EXCEPT ![t] = "read"] /\ UNCHANGED <<sequence, entry, got>>
  BY DEF BeginRead, Goto
<1>2. 0 \in 0..MaxWrites
  BY LocalTypes
<1>3. TypeOK'
  BY <1>1, <1>2, LocalTypes DEF TypeOK, Labels
<1>4. /\ pc'[t] = "read" /\ key'[t] = k /\ seq'[t] = sequence /\ todo'[t] = Fields /\ writes'[t] = 0
      /\ ~Writing(t) /\ ~Writing(t)'
  BY <1>1, LocalTypes DEF Writing
<1>5. Reader(t)'
  <2>1. 0 \in 0..(2 * writes'[t]) /\ Ahead(t, 0)' /\ Agrees(t)'
    BY <1>1, <1>4, LocalTypes DEF Ahead, Agrees
  <2>2. QED
    BY <1>1, <1>4, <2>1 DEF Reader
<1>6. QED
  BY <1>1, <1>3, <1>4, <1>5, QuietStep

\* What a reader reads is from the write it began with, as long as the sequence is the same.
LEMMA ReadFieldKeeps ==
    ASSUME SeqInv, NEW t \in Threads, NEW f \in Fields, ReadField(t, f)
    PROVE  SeqInv'
<1>1. /\ pc[t] = "read" /\ f \in todo[t] /\ got' = [got EXCEPT ![t] = [got[t] EXCEPT ![f] = entry[f]]]
      /\ todo' = [todo EXCEPT ![t] = todo[t] \ {f}]
      /\ UNCHANGED <<sequence, entry, pc, seq, key, writes>>
  BY DEF ReadField
<1>2. /\ got'[t] \in Entries /\ got'[t][f] = entry[f]
      /\ \A g \in Fields : g # f => got'[t][g] = got[t][g]
  <2>1. PICK e, d \in Entries : e = got[t] /\ d = entry /\ got'[t] = [e EXCEPT ![f] = d[f]]
    BY <1>1, LocalTypes
  <2>2. got'[t] \in Entries /\ got'[t][f] = d[f] /\ \A g \in Fields : g # f => got'[t][g] = e[g]
    <3>1. CASE f = "version"
      BY <2>1, <3>1 DEF Entries, Fields
    <3>2. CASE f = "name"
      BY <2>1, <3>2 DEF Entries, Fields
    <3>3. CASE f = "value"
      BY <2>1, <3>3 DEF Entries, Fields
    <3>4. QED
      BY <3>1, <3>2, <3>3 DEF Fields
  <2>3. QED
    BY <2>1, <2>2
<1>3. got' \in [Threads -> Entries] /\ \A u \in Threads : u # t => got'[u] = got[u] /\ todo'[u] = todo[u]
  BY <1>1, <1>2, LocalTypes
<1>4. TypeOK'
  BY <1>1, <1>3, LocalTypes DEF TypeOK, Labels
<1>5. Agrees(t) => Agrees(t)'
  <2>1. \A g \in Fields \ todo'[t] : g = f \/ g \in Fields \ todo[t]
    BY <1>1, LocalTypes
  <2>2. QED
    BY <1>1, <1>2, <2>1 DEF Agrees
<1>6. Reader(t)'
  <2>1. PICK k \in 0..(2 * writes[t]) :
           /\ Ahead(t, k) /\ (k = 0 => Agrees(t))
           /\ k = 1 => Agrees(t) \/ \E w \in Threads : pc[w] = "write"
    BY <1>1 DEF SeqInv, Readers, Reader
  <2>2. Ahead(t, k)' /\ ~IsUpdating(seq[t])
    BY <1>1, <2>1 DEF Ahead, SeqInv, Readers, Reader
  <2>3. QED
    BY <1>1, <1>5, <2>1, <2>2 DEF Reader
<1>7. ~Writing(t) /\ ~Writing(t)' /\ key[t] \in Keys
  BY <1>1 DEF Writing, SeqInv, Readers
<1>8. QED
  BY <1>1, <1>3, <1>4, <1>6, <1>7, QuietStep

\* A lookup, or one that found nothing, returns.
LEMMA ReturnKeeps ==
    ASSUME SeqInv, NEW t \in Threads, Miss(t) \/ TryIncrefFails(t) \/ ReturnHit(t)
    PROVE  SeqInv'
<1>1. pc[t] \in {"read", "hit"} /\ Return(t) /\ UNCHANGED <<sequence, entry>>
  BY DEF Miss, TryIncrefFails, ReturnHit
<1>2. TypeOK'
  BY <1>1, ReturnFacts, LocalTypes DEF TypeOK, Labels
<1>3. ~Writing(t) /\ ~Writing(t)' /\ pc'[t] = "idle"
  BY <1>1, ReturnFacts DEF Writing
<1>4. QED
  BY <1>1, <1>2, <1>3, ReturnFacts, QuietStep

\* The sequence has not moved, so that what was read is the entry, and the entry
\* is whole.
LEMMA EndReadKeeps ==
    ASSUME SeqInv, 2 * MaxWrites < Wrap, NEW t \in Threads, EndRead(t)
    PROVE  SeqInv'
<1>1. /\ pc[t] = "read" /\ todo[t] = {} /\ IsHit(t)
      /\ pc' = [pc EXCEPT ![t] = IF sequence = seq[t] THEN "hit" ELSE "again"]
      /\ seq' = [seq EXCEPT ![t] = 0] /\ writes' = [writes EXCEPT ![t] = 0]
      /\ UNCHANGED <<sequence, entry, key, got, todo>>
  BY DEF EndRead, Goto
<1>2. 0 \in 0..MaxWrites /\ 0 \in 0..(Wrap - 1)
  BY LocalTypes
<1>3. TypeOK'
  BY <1>1, <1>2, LocalTypes DEF TypeOK, Labels
<1>4. pc'[t] = (IF sequence = seq[t] THEN "hit" ELSE "again") /\ ~Writing(t) /\ ~Writing(t)'
  BY <1>1, LocalTypes DEF Writing
<1>5. key[t] \in Keys /\ Reader(t)
  BY <1>1 DEF SeqInv, Readers
<1>6. ASSUME sequence = seq[t] PROVE got[t] = Contents(key[t])
  <2>1. PICK k \in 0..(2 * writes[t]) : Ahead(t, k) /\ (k = 0 => Agrees(t))
    BY <1>5 DEF Reader
  <2>2. k = 0
    BY <1>6, <2>1, LocalTypes DEF Ahead
  <2>3. \A f \in Fields : got[t][f] = entry[f]
    BY <1>1, <2>1, <2>2 DEF Agrees
  <2>4. got[t] = entry
    <3>1. got[t].version = entry.version /\ got[t].name = entry.name /\ got[t].value = entry.value
      BY <2>3 DEF Fields
    <3>2. QED
      BY <3>1, LocalTypes DEF Entries
  <2>5. IsWhole(entry)
    BY <1>5, <1>6 DEF SeqInv, OneWriter, EntryInv, Writing, Reader
  <2>6. key[t] = <<got[t].version, got[t].name>> /\ got[t].version # 0
    <3>1. key[t] = <<key[t][1], key[t][2]>> /\ key[t][1] # 0
      BY <1>5, SeqLockAssumption DEF Keys
    <3>2. QED
      BY <1>1, <3>1 DEF IsHit
  <2>7. QED
    BY <2>4, <2>5, <2>6, KeyFacts DEF IsWhole
<1>7. QED
  BY <1>1, <1>3, <1>4, <1>5, <1>6, QuietStep

\* In the child of a fork the sequence is even, and no writer is left.
LEMMA ForkKeeps ==
    ASSUME SeqInv, NEW t \in Threads, Fork(t)
    PROVE  SeqInv'
<1>1. /\ pc' = [u \in Threads |-> "idle"] /\ seq' = [u \in Threads |-> 0]
      /\ key' = [u \in Threads |-> NoKey] /\ got' = [u \in Threads |-> Empty]
      /\ todo' = [u \in Threads |-> {}] /\ writes' = [u \in Threads |-> 0]
  BY DEF Fork, OnlyCallerSurvives
<1>2. /\ sequence' \in 0..(Wrap - 1) /\ entry' \in Entries
      /\ ~IsUpdating(sequence') /\ IsWhole(entry')
  <2>1. CASE IsUpdating(sequence)
    BY <2>1, LocalTypes, KeyFacts DEF Fork, IsUpdating, IsWhole
  <2>2. CASE ~IsUpdating(sequence)
    BY <2>2, LocalTypes DEF Fork, SeqInv, OneWriter, EntryInv, Writing
  <2>3. QED
    BY <2>1, <2>2
<1>3. TypeOK'
  <2>1. 0 \in 0..MaxWrites /\ 0 \in 0..(Wrap - 1)
    BY LocalTypes
  <2>2. QED
    BY <1>1, <1>2, <2>1, KeyFacts DEF TypeOK
<1>4. \A u \in Threads : pc'[u] = "idle"
  BY <1>1
<1>5. QED
  BY <1>2, <1>3, <1>4 DEF SeqInv, OneWriter, EntryInv, Readers, HitIsRight, Writing

\* At first nobody reads or writes.
LEMMA SeqInit == Init => SeqInv
<1>1. SUFFICES ASSUME Init PROVE SeqInv
  OBVIOUS
<1>2. 0 \in 0..MaxWrites /\ 0 \in 0..(Wrap - 1) /\ ~IsUpdating(0)
  BY SeqLockAssumption DEF IsUpdating
<1>3. TypeOK
  BY <1>1, <1>2, KeyFacts DEF Init, TypeOK
<1>4. \A u \in Threads : pc[u] = "idle"
  BY <1>1 DEF Init
<1>5. IsWhole(entry) /\ ~IsUpdating(sequence)
  BY <1>1, <1>2 DEF Init, IsWhole
<1>6. QED
  BY <1>3, <1>4, <1>5 DEF SeqInv, OneWriter, EntryInv, Readers, HitIsRight, Writing

\* What no step changes stays so.
LEMMA SeqStutter ==
    ASSUME SeqInv, UNCHANGED vars
    PROVE  SeqInv'
BY DEF SeqInv, vars, locals, TypeOK, OneWriter, EntryInv, Readers, HitIsRight, Writing, Reader, Ahead, Agrees, NewContents

\* Every step keeps the invariant.
LEMMA SeqStep ==
    ASSUME SeqInv, 2 * MaxWrites < Wrap, Next
    PROVE  SeqInv'
BY LockWriteKeeps, LockWriteAgainKeeps, LockWriteGrabKeeps, AbandonWriteKeeps, StartUpdateKeeps, UnlockWriteKeeps,
   BeginReadKeeps, WriteFieldKeeps, ReadFieldKeeps, ReturnKeeps, EndReadKeeps, ForkKeeps DEF Next

\* An even sequence vouches for a whole entry, and a lookup returns what was
\* cached for its version and name, provided that the sequence does not come
\* round to the same number during one read: each update moves it by two.
THEOREM SequenceIsToBeTrusted == 2 * MaxWrites < Wrap => (Spec => []SequenceVouches)
<1>1. ASSUME 2 * MaxWrites < Wrap PROVE Spec => []SequenceVouches
  <2>1. SeqInv /\ [Next]_vars => SeqInv'
    BY <1>1, SeqStep, SeqStutter
  <2>2. SeqInv => SequenceVouches
    BY DEF SeqInv, SequenceVouches, EvenMeansWhole, OneWriter, EntryInv, Writing
  <2>3. QED
    BY <2>1, <2>2, SeqInit, PTL DEF Spec
<1>2. QED
  BY <1>1

=============================================================================

-------------------------- MODULE BlobWriterSafety --------------------------
(***************************************************************************)
(* Proofs about what the writers of BlobWriter promise: committed chunks   *)
(* and snapshots never change, a committed index is readable whatever is   *)
(* cut short, the blob implements the log of BlobLog, and the figures of   *)
(* BlobStats add up.  For any number of processes, transactions and        *)
(* faults, any plans and any gaps.                                         *)
(***************************************************************************)
EXTENDS BlobStats, BlobWriterProofs, DataLemmas

-----------------------------------------------------------------------------
(* What an index region may hold.  t stands for txns and l for log here,   *)
(* so that the same words say it of two states.                            *)

Entries(t, i)  == Region(t[i].start, t[i].entry_len)
EntryEnd(t, i) == t[i].start + t[i].entry_len
FrameEnd(t, i) == t[i].off + t[i].chunk_len

\* The transactions that generation g lists.
Upto(l, g) == {l[h] : h \in 1 .. g}

\* s is the index that lists the transactions ids, unit by unit.
Exact(t, s, ids) ==
  \A i \in DOMAIN s :
    \E k \in ids : s[i] = <<"index", k, i - 1>> /\ i - 1 \in Entries(t, k)

(* s is the remains of an index: one of its positions is held by no unit.  *)
(* No write of a later call brings it back, since a copy copies what is    *)
(* there and new entries go behind it: such an index never parses again.   *)
Holed(s) ==
  \E q \in 0 .. Len(s) - 1 : \A i \in DOMAIN s : ~(s[i][1] = "index" /\ s[i][3] = q)

Sound(t, s, ids, damaged) == Exact(t, s, ids) \/ (damaged /\ Holed(s))

IndexOn(f, loc) == Ciphertext(f, loc.index_offset, loc.index_length)

-----------------------------------------------------------------------------
(* The log: index entries lie one transaction after the other.             *)

Ordered(t, l) == \A g, h \in DOMAIN l : g < h => EntryEnd(t, l[g]) <= t[l[h]].start

LogOrdered == Ordered(txns, log)

\* A locator lists the first transactions of the log: their entries are in
\* its index, their frames before it.
LocatorSound(t, l, loc, damaged) ==
  /\ \A g \in 1 .. loc.generation : /\ EntryEnd(t, l[g]) <= loc.index_length
                                    /\ FrameEnd(t, l[g]) <= loc.index_offset
  /\ Len(loc.index_mac) = loc.index_length
  /\ Sound(t, loc.index_mac, Upto(l, loc.generation), damaged)

SlotsSound ==
  \A f \in {file, disk} : \A i \in ValidSlots(f) :
    f.slot[i].loc.slot_index = i /\ LocatorSound(txns, log, f.slot[i].loc, lost)

(* One slot at least is on disk as it is on file (f and d).  Either it is  *)
(* the active one, or the active one, of generation n, was written next to *)
(* it and not yet synced.                                                  *)
Older(s, n) == s.valid => s.loc.generation < n

Durable(f, d, n, c) ==
  /\ f.slot[c] = d.slot[c] /\ f.slot[c].valid /\ f.slot[c].loc.generation = n
  /\ Older(f.slot[1 - c], n) /\ Older(d.slot[1 - c], n)

Ahead(f, d, n, c) ==
  /\ f.slot[c] = d.slot[c] /\ f.slot[c].valid /\ f.slot[c].loc.generation = n - 1
  /\ f.slot[1 - c].valid /\ f.slot[1 - c].loc.generation = n
  /\ Older(d.slot[1 - c], n - 1)

SlotOrder ==
  /\ \E c \in {0, 1} : Durable(file, disk, Len(log), c) \/ Ahead(file, disk, Len(log), c)
  /\ acked <= ActiveLocator(disk).generation

-----------------------------------------------------------------------------
(* The call under way. *)

\* Its frames go behind all committed ones, and before its index.
CallPlaced ==
  pc # "free" =>
    /\ pc # "sync_slot" => \A g \in DOMAIN log : FrameEnd(txns, log[g]) <= txn.off
    /\ txn.off <= wr.loc.index_offset
    /\ ~wr.relocate => FrameEnd(txns, id) <= wr.loc.index_offset

\* Its locator is the active one until it publishes another.
CallSlots ==
  /\ pc \notin {"free", "sync_slot"} => wr.loc = ActiveLocator(file)
  /\ pc \in {"seal", "slot"} => Durable(file, disk, Len(log), SameSlot)
  /\ pc = "sync_slot" =>
       /\ Ahead(file, disk, Len(log), SameSlot) /\ log[Len(log)] = id
       /\ file.slot[SameSlot].loc = wr.loc /\ file.slot[OtherSlot].loc = NewLocator

\* Its index lists the log; the region it came from holds that index, unless
\* the call has overwritten it.
CallIndex ==
  pc # "free" =>
    /\ wr.index = Upto(log, wr.loc.generation)
    /\ pc # "sync_slot" =>
         Sound(txns, IndexOn(file, wr.loc), Upto(log, wr.loc.generation), lost \/ Overwriting)

Copied  == {"extend", "sync_extend", "entries", "frames", "sync_moved", "seal"}
Entered == {"sync_extend", "frames", "sync_moved", "seal"}
Framed  == {"sync_append", "extend", "sync_extend", "sync_moved", "seal", "slot"}

EntriesWritten ==
  \A q \in Entries(txns, id) : file.body[IndexOffset + q] = <<"index", id, q>>

\* The region the index goes to has the old entries, then the new ones.
NewIndex ==
  /\ pc \in Copied =>
       Sound(txns, Ciphertext(file, IndexOffset, wr.loc.index_length),
             Upto(log, wr.loc.generation), lost)
  /\ pc \in Entered => EntriesWritten
  /\ pc \in {"slot", "sync_slot"} =>
       /\ wr.mac = Ciphertext(file, IndexOffset, IndexLength)
       /\ Sound(txns, wr.mac, Upto(log, wr.loc.generation) \cup {id}, lost)
  /\ pc \in OnDisk =>
       \A x \in Region(IndexOffset, IndexLength) : disk.body[x] = file.body[x]

FramesOn(t, f, i) ==
  \A x \in Region(t[i].off, t[i].chunk_len) :
    x < f.eof /\ f.body[x] = <<"chunk", i, x - t[i].off + 1>>

OwnFrames ==
  /\ pc \in Framed => FramesOn(txns, file, id)
  /\ pc \in Framed \ {"sync_append", "sync_moved"} => FramesOn(txns, disk, id)

-----------------------------------------------------------------------------
(* The indexes a process may come to use. *)

ActiveIndexOn(f, a) == IndexOn(f, ActiveLocator(a))
ActiveTxns(a)       == Upto(log, ActiveLocator(a).generation)

\* Between calls, a snapshot of the active locator vouches for its region.
IdleIndex ==
  \A p \in DOMAIN committed :
    (pc = "free" /\ committed[p].locator = ActiveLocator(file)) =>
      Sound(txns, ActiveIndexOn(file, file), ActiveTxns(file), lost)

\* The active index is on file and on disk.
ActiveIndexKept ==
  (~lost /\ ~Overwriting) =>
    \A f \in {file, disk} : Exact(txns, ActiveIndexOn(f, file), ActiveTxns(file))

\* So is the one that the disk has as active.
DurableIndexKept ==
  (~lost /\ ~exposed) =>
    \A f \in {file, disk} : Exact(txns, ActiveIndexOn(f, disk), ActiveTxns(disk))

(* Without faults nothing is encrypted that does not get into the log.     *)
NothingWasted ==
  faults = 0 =>
    \A i \in DOMAIN txns : \/ \E g \in DOMAIN log : log[g] = i
                           \/ i = id /\ pc \notin {"free", "sync_slot"}

FramesInBody == \A i \in DOMAIN txns : FRONT_MATTER_LEN <= txns[i].off

StreamInPlace == \A a \in stream : a[1] \in Entries(txns, a[2])

Safe ==
  /\ IndInv
  /\ LogOrdered
  /\ SlotsSound
  /\ SlotOrder
  /\ CallPlaced
  /\ CallSlots
  /\ CallIndex
  /\ NewIndex
  /\ OwnFrames
  /\ SnapshotSound
  /\ IdleIndex
  /\ ActiveIndexKept
  /\ DurableIndexKept
  /\ CommittedChunksIntact
  /\ FramesInBody
  /\ NothingWasted
  /\ StreamInPlace

-----------------------------------------------------------------------------
(* Reads and writes, cell by cell. *)

LEMMA CiphertextCells ==
  ASSUME NEW f, NEW o \in Nat, NEW m \in Nat
  PROVE  /\ DOMAIN Ciphertext(f, o, m) = 1 .. m
         /\ Len(Ciphertext(f, o, m)) = m
         /\ \A i \in 1 .. m : Ciphertext(f, o, m)[i] = f.body[o + i - 1]
BY DEF Ciphertext

LEMMA PutCells ==
  ASSUME NEW f, IsImage(f), NEW w, w.offset \in Nat, FRONT_MATTER_LEN <= w.offset, NEW n \in Nat
  PROVE  /\ \A x \in Region(w.offset, n) : Put(f, w, n).body[x] = w.cells[x - w.offset + 1]
         /\ \A x \in FRONT_MATTER_LEN .. f.eof - 1 :
              x \notin Region(w.offset, n) => Put(f, w, n).body[x] = f.body[x]
         /\ Put(f, w, n).slot = f.slot
         /\ f.eof <= Put(f, w, n).eof /\ Put(f, w, n).eof \in Nat
<1>1. f.eof \in Nat
  BY DEF IsImage
<1> DEFINE eof == IF w.offset + n > f.eof THEN w.offset + n ELSE f.eof
           body == [x \in FRONT_MATTER_LEN .. eof - 1 |->
                      IF x \in Region(w.offset, n) THEN w.cells[x - w.offset + 1]
                      ELSE IF x < f.eof THEN f.body[x] ELSE Junk]
<1>2. Put(f, w, n) = [slot |-> f.slot, eof |-> eof, body |-> body]
  BY DEF Put
<1>3. Put(f, w, n).slot = f.slot /\ Put(f, w, n).eof = eof /\ Put(f, w, n).body = body
  BY <1>2
<1>4. eof \in Nat /\ f.eof <= eof /\ w.offset + n <= eof
  BY <1>1
<1>5. ASSUME NEW x \in Region(w.offset, n) PROVE body[x] = w.cells[x - w.offset + 1]
  <2>1. x \in FRONT_MATTER_LEN .. eof - 1
    BY <1>4, LayoutAssumption DEF Region
  <2> HIDE DEF eof
  <2> QED BY <2>1
<1>6. ASSUME NEW x \in FRONT_MATTER_LEN .. f.eof - 1, x \notin Region(w.offset, n)
      PROVE  body[x] = f.body[x]
  <2>1. x \in FRONT_MATTER_LEN .. eof - 1 /\ x < f.eof
    BY <1>1, <1>4, LayoutAssumption
  <2> HIDE DEF eof
  <2> QED BY <1>6, <2>1
<1> HIDE DEF eof, body
<1> QED BY <1>3, <1>4, <1>5, <1>6

\* A write that misses a region leaves what it holds.
LEMMA PutMisses ==
  ASSUME NEW f, IsImage(f), NEW w, w.offset \in Nat, FRONT_MATTER_LEN <= w.offset, NEW n \in Nat,
         NEW o \in Nat, NEW m \in Nat, FRONT_MATTER_LEN <= o, o + m <= f.eof,
         ~Overlap(w.offset, n, o, m)
  PROVE  Ciphertext(Put(f, w, n), o, m) = Ciphertext(f, o, m)
<1> DEFINE g == Put(f, w, n)
<1>1. f.eof \in Nat
  BY DEF IsImage
<1>2. ASSUME NEW i \in 1 .. m PROVE g.body[o + i - 1] = f.body[o + i - 1]
  <2>1. o + i - 1 \in FRONT_MATTER_LEN .. f.eof - 1
    BY <1>1, LayoutAssumption
  <2>2. o + i - 1 \notin Region(w.offset, n)
    BY DEF Region, Overlap
  <2> QED BY <2>1, <2>2, PutCells
<1> HIDE DEF g
<1>3. Ciphertext(g, o, m) = Ciphertext(f, o, m)
  BY <1>2 DEF Ciphertext
<1> QED BY <1>3 DEF g

\* What a region holds after a write that hits it.
LEMMA PutHits ==
  ASSUME NEW f, IsImage(f), NEW w, w.offset \in Nat, FRONT_MATTER_LEN <= w.offset, NEW n \in Nat,
         NEW o \in Nat, NEW m \in Nat, FRONT_MATTER_LEN <= o, o + m <= f.eof,
         NEW i \in 1 .. m
  PROVE  \/ /\ o + i - 1 \in Region(w.offset, n)
            /\ Ciphertext(Put(f, w, n), o, m)[i] = w.cells[o + i - w.offset]
         \/ /\ o + i - 1 \notin Region(w.offset, n)
            /\ Ciphertext(Put(f, w, n), o, m)[i] = Ciphertext(f, o, m)[i]
<1> DEFINE g == Put(f, w, n)
<1>1. f.eof \in Nat
  BY DEF IsImage
<1>2. Ciphertext(g, o, m)[i] = g.body[o + i - 1] /\ Ciphertext(f, o, m)[i] = f.body[o + i - 1]
  BY CiphertextCells, ZenonT(60)
<1>3. CASE o + i - 1 \in Region(w.offset, n)
  <2>1. g.body[o + i - 1] = w.cells[o + i - 1 - w.offset + 1]
    BY <1>3, PutCells
  <2>2. o + i - 1 - w.offset + 1 = o + i - w.offset
    OBVIOUS
  <2> QED BY <1>2, <1>3, <2>1, <2>2
<1>4. CASE o + i - 1 \notin Region(w.offset, n)
  <2>1. o + i - 1 \in FRONT_MATTER_LEN .. f.eof - 1
    BY <1>1, LayoutAssumption
  <2>2. g.body[o + i - 1] = f.body[o + i - 1]
    BY <1>4, <2>1, PutCells
  <2> QED BY <1>2, <1>4, <2>2
<1> QED BY <1>3, <1>4

-----------------------------------------------------------------------------
(* What becomes of an index that a write runs over. *)

\* A cell that is no part of an index of m units.
Foreign(c, m) == c[1] = "index" => c[3] \notin 0 .. m - 1

\* Neither cells of another kind nor cells of its own fill a hole.
LEMMA HoleStays ==
  ASSUME NEW f, IsImage(f), NEW w, w.offset \in Nat, FRONT_MATTER_LEN <= w.offset, NEW n \in Nat,
         NEW o \in Nat, NEW m \in Nat, FRONT_MATTER_LEN <= o, o + m <= f.eof,
         Holed(Ciphertext(f, o, m)),
         \A k \in 1 .. n : \/ Foreign(w.cells[k], m)
                           \/ \E i \in 1 .. m : w.cells[k] = Ciphertext(f, o, m)[i]
  PROVE  Holed(Ciphertext(Put(f, w, n), o, m))
<1> DEFINE s == Ciphertext(f, o, m)
           r == Ciphertext(Put(f, w, n), o, m)
<1>1. DOMAIN s = 1 .. m /\ Len(s) = m /\ DOMAIN r = 1 .. m /\ Len(r) = m
  BY DEF Ciphertext
<1>2. \A i \in 1 .. m : \/ /\ o + i - 1 \in Region(w.offset, n)
                           /\ r[i] = w.cells[o + i - w.offset]
                        \/ r[i] = s[i]
  BY PutHits
<1>3. \A k \in 1 .. n : Foreign(w.cells[k], m) \/ \E i \in 1 .. m : w.cells[k] = s[i]
  OBVIOUS
<1>4. Holed(s)
  OBVIOUS
<1> HIDE DEF s, r
<1>5. PICK q \in 0 .. m - 1 : \A i \in 1 .. m : ~(s[i][1] = "index" /\ s[i][3] = q)
  BY <1>1, <1>4 DEF Holed
<1>6. ASSUME NEW i \in 1 .. m PROVE ~(r[i][1] = "index" /\ r[i][3] = q)
  <2>1. CASE r[i] = s[i]
    BY <1>5, <2>1
  <2>2. CASE o + i - 1 \in Region(w.offset, n) /\ r[i] = w.cells[o + i - w.offset]
    <3>1. o + i - w.offset \in 1 .. n
      BY <2>2 DEF Region
    <3>2. CASE Foreign(r[i], m)
      BY <3>2, <1>5 DEF Foreign
    <3>3. CASE \E j \in 1 .. m : r[i] = s[j]
      BY <3>3, <1>5
    <3> QED BY <3>1, <3>2, <3>3, <2>2, <1>3
  <2> QED BY <1>2, <2>1, <2>2
<1>7. Holed(r)
  BY <1>1, <1>5, <1>6 DEF Holed
<1> QED BY <1>7 DEF r

\* Two indexes that hold the same cells are both exact.
LEMMA SameCells ==
  ASSUME NEW s, NEW r, NEW t, NEW ids, DOMAIN r = DOMAIN s, \A i \in DOMAIN s : r[i] = s[i], Exact(t, s, ids)
  PROVE  Exact(t, r, ids)
BY DEF Exact

\* Foreign cells leave an index as it is or with a hole.
LEMMA ForeignWrite ==
  ASSUME NEW f, IsImage(f), NEW w, w.offset \in Nat, FRONT_MATTER_LEN <= w.offset, NEW n \in Nat,
         NEW o \in Nat, NEW m \in Nat, FRONT_MATTER_LEN <= o, o + m <= f.eof, NEW t, NEW ids,
         Exact(t, Ciphertext(f, o, m), ids),
         \A k \in 1 .. n : Foreign(w.cells[k], m)
  PROVE  LET r == Ciphertext(Put(f, w, n), o, m) IN Exact(t, r, ids) \/ Holed(r)
<1> DEFINE s == Ciphertext(f, o, m)
           r == Ciphertext(Put(f, w, n), o, m)
           Hit(i) == o + i - 1 \in Region(w.offset, n)
<1>1. DOMAIN s = 1 .. m /\ Len(s) = m /\ DOMAIN r = 1 .. m /\ Len(r) = m
  BY DEF Ciphertext
<1>2. \A i \in 1 .. m : (Hit(i) /\ r[i] = w.cells[o + i - w.offset]) \/ (~Hit(i) /\ r[i] = s[i])
  BY PutHits
<1>3. Exact(t, s, ids)
  OBVIOUS
<1> HIDE DEF s, r
<1>4. CASE \A i \in 1 .. m : ~Hit(i)
  <2>1. \A i \in DOMAIN s : r[i] = s[i]
    BY <1>1, <1>2, <1>4
  <2>2. Exact(t, r, ids)
    BY <1>1, <1>3, <2>1, SameCells
  <2> QED BY <2>2 DEF r
<1>5. CASE \E i \in 1 .. m : Hit(i)
  <2>1. PICK i \in 1 .. m : Hit(i)
    BY <1>5
  <2>2. ASSUME NEW j \in 1 .. m PROVE ~(r[j][1] = "index" /\ r[j][3] = i - 1)
    <3>1. CASE Hit(j) /\ r[j] = w.cells[o + j - w.offset]
      <4>1. o + j - w.offset \in 1 .. n
        BY <3>1 DEF Region
      <4>2. Foreign(r[j], m)
        BY <3>1, <4>1
      <4>3. i - 1 \in 0 .. m - 1
        OBVIOUS
      <4> QED BY <4>2, <4>3 DEF Foreign
    <3>2. CASE ~Hit(j) /\ r[j] = s[j]
      <4>1. PICK k \in ids : s[j] = <<"index", k, j - 1>>
        BY <1>1, <1>3 DEF Exact
      <4>2. r[j][3] = j - 1
        BY <3>2, <4>1
      <4>3. j # i
        BY <2>1, <3>2
      <4> QED BY <4>2, <4>3
    <3> QED BY <1>2, <3>1, <3>2
  <2>3. i - 1 \in 0 .. Len(r) - 1
    BY <1>1
  <2>4. Holed(r)
    BY <1>1, <2>2, <2>3 DEF Holed
  <2> QED BY <2>4 DEF r
<1> QED BY <1>4, <1>5

\* So does a copy of the index that lands somewhere else: of the cells it
\* runs over, the one furthest in the direction of the copy is lost.
LEMMA CopyOverItself ==
  ASSUME NEW f, IsImage(f), NEW w, w.offset \in Nat, FRONT_MATTER_LEN <= w.offset,
         NEW o \in Nat, NEW m \in Nat, FRONT_MATTER_LEN <= o, o + m <= f.eof, NEW n \in 0 .. m, NEW t, NEW ids,
         w.cells = Ciphertext(f, o, m), Exact(t, Ciphertext(f, o, m), ids), w.offset # o
  PROVE  LET r == Ciphertext(Put(f, w, n), o, m) IN Exact(t, r, ids) \/ Holed(r)
<1> DEFINE s == Ciphertext(f, o, m)
           r == Ciphertext(Put(f, w, n), o, m)
           Hit(i) == o + i - 1 \in Region(w.offset, n)
<1>1. DOMAIN s = 1 .. m /\ Len(s) = m /\ DOMAIN r = 1 .. m /\ Len(r) = m
  BY DEF Ciphertext
<1>2. \A i \in 1 .. m : (Hit(i) /\ r[i] = s[o + i - w.offset]) \/ (~Hit(i) /\ r[i] = s[i])
  BY PutHits
<1>3. Exact(t, s, ids)
  OBVIOUS
<1> HIDE DEF s, r
<1>4. \A i \in 1 .. m : s[i][3] = i - 1
  BY <1>1, <1>3 DEF Exact
<1>5. ASSUME NEW i \in 1 .. m, Hit(i)
      PROVE  o + i - w.offset \in 1 .. m /\ r[i][3] = o + i - w.offset - 1
  <2>1. o + i - w.offset \in 1 .. m
    BY <1>5 DEF Region
  <2> QED BY <1>2, <1>4, <1>5, <2>1
<1>6. ASSUME NEW i \in 1 .. m, ~Hit(i) PROVE r[i][3] = i - 1
  BY <1>2, <1>4, <1>6
<1>7. CASE \A i \in 1 .. m : ~Hit(i)
  <2>1. \A i \in DOMAIN s : r[i] = s[i]
    BY <1>1, <1>2, <1>7
  <2>2. Exact(t, r, ids)
    BY <1>1, <1>3, <2>1, SameCells
  <2> QED BY <2>2 DEF r
<1>8. ASSUME NEW i \in 1 .. m, Hit(i) PROVE Holed(r)
  <2>1. CASE w.offset < o
    <3>1. 1 \in 1 .. m /\ Hit(1)
      BY <1>8, <2>1 DEF Region
    <3>2. \A j \in 1 .. m : r[j][3] # 0
      <4>1. ASSUME NEW j \in 1 .. m, Hit(j) PROVE r[j][3] # 0
        BY <4>1, <1>5, <2>1
      <4>2. ASSUME NEW j \in 1 .. m, ~Hit(j) PROVE r[j][3] # 0
        <5>1. j # 1
          BY <3>1, <4>2
        <5> QED BY <4>2, <5>1, <1>6
      <4> QED BY <4>1, <4>2
    <3> QED BY <1>1, <3>1, <3>2 DEF Holed
  <2>2. CASE w.offset > o
    <3>1. PICK b \in 1 .. m : Hit(b) /\ \A j \in 1 .. m : Hit(j) => j <= b
      <4>1. CASE w.offset + n <= o + m
        <5>1. w.offset + n - o \in 1 .. m /\ Hit(w.offset + n - o)
          BY <1>8, <2>2, <4>1 DEF Region
        <5>2. \A j \in 1 .. m : Hit(j) => j <= w.offset + n - o
          BY DEF Region
        <5> QED BY <5>1, <5>2
      <4>2. CASE w.offset + n > o + m
        <5>1. m \in 1 .. m /\ Hit(m)
          BY <1>8, <2>2, <4>2 DEF Region
        <5> QED BY <5>1
      <4> QED BY <4>1, <4>2
    <3>2. \A j \in 1 .. m : r[j][3] # b - 1
      <4>1. ASSUME NEW j \in 1 .. m, Hit(j) PROVE r[j][3] # b - 1
        <5>1. j <= b
          BY <3>1, <4>1
        <5> QED BY <4>1, <5>1, <1>5, <2>2
      <4>2. ASSUME NEW j \in 1 .. m, ~Hit(j) PROVE r[j][3] # b - 1
        <5>1. j # b
          BY <3>1, <4>2
        <5> QED BY <4>2, <5>1, <1>6
      <4> QED BY <4>1, <4>2
    <3> QED BY <1>1, <3>2 DEF Holed
  <2> QED BY <2>1, <2>2
<1> QED BY <1>7, <1>8 DEF r

-----------------------------------------------------------------------------
(* An exact index parses, and there is only one. *)

LEMMA TxnFacts ==
  ASSUME NEW t \in Seq(Txn), NEW i \in DOMAIN t
  PROVE  /\ t[i].start \in Nat /\ t[i].entry_len \in Nat \ {0}
         /\ t[i].off \in Nat /\ t[i].chunk_len \in Nat
         /\ EntryEnd(t, i) \in Nat /\ FrameEnd(t, i) \in Nat
         /\ t[i].start \in Entries(t, i)
         /\ \A q \in Entries(t, i) : q \in Nat /\ t[i].start <= q /\ q < EntryEnd(t, i)
<1>1. t[i] \in Txn
  OBVIOUS
<1>2. /\ t[i].start \in Nat /\ t[i].entry_len \in Nat \ {0}
      /\ t[i].off \in Nat /\ t[i].chunk_len \in Nat
  BY <1>1 DEF Txn
<1>3. EntryEnd(t, i) \in Nat /\ FrameEnd(t, i) \in Nat
  BY <1>2, SMTT(60) DEF EntryEnd, FrameEnd
<1>4. Entries(t, i) = t[i].start .. t[i].start + t[i].entry_len - 1
  BY DEF Entries, Region
<1>5. /\ t[i].start \in Entries(t, i)
      /\ \A q \in Entries(t, i) : q \in Nat /\ t[i].start <= q /\ q < EntryEnd(t, i)
  BY <1>2, <1>4 DEF EntryEnd
<1> QED BY <1>2, <1>3, <1>5

LEMMA OneOwner ==
  ASSUME NEW t \in Seq(Txn), NEW l \in Seq(DOMAIN t), Ordered(t, l),
         NEW g \in DOMAIN l, NEW h \in DOMAIN l,
         NEW q, q \in Entries(t, l[g]), q \in Entries(t, l[h])
  PROVE  g = h
<1>1. l[g] \in DOMAIN t /\ l[h] \in DOMAIN t /\ g \in Nat /\ h \in Nat
  OBVIOUS
<1>2. /\ q \in Nat /\ t[l[g]].start <= q /\ q < EntryEnd(t, l[g])
      /\ t[l[h]].start <= q /\ q < EntryEnd(t, l[h])
      /\ EntryEnd(t, l[g]) \in Nat /\ EntryEnd(t, l[h]) \in Nat
      /\ t[l[h]].start \in Nat /\ t[l[g]].start \in Nat
  BY <1>1, TxnFacts
<1>3. ~(g < h)
  BY <1>2 DEF Ordered
<1>4. ~(h < g)
  BY <1>2 DEF Ordered
<1> QED BY <1>1, <1>3, <1>4

\* Every unit of every transaction that an exact index lists is in its place.
LEMMA ExactHolds ==
  ASSUME NEW t \in Seq(Txn), NEW l \in Seq(DOMAIN t), Ordered(t, l), NEW g \in 0 .. Len(l),
         NEW s, NEW n \in Nat, DOMAIN s = 1 .. n, Exact(t, s, Upto(l, g)),
         \A h \in 1 .. g : EntryEnd(t, l[h]) <= n,
         NEW k \in Upto(l, g), NEW q \in Entries(t, k)
  PROVE  q + 1 \in DOMAIN s /\ s[q + 1] = <<"index", k, q>>
<1>1. PICK h \in 1 .. g : k = l[h]
  BY DEF Upto
<1>2. h \in DOMAIN l /\ k \in DOMAIN t
  BY <1>1
<1>3. q \in Nat /\ q < n
  <2>1. q \in Nat /\ q < EntryEnd(t, k) /\ EntryEnd(t, k) \in Nat
    BY <1>2, TxnFacts
  <2> QED BY <1>1, <2>1
<1>4. PICK p \in DOMAIN s : p = q + 1 /\ p - 1 = q
  BY <1>3
<1>5. PICK j \in Upto(l, g) : s[p] = <<"index", j, p - 1>> /\ p - 1 \in Entries(t, j)
  BY DEF Exact
<1>7. PICK i \in 1 .. g : j = l[i]
  BY <1>5 DEF Upto
<1>8. i \in DOMAIN l
  BY <1>7
<1>9. q \in Entries(t, l[i]) /\ q \in Entries(t, l[h])
  BY <1>1, <1>4, <1>5, <1>7
<1>10. i = h
  BY <1>2, <1>8, <1>9, OneOwner
<1> QED BY <1>1, <1>4, <1>5, <1>7, <1>10

LEMMA ExactUnique ==
  ASSUME NEW t \in Seq(Txn), NEW l \in Seq(DOMAIN t), Ordered(t, l), NEW g \in 0 .. Len(l),
         NEW n \in Nat, NEW s, DOMAIN s = 1 .. n, NEW r, DOMAIN r = 1 .. n,
         Exact(t, s, Upto(l, g)), Exact(t, r, Upto(l, g)),
         \A h \in 1 .. g : EntryEnd(t, l[h]) <= n
  PROVE  \A i \in 1 .. n : s[i] = r[i]
<1> SUFFICES ASSUME NEW i \in 1 .. n PROVE s[i] = r[i]
  OBVIOUS
<1>1. PICK k \in Upto(l, g) : s[i] = <<"index", k, i - 1>> /\ i - 1 \in Entries(t, k)
  BY DEF Exact
<1>2. \A q \in Entries(t, k) : r[q + 1] = <<"index", k, q>>
  BY ExactHolds
<1>3. i - 1 + 1 = i
  OBVIOUS
<1>4. r[i - 1 + 1] = <<"index", k, i - 1>>
  BY <1>1, <1>2
<1> QED BY <1>1, <1>3, <1>4

LEMMA ExactParses ==
  ASSUME txns \in Seq(Txn), log \in Seq(DOMAIN txns), LogOrdered,
         NEW g \in 0 .. Len(log), NEW s, NEW n \in Nat, DOMAIN s = 1 .. n,
         Exact(txns, s, Upto(log, g)), \A h \in 1 .. g : EntryEnd(txns, log[h]) <= n
  PROVE  Parses(s) /\ Decode(s) = Upto(log, g)
<1>1. \A k \in Upto(log, g) : k \in DOMAIN txns
  BY DEF Upto
<1>2. \A k \in Upto(log, g) : \A q \in Entries(txns, k) :
        q + 1 \in DOMAIN s /\ s[q + 1] = <<"index", k, q>>
  BY ExactHolds DEF LogOrdered
<1>3. ASSUME NEW i \in DOMAIN s
      PROVE  /\ s[i][1] = "index" /\ s[i][3] = i - 1 /\ s[i][2] \in Upto(log, g)
  BY DEF Exact
<1>4. Parses(s)
  <2>1. ASSUME NEW i \in DOMAIN s,
               NEW q \in Region(txns[s[i][2]].start, txns[s[i][2]].entry_len)
        PROVE  q + 1 \in DOMAIN s /\ s[q + 1][2] = s[i][2]
    <3>1. q \in Entries(txns, s[i][2])
      BY DEF Entries
    <3>2. q + 1 \in DOMAIN s /\ s[q + 1] = <<"index", s[i][2], q>>
      BY <1>2, <1>3, <3>1
    <3> QED BY <3>2
  <2>2. \A i \in DOMAIN s : s[i][2] \in DOMAIN txns
    BY <1>1, <1>3
  <2> QED BY <1>3, <2>1, <2>2 DEF Parses
<1>5. Decode(s) \subseteq Upto(log, g)
  BY <1>3 DEF Decode
<1>6. ASSUME NEW k \in Upto(log, g) PROVE k \in Decode(s)
  <2>1. txns[k].start \in Entries(txns, k)
    BY <1>1, TxnFacts
  <2> DEFINE i == txns[k].start + 1
  <2>2. i \in DOMAIN s /\ s[i] = <<"index", k, txns[k].start>>
    BY <1>2, <2>1
  <2> HIDE DEF i
  <2>3. s[i][2] = k
    BY <2>2
  <2> QED BY <2>2, <2>3 DEF Decode
<1> QED BY <1>4, <1>5, <1>6

LEMMA HoledFails ==
  ASSUME NEW s, NEW n \in Nat, DOMAIN s = 1 .. n, Len(s) = n, Holed(s)
  PROVE  ~Parses(s)
<1>1. PICK q \in 0 .. n - 1 : \A i \in DOMAIN s : ~(s[i][1] = "index" /\ s[i][3] = q)
  BY DEF Holed
<1> DEFINE i == q + 1
<1>2. i \in DOMAIN s /\ i - 1 = q
  OBVIOUS
<1> HIDE DEF i
<1>3. ~(s[i][1] = "index" /\ s[i][3] = i - 1)
  BY <1>1, <1>2
<1> QED BY <1>2, <1>3 DEF Parses

-----------------------------------------------------------------------------
(* Which locator is active. *)

LEMMA SlotGeneration ==
  ASSUME NEW f, IsImage(f), NEW i \in {0, 1}, f.slot[i].valid
  PROVE  i \in ValidSlots(f) /\ f.slot[i].loc \in Locator /\ f.slot[i].loc.generation \in Nat
<1>1. i \in ValidSlots(f)
  BY DEF ValidSlots
<1> QED BY <1>1, ValidSlotType

LEMMA ActiveOfDurable ==
  ASSUME NEW f, IsImage(f), NEW d, IsImage(d), NEW n \in Nat, NEW c \in {0, 1},
         Durable(f, d, n, c)
  PROVE  /\ c \in ValidSlots(f) /\ c \in ValidSlots(d)
         /\ ActiveLocator(f) = f.slot[c].loc /\ ActiveLocator(d) = f.slot[c].loc
         /\ ActiveLocator(f).generation = n
<1>1. /\ f.slot[c] = d.slot[c] /\ f.slot[c].valid /\ f.slot[c].loc.generation = n
      /\ f.slot[1 - c].valid => f.slot[1 - c].loc.generation < n
      /\ d.slot[1 - c].valid => d.slot[1 - c].loc.generation < n
  BY DEF Durable, Older
<1>2. c \in ValidSlots(f) /\ c \in ValidSlots(d) /\ 1 - c \in {0, 1}
  BY <1>1 DEF ValidSlots
<1>3. f.slot[1 - c].valid => f.slot[1 - c].loc.generation \in Nat
  BY <1>2, SlotGeneration
<1>4. d.slot[1 - c].valid => d.slot[1 - c].loc.generation \in Nat
  BY <1>2, SlotGeneration
<1>5. CASE c = 0
  <2>1. 1 - c = 1
    BY <1>5
  <2> QED BY <1>1, <1>2, <1>3, <1>4, <1>5, <2>1 DEF ActiveLocator
<1>6. CASE c = 1
  <2>1. 1 - c = 0
    BY <1>6
  <2> QED BY <1>1, <1>2, <1>3, <1>4, <1>6, <2>1 DEF ActiveLocator
<1> QED BY <1>5, <1>6

LEMMA ActiveOfAhead ==
  ASSUME NEW f, IsImage(f), NEW d, IsImage(d), NEW n \in Nat, NEW c \in {0, 1},
         Ahead(f, d, n, c)
  PROVE  /\ 1 - c \in ValidSlots(f) /\ c \in ValidSlots(f) /\ c \in ValidSlots(d)
         /\ ActiveLocator(f) = f.slot[1 - c].loc /\ ActiveLocator(d) = f.slot[c].loc
         /\ ActiveLocator(f).generation = n /\ ActiveLocator(d).generation = n - 1
<1>1. /\ f.slot[c] = d.slot[c] /\ f.slot[c].valid /\ f.slot[c].loc.generation = n - 1
      /\ f.slot[1 - c].valid /\ f.slot[1 - c].loc.generation = n
      /\ d.slot[1 - c].valid => d.slot[1 - c].loc.generation < n - 1
  BY DEF Ahead, Older
<1>2. c \in ValidSlots(f) /\ c \in ValidSlots(d) /\ 1 - c \in {0, 1} /\ 1 - c \in ValidSlots(f)
  BY <1>1 DEF ValidSlots
<1>3. d.slot[1 - c].valid => d.slot[1 - c].loc.generation \in Nat
  BY <1>2, SlotGeneration
<1>4. CASE c = 0
  <2>1. 1 - c = 1
    BY <1>4
  <2> QED BY <1>1, <1>2, <1>3, <1>4, <2>1 DEF ActiveLocator
<1>5. CASE c = 1
  <2>1. 1 - c = 0
    BY <1>5
  <2> QED BY <1>1, <1>2, <1>3, <1>5, <2>1 DEF ActiveLocator
<1> QED BY <1>4, <1>5

\* The parts of Safe that are about the state between two steps.
LEMMA Typed ==
  ASSUME IndInv
  PROVE  /\ IsImage(file) /\ IsImage(disk) /\ file.eof \in Nat /\ disk.eof \in Nat
         /\ FRONT_MATTER_LEN <= disk.eof /\ disk.eof <= file.eof
         /\ txns \in Seq(Txn) /\ log \in Seq(DOMAIN txns) /\ Len(log) \in Nat
         /\ lost \in BOOLEAN /\ exposed \in BOOLEAN
BY SlotsBoundedIff DEF IndInv, TypeOK, IsImage

\* The active locator of the file, and that of the disk.
LEMMA ActiveFacts ==
  ASSUME IndInv, SlotsSound, SlotOrder
  PROVE  /\ ActiveLocator(file).generation = Len(log)
         /\ \A f \in {file, disk} :
              LET loc == ActiveLocator(f)
              IN  /\ ValidSlots(f) # {} /\ loc \in Locator
                  /\ loc.index_offset \in Nat /\ loc.index_length \in Nat
                  /\ loc.generation \in 0 .. Len(log)
                  /\ FRONT_MATTER_LEN <= loc.index_offset
                  /\ loc.index_offset + loc.index_length <= disk.eof
                  /\ LocatorSound(txns, log, loc, lost)
<1>1. IsImage(file) /\ IsImage(disk) /\ Len(log) \in Nat
  BY Typed
<1>2. PICK c \in {0, 1} : Durable(file, disk, Len(log), c) \/ Ahead(file, disk, Len(log), c)
  BY DEF SlotOrder
<1>3. /\ ValidSlots(file) # {} /\ ValidSlots(disk) # {}
      /\ ActiveLocator(file).generation = Len(log)
  BY <1>1, <1>2, ActiveOfDurable, ActiveOfAhead
<1>4. SlotsBounded(file, disk.eof, Len(log)) /\ SlotsBounded(disk, disk.eof, Len(log))
  BY SlotsBoundedIff DEF IndInv
<1>5. ASSUME NEW f \in {file, disk}
      PROVE  LET loc == ActiveLocator(f)
             IN  /\ ValidSlots(f) # {} /\ loc \in Locator
                 /\ loc.index_offset \in Nat /\ loc.index_length \in Nat
                 /\ loc.generation \in 0 .. Len(log)
                 /\ FRONT_MATTER_LEN <= loc.index_offset
                 /\ loc.index_offset + loc.index_length <= disk.eof
                 /\ LocatorSound(txns, log, loc, lost)
  <2>1. IsImage(f) /\ ValidSlots(f) # {} /\ SlotsBounded(f, disk.eof, Len(log))
    BY <1>1, <1>3, <1>4
  <2>2. PICK i \in ValidSlots(f) : ActiveLocator(f) = f.slot[i].loc
    BY <2>1, ActiveIsValid
  <2>3. /\ f.slot[i].loc \in Locator /\ f.slot[i].loc.generation \in Nat
        /\ f.slot[i].loc.index_offset \in Nat /\ f.slot[i].loc.index_length \in Nat
    BY <2>1, ValidSlotType
  <2>4. /\ FRONT_MATTER_LEN <= f.slot[i].loc.index_offset
        /\ IndexEnd(f.slot[i].loc) <= disk.eof
        /\ f.slot[i].loc.generation <= Len(log)
    BY <2>1 DEF SlotsBounded
  <2>5. LocatorSound(txns, log, f.slot[i].loc, lost)
    BY DEF SlotsSound
  <2> QED BY <1>1, <2>1, <2>2, <2>3, <2>4, <2>5 DEF IndexEnd
<1> QED BY <1>3, <1>5

-----------------------------------------------------------------------------
(* What a recovery finds. *)

\* Two images with the same exact index at the same place.
LEMMA SameIndex ==
  ASSUME IndInv, LogOrdered, NEW g \in 0 .. Len(log), NEW n \in Nat,
         NEW s, DOMAIN s = 1 .. n, NEW r, DOMAIN r = 1 .. n,
         Exact(txns, s, Upto(log, g)), Exact(txns, r, Upto(log, g)),
         \A h \in 1 .. g : EntryEnd(txns, log[h]) <= n
  PROVE  \A i \in 1 .. n : s[i] = r[i]
<1>1. txns \in Seq(Txn) /\ log \in Seq(DOMAIN txns) /\ Ordered(txns, log)
  BY Typed DEF LogOrdered
<1> HIDE DEF LogOrdered
<1> QED BY <1>1, ExactUnique

LEMMA ExactRecovers ==
  ASSUME IndInv, LogOrdered, ~lost, NEW f, IsImage(f), ValidSlots(f) # {},
         NEW loc \in Locator, loc = ActiveLocator(f), loc.generation \in 0 .. Len(log),
         FRONT_MATTER_LEN <= loc.index_offset, IndexEnd(loc) <= f.eof,
         LocatorSound(txns, log, loc, lost),
         Exact(txns, IndexOn(f, loc), Upto(log, loc.generation)),
         NEW n, n <= loc.generation
  PROVE  Recovers(f, n)
<1>1. /\ loc.index_offset \in Nat /\ loc.index_length \in Nat /\ loc.index_mac \in Seq(Cell)
  BY DEF Locator
<1> DEFINE s == Ciphertext(f, loc.index_offset, loc.index_length)
           mac == loc.index_mac
           m == loc.index_length
<1>2. s \in Seq(Cell) /\ Len(s) = m
  BY <1>1, CiphertextType DEF IndexEnd
<1>3. /\ \A g \in 1 .. loc.generation : EntryEnd(txns, log[g]) <= m
      /\ Len(mac) = m /\ Exact(txns, mac, Upto(log, loc.generation))
  BY DEF LocatorSound, Sound
<1>4. Exact(txns, s, Upto(log, loc.generation))
  BY DEF IndexOn
<1>5. m \in Nat /\ mac \in Seq(Cell) /\ IndexEnd(loc) <= f.eof
  BY <1>1
<1> HIDE DEF s, mac, m
<1>6. DOMAIN s = 1 .. m /\ DOMAIN mac = 1 .. m
  BY <1>2, <1>3, <1>5
<1>7. \A i \in 1 .. m : s[i] = mac[i]
  BY <1>3, <1>4, <1>5, <1>6, SameIndex
<1>8. s = mac
  BY <1>2, <1>5, <1>6, <1>7
<1>9. MacOk(f, loc)
  BY <1>5, <1>8 DEF MacOk, s, mac, m
<1>10. Parses(mac) /\ Decode(mac) = Upto(log, loc.generation)
  BY <1>3, <1>5, <1>6, ExactParses, Typed
<1> QED BY <1>9, <1>10 DEF Recovers, Verifies, mac, Upto

LEMMA CrashCells ==
  ASSUME IndInv, NEW img \in CrashImages
  PROVE  /\ IsImage(img) /\ disk.eof <= img.eof /\ img.eof \in Nat
         /\ \A x \in FRONT_MATTER_LEN .. disk.eof - 1 : img.body[x] \in {file.body[x], disk.body[x]}
         /\ \A i \in {0, 1} : \/ img.slot[i] \in {file.slot[i], disk.slot[i]}
                              \/ file.slot[i] # disk.slot[i] /\ img.slot[i] = BrokenSlot
<1>1. PICK c \in Crash : img = CrashImage(c)
  BY DEF CrashImages
<1>2. IsImage(img) /\ disk.eof <= img.eof
  BY CrashImageType
<1>3. img.eof \in Nat /\ disk.eof \in Nat
  BY <1>2, Typed DEF IsImage
<1> DEFINE n == c.eof
           slots == [i \in {0, 1} |-> IF i = 0 THEN c.a ELSE c.b]
           body == [x \in FRONT_MATTER_LEN .. n - 1 |->
                      IF x \in c.kept THEN file.body[x] ELSE DurableCell(x)]
<1>4. img = [slot |-> slots, eof |-> n, body |-> body]
  BY <1>1 DEF CrashImage
<1>5. img.slot = slots /\ img.eof = n /\ img.body = body
  BY <1>4
<1>6. ASSUME NEW x \in FRONT_MATTER_LEN .. disk.eof - 1
      PROVE  body[x] \in {file.body[x], disk.body[x]}
  <2>1. x \in FRONT_MATTER_LEN .. n - 1 /\ x < disk.eof
    BY <1>2, <1>3, <1>5, LayoutAssumption
  <2>2. DurableCell(x) = disk.body[x]
    BY <2>1 DEF DurableCell
  <2>3. body[x] = IF x \in c.kept THEN file.body[x] ELSE DurableCell(x)
    BY <2>1
  <2> HIDE DEF body, n
  <2> QED BY <2>2, <2>3
<1>7. c.a \in SlotOutcomes(0) /\ c.b \in SlotOutcomes(1)
  BY DEF Crash
<1>8. \A i \in {0, 1} : slots[i] \in SlotOutcomes(i)
  BY <1>7
<1>9. \A i \in {0, 1} : \/ slots[i] \in {file.slot[i], disk.slot[i]}
                        \/ file.slot[i] # disk.slot[i] /\ slots[i] = BrokenSlot
  BY <1>8 DEF SlotOutcomes
<1> HIDE DEF n, slots, body
<1> QED BY <1>2, <1>3, <1>5, <1>6, <1>9

\* Of the slots that a crash leaves, the active one was active before, on
\* file or on disk.
LEMMA CrashSlots ==
  ASSUME IndInv, SlotOrder, NEW img \in CrashImages
  PROVE  \E f \in {file, disk} : \E c \in {0, 1} :
           /\ ActiveLocator(img) = ActiveLocator(f)
           /\ Durable(img, img, ActiveLocator(f).generation, c)
<1>1. /\ IsImage(img) /\ IsImage(file) /\ IsImage(disk) /\ Len(log) \in Nat
      /\ \A i \in {0, 1} : \/ img.slot[i] \in {file.slot[i], disk.slot[i]}
                           \/ file.slot[i] # disk.slot[i] /\ img.slot[i] = BrokenSlot
  BY CrashCells, Typed
<1>2. PICK c \in {0, 1} : Durable(file, disk, Len(log), c) \/ Ahead(file, disk, Len(log), c)
  BY DEF SlotOrder
<1>3. img.slot[c] = file.slot[c] /\ file.slot[c] = disk.slot[c]
  BY <1>1, <1>2 DEF Durable, Ahead
<1>4. ~BrokenSlot.valid /\ 1 - c \in {0, 1} /\ 1 - (1 - c) = c
  BY DEF BrokenSlot
<1>5. CASE Durable(file, disk, Len(log), c)
  <2>1. Durable(img, img, Len(log), c)
    BY <1>1, <1>3, <1>4, <1>5 DEF Durable, Older
  <2>2. ActiveLocator(img) = file.slot[c].loc /\ ActiveLocator(file) = file.slot[c].loc
        /\ ActiveLocator(file).generation = Len(log)
    BY <1>1, <1>3, <1>5, <2>1, ActiveOfDurable
  <2> QED BY <2>1, <2>2
<1>6. CASE Ahead(file, disk, Len(log), c) /\ img.slot[1 - c] = file.slot[1 - c]
  <2>1. Durable(img, img, Len(log), 1 - c)
    BY <1>1, <1>3, <1>4, <1>6 DEF Durable, Ahead, Older
  <2>2. ActiveLocator(img) = img.slot[1 - c].loc
    BY <1>1, <1>4, <2>1, ActiveOfDurable
  <2>3. ActiveLocator(file) = file.slot[1 - c].loc /\ ActiveLocator(file).generation = Len(log)
    BY <1>1, <1>6, ActiveOfAhead
  <2> QED BY <1>4, <1>6, <2>1, <2>2, <2>3
<1>7. CASE Ahead(file, disk, Len(log), c) /\ Older(img.slot[1 - c], Len(log) - 1)
  <2>1. Durable(img, img, Len(log) - 1, c)
    BY <1>1, <1>3, <1>4, <1>7 DEF Durable, Ahead, Older
  <2>2. Len(log) - 1 \in Nat
    <3>1. file.slot[c].valid /\ file.slot[c].loc.generation = Len(log) - 1
      BY <1>7 DEF Ahead
    <3> QED BY <1>1, <3>1, SlotGeneration
  <2>3. ActiveLocator(img) = img.slot[c].loc
    BY <1>1, <2>1, <2>2, ActiveOfDurable
  <2>4. ActiveLocator(disk) = file.slot[c].loc /\ ActiveLocator(disk).generation = Len(log) - 1
    BY <1>1, <1>3, <1>7, ActiveOfAhead
  <2> QED BY <1>3, <2>1, <2>3, <2>4
<1>8. Ahead(file, disk, Len(log), c) =>
        \/ img.slot[1 - c] = file.slot[1 - c]
        \/ Older(img.slot[1 - c], Len(log) - 1)
  BY <1>1, <1>4 DEF Ahead, Older
<1> QED BY <1>2, <1>5, <1>6, <1>7, <1>8

\* The index that is active after a crash is whole.
LEMMA CrashIndex ==
  ASSUME IndInv, LogOrdered, SlotsSound, SlotOrder, ActiveIndexKept, DurableIndexKept,
         ~lost, ~exposed, ~Overwriting, NEW img \in CrashImages
  PROVE  LET loc == ActiveLocator(img)
         IN  /\ loc \in {ActiveLocator(file), ActiveLocator(disk)}
             /\ acked <= loc.generation
             /\ Exact(txns, IndexOn(img, loc), Upto(log, loc.generation))
<1>1. PICK f \in {file, disk} : ActiveLocator(img) = ActiveLocator(f)
  BY CrashSlots
<1> DEFINE loc == ActiveLocator(f)
           o == loc.index_offset
           m == loc.index_length
           g == loc.generation
<1>2. /\ o \in Nat /\ m \in Nat /\ g \in 0 .. Len(log) /\ FRONT_MATTER_LEN <= o /\ o + m <= disk.eof
      /\ LocatorSound(txns, log, loc, lost)
  BY ActiveFacts
<1>3. /\ Exact(txns, Ciphertext(file, o, m), Upto(log, g))
      /\ Exact(txns, Ciphertext(disk, o, m), Upto(log, g))
  BY DEF ActiveIndexKept, DurableIndexKept, ActiveIndexOn, ActiveTxns, IndexOn
<1>4. acked <= g
  <2>1. acked <= ActiveLocator(disk).generation
    BY DEF SlotOrder
  <2>2. ActiveLocator(file).generation = Len(log) /\ ActiveLocator(disk).generation \in 0 .. Len(log)
    BY ActiveFacts
  <2>3. acked \in Nat /\ Len(log) \in Nat
    BY Typed DEF IndInv, TypeOK
  <2> QED BY <2>1, <2>2, <2>3
<1>5. \A h \in 1 .. g : EntryEnd(txns, log[h]) <= m
  BY <1>2 DEF LocatorSound
<1> HIDE DEF o, m, g, loc
<1> DEFINE s == Ciphertext(file, o, m)
           r == Ciphertext(disk, o, m)
           u == Ciphertext(img, o, m)
<1>12. DOMAIN s = 1 .. m /\ DOMAIN r = 1 .. m /\ DOMAIN u = 1 .. m
  BY <1>2 DEF Ciphertext
<1>6. \A i \in 1 .. m : s[i] = r[i]
  <2>1. Exact(txns, s, Upto(log, g)) /\ Exact(txns, r, Upto(log, g)) /\ m \in Nat /\ g \in 0 .. Len(log)
    BY <1>2, <1>3
  <2> HIDE DEF s, r
  <2> QED BY <1>5, <1>12, <2>1, SameIndex
<1>7. ASSUME NEW i \in 1 .. m
      PROVE  u[i] = s[i]
  <2>1. file.body[o + i - 1] = disk.body[o + i - 1]
    BY <1>2, <1>6, CiphertextCells, ZenonT(60)
  <2>2. o + i - 1 \in FRONT_MATTER_LEN .. disk.eof - 1
    BY <1>2, Typed, LayoutAssumption
  <2>3. img.body[o + i - 1] = file.body[o + i - 1]
    BY <2>1, <2>2, CrashCells
  <2> QED BY <1>2, <2>3, CiphertextCells
<1>8. Exact(txns, Ciphertext(img, o, m), Upto(log, g))
  <2>1. Exact(txns, s, Upto(log, g))
    BY <1>3
  <2> HIDE DEF s, u
  <2>2. Exact(txns, u, Upto(log, g))
    BY <1>7, <1>12, <2>1, SameCells
  <2> QED BY <2>2 DEF u
<1> QED BY <1>1, <1>4, <1>8 DEF o, m, g, loc, IndexOn

LEMMA SafeReadable == Safe => CommittedIndexReadable
<1> SUFFICES ASSUME Safe, ~lost
             PROVE  /\ Overwriting \/ Recovers(file, Len(log))
                    /\ exposed \/ Recovers(disk, acked)
  BY DEF CommittedIndexReadable
<1>1. IndInv /\ LogOrdered /\ SlotsSound /\ SlotOrder
  BY DEF Safe
<1>2. IsImage(file) /\ IsImage(disk) /\ disk.eof <= file.eof /\ disk.eof \in Nat /\ file.eof \in Nat
  BY <1>1, Typed
<1>3. ASSUME ~Overwriting PROVE Recovers(file, Len(log))
  <2> DEFINE loc == ActiveLocator(file)
  <2>1. /\ loc \in Locator /\ loc.generation \in 0 .. Len(log) /\ loc.generation = Len(log)
        /\ ValidSlots(file) # {} /\ FRONT_MATTER_LEN <= loc.index_offset
        /\ loc.index_offset \in Nat /\ loc.index_length \in Nat
        /\ loc.index_offset + loc.index_length <= disk.eof
        /\ LocatorSound(txns, log, loc, lost)
    BY <1>1, ActiveFacts
  <2>2. Exact(txns, IndexOn(file, loc), Upto(log, loc.generation))
    BY <1>3 DEF Safe, ActiveIndexKept, ActiveIndexOn, ActiveTxns
  <2>3. loc = ActiveLocator(file)
    OBVIOUS
  <2> HIDE DEF loc
  <2>4. IndexEnd(loc) <= file.eof /\ Len(log) <= loc.generation
    BY <1>2, <2>1 DEF IndexEnd
  <2> QED BY <1>1, <1>2, <2>1, <2>2, <2>3, <2>4, ExactRecovers
<1>4. ASSUME ~exposed PROVE Recovers(disk, acked)
  <2> DEFINE loc == ActiveLocator(disk)
  <2>1. /\ loc \in Locator /\ loc.generation \in 0 .. Len(log)
        /\ ValidSlots(disk) # {} /\ FRONT_MATTER_LEN <= loc.index_offset
        /\ loc.index_offset \in Nat /\ loc.index_length \in Nat
        /\ loc.index_offset + loc.index_length <= disk.eof
        /\ LocatorSound(txns, log, loc, lost)
    BY <1>1, ActiveFacts
  <2>2. Exact(txns, IndexOn(disk, loc), Upto(log, loc.generation))
    BY <1>4 DEF Safe, DurableIndexKept, ActiveIndexOn, ActiveTxns
  <2>3. loc = ActiveLocator(disk) /\ acked <= loc.generation
    BY <1>1 DEF SlotOrder
  <2> HIDE DEF loc
  <2>4. IndexEnd(loc) <= disk.eof
    BY <2>1 DEF IndexEnd
  <2> QED BY <1>1, <1>2, <2>1, <2>2, <2>3, <2>4, ExactRecovers
<1> QED BY <1>3, <1>4

LEMMA SafeSurvives == Safe => AckedSurvivesCrash
<1> SUFFICES ASSUME Safe, ~lost, ~exposed, ~Overwriting, NEW img \in CrashImages
             PROVE  Recovers(img, acked)
  BY DEF AckedSurvivesCrash
<1>1. /\ IndInv /\ LogOrdered /\ SlotsSound /\ SlotOrder /\ ActiveIndexKept /\ DurableIndexKept
  BY DEF Safe
<1>2. IsImage(img) /\ disk.eof <= img.eof /\ disk.eof \in Nat /\ img.eof \in Nat
  BY <1>1, CrashCells, Typed
<1> DEFINE loc == ActiveLocator(img)
<1>3. /\ loc \in {ActiveLocator(file), ActiveLocator(disk)} /\ acked <= loc.generation
      /\ Exact(txns, IndexOn(img, loc), Upto(log, loc.generation))
  BY <1>1, CrashIndex
<1>4. /\ loc \in Locator /\ loc.generation \in 0 .. Len(log)
      /\ FRONT_MATTER_LEN <= loc.index_offset
      /\ loc.index_offset \in Nat /\ loc.index_length \in Nat
      /\ loc.index_offset + loc.index_length <= disk.eof
      /\ LocatorSound(txns, log, loc, lost)
  BY <1>1, <1>3, ActiveFacts
<1>5. ValidSlots(img) # {}
  <2>1. PICK c \in {0, 1} : \E f \in {file, disk} :
               Durable(img, img, ActiveLocator(f).generation, c)
    BY <1>1, CrashSlots
  <2> QED BY <2>1 DEF Durable, ValidSlots
<1>6. loc = ActiveLocator(img)
  OBVIOUS
<1> HIDE DEF loc
<1>7. IndexEnd(loc) <= img.eof
  BY <1>2, <1>4 DEF IndexEnd
<1> QED BY <1>1, <1>2, <1>3, <1>4, <1>5, <1>6, <1>7, ExactRecovers

LEMMA SafeKeystream == Safe => KeystreamOnceUncut
<1> SUFFICES ASSUME Safe, faults = 0, NEW a \in stream, NEW b \in stream, a[1] = b[1]
             PROVE  a = b
  BY DEF KeystreamOnceUncut, KeystreamOnce
<1>1. IndInv /\ LogOrdered /\ SlotsSound /\ SlotOrder /\ CallSlots /\ NothingWasted /\ StreamInPlace
  BY DEF Safe
<1>2. /\ txns \in Seq(Txn) /\ log \in Seq(DOMAIN txns) /\ stream \subseteq Nat \X DOMAIN txns
      /\ Ordered(txns, log)
  BY <1>1, Typed DEF IndInv, TypeOK, LogOrdered
<1>3. /\ a[1] \in Nat /\ a[2] \in DOMAIN txns /\ b[2] \in DOMAIN txns
      /\ a[1] \in Entries(txns, a[2]) /\ a[1] \in Entries(txns, b[2])
      /\ a = <<a[1], a[2]>> /\ b = <<b[1], b[2]>>
  BY <1>1, <1>2 DEF StreamInPlace
<1>4. ASSUME NEW i \in DOMAIN log, NEW q \in Entries(txns, log[i]), pc \notin {"free", "sync_slot"}
      PROVE  q \notin Entries(txns, id)
  <2>1. wr.loc = ActiveLocator(file)
    BY <1>1, <1>4 DEF CallSlots
  <2>2. /\ wr.loc.generation = Len(log) /\ LocatorSound(txns, log, wr.loc, lost)
        /\ wr.loc.index_length \in Nat
    BY <1>1, <2>1, ActiveFacts
  <2>3. i \in 1 .. wr.loc.generation /\ log[i] \in DOMAIN txns
    BY <1>2, <2>2
  <2>4. EntryEnd(txns, log[i]) <= wr.loc.index_length
    BY <2>2, <2>3 DEF LocatorSound
  <2>5. id \in DOMAIN txns /\ txns[id].start = wr.loc.index_length
    BY <1>1, <1>4, CallTypes DEF IndInv, CallInBounds, txn
  <2>6. q \in Nat /\ q < EntryEnd(txns, log[i]) /\ EntryEnd(txns, log[i]) \in Nat
    BY <1>2, <2>3, TxnFacts
  <2>7. \A x \in Entries(txns, id) : x \in Nat /\ txns[id].start <= x
    BY <1>2, <2>5, TxnFacts
  <2> QED BY <2>2, <2>4, <2>5, <2>6, <2>7
<1>5. \A i \in DOMAIN txns : \/ \E g \in DOMAIN log : log[g] = i
                             \/ i = id /\ pc \notin {"free", "sync_slot"}
  BY <1>1 DEF NothingWasted
<1>6. a[2] = b[2]
  <2>1. ASSUME NEW g \in DOMAIN log, NEW h \in DOMAIN log, log[g] = a[2], log[h] = b[2]
        PROVE  a[2] = b[2]
    BY <1>2, <1>3, <2>1, OneOwner
  <2>2. ASSUME NEW g \in DOMAIN log, log[g] = a[2], b[2] = id, pc \notin {"free", "sync_slot"}
        PROVE  FALSE
    BY <1>3, <1>4, <2>2
  <2>3. ASSUME NEW g \in DOMAIN log, log[g] = b[2], a[2] = id, pc \notin {"free", "sync_slot"}
        PROVE  FALSE
    BY <1>3, <1>4, <2>3
  <2> QED BY <1>3, <1>5, <2>1, <2>2, <2>3
<1> QED BY <1>3, <1>6

-----------------------------------------------------------------------------
(* The writes to the body, whole or cut. *)

\* What the call has under its hands before it publishes.
LEMMA CallFacts ==
  ASSUME Safe, pc \notin {"free", "sync_slot"}
  PROVE  /\ id \in DOMAIN txns /\ id \in Nat /\ txn = txns[id]
         /\ txn.off \in Nat /\ FRONT_MATTER_LEN <= txn.off
         /\ txn.chunk_len \in Nat /\ txn.entry_len \in Nat \ {0}
         /\ txn.start = wr.loc.index_length
         /\ wr.loc = ActiveLocator(file) /\ wr.loc \in Locator
         /\ wr.loc.generation = Len(log) /\ wr.relocate \in BOOLEAN
         /\ wr.loc.index_offset \in Nat /\ wr.loc.index_length \in Nat
         /\ FRONT_MATTER_LEN <= wr.loc.index_offset
         /\ wr.loc.index_offset + wr.loc.index_length <= disk.eof
         /\ LocatorSound(txns, log, wr.loc, lost)
         /\ IndexOffset \in Nat /\ FRONT_MATTER_LEN <= IndexOffset
         /\ IndexLength = wr.loc.index_length + txn.entry_len
         /\ FrameEnd(txns, id) = txn.off + txn.chunk_len
         /\ FrameEnd(txns, id) <= IndexOffset
         /\ \A g \in DOMAIN log : FrameEnd(txns, log[g]) <= txn.off
<1>1. IndInv /\ SlotsSound /\ SlotOrder /\ CallSlots /\ CallPlaced
  BY DEF Safe
<1>2. /\ id \in DOMAIN txns /\ id \in Nat \ {0}
      /\ txn.off \in Nat /\ FRONT_MATTER_LEN <= txn.off
      /\ txn.chunk_len \in Nat /\ txn.entry_len \in Nat /\ txn.start \in Nat
      /\ wr.loc \in Locator /\ wr.relocate \in BOOLEAN
      /\ IndexOffset \in Nat /\ FRONT_MATTER_LEN <= IndexOffset
      /\ IndexLength = wr.loc.index_length + txn.entry_len
  BY <1>1, CallTypes
<1>3. txn = txns[id] /\ txn.start = wr.loc.index_length
  BY <1>1 DEF txn, IndInv, CallInBounds
<1>4. txn.entry_len \in Nat \ {0}
  BY <1>1, <1>2, <1>3, TxnFacts, Typed
<1>5. wr.loc = ActiveLocator(file)
  BY <1>1 DEF CallSlots
<1>6. /\ wr.loc.generation = Len(log)
      /\ wr.loc.index_offset \in Nat /\ wr.loc.index_length \in Nat
      /\ FRONT_MATTER_LEN <= wr.loc.index_offset
      /\ wr.loc.index_offset + wr.loc.index_length <= disk.eof
      /\ LocatorSound(txns, log, wr.loc, lost)
  BY <1>1, <1>5, ActiveFacts
<1>7. FrameEnd(txns, id) = txn.off + txn.chunk_len
  BY <1>3 DEF FrameEnd
<1>8. FrameEnd(txns, id) <= IndexOffset
  <2>1. CASE wr.relocate
    <3>1. IndexOffset = txn.off + txn.chunk_len + relocation_leading_padding
      BY <2>1 DEF IndexOffset, NewIndexOffset, RelocatedOffset
    <3> QED BY <3>1, <1>2, <1>7, LayoutAssumption
  <2>2. CASE ~wr.relocate
    <3>1. IndexOffset = wr.loc.index_offset
      BY <2>2 DEF IndexOffset, NewIndexOffset
    <3> QED BY <3>1, <2>2, <1>1 DEF CallPlaced
  <2> QED BY <2>1, <2>2
<1>9. \A g \in DOMAIN log : FrameEnd(txns, log[g]) <= txn.off
  BY <1>1 DEF CallPlaced
<1> QED BY <1>2, <1>3, <1>4, <1>5, <1>6, <1>7, <1>8, <1>9

LEMMA PendingFrames ==
  ASSUME Safe, pc \in {"append", "frames"}
  PROVE  /\ Pending.offset = txn.off /\ Len(Pending.cells) = txn.chunk_len
         /\ \A k \in 1 .. txn.chunk_len : Pending.cells[k] = <<"chunk", id, k>>
<1>1. txn.chunk_len \in Nat
  BY CallFacts
<1>2. Pending = FrameWrite
  BY DEF Pending
<1> DEFINE cell(k) == <<"chunk", id, k>>
<1>3. Pending.offset = txn.off /\ Pending.cells = [k \in 1 .. txn.chunk_len |-> cell(k)]
  BY <1>2 DEF FrameWrite
<1> HIDE DEF cell
<1>4. /\ Len(Pending.cells) = txn.chunk_len
      /\ \A k \in 1 .. txn.chunk_len : Pending.cells[k] = cell(k)
  BY <1>1, <1>3
<1> QED BY <1>3, <1>4 DEF cell

LEMMA PendingEntries ==
  ASSUME Safe, pc \in {"extend", "entries"}
  PROVE  /\ Pending.offset = IndexOffset + wr.loc.index_length
         /\ Len(Pending.cells) = txn.entry_len
         /\ \A k \in 1 .. txn.entry_len :
              Pending.cells[k] = <<"index", id, wr.loc.index_length + k - 1>>
<1>1. txn.entry_len \in Nat /\ txn.start = wr.loc.index_length
  BY CallFacts
<1>2. Pending = EntryWrite
  BY DEF Pending
<1> DEFINE cell(k) == <<"index", id, txn.start + k - 1>>
<1>3. /\ Pending.offset = IndexOffset + wr.loc.index_length
      /\ Pending.cells = [k \in 1 .. txn.entry_len |-> cell(k)]
  BY <1>2 DEF EntryWrite
<1> HIDE DEF cell
<1>4. /\ Len(Pending.cells) = txn.entry_len
      /\ \A k \in 1 .. txn.entry_len : Pending.cells[k] = cell(k)
  BY <1>1, <1>3
<1> QED BY <1>1, <1>3, <1>4 DEF cell

LEMMA PendingCopy ==
  ASSUME Safe, pc = "copy"
  PROVE  /\ Pending.offset = IndexOffset
         /\ Pending.cells = Ciphertext(file, wr.loc.index_offset, wr.loc.index_length)
         /\ Len(Pending.cells) = wr.loc.index_length
<1>1. wr.loc.index_offset \in Nat /\ wr.loc.index_length \in Nat
  BY CallFacts
<1>2. Pending = CopyWrite
  BY DEF Pending
<1>3. /\ Pending.offset = IndexOffset
      /\ Pending.cells = Ciphertext(file, wr.loc.index_offset, wr.loc.index_length)
  BY <1>2 DEF CopyWrite
<1>4. Len(Ciphertext(file, wr.loc.index_offset, wr.loc.index_length)) = wr.loc.index_length
  BY <1>1, CiphertextCells
<1> QED BY <1>3, <1>4

LEMMA PendingGrow ==
  ASSUME Safe, pc = "grow"
  PROVE  Pending.offset = file.eof
BY DEF Pending, GrowWrite

(* Can the pending write damage the index the call came from?  Only that   *)
(* of a destructive relocation, once it has grown the file.                *)
Damaging == Destructive /\ pc \in {"copy", "entries", "frames"}

\* Otherwise it misses that index, or copies it onto itself.
\* A part of a region meets nothing that the region does not meet.
LEMMA OverlapPart ==
  ASSUME NEW a \in Nat, NEW k \in Nat, NEW o \in Nat, NEW m \in Nat, ~Overlap(a, k, o, m),
         NEW b \in Nat, NEW n \in Nat, a <= b, b + n <= a + k
  PROVE  ~Overlap(b, n, o, m)
BY DEF Overlap

LEMMA HarmlessMisses ==
  ASSUME Safe, pc \in BodyWrites, NEW n \in 0 .. Len(Pending.cells), ~Damaging,
         ~(pc = "copy" /\ IndexOffset = wr.loc.index_offset)
  PROVE  ~Overlap(Pending.offset, n, wr.loc.index_offset, wr.loc.index_length)
<1>1. pc \notin {"free", "sync_slot"} /\ IndInv
  BY DEF BodyWrites, Safe
<1> DEFINE o == wr.loc.index_offset
           m == wr.loc.index_length
<1>2. /\ o \in Nat /\ m \in Nat /\ o + m <= disk.eof /\ txn.off \in Nat /\ txn.chunk_len \in Nat
      /\ txn.entry_len \in Nat /\ IndexOffset \in Nat /\ FrameEnd(txns, id) = txn.off + txn.chunk_len
      /\ wr.relocate \in BOOLEAN
  BY <1>1, CallFacts
<1>3. disk.eof <= file.eof /\ disk.eof \in Nat /\ file.eof \in Nat
  BY <1>1, Typed
<1>4. CASE pc = "grow"
  <2>1. Pending.offset = file.eof
    BY <1>4, PendingGrow
  <2> QED BY <1>2, <1>3, <2>1 DEF Overlap
<1>5. CASE pc \in {"append", "extend"}
  <2>1. ~wr.relocate
    BY <1>1, <1>5 DEF IndInv, CallInBounds, InPlace
  <2>2. CASE pc = "append"
    <3>1. txn.off + txn.chunk_len <= o
      BY <1>1, <1>2, <2>1 DEF Safe, CallPlaced
    <3>2. Pending.offset = txn.off /\ n <= txn.chunk_len /\ n \in Nat
      BY <1>2, <2>2, PendingFrames
    <3> QED BY <1>2, <3>1, <3>2 DEF Overlap
  <2>3. CASE pc = "extend"
    <3>1. IndexOffset = o
      BY <2>1 DEF IndexOffset, NewIndexOffset
    <3>2. Pending.offset = o + m
      BY <2>3, <3>1, PendingEntries
    <3> QED BY <1>2, <3>2 DEF Overlap
  <2> QED BY <1>5, <2>2, <2>3
<1>6. CASE pc \in {"copy", "entries", "frames"}
  <2>1. wr.relocate /\ ~Destructive
    BY <1>1, <1>6 DEF IndInv, CallInBounds, Moving, Damaging
  <2>2. IndexOffset = RelocatedOffset(txn, txn.off)
    BY <2>1 DEF IndexOffset, NewIndexOffset
  <2>3. /\ ~Overlap(txn.off, txn.chunk_len, o, m)
        /\ IndexOffset = o \/ ~Overlap(IndexOffset, m + txn.entry_len, o, m)
    BY <2>1, <2>2 DEF Destructive, OverwritesLiveIndex, NewIndexLength
  <2>4. CASE pc = "copy"
    <3>1. Pending.offset = IndexOffset /\ n <= m /\ n \in Nat
      BY <1>2, <2>4, PendingCopy
    <3>2. ~Overlap(IndexOffset, m + txn.entry_len, o, m)
      BY <2>3, <2>4
    <3>3. m + txn.entry_len \in Nat /\ IndexOffset + n <= IndexOffset + (m + txn.entry_len)
      BY <1>2, <3>1, SMTT(60)
    <3> HIDE DEF o, m
    <3>4. ~Overlap(IndexOffset, n, o, m)
      BY <1>2, <3>1, <3>2, <3>3, OverlapPart, SMTT(60)
    <3> QED BY <3>1, <3>4 DEF o, m
  <2>5. CASE pc = "entries"
    <3>1. Pending.offset = IndexOffset + m /\ n <= txn.entry_len /\ n \in Nat
      BY <1>2, <2>5, PendingEntries
    <3> QED BY <1>2, <2>3, <3>1, SMTT(60) DEF Overlap
  <2>6. CASE pc = "frames"
    <3>1. Pending.offset = txn.off /\ n <= txn.chunk_len /\ n \in Nat
      BY <1>2, <2>6, PendingFrames
    <3> QED BY <1>2, <2>3, <3>1 DEF Overlap
  <2> QED BY <1>6, <2>4, <2>5, <2>6
<1> QED BY <1>4, <1>5, <1>6 DEF BodyWrites

LEMMA WriteImage ==
  ASSUME Safe, pc \in BodyWrites, NEW n \in 0 .. Len(Pending.cells)
  PROVE  /\ Pending.offset \in Nat /\ FRONT_MATTER_LEN <= Pending.offset /\ n \in Nat
         /\ IsImage(Put(file, Pending, n)) /\ Put(file, Pending, n).slot = file.slot
         /\ file.eof <= Put(file, Pending, n).eof /\ Put(file, Pending, n).eof \in Nat
         /\ ActiveLocator(Put(file, Pending, n)) = ActiveLocator(file)
<1>1. IndInv /\ IsImage(file)
  BY Typed DEF Safe
<1>2. /\ Pending.offset \in Nat /\ FRONT_MATTER_LEN <= Pending.offset
      /\ Pending.cells \in Seq(Cell)
  BY <1>1, PendingType
<1> DEFINE w == Pending
<1>3. /\ w.cells \in Seq(Cell) /\ w.offset \in Nat /\ FRONT_MATTER_LEN <= w.offset
      /\ n \in 0 .. Len(w.cells) /\ n \in Nat
  BY <1>2
<1> HIDE DEF w
<1>4. /\ IsImage(Put(file, w, n)) /\ Put(file, w, n).slot = file.slot
      /\ file.eof <= Put(file, w, n).eof
  BY <1>1, <1>3, PutIsImage
<1>5. Put(file, w, n).eof \in Nat
  BY <1>4 DEF IsImage
<1>6. ActiveLocator(Put(file, w, n)) = ActiveLocator(file)
  BY <1>4 DEF ActiveLocator
<1> QED BY <1>3, <1>4, <1>5, <1>6 DEF w

\* No write reaches below the end of the committed frames.
LEMMA WriteAboveFrames ==
  ASSUME Safe, pc \in BodyWrites, NEW g \in DOMAIN log
  PROVE  FrameEnd(txns, log[g]) <= Pending.offset
<1>1. pc \notin {"free", "sync_slot"} /\ IndInv /\ SlotsSound /\ SlotOrder
  BY DEF BodyWrites, Safe
<1>2. /\ FrameEnd(txns, log[g]) <= txn.off /\ txn.off \in Nat /\ txn.chunk_len \in Nat
      /\ FrameEnd(txns, id) = txn.off + txn.chunk_len /\ FrameEnd(txns, id) <= IndexOffset
      /\ IndexOffset \in Nat /\ wr.loc.index_length \in Nat /\ wr.loc.index_offset \in Nat
      /\ wr.loc.index_offset + wr.loc.index_length <= disk.eof
  BY <1>1, CallFacts
<1>3. FrameEnd(txns, log[g]) \in Nat /\ disk.eof <= file.eof /\ disk.eof \in Nat /\ file.eof \in Nat
  BY <1>1, Typed, TxnFacts
<1>4. CASE pc \in {"append", "frames"}
  BY <1>2, <1>4, PendingFrames
<1>5. CASE pc \in {"extend", "entries"}
  BY <1>2, <1>3, <1>5, PendingEntries, SMTT(60)
<1>6. CASE pc = "copy"
  BY <1>2, <1>3, <1>6, PendingCopy
<1>7. CASE pc = "grow"
  <2>1. Pending.offset = file.eof
    BY <1>7, PendingGrow
  <2>2. txn.off <= wr.loc.index_offset
    BY <1>1 DEF Safe, CallPlaced
  <2> QED BY <1>2, <1>3, <2>1, <2>2
<1> QED BY <1>4, <1>5, <1>6, <1>7 DEF BodyWrites

LEMMA PutKeepsFrames ==
  ASSUME NEW f, IsImage(f), NEW w, w.offset \in Nat, FRONT_MATTER_LEN <= w.offset, NEW n \in Nat,
         NEW t \in Seq(Txn), NEW i \in DOMAIN t, FRONT_MATTER_LEN <= t[i].off,
         FrameEnd(t, i) <= w.offset, FramesOn(t, f, i)
  PROVE  FramesOn(t, Put(f, w, n), i)
<1>1. t[i].off \in Nat /\ t[i].chunk_len \in Nat /\ FrameEnd(t, i) = t[i].off + t[i].chunk_len
  BY TxnFacts DEF FrameEnd
<1> DEFINE p == Put(f, w, n)
<1>2. /\ \A x \in FRONT_MATTER_LEN .. f.eof - 1 : x \notin Region(w.offset, n) => p.body[x] = f.body[x]
      /\ f.eof <= p.eof /\ p.eof \in Nat /\ f.eof \in Nat
  BY PutCells DEF IsImage
<1> HIDE DEF p
<1>3. ASSUME NEW x \in Region(t[i].off, t[i].chunk_len)
      PROVE  x < p.eof /\ p.body[x] = <<"chunk", i, x - t[i].off + 1>>
  <2>1. x < f.eof /\ f.body[x] = <<"chunk", i, x - t[i].off + 1>>
    BY DEF FramesOn
  <2>2. x \in Int /\ t[i].off <= x /\ x < FrameEnd(t, i)
    BY <1>1 DEF Region
  <2>3. x \in FRONT_MATTER_LEN .. f.eof - 1
    BY <1>1, <1>2, <2>1, <2>2, LayoutAssumption
  <2>4. x \notin Region(w.offset, n)
    <3>1. FrameEnd(t, i) \in Nat /\ x < w.offset
      BY <1>1, <2>2
    <3> QED BY <2>2, <3>1 DEF Region
  <2> QED BY <1>2, <2>1, <2>2, <2>3, <2>4
<1>4. FramesOn(t, p, i)
  BY <1>3 DEF FramesOn
<1> QED BY <1>4 DEF p

\* An index copied onto its own place changes nothing.
LEMMA CopyOntoItself ==
  ASSUME NEW f, IsImage(f), NEW w, w.offset \in Nat, FRONT_MATTER_LEN <= w.offset,
         NEW m \in Nat, w.offset + m <= f.eof, NEW n \in 0 .. m,
         w.cells = Ciphertext(f, w.offset, m),
         NEW o \in Nat, NEW k \in Nat, FRONT_MATTER_LEN <= o, o + k <= f.eof
  PROVE  Ciphertext(Put(f, w, n), o, k) = Ciphertext(f, o, k)
<1>1. f.eof \in Nat
  BY DEF IsImage
<1>2. ASSUME NEW x \in FRONT_MATTER_LEN .. f.eof - 1
      PROVE  Put(f, w, n).body[x] = f.body[x]
  <2>1. CASE x \in Region(w.offset, n)
    <3>1. Put(f, w, n).body[x] = w.cells[x - w.offset + 1]
      BY <2>1, PutCells
    <3>2. x - w.offset + 1 \in 1 .. m
      BY <2>1 DEF Region
    <3>3. \A i \in 1 .. m : w.cells[i] = f.body[w.offset + i - 1]
      BY DEF Ciphertext
    <3>4. w.offset + (x - w.offset + 1) - 1 = x
      BY <1>1, LayoutAssumption
    <3> QED BY <3>1, <3>2, <3>3, <3>4
  <2>2. CASE x \notin Region(w.offset, n)
    BY <2>2, PutCells
  <2> QED BY <2>1, <2>2
<1>3. \A i \in 1 .. k : o + i - 1 \in FRONT_MATTER_LEN .. f.eof - 1
  BY <1>1, LayoutAssumption
<1> DEFINE g == Put(f, w, n)
<1>4. \A i \in 1 .. k : g.body[o + i - 1] = f.body[o + i - 1]
  BY <1>2, <1>3
<1> HIDE DEF g
<1>5. Ciphertext(g, o, k) = Ciphertext(f, o, k)
  BY <1>4 DEF Ciphertext
<1> QED BY <1>5 DEF g

\* The index the call came from, after a write.
LEMMA WriteKeepsIndex ==
  ASSUME Safe, pc \in BodyWrites, NEW n \in 0 .. Len(Pending.cells)
  PROVE  Sound(txns, IndexOn(Put(file, Pending, n), wr.loc), Upto(log, wr.loc.generation),
               lost \/ Damaging)
<1> DEFINE o == wr.loc.index_offset
           m == wr.loc.index_length
           ids == Upto(log, wr.loc.generation)
           w == Pending
           s == Ciphertext(file, o, m)
           r == Ciphertext(Put(file, w, n), o, m)
<1>1. pc \notin {"free", "sync_slot"} /\ IndInv
  BY DEF BodyWrites, Safe
<1>2. /\ o \in Nat /\ m \in Nat /\ FRONT_MATTER_LEN <= o /\ o + m <= disk.eof
      /\ txn.chunk_len \in Nat /\ txn.entry_len \in Nat /\ IndexOffset \in Nat
  BY <1>1, CallFacts
<1>3. /\ IsImage(file) /\ disk.eof <= file.eof /\ disk.eof \in Nat /\ file.eof \in Nat
      /\ o + m <= file.eof
  BY <1>1, <1>2, Typed
<1>4. w.offset \in Nat /\ FRONT_MATTER_LEN <= w.offset /\ n \in Nat
  BY WriteImage
<1>5. Sound(txns, s, ids, lost \/ Overwriting)
  BY <1>1 DEF Safe, CallIndex, IndexOn
<1>6. Overwriting => Damaging
  BY DEF Overwriting, Damaging, BodyWrites
<1>7. pc = "copy" => /\ w.cells = s /\ w.offset = IndexOffset /\ n \in 0 .. m
  BY <1>2, PendingCopy
<1>8. ASSUME pc \in {"entries", "frames"}, NEW k \in 1 .. n PROVE Foreign(w.cells[k], m)
  <2>1. CASE pc = "frames"
    <3>1. w.cells[k] = <<"chunk", id, k>>
      BY <1>2, <2>1, PendingFrames
    <3> QED BY <3>1 DEF Foreign
  <2>2. CASE pc = "entries"
    <3>1. w.cells[k] = <<"index", id, m + k - 1>>
      BY <1>2, <2>2, PendingEntries
    <3> HIDE DEF w
    <3>2. w.cells[k][3] = m + k - 1
      BY <3>1
    <3> QED BY <1>2, <3>2 DEF Foreign
  <2> QED BY <1>8, <2>1, <2>2
<1>9. (~Damaging /\ ~(pc = "copy" /\ IndexOffset = o))
        => ~Overlap(w.offset, n, o, m)
  BY HarmlessMisses
<1> SUFFICES Sound(txns, r, ids, lost \/ Damaging)
  BY DEF IndexOn
<1> HIDE DEF o, ids, w
<1>10. CASE pc = "copy" /\ IndexOffset = o
  <2>1. w.offset = o
    BY <1>7, <1>10
  <2>2. r = s
    BY <1>2, <1>3, <1>4, <1>7, <1>10, <2>1, CopyOntoItself, SMTT(60)
  <2> HIDE DEF r, s
  <2> QED BY <1>5, <1>6, <2>2 DEF Sound
<1>11. CASE ~Damaging /\ ~(pc = "copy" /\ IndexOffset = o)
  <2>1. r = s
    BY <1>2, <1>3, <1>4, <1>9, <1>11, PutMisses
  <2> HIDE DEF r, s
  <2> QED BY <1>5, <1>6, <2>1 DEF Sound
<1>12. CASE Damaging /\ ~(pc = "copy" /\ IndexOffset = o)
  <2>1. CASE Exact(txns, s, ids)
    <3>1. CASE pc = "copy"
      <4>1. Exact(txns, r, ids) \/ Holed(r)
        BY <1>2, <1>3, <1>4, <1>7, <1>12, <2>1, <3>1, CopyOverItself
      <4> HIDE DEF r, s
      <4> QED BY <4>1, <1>12 DEF Sound
    <3>2. CASE pc \in {"entries", "frames"}
      <4>1. \A k \in 1 .. n : Foreign(w.cells[k], m)
        BY <1>8, <3>2
      <4>2. Exact(txns, r, ids) \/ Holed(r)
        BY <1>2, <1>3, <1>4, <2>1, <4>1, ForeignWrite
      <4> HIDE DEF r, s
      <4> QED BY <4>2, <1>12 DEF Sound
    <3> QED BY <1>12, <3>1, <3>2 DEF Damaging
  <2>2. CASE Holed(s)
    <3>1. \A k \in 1 .. n : Foreign(w.cells[k], m) \/ \E i \in 1 .. m : w.cells[k] = s[i]
      <4>1. CASE pc = "copy"
        <5> HIDE DEF s
        <5>1. \A k \in 1 .. n : k \in 1 .. m /\ w.cells[k] = s[k]
          BY <1>2, <1>4, <1>7, <4>1
        <5> QED BY <5>1
      <4>2. CASE pc \in {"entries", "frames"}
        BY <1>8, <4>2
      <4> QED BY <1>12, <4>1, <4>2 DEF Damaging
    <3>2. Holed(r)
      BY <1>2, <1>3, <1>4, <2>2, <3>1, HoleStays
    <3> HIDE DEF r, s
    <3> QED BY <3>2, <1>12 DEF Sound
  <2> HIDE DEF r, s
  <2> QED BY <1>5, <2>1, <2>2 DEF Sound
<1> QED BY <1>10, <1>11, <1>12

\* The index the disk has as active, after a write that does not hit it.
LEMMA WriteKeepsDurable ==
  ASSUME Safe, pc \in BodyWrites, NEW n \in 0 .. Len(Pending.cells),
         ~lost, ~exposed, ~HitsDurableIndex(n)
  PROVE  Exact(txns, IndexOn(Put(file, Pending, n), ActiveLocator(disk)), ActiveTxns(disk))
<1> DEFINE w == Pending
           o == ActiveLocator(disk).index_offset
           m == ActiveLocator(disk).index_length
<1>1. pc \notin {"free", "sync_slot"} /\ IndInv /\ SlotsSound /\ SlotOrder
  BY DEF BodyWrites, Safe
<1>2. o \in Nat /\ m \in Nat /\ FRONT_MATTER_LEN <= o /\ o + m <= disk.eof
  BY <1>1, ActiveFacts
<1>3. /\ IsImage(file) /\ disk.eof <= file.eof /\ disk.eof \in Nat /\ file.eof \in Nat
      /\ o + m <= file.eof
  BY <1>1, <1>2, Typed
<1>4. w.offset \in Nat /\ FRONT_MATTER_LEN <= w.offset /\ n \in Nat
  BY WriteImage
<1>5. Exact(txns, Ciphertext(file, o, m), ActiveTxns(disk))
  BY DEF Safe, DurableIndexKept, ActiveIndexOn, IndexOn
<1>6. ~Overlap(w.offset, n, o, m) \/ (pc = "copy" /\ IndexOffset = wr.loc.index_offset)
  BY DEF HitsDurableIndex
<1>7. ASSUME pc = "copy", IndexOffset = wr.loc.index_offset
      PROVE  /\ wr.loc.index_length \in Nat /\ w.offset + wr.loc.index_length <= file.eof
             /\ n \in 0 .. wr.loc.index_length
             /\ w.cells = Ciphertext(file, w.offset, wr.loc.index_length)
  <2>1. /\ wr.loc.index_length \in Nat /\ wr.loc.index_offset \in Nat
        /\ wr.loc.index_offset + wr.loc.index_length <= disk.eof
    BY <1>1, CallFacts
  <2>2. /\ w.offset = IndexOffset /\ Len(w.cells) = wr.loc.index_length
        /\ w.cells = Ciphertext(file, wr.loc.index_offset, wr.loc.index_length)
    BY <1>7, PendingCopy
  <2>3. n \in 0 .. Len(w.cells)
    OBVIOUS
  <2> HIDE DEF w
  <2>4. w.offset = wr.loc.index_offset
    BY <1>7, <2>2
  <2>5. w.offset + wr.loc.index_length <= file.eof
    BY <1>3, <2>1, <2>4
  <2>6. w.cells = Ciphertext(file, w.offset, wr.loc.index_length)
    BY <2>2, <2>4
  <2> QED BY <2>1, <2>2, <2>3, <2>5, <2>6
<1> HIDE DEF w, o, m
<1>8. Ciphertext(Put(file, w, n), o, m) = Ciphertext(file, o, m)
  <2>1. CASE ~Overlap(w.offset, n, o, m)
    BY <1>2, <1>3, <1>4, <2>1, PutMisses
  <2>2. CASE pc = "copy" /\ IndexOffset = wr.loc.index_offset
    BY <1>2, <1>3, <1>4, <1>7, <2>2, CopyOntoItself
  <2> QED BY <1>6, <2>1, <2>2
<1>9. Exact(txns, Ciphertext(Put(file, w, n), o, m), ActiveTxns(disk))
  <2> DEFINE r == Ciphertext(Put(file, w, n), o, m)
             s == Ciphertext(file, o, m)
  <2>1. r = s /\ Exact(txns, s, ActiveTxns(disk))
    BY <1>5, <1>8
  <2> HIDE DEF r, s
  <2>2. Exact(txns, r, ActiveTxns(disk))
    BY <2>1
  <2> QED BY <2>2 DEF r
<1> QED BY <1>9 DEF w, o, m, IndexOn

\* The committed frames, after a write.
LEMMA WriteKeepsFrames ==
  ASSUME Safe, pc \in BodyWrites, NEW n \in 0 .. Len(Pending.cells), NEW g \in DOMAIN log
  PROVE  FramesOn(txns, Put(file, Pending, n), log[g])
<1> DEFINE w == Pending
<1>1. IndInv /\ CommittedChunksIntact /\ FramesInBody
  BY DEF Safe
<1>2. IsImage(file) /\ txns \in Seq(Txn) /\ log[g] \in DOMAIN txns
  BY <1>1, Typed
<1>3. w.offset \in Nat /\ FRONT_MATTER_LEN <= w.offset /\ n \in Nat
  BY WriteImage
<1>4. FRONT_MATTER_LEN <= txns[log[g]].off /\ FrameEnd(txns, log[g]) <= w.offset
  BY <1>1, <1>2, WriteAboveFrames DEF FramesInBody
<1>5. FramesOn(txns, file, log[g])
  BY <1>1 DEF CommittedChunksIntact, FramesOn
<1> HIDE DEF w
<1>6. FramesOn(txns, Put(file, w, n), log[g])
  BY <1>2, <1>3, <1>4, <1>5, PutKeepsFrames
<1> QED BY <1>6 DEF w

-----------------------------------------------------------------------------
(* What every step before the publication keeps. *)

LEMMA ChunksOnBoth ==
  CommittedChunksIntact <=> \A g \in DOMAIN log : /\ FramesOn(txns, file, log[g])
                                                  /\ FramesOn(txns, disk, log[g])
BY DEF CommittedChunksIntact, FramesOn

LEMMA SlotsDecide ==
  ASSUME NEW f, NEW g, f.slot = g.slot
  PROVE  ActiveLocator(f) = ActiveLocator(g) /\ ValidSlots(f) = ValidSlots(g)
BY DEF ActiveLocator, ValidSlots

LEMMA SoundWeaker ==
  ASSUME NEW t, NEW s, NEW ids, NEW a, NEW b, a => b, Sound(t, s, ids, a)
  PROVE  Sound(t, s, ids, b)
BY DEF Sound

LEMMA LocatorSoundWeaker ==
  ASSUME NEW t, NEW l, NEW loc, NEW a, NEW b, a => b, LocatorSound(t, l, loc, a)
  PROVE  LocatorSound(t, l, loc, b)
BY SoundWeaker DEF LocatorSound

LEMMA Kept ==
  ASSUME Safe, file'.slot = file.slot,
         disk' = disk, txns' = txns, log' = log, acked' = acked, lost => lost',
         \A g \in DOMAIN log : FramesOn(txns, file', log[g]),
         \A a \in stream' : a \in stream \/ a[1] \in Entries(txns, a[2]),
         (~lost' /\ ~exposed') =>
            /\ ~lost /\ ~exposed
            /\ Exact(txns, IndexOn(file', ActiveLocator(disk)), ActiveTxns(disk))
  PROVE  /\ LogOrdered' /\ SlotsSound' /\ SlotOrder' /\ DurableIndexKept'
         /\ CommittedChunksIntact' /\ FramesInBody' /\ StreamInPlace'
<1>1. LogOrdered'
  BY DEF Safe, LogOrdered
<1>2. FramesInBody'
  BY DEF Safe, FramesInBody
<1>3. StreamInPlace'
  BY DEF Safe, StreamInPlace
<1>4. CommittedChunksIntact'
  <2>1. \A g \in DOMAIN log : FramesOn(txns, file', log[g]) /\ FramesOn(txns, disk, log[g])
    BY ChunksOnBoth DEF Safe
  <2> QED BY <2>1 DEF CommittedChunksIntact, FramesOn
<1>5. ValidSlots(file') = ValidSlots(file)
  BY SlotsDecide
<1>6. SlotsSound'
  <2> SUFFICES ASSUME NEW f \in {file', disk}, NEW i \in ValidSlots(f)
               PROVE  f.slot[i].loc.slot_index = i
                      /\ LocatorSound(txns, log, f.slot[i].loc, lost')
    BY DEF SlotsSound
  <2>1. PICK e \in {file, disk} : e.slot = f.slot /\ i \in ValidSlots(e)
    BY <1>5
  <2>2. e.slot[i].loc.slot_index = i /\ LocatorSound(txns, log, e.slot[i].loc, lost)
    BY <2>1 DEF Safe, SlotsSound
  <2> QED BY <2>1, <2>2, LocatorSoundWeaker
<1>7. SlotOrder'
  <2>1. SlotOrder
    BY DEF Safe
  <2>2. PICK c \in {0, 1} : Durable(file, disk, Len(log), c) \/ Ahead(file, disk, Len(log), c)
    BY <2>1 DEF SlotOrder
  <2>3. Durable(file', disk, Len(log), c) \/ Ahead(file', disk, Len(log), c)
    BY <2>2 DEF Durable, Ahead
  <2> QED BY <2>1, <2>3 DEF SlotOrder
<1>8. DurableIndexKept'
  <2> SUFFICES ASSUME ~lost', ~exposed', NEW f \in {file', disk}
               PROVE  Exact(txns, ActiveIndexOn(f, disk), Upto(log, ActiveLocator(disk).generation))
    BY DEF DurableIndexKept, ActiveIndexOn, ActiveTxns
  <2>1. Exact(txns, ActiveIndexOn(disk, disk), ActiveTxns(disk))
    BY DEF Safe, DurableIndexKept
  <2>2. Exact(txns, ActiveIndexOn(file', disk), ActiveTxns(disk))
    BY DEF ActiveIndexOn
  <2> QED BY <2>1, <2>2 DEF ActiveTxns
<1> QED BY <1>1, <1>2, <1>3, <1>4, <1>6, <1>7, <1>8

\* Upto one more.
LEMMA UptoGrows ==
  ASSUME NEW l, NEW g \in Nat
  PROVE  Upto(l, g + 1) = Upto(l, g) \cup {l[g + 1]}
<1>1. \A h : h \in 1 .. g + 1 <=> h \in 1 .. g \/ h = g + 1
  OBVIOUS
<1> QED BY <1>1 DEF Upto

\* The index on file of the locator that a call has published,
LEMMA PublishedSound ==
  ASSUME Safe, pc = "sync_slot"
  PROVE  /\ ActiveLocator(file) = NewLocator
         /\ ActiveTxns(file) = wr.index \cup {id}
         /\ ActiveIndexOn(file, file) = wr.mac
         /\ Sound(txns, wr.mac, ActiveTxns(file), lost)
<1>1. IndInv /\ CallSlots /\ CallIndex /\ NewIndex
  BY DEF Safe
<1>2. /\ Ahead(file, disk, Len(log), SameSlot) /\ log[Len(log)] = id
      /\ file.slot[OtherSlot].loc = NewLocator
  BY <1>1 DEF CallSlots
<1>3. wr.loc \in Locator /\ IsImage(file) /\ IsImage(disk) /\ Len(log) \in Nat
  BY <1>1, CallTypes, Typed
<1>4. SameSlot \in {0, 1} /\ OtherSlot = 1 - SameSlot
  BY <1>3 DEF Locator, SameSlot, OtherSlot
<1>5. ActiveLocator(file) = NewLocator /\ ActiveLocator(file).generation = Len(log)
  BY <1>2, <1>3, <1>4, ActiveOfAhead
<1>6. wr.loc.generation \in Nat /\ Len(log) = wr.loc.generation + 1
  BY <1>1, <1>3, <1>5, NewLocatorType
<1>7. Upto(log, Len(log)) = Upto(log, wr.loc.generation) \cup {id}
  BY <1>2, <1>6, UptoGrows
<1>8. wr.index = Upto(log, wr.loc.generation)
  BY <1>1 DEF CallIndex
<1>9. /\ wr.mac = Ciphertext(file, IndexOffset, IndexLength)
      /\ Sound(txns, wr.mac, Upto(log, wr.loc.generation) \cup {id}, lost)
  BY <1>1 DEF NewIndex
<1>10. NewLocator.index_offset = IndexOffset /\ NewLocator.index_length = IndexLength
  BY DEF NewLocator
<1> QED BY <1>5, <1>7, <1>8, <1>9, <1>10 DEF ActiveTxns, ActiveIndexOn, IndexOn

\* and of the active locator during any call.
LEMMA ActiveSound ==
  ASSUME Safe, pc # "free"
  PROVE  Sound(txns, ActiveIndexOn(file, file), ActiveTxns(file), lost \/ Overwriting)
<1>1. CASE pc = "sync_slot"
  BY <1>1, PublishedSound DEF Sound
<1>2. CASE pc # "sync_slot"
  <2>1. Sound(txns, IndexOn(file, wr.loc), Upto(log, wr.loc.generation), lost \/ Overwriting)
        /\ wr.loc = ActiveLocator(file)
    BY <1>2 DEF Safe, CallIndex, CallSlots
  <2> QED BY <2>1 DEF ActiveIndexOn, ActiveTxns
<1> QED BY <1>1, <1>2

LEMMA EncryptedInPlace ==
  ASSUME Safe, pc \in BodyWrites, NEW n \in 0 .. Len(Pending.cells), NEW a \in Encrypted(n)
  PROVE  a[1] \in Entries(txns, a[2])
<1>1. pc \in {"extend", "entries"}
  BY DEF Encrypted
<1>2. PICK k \in 1 .. n : a = <<txn.start + k - 1, id>>
  BY <1>1 DEF Encrypted
<1>3. Len(Pending.cells) = txn.entry_len
  BY <1>1, PendingEntries
<1>4. /\ txn = txns[id] /\ txn.entry_len \in Nat /\ txn.start \in Nat /\ id \in DOMAIN txns
  BY <1>1, CallFacts
<1>5. txn.start + k - 1 \in Entries(txns, id)
  <2>1. k \in 1 .. txn.entry_len
    BY <1>3
  <2> QED BY <1>4, <2>1 DEF Entries, Region
<1> QED BY <1>2, <1>5

-----------------------------------------------------------------------------
(* One lemma per step.  First the steps that keep the file. *)

\* Only snapshots change: each one is an old one, or the index of its
\* generation, on file if that is the active one.
LEMMA SnapshotSafe ==
  ASSUME Safe, IndInv',
         <<file, disk, lock, pc, wr, txns, faults, log, acked, stream, exposed, lost>>'
           = <<file, disk, lock, pc, wr, txns, faults, log, acked, stream, exposed, lost>>,
         \A p \in DOMAIN committed' :
           \/ p \in DOMAIN committed /\ committed'[p] = committed[p]
           \/ /\ committed'[p].locator.generation <= Len(log)
              /\ committed'[p].index = Upto(log, committed'[p].locator.generation)
              /\ (pc = "free" /\ committed'[p].locator = ActiveLocator(file)) =>
                   Sound(txns, ActiveIndexOn(file, file), ActiveTxns(file), lost)
  PROVE  Safe'
<1>1. /\ file' = file /\ disk' = disk /\ pc' = pc /\ wr' = wr /\ txns' = txns /\ log' = log
      /\ faults' = faults /\ acked' = acked /\ stream' = stream /\ exposed' = exposed /\ lost' = lost
  OBVIOUS
<1>2. /\ id' = id /\ txn' = txn /\ IndexOffset' = IndexOffset /\ IndexLength' = IndexLength
      /\ SameSlot' = SameSlot /\ OtherSlot' = OtherSlot /\ NewLocator' = NewLocator
      /\ Overwriting' = Overwriting
  BY <1>1 DEF id, txn, IndexOffset, IndexLength, SameSlot, OtherSlot, NewLocator, Overwriting,
              Destructive
<1>3. LogOrdered' /\ SlotsSound' /\ SlotOrder' /\ FramesInBody' /\ StreamInPlace'
      /\ CommittedChunksIntact'
  BY <1>1 DEF Safe, LogOrdered, SlotsSound, SlotOrder, FramesInBody, StreamInPlace,
              CommittedChunksIntact
<1>4. CallPlaced' /\ CallSlots'
  BY <1>1, <1>2 DEF Safe, CallPlaced, CallSlots
<1>5. CallIndex' /\ NewIndex'
  BY <1>1, <1>2 DEF Safe, CallIndex, NewIndex, EntriesWritten
<1>6. OwnFrames'
  BY <1>1, <1>2 DEF Safe, OwnFrames
<1>7. ActiveIndexKept' /\ DurableIndexKept'
  BY <1>1, <1>2 DEF Safe, ActiveIndexKept, DurableIndexKept, ActiveIndexOn, ActiveTxns
<1>8. NothingWasted'
  BY <1>1, <1>2 DEF Safe, NothingWasted
<1>9. SnapshotSound'
  <2>1. \A p \in DOMAIN committed : /\ committed[p].locator.generation <= Len(log)
                                    /\ committed[p].index = Upto(log, committed[p].locator.generation)
    BY DEF Safe, SnapshotSound, Upto
  <2>2. \A p \in DOMAIN committed' :
          /\ committed'[p].locator.generation <= Len(log)
          /\ committed'[p].index = Upto(log, committed'[p].locator.generation)
    BY <2>1
  <2> QED BY <1>1, <2>2 DEF SnapshotSound, Upto
<1>10. IdleIndex'
  <2>1. \A p \in DOMAIN committed :
          (pc = "free" /\ committed[p].locator = ActiveLocator(file)) =>
            Sound(txns, ActiveIndexOn(file, file), ActiveTxns(file), lost)
    BY DEF Safe, IdleIndex
  <2>2. \A p \in DOMAIN committed' :
          (pc = "free" /\ committed'[p].locator = ActiveLocator(file)) =>
            Sound(txns, ActiveIndexOn(file, file), ActiveTxns(file), lost)
    BY <2>1
  <2> QED BY <1>1, <2>2 DEF IdleIndex, ActiveIndexOn, ActiveTxns
<1> QED BY <1>3, <1>4, <1>5, <1>6, <1>7, <1>8, <1>9, <1>10 DEF Safe

\* Processes come and go.
LEMMA QuietSafe ==
  ASSUME Safe, IndInv',
         <<file, disk, lock, pc, wr, txns, faults, log, acked, stream, exposed, lost>>'
           = <<file, disk, lock, pc, wr, txns, faults, log, acked, stream, exposed, lost>>,
         \A p \in DOMAIN committed' : p \in DOMAIN committed /\ committed'[p] = committed[p]
  PROVE  Safe'
BY SnapshotSafe

\* However a call ends, the index that is active then has been kept, or
\* shows that it was not.
LEMMA EndKeepsIndex ==
  ASSUME Safe, Abandon \/ Commit
  PROVE  Sound(txns', ActiveIndexOn(file', file'), Upto(log', ActiveLocator(file').generation), lost')
<1>1. CASE Commit
  <2>1. /\ pc = "sync_slot" /\ file' = file /\ txns' = txns /\ log' = log /\ lost' = lost
    BY <1>1 DEF Commit
  <2>2. Sound(txns, ActiveIndexOn(file, file), ActiveTxns(file), lost)
    BY <2>1, PublishedSound
  <2> QED BY <2>1, <2>2 DEF ActiveTxns
<1>2. CASE Abandon
  <2>1. /\ lock # NoProc /\ txns' = txns /\ log' = log
        /\ lost' = (lost \/ Overwriting \/ (pc = "copy" /\ Destructive))
    BY <1>2 DEF Abandon
  <2>2. pc # "free"
    BY <2>1 DEF Safe, IndInv, TypeOK
  <2>3. CASE pc \in BodyWrites
    <3>1. PICK n \in 0 .. Len(Pending.cells) : file' = Put(file, Pending, n)
      BY <1>2, <2>3 DEF Abandon
    <3>2. Sound(txns, IndexOn(file', wr.loc), Upto(log, wr.loc.generation), lost \/ Damaging)
      BY <2>3, <3>1, WriteKeepsIndex
    <3>3. lost \/ Damaging => lost'
      BY <2>1 DEF Damaging, Overwriting
    <3>4. Sound(txns, IndexOn(file', wr.loc), Upto(log, wr.loc.generation), lost')
      BY <3>2, <3>3, SoundWeaker
    <3>5. wr.loc = ActiveLocator(file) /\ ActiveLocator(file') = ActiveLocator(file)
      BY <2>3, <3>1, CallFacts, WriteImage DEF BodyWrites
    <3> QED BY <2>1, <3>4, <3>5 DEF ActiveIndexOn
  <2>4. CASE pc \notin BodyWrites
    <3>1. file' = file
      BY <1>2, <2>4 DEF Abandon
    <3>2. Sound(txns, ActiveIndexOn(file, file), ActiveTxns(file), lost \/ Overwriting)
      BY <2>2, ActiveSound
    <3>3. (lost \/ Overwriting) => lost'
      BY <2>1
    <3>4. Sound(txns, ActiveIndexOn(file, file), ActiveTxns(file), lost')
      BY <3>2, <3>3, SoundWeaker
    <3> QED BY <2>1, <3>1, <3>4 DEF ActiveTxns
  <2> QED BY <2>3, <2>4
<1> QED BY <1>1, <1>2

\* A call is cut short.
LEMMA AbandonSafe ==
  ASSUME Safe, IndInv', Abandon,
         \A p \in DOMAIN committed' : p \in DOMAIN committed /\ committed'[p] = committed[p]
  PROVE  Safe'
<1>1. /\ faults' = faults + 1 /\ lock # NoProc /\ pc' = "free" /\ wr' = NoLocals
      /\ disk' = disk /\ txns' = txns /\ log' = log /\ acked' = acked
      /\ lost' = (lost \/ Overwriting \/ (pc = "copy" /\ Destructive))
  BY DEF Abandon
<1>2. IndInv /\ pc # "free" /\ SlotsSound /\ SlotOrder
  BY <1>1 DEF Safe, IndInv, TypeOK
<1>3. /\ file'.slot = file.slot
      /\ \A g \in DOMAIN log : FramesOn(txns, file', log[g])
      /\ \A a \in stream' : a \in stream \/ a[1] \in Entries(txns, a[2])
      /\ (~lost' /\ ~exposed') =>
            /\ ~lost /\ ~exposed
            /\ Exact(txns, IndexOn(file', ActiveLocator(disk)), ActiveTxns(disk))
  <2>1. CASE pc \in BodyWrites
    <3>1. PICK n \in 0 .. Len(Pending.cells) :
            /\ file' = Put(file, Pending, n)
            /\ stream' = stream \cup Encrypted(n)
            /\ exposed' = (exposed \/ HitsDurableIndex(n))
      BY <2>1 DEF Abandon
    <3>2. file'.slot = file.slot
      BY <2>1, <3>1, WriteImage
    <3>3. \A g \in DOMAIN log : FramesOn(txns, file', log[g])
      BY <2>1, <3>1, WriteKeepsFrames
    <3>4. \A a \in stream' : a \in stream \/ a[1] \in Entries(txns, a[2])
      BY <2>1, <3>1, EncryptedInPlace
    <3>5. (~lost' /\ ~exposed') =>
            /\ ~lost /\ ~exposed
            /\ Exact(txns, IndexOn(file', ActiveLocator(disk)), ActiveTxns(disk))
      BY <1>1, <2>1, <3>1, WriteKeepsDurable
    <3> QED BY <3>2, <3>3, <3>4, <3>5
  <2>2. CASE pc \notin BodyWrites
    <3>1. file' = file /\ stream' = stream /\ exposed' = exposed
      BY <2>2 DEF Abandon
    <3>2. \A g \in DOMAIN log : FramesOn(txns, file', log[g])
      BY <3>1, ChunksOnBoth DEF Safe
    <3>3. (~lost' /\ ~exposed') =>
            /\ ~lost /\ ~exposed
            /\ Exact(txns, IndexOn(file', ActiveLocator(disk)), ActiveTxns(disk))
      BY <1>1, <3>1 DEF Safe, DurableIndexKept, ActiveIndexOn
    <3> QED BY <3>1, <3>2, <3>3
  <2> QED BY <2>1, <2>2
<1>4. lost => lost'
  BY <1>1
<1>5. /\ LogOrdered' /\ SlotsSound' /\ SlotOrder' /\ DurableIndexKept'
      /\ CommittedChunksIntact' /\ FramesInBody' /\ StreamInPlace'
  BY <1>1, <1>3, <1>4, Kept
<1>6. ActiveLocator(file') = ActiveLocator(file)
  BY <1>3, SlotsDecide
<1>7. Sound(txns, ActiveIndexOn(file', file'), Upto(log, ActiveLocator(file').generation), lost')
  BY <1>1, EndKeepsIndex
<1>8. CallPlaced' /\ CallSlots' /\ CallIndex' /\ NewIndex' /\ OwnFrames'
  BY <1>1 DEF CallPlaced, CallSlots, CallIndex, NewIndex, OwnFrames, Copied, Entered, OnDisk, Framed
<1>9. SnapshotSound'
  BY <1>1 DEF Safe, SnapshotSound
<1>10. IdleIndex'
  BY <1>1, <1>7 DEF IdleIndex, ActiveTxns
<1>11. ActiveIndexKept'
  <2> SUFFICES ASSUME ~lost', NEW f \in {file', disk}
               PROVE  Exact(txns, ActiveIndexOn(f, file'), Upto(log, ActiveLocator(file').generation))
    BY <1>1 DEF ActiveIndexKept, ActiveTxns
  <2>1. Exact(txns, ActiveIndexOn(file', file'), Upto(log, ActiveLocator(file').generation))
    BY <1>7 DEF Sound
  <2>2. ~lost /\ ~Overwriting
    BY <1>1
  <2>3. Exact(txns, ActiveIndexOn(disk, file), ActiveTxns(file))
    BY <2>2 DEF Safe, ActiveIndexKept
  <2> QED BY <1>6, <2>1, <2>3 DEF ActiveIndexOn, ActiveTxns
<1>12. NothingWasted'
  <2>1. faults \in Nat
    BY <1>2 DEF IndInv, TypeOK
  <2> QED BY <1>1, <2>1 DEF NothingWasted
<1> QED BY <1>5, <1>8, <1>9, <1>10, <1>11, <1>12 DEF Safe

-----------------------------------------------------------------------------
(* What the writes of a call put in place. *)

\* The call's own frames,
LEMMA FramesWritten ==
  ASSUME Safe, pc \in {"append", "frames"}
  PROVE  FramesOn(txns, Put(file, Pending, Len(Pending.cells)), id)
<1> DEFINE w == Pending
           n == Len(w.cells)
           p == Put(file, w, n)
<1>1. /\ txn = txns[id] /\ txn.off \in Nat /\ txn.chunk_len \in Nat /\ IsImage(file) /\ IndInv
  BY CallFacts, Typed DEF Safe
<1>2. /\ w.offset = txn.off /\ n = txn.chunk_len
      /\ \A k \in 1 .. n : w.cells[k] = <<"chunk", id, k>>
  BY PendingFrames
<1>3. w.offset \in Nat /\ FRONT_MATTER_LEN <= w.offset /\ w.cells \in Seq(Cell)
  BY <1>1, PendingType DEF BodyWrites
<1> HIDE DEF w
<1>4. n \in 0 .. Len(w.cells) /\ n \in Nat
  BY <1>3
<1> HIDE DEF n
<1>5. w.offset + n <= p.eof /\ p.eof \in Nat
  BY <1>1, <1>3, <1>4, PutIsImage DEF IsImage
<1>6. \A x \in Region(w.offset, n) : p.body[x] = w.cells[x - w.offset + 1]
  BY <1>1, <1>3, <1>4, PutCells
<1> HIDE DEF p
<1>7. ASSUME NEW x \in Region(w.offset, n)
      PROVE  x < p.eof /\ p.body[x] = <<"chunk", id, x - w.offset + 1>>
  <2>1. x - w.offset + 1 \in 1 .. n /\ x < p.eof
    BY <1>3, <1>4, <1>5 DEF Region
  <2> QED BY <1>2, <1>6, <2>1
<1>8. FramesOn(txns, p, id)
  BY <1>1, <1>2, <1>7 DEF FramesOn
<1> QED BY <1>8 DEF p, n, w

\* which its entries miss.
LEMMA EntriesMissFrames ==
  ASSUME Safe, pc = "extend", NEW n \in 0 .. Len(Pending.cells)
  PROVE  FramesOn(txns, Put(file, Pending, n), id)
<1> DEFINE w == Pending
<1>1. /\ IsImage(file) /\ txns \in Seq(Txn) /\ FramesInBody /\ pc \in BodyWrites
  BY Typed DEF Safe, BodyWrites
<1>2. /\ id \in DOMAIN txns /\ FrameEnd(txns, id) <= IndexOffset /\ IndexOffset \in Nat
      /\ wr.loc.index_length \in Nat
  BY CallFacts
<1>3. w.offset \in Nat /\ FRONT_MATTER_LEN <= w.offset /\ n \in Nat
  BY <1>1, WriteImage
<1>4. w.offset = IndexOffset + wr.loc.index_length
  BY PendingEntries
<1>5. FramesOn(txns, file, id)
  BY DEF Safe, OwnFrames, Framed
<1> HIDE DEF w
<1>6. FRONT_MATTER_LEN <= txns[id].off /\ FrameEnd(txns, id) <= w.offset
  <2>1. FrameEnd(txns, id) \in Nat
    BY <1>1, <1>2, TxnFacts
  <2> QED BY <1>1, <1>2, <1>4, <2>1 DEF FramesInBody
<1>7. FramesOn(txns, Put(file, w, n), id)
  BY <1>1, <1>2, <1>3, <1>5, <1>6, PutKeepsFrames
<1> QED BY <1>7 DEF w

\* Its entries,
LEMMA EntriesWrittenNow ==
  ASSUME Safe, pc \in {"extend", "entries"}
  PROVE  \A q \in Entries(txns, id) :
           Put(file, Pending, Len(Pending.cells)).body[IndexOffset + q] = <<"index", id, q>>
<1> DEFINE w == Pending
           n == Len(w.cells)
           m == wr.loc.index_length
           p == Put(file, w, n)
<1>1. /\ txn = txns[id] /\ txn.start = m /\ m \in Nat /\ txn.entry_len \in Nat
      /\ IndexOffset \in Nat /\ IsImage(file) /\ IndInv
  BY CallFacts, Typed DEF Safe
<1>2. /\ w.offset = IndexOffset + m /\ n = txn.entry_len
      /\ \A k \in 1 .. n : w.cells[k] = <<"index", id, m + k - 1>>
  BY <1>1, PendingEntries
<1>3. w.offset \in Nat /\ FRONT_MATTER_LEN <= w.offset
  BY <1>1, PendingType DEF BodyWrites
<1> HIDE DEF w, n, m
<1>4. \A x \in Region(w.offset, n) : p.body[x] = w.cells[x - w.offset + 1]
  BY <1>1, <1>2, <1>3, PutCells
<1> HIDE DEF p
<1>5. ASSUME NEW q \in Entries(txns, id) PROVE p.body[IndexOffset + q] = <<"index", id, q>>
  <2>1. q \in Nat /\ m <= q /\ q < m + n
    BY <1>1, <1>2 DEF Entries, Region
  <2>2. IndexOffset + q \in Region(w.offset, n)
    BY <1>1, <1>2, <2>1 DEF Region
  <2>3. PICK x \in Region(w.offset, n) : x = IndexOffset + q
    BY <2>2
  <2>4. PICK k \in 1 .. n : k = x - w.offset + 1 /\ m + k - 1 = q
    BY <1>1, <1>2, <2>1, <2>3
  <2>5. p.body[x] = w.cells[k] /\ w.cells[k] = <<"index", id, q>>
    BY <1>2, <1>4, <2>4
  <2> QED BY <2>3, <2>5
<1> QED BY <1>5 DEF p, n, w

\* which its frames miss,
LEMMA FramesMissEntries ==
  ASSUME Safe, pc = "frames", NEW n \in 0 .. Len(Pending.cells), NEW q \in Entries(txns, id)
  PROVE  Put(file, Pending, n).body[IndexOffset + q] = <<"index", id, q>>
<1> DEFINE w == Pending
<1>1. IsImage(file) /\ file.eof \in Nat /\ pc \in BodyWrites /\ IndInv
  BY Typed DEF Safe, BodyWrites
<1>2. w.offset \in Nat /\ FRONT_MATTER_LEN <= w.offset /\ n \in Nat
  BY <1>1, WriteImage
<1>3. /\ w.offset = txn.off /\ n <= txn.chunk_len
  BY <1>2, PendingFrames
<1>4. /\ txn = txns[id] /\ txn.off + txn.chunk_len <= IndexOffset /\ IndexOffset \in Nat
      /\ FRONT_MATTER_LEN <= IndexOffset
      /\ txn.off \in Nat /\ txn.chunk_len \in Nat /\ txn.start = wr.loc.index_length
      /\ IndexLength = wr.loc.index_length + txn.entry_len
      /\ wr.loc.index_length \in Nat /\ txn.entry_len \in Nat
  BY CallFacts
<1>5. IndexOffset + IndexLength <= file.eof
  BY <1>1 DEF IndInv, CallInBounds, OnFile
<1>6. file.body[IndexOffset + q] = <<"index", id, q>>
  BY DEF Safe, NewIndex, Entered, EntriesWritten
<1>7. q \in Nat /\ q < IndexLength
  BY <1>4 DEF Entries, Region
<1> HIDE DEF w
<1>8. IndexOffset + q \in FRONT_MATTER_LEN .. file.eof - 1
  BY <1>1, <1>4, <1>5, <1>7, LayoutAssumption
<1>9. IndexOffset + q \notin Region(w.offset, n)
  BY <1>2, <1>3, <1>4, <1>7 DEF Region
<1>10. Put(file, w, n).body[IndexOffset + q] = <<"index", id, q>>
  BY <1>1, <1>2, <1>6, <1>8, <1>9, PutCells
<1> QED BY <1>10 DEF w

\* and the copy of the old index before them,
LEMMA IndexCopied ==
  ASSUME Safe, pc = "copy"
  PROVE  Sound(txns, Ciphertext(Put(file, Pending, Len(Pending.cells)), IndexOffset,
                                wr.loc.index_length),
               Upto(log, wr.loc.generation), lost)
<1> DEFINE w == Pending
           m == wr.loc.index_length
           s == Ciphertext(file, wr.loc.index_offset, m)
           p == Put(file, w, m)
           r == Ciphertext(p, IndexOffset, m)
<1>1. IsImage(file) /\ pc \in BodyWrites /\ IndInv
  BY Typed DEF Safe, BodyWrites
<1>2. IndexOffset \in Nat /\ wr.loc.index_offset \in Nat /\ m \in Nat
  BY CallFacts
<1>3. w.offset = IndexOffset /\ w.cells = s /\ Len(w.cells) = m
  BY PendingCopy
<1>4. w.offset \in Nat /\ FRONT_MATTER_LEN <= w.offset
  BY <1>1, PendingType
<1>5. Sound(txns, s, Upto(log, wr.loc.generation), lost \/ Overwriting)
  BY DEF Safe, CallIndex, IndexOn
<1>6. ~Overwriting
  BY DEF Overwriting
<1> HIDE DEF w, m
<1>8. \A x \in Region(w.offset, m) : p.body[x] = w.cells[x - w.offset + 1]
  BY <1>1, <1>2, <1>4, PutCells
<1>9. ASSUME NEW i \in 1 .. m PROVE p.body[IndexOffset + i - 1] = s[i]
  <2>1. PICK x \in Region(w.offset, m) : x = IndexOffset + i - 1
    BY <1>2, <1>3 DEF Region
  <2>2. x - w.offset + 1 = i
    BY <1>2, <1>3, <2>1
  <2> HIDE DEF p, s
  <2>3. p.body[x] = w.cells[i]
    BY <1>8, <2>2
  <2> QED BY <1>3, <2>1, <2>3
<1>10. r = s
  <2> HIDE DEF p
  <2>1. \A i \in 1 .. m : s[i] = p.body[IndexOffset + i - 1]
    BY <1>9
  <2>2. s = [i \in 1 .. m |-> s[i]]
    BY DEF Ciphertext
  <2> HIDE DEF s
  <2> QED BY <2>1, <2>2 DEF Ciphertext
<1>11. Sound(txns, r, Upto(log, wr.loc.generation), lost)
  <2> HIDE DEF r, s
  <2> QED BY <1>5, <1>6, <1>10 DEF Sound
<1>12. Put(file, w, Len(w.cells)) = p
  BY <1>3
<1> QED BY <1>11, <1>12 DEF r, w, m

\* which neither overwrites.
LEMMA NewIndexMissed ==
  ASSUME Safe, pc \in {"extend", "entries", "frames"}, NEW n \in 0 .. Len(Pending.cells)
  PROVE  Ciphertext(Put(file, Pending, n), IndexOffset, wr.loc.index_length)
           = Ciphertext(file, IndexOffset, wr.loc.index_length)
<1> DEFINE w == Pending
           m == wr.loc.index_length
<1>1. IsImage(file) /\ pc \in BodyWrites /\ IndInv /\ file.eof \in Nat /\ disk.eof \in Nat
      /\ disk.eof <= file.eof
  BY Typed DEF Safe, BodyWrites
<1>2. /\ IndexOffset \in Nat /\ wr.loc.index_offset \in Nat /\ m \in Nat
      /\ FRONT_MATTER_LEN <= IndexOffset
      /\ FrameEnd(txns, id) <= IndexOffset /\ FrameEnd(txns, id) = txn.off + txn.chunk_len
      /\ txn.off \in Nat /\ txn.chunk_len \in Nat /\ txn.entry_len \in Nat
      /\ wr.loc.index_offset + m <= disk.eof /\ IndexLength = m + txn.entry_len
  BY CallFacts
<1>3. w.offset \in Nat /\ FRONT_MATTER_LEN <= w.offset /\ n \in Nat
  BY <1>1, WriteImage
<1>4. ~Overlap(w.offset, n, IndexOffset, m)
  <2>1. CASE pc = "frames"
    <3>1. w.offset = txn.off /\ n <= txn.chunk_len
      BY <1>3, <2>1, PendingFrames
    <3> QED BY <1>2, <1>3, <3>1 DEF Overlap
  <2>2. CASE pc \in {"extend", "entries"}
    <3>1. w.offset = IndexOffset + m
      BY <2>2, PendingEntries
    <3> QED BY <1>2, <1>3, <3>1 DEF Overlap
  <2> QED BY <2>1, <2>2
<1>5. IndexOffset + m <= file.eof
  <2>1. CASE pc = "extend"
    <3>1. ~wr.relocate
      BY <1>1, <2>1 DEF IndInv, CallInBounds, InPlace
    <3>2. IndexOffset = wr.loc.index_offset
      BY <3>1 DEF IndexOffset, NewIndexOffset
    <3> QED BY <1>1, <1>2, <3>2, SMTT(60)
  <2>2. CASE pc \in {"entries", "frames"}
    <3>1. IndexOffset + IndexLength <= file.eof
      BY <1>1, <2>2 DEF IndInv, CallInBounds, OnFile
    <3> QED BY <1>1, <1>2, <3>1, SMTT(60)
  <2> QED BY <2>1, <2>2
<1> HIDE DEF w, m
<1>6. Ciphertext(Put(file, w, n), IndexOffset, m) = Ciphertext(file, IndexOffset, m)
  BY <1>1, <1>2, <1>3, <1>4, <1>5, PutMisses
<1> QED BY <1>6 DEF w, m

-----------------------------------------------------------------------------
(* The steps of a call. *)

\* Nothing else of a call changes in the steps between Begin and Seal.
LEMMA SameCall ==
  ASSUME wr' = wr, txns' = txns
  PROVE  /\ id' = id /\ txn' = txn /\ IndexOffset' = IndexOffset /\ IndexLength' = IndexLength
         /\ SameSlot' = SameSlot /\ OtherSlot' = OtherSlot /\ NewLocator' = NewLocator
         /\ Destructive' = Destructive
BY DEF id, txn, IndexOffset, IndexLength, SameSlot, OtherSlot, NewLocator, Destructive

\* The order in which a call writes.
Following(from, to) ==
  <<from, to>> \in {<<"append", "sync_append">>, <<"extend", "sync_extend">>, <<"grow", "copy">>,
                    <<"copy", "entries">>, <<"entries", "frames">>, <<"frames", "sync_moved">>}

LEMMA WriteNewIndex ==
  ASSUME Safe, NEW from, NEW to, Following(from, to), WriteBody(from, to)
  PROVE  NewIndex' /\ OwnFrames'
<1> DEFINE n == Len(Pending.cells)
           m == wr.loc.index_length
<1>1. /\ pc = from /\ pc' = to /\ file' = Put(file, Pending, n)
      /\ disk' = disk /\ wr' = wr /\ txns' = txns /\ log' = log /\ lost' = lost
  BY DEF WriteBody
<1>2. /\ <<pc, pc'>> \in {<<"append", "sync_append">>, <<"extend", "sync_extend">>,
                          <<"grow", "copy">>, <<"copy", "entries">>, <<"entries", "frames">>,
                          <<"frames", "sync_moved">>}
      /\ pc \in BodyWrites
  BY <1>1 DEF Following, BodyWrites
<1>3. n \in 0 .. Len(Pending.cells) /\ id \in Nat
  BY <1>2, PendingType, CallFacts DEF Safe, BodyWrites
<1>4. /\ id' = id /\ txn' = txn /\ IndexOffset' = IndexOffset /\ IndexLength' = IndexLength
  BY <1>1, SameCall
<1>5. ASSUME pc \in {"copy", "extend", "entries", "frames"}
      PROVE  Sound(txns, Ciphertext(file', IndexOffset, m), Upto(log, wr.loc.generation), lost)
  <2>1. CASE pc = "copy"
    BY <1>1, <2>1, IndexCopied
  <2>2. CASE pc \in {"extend", "entries", "frames"}
    <3>1. Sound(txns, Ciphertext(file, IndexOffset, m), Upto(log, wr.loc.generation), lost)
      BY <2>2 DEF Safe, NewIndex, Copied
    <3>2. Ciphertext(file', IndexOffset, m) = Ciphertext(file, IndexOffset, m)
      BY <1>1, <1>3, <2>2, NewIndexMissed
    <3> QED BY <3>1, <3>2
  <2> QED BY <1>5, <2>1, <2>2
<1>6. ASSUME pc \in {"extend", "entries", "frames"}, NEW q \in Entries(txns, id)
      PROVE  file'.body[IndexOffset + q] = <<"index", id, q>>
  <2>1. CASE pc \in {"extend", "entries"}
    BY <1>1, <2>1, EntriesWrittenNow
  <2>2. CASE pc = "frames"
    BY <1>1, <1>3, <2>2, FramesMissEntries
  <2> QED BY <1>6, <2>1, <2>2
<1>7. ASSUME pc \in {"append", "extend", "frames"}
      PROVE  FramesOn(txns, file', id)
  <2>1. CASE pc \in {"append", "frames"}
    BY <1>1, <2>1, FramesWritten
  <2>2. CASE pc = "extend"
    BY <1>1, <1>3, <2>2, EntriesMissFrames
  <2> QED BY <1>7, <2>1, <2>2
<1>8. pc = "extend" => FramesOn(txns, disk, id)
  BY DEF Safe, OwnFrames, Framed
<1> HIDE DEF n, m
<1>9. NewIndex'
  <2>1. pc' \in Copied => pc \in {"copy", "extend", "entries", "frames"}
    BY <1>2 DEF Copied
  <2>2. pc' \in Entered => pc \in {"extend", "entries", "frames"}
    BY <1>2 DEF Entered
  <2>3. pc' \notin {"slot", "sync_slot"} /\ pc' \notin OnDisk
    BY <1>2 DEF OnDisk
  <2>4. pc' \in Copied =>
          Sound(txns', Ciphertext(file', IndexOffset', wr'.loc.index_length),
                Upto(log', wr'.loc.generation), lost')
    BY <1>1, <1>4, <1>5, <2>1 DEF m
  <2>5. pc' \in Entered => EntriesWritten'
    BY <1>1, <1>4, <1>6, <2>2 DEF EntriesWritten
  <2> QED BY <2>3, <2>4, <2>5 DEF NewIndex
<1>10. OwnFrames'
  <2>1. pc' \in Framed => pc \in {"append", "extend", "frames"}
    BY <1>2 DEF Framed
  <2>2. pc' \in Framed \ {"sync_append", "sync_moved"} => pc = "extend"
    BY <1>2 DEF Framed
  <2> QED BY <1>1, <1>4, <1>7, <1>8, <2>1, <2>2 DEF OwnFrames
<1> QED BY <1>9, <1>10

LEMMA WriteSafe ==
  ASSUME Safe, IndInv', NEW from, NEW to, Following(from, to), WriteBody(from, to)
  PROVE  Safe'
<1> DEFINE n == Len(Pending.cells)
<1>1. /\ pc = from /\ pc' = to /\ file' = Put(file, Pending, n)
      /\ stream' = stream \cup Encrypted(n) /\ exposed' = (exposed \/ HitsDurableIndex(n))
      /\ disk' = disk /\ wr' = wr /\ txns' = txns /\ log' = log /\ lost' = lost /\ acked' = acked
      /\ committed' = committed /\ faults' = faults
  BY DEF WriteBody, procVars
<1>2. /\ <<pc, pc'>> \in {<<"append", "sync_append">>, <<"extend", "sync_extend">>,
                          <<"grow", "copy">>, <<"copy", "entries">>, <<"entries", "frames">>,
                          <<"frames", "sync_moved">>}
      /\ pc \in BodyWrites
  BY <1>1 DEF Following, BodyWrites
<1>3. n \in 0 .. Len(Pending.cells)
  BY <1>2, PendingType DEF Safe
<1>4. id' = id /\ txn' = txn /\ Destructive' = Destructive
  BY <1>1, SameCall
<1>5. wr.loc = ActiveLocator(file) /\ pc \notin {"free", "sync_slot", "seal", "slot"}
  BY <1>2, CallFacts DEF BodyWrites
<1>6. pc' \notin {"free", "sync_slot", "seal", "slot"}
  BY <1>2
<1> HIDE DEF n
<1>7. file'.slot = file.slot /\ ActiveLocator(file') = ActiveLocator(file)
  BY <1>1, <1>2, <1>3, WriteImage
<1>8. /\ LogOrdered' /\ SlotsSound' /\ SlotOrder' /\ DurableIndexKept'
      /\ CommittedChunksIntact' /\ FramesInBody' /\ StreamInPlace'
  <2>1. \A g \in DOMAIN log : FramesOn(txns, file', log[g])
    BY <1>1, <1>2, <1>3, WriteKeepsFrames
  <2>2. \A a \in stream' : a \in stream \/ a[1] \in Entries(txns, a[2])
    BY <1>1, <1>2, <1>3, EncryptedInPlace
  <2>3. (~lost' /\ ~exposed') =>
          /\ ~lost /\ ~exposed
          /\ Exact(txns, IndexOn(file', ActiveLocator(disk)), ActiveTxns(disk))
    BY <1>1, <1>2, <1>3, WriteKeepsDurable
  <2> QED BY <1>1, <1>7, <2>1, <2>2, <2>3, Kept
<1>9. NewIndex' /\ OwnFrames'
  BY WriteNewIndex
<1>10. Damaging => Overwriting'
  BY <1>2, <1>4 DEF Damaging, Overwriting
<1>11. Overwriting => Damaging
  BY <1>2 DEF Damaging, Overwriting
<1>12. Sound(txns, IndexOn(file', wr.loc), Upto(log, wr.loc.generation), lost \/ Overwriting')
  <2>1. Sound(txns, IndexOn(file', wr.loc), Upto(log, wr.loc.generation), lost \/ Damaging)
    BY <1>1, <1>2, <1>3, WriteKeepsIndex
  <2> QED BY <1>10, <2>1, SoundWeaker
<1>13. CallPlaced'
  BY <1>1, <1>4, <1>5, <1>6 DEF Safe, CallPlaced
<1>14. CallSlots'
  BY <1>1, <1>5, <1>6, <1>7 DEF CallSlots
<1>15. CallIndex'
  BY <1>1, <1>5, <1>12 DEF Safe, CallIndex
<1>16. SnapshotSound'
  BY <1>1 DEF Safe, SnapshotSound
<1>17. IdleIndex'
  BY <1>6 DEF IdleIndex
<1>18. ActiveIndexKept'
  <2> SUFFICES ASSUME ~lost, ~Overwriting', NEW f \in {file', disk}
               PROVE  Exact(txns, ActiveIndexOn(f, file'), Upto(log, ActiveLocator(file').generation))
    BY <1>1 DEF ActiveIndexKept, ActiveTxns
  <2>1. Exact(txns, ActiveIndexOn(file', file'), Upto(log, ActiveLocator(file').generation))
    BY <1>5, <1>7, <1>12 DEF Sound, ActiveIndexOn
  <2>2. ~lost /\ ~Overwriting
    BY <1>10, <1>11
  <2>3. Exact(txns, ActiveIndexOn(disk, file), ActiveTxns(file))
    BY <2>2 DEF Safe, ActiveIndexKept
  <2> QED BY <1>7, <2>1, <2>3 DEF ActiveIndexOn, ActiveTxns
<1>19. NothingWasted'
  BY <1>1, <1>4, <1>6 DEF Safe, NothingWasted
<1> QED BY <1>8, <1>9, <1>13, <1>14, <1>15, <1>16, <1>17, <1>18, <1>19 DEF Safe

\* The slot that is active on file would be so for a disk synced with it.
LEMMA FileSlots ==
  ASSUME Safe
  PROVE  /\ ActiveLocator(file).slot_index \in {0, 1}
         /\ Durable(file, file, Len(log), ActiveLocator(file).slot_index)
         /\ acked <= Len(log)
<1>1. IndInv /\ SlotsSound /\ SlotOrder /\ IsImage(file) /\ IsImage(disk) /\ Len(log) \in Nat
  BY Typed DEF Safe
<1>2. PICK c \in {0, 1} : Durable(file, disk, Len(log), c) \/ Ahead(file, disk, Len(log), c)
  BY <1>1 DEF SlotOrder
<1>3. PICK d \in {0, 1} : Durable(file, file, Len(log), d)
  <2>1. CASE Durable(file, disk, Len(log), c)
    BY <2>1 DEF Durable
  <2>2. CASE Ahead(file, disk, Len(log), c)
    <3>1. 1 - c \in {0, 1} /\ 1 - (1 - c) = c /\ Len(log) - 1 < Len(log)
      BY <1>1
    <3>2. Durable(file, file, Len(log), 1 - c)
      BY <2>2, <3>1 DEF Durable, Ahead, Older
    <3> QED BY <3>1, <3>2
  <2> QED BY <1>2, <2>1, <2>2
<1>4. d \in ValidSlots(file) /\ ActiveLocator(file) = file.slot[d].loc
  BY <1>1, <1>3, ActiveOfDurable
<1>5. ActiveLocator(file).slot_index = d
  BY <1>1, <1>4 DEF SlotsSound
<1>6. acked <= Len(log)
  <2>1. ActiveLocator(disk).generation \in 0 .. Len(log) /\ acked <= ActiveLocator(disk).generation
    BY <1>1, ActiveFacts DEF SlotOrder
  <2>2. acked \in Nat
    BY <1>1 DEF IndInv, TypeOK
  <2> QED BY <1>1, <2>1, <2>2
<1> QED BY <1>3, <1>5, <1>6

LEMMA SyncSafe ==
  ASSUME Safe, IndInv', NEW from, NEW to,
         <<from, to>> \in {<<"sync_append", "extend">>, <<"sync_extend", "seal">>,
                           <<"sync_moved", "seal">>},
         SyncBody(from, to)
  PROVE  Safe'
<1>1. /\ pc = from /\ pc' = to /\ file' = file /\ disk' = file /\ exposed' = Destructive
      /\ wr' = wr /\ txns' = txns /\ log' = log /\ lost' = lost /\ acked' = acked
      /\ committed' = committed /\ faults' = faults /\ stream' = stream
  BY DEF SyncBody, procVars
<1>2. /\ <<pc, pc'>> \in {<<"sync_append", "extend">>, <<"sync_extend", "seal">>,
                          <<"sync_moved", "seal">>}
      /\ pc \notin {"free", "sync_slot", "seal", "slot"}
      /\ pc' \notin {"free", "sync_slot", "slot"}
  BY <1>1
<1>3. /\ id' = id /\ txn' = txn /\ IndexOffset' = IndexOffset /\ IndexLength' = IndexLength
      /\ Destructive' = Destructive /\ SameSlot' = SameSlot
  BY <1>1, SameCall
<1>4. IndInv /\ SlotsSound /\ SlotOrder /\ CallIndex /\ ActiveIndexKept /\ NewIndex /\ OwnFrames
  BY DEF Safe
<1>5. /\ wr.loc = ActiveLocator(file) /\ ActiveLocator(file).generation = Len(log)
  BY <1>2, CallFacts
<1>6. /\ SameSlot \in {0, 1} /\ Durable(file, file, Len(log), SameSlot) /\ acked <= Len(log)
  BY <1>5, FileSlots DEF SameSlot
<1>7. pc \in {"sync_append", "sync_extend"} => ~wr.relocate
  BY <1>4 DEF IndInv, CallInBounds, InPlace
<1>8. Overwriting' <=> Overwriting
  BY <1>2, <1>3, <1>7 DEF Overwriting, Destructive
<1>9. LogOrdered' /\ FramesInBody' /\ StreamInPlace' /\ SnapshotSound'
  BY <1>1 DEF Safe, LogOrdered, FramesInBody, StreamInPlace, SnapshotSound
<1>10. SlotsSound'
  BY <1>1, <1>4 DEF SlotsSound
<1>11. SlotOrder'
  BY <1>1, <1>5, <1>6 DEF SlotOrder
<1>12. CallPlaced'
  BY <1>1, <1>2, <1>3 DEF Safe, CallPlaced
<1>13. CallSlots'
  BY <1>1, <1>2, <1>3, <1>5, <1>6 DEF CallSlots
<1>14. CallIndex'
  BY <1>1, <1>2, <1>4, <1>8 DEF CallIndex
<1>15. NewIndex'
  <2>1. Sound(txns, Ciphertext(file, IndexOffset, wr.loc.index_length),
              Upto(log, wr.loc.generation), lost)
    <3>1. CASE pc = "sync_append"
      <4>1. IndexOffset = wr.loc.index_offset /\ ~Overwriting
        BY <1>7, <3>1 DEF IndexOffset, NewIndexOffset, Overwriting
      <4>2. Sound(txns, IndexOn(file, wr.loc), Upto(log, wr.loc.generation), lost \/ Overwriting)
        BY <1>2, <1>4 DEF CallIndex
      <4> QED BY <4>1, <4>2 DEF Sound, IndexOn
    <3>2. CASE pc \in {"sync_extend", "sync_moved"}
      BY <1>4, <3>2 DEF NewIndex, Copied
    <3> QED BY <1>2, <3>1, <3>2
  <2>2. pc' \in Entered => EntriesWritten'
    <3>1. pc' \in Entered => pc \in Entered
      BY <1>2 DEF Entered
    <3> QED BY <1>1, <1>3, <1>4, <3>1 DEF NewIndex, EntriesWritten
  <2> QED BY <1>1, <1>2, <1>3, <2>1, <2>2 DEF NewIndex
<1>16. OwnFrames'
  <2>1. FramesOn(txns, file, id)
    BY <1>2, <1>4 DEF OwnFrames, Framed
  <2> QED BY <1>1, <1>3, <2>1 DEF OwnFrames
<1>17. IdleIndex'
  BY <1>2 DEF IdleIndex
<1>18. ActiveIndexKept'
  BY <1>1, <1>4, <1>8 DEF ActiveIndexKept, ActiveIndexOn, ActiveTxns
<1>19. DurableIndexKept'
  <2>1. ~Destructive => ~Overwriting
    BY DEF Overwriting
  <2> QED BY <1>1, <1>4, <2>1 DEF ActiveIndexKept, DurableIndexKept, ActiveIndexOn, ActiveTxns
<1>20. CommittedChunksIntact'
  BY <1>1 DEF Safe, CommittedChunksIntact
<1>21. NothingWasted'
  BY <1>1, <1>2, <1>3 DEF Safe, NothingWasted
<1> QED BY <1>9, <1>10, <1>11, <1>12, <1>13, <1>14, <1>15, <1>16, <1>17, <1>18, <1>19, <1>20,
           <1>21 DEF Safe

\* What is read depends on the body only.
LEMMA SameBody ==
  ASSUME NEW f, NEW g, f.body = g.body, f.eof = g.eof
  PROVE  /\ \A o, m : Ciphertext(f, o, m) = Ciphertext(g, o, m)
         /\ \A loc : IndexOn(f, loc) = IndexOn(g, loc)
         /\ \A t, i : FramesOn(t, f, i) <=> FramesOn(t, g, i)
<1>1. \A o, m : Ciphertext(f, o, m) = Ciphertext(g, o, m)
  BY DEF Ciphertext
<1>2. \A loc : IndexOn(f, loc) = IndexOn(g, loc)
  BY <1>1 DEF IndexOn
<1>3. \A t, i : FramesOn(t, f, i) <=> FramesOn(t, g, i)
  BY DEF FramesOn
<1> QED BY <1>1, <1>2, <1>3

\* The new index as it is read back: the old units, then the call's own.
LEMMA SealedSound ==
  ASSUME Safe, pc = "seal"
  PROVE  Sound(txns, Ciphertext(file, IndexOffset, IndexLength),
               Upto(log, wr.loc.generation) \cup {id}, lost)
<1> DEFINE m == wr.loc.index_length
           r == Ciphertext(file, IndexOffset, m)
           s == Ciphertext(file, IndexOffset, IndexLength)
           ids == Upto(log, wr.loc.generation)
<1>1. /\ txn = txns[id] /\ IndexOffset \in Nat /\ m \in Nat /\ txn.entry_len \in Nat
      /\ IndexLength = m + txn.entry_len /\ txn.start = m
  BY CallFacts
<1>2. Sound(txns, r, ids, lost)
  BY DEF Safe, NewIndex, Copied
<1>3. \A q \in Entries(txns, id) : file.body[IndexOffset + q] = <<"index", id, q>>
  BY DEF Safe, NewIndex, Entered, EntriesWritten
<1>4. IndexLength \in Nat
  BY <1>1
<1> HIDE DEF m, ids
<1>17. m \in Nat
  BY <1>1
<1>12. DOMAIN r = 1 .. m /\ Len(r) = m
  BY <1>17 DEF Ciphertext
<1>13. \A i \in 1 .. m : r[i] = file.body[IndexOffset + i - 1]
  BY DEF Ciphertext
<1>14. DOMAIN s = 1 .. IndexLength /\ Len(s) = IndexLength
  BY <1>4 DEF Ciphertext
<1>15. \A i \in 1 .. IndexLength : s[i] = file.body[IndexOffset + i - 1]
  BY DEF Ciphertext
<1> HIDE DEF r, s
<1>5. /\ DOMAIN r = 1 .. m /\ Len(r) = m
      /\ \A i \in 1 .. m : r[i] = file.body[IndexOffset + i - 1]
  BY <1>12, <1>13
<1>6. /\ DOMAIN s = 1 .. IndexLength /\ Len(s) = IndexLength
      /\ \A i \in 1 .. IndexLength : s[i] = file.body[IndexOffset + i - 1]
  BY <1>14, <1>15
<1>16. \A i \in 1 .. m : i \in 1 .. IndexLength
  BY <1>1
<1>7. \A i \in 1 .. m : i \in 1 .. IndexLength /\ s[i] = r[i]
  BY <1>13, <1>15, <1>16
<1>8. ASSUME NEW i \in 1 .. IndexLength, i \notin 1 .. m
      PROVE  i - 1 \in Entries(txns, id) /\ s[i] = <<"index", id, i - 1>>
  <2>1. i - 1 \in Entries(txns, id)
    BY <1>1, <1>8 DEF Entries, Region
  <2>2. IndexOffset + (i - 1) = IndexOffset + i - 1
    BY <1>1
  <2> QED BY <1>3, <1>6, <2>1, <2>2
<1>9. CASE Exact(txns, r, ids)
  <2>1. ASSUME NEW i \in 1 .. IndexLength
        PROVE  \E k \in ids \cup {id} : s[i] = <<"index", k, i - 1>> /\ i - 1 \in Entries(txns, k)
    <3>1. CASE i \in 1 .. m
      BY <1>5, <1>7, <1>9, <3>1 DEF Exact
    <3>2. CASE i \notin 1 .. m
      BY <1>8, <3>2
    <3> QED BY <3>1, <3>2
  <2>2. Exact(txns, s, ids \cup {id})
    BY <1>6, <2>1 DEF Exact
  <2> QED BY <2>2 DEF Sound, s, ids
<1>10. CASE lost /\ Holed(r)
  <2>1. PICK q \in 0 .. m - 1 : \A i \in 1 .. m : ~(r[i][1] = "index" /\ r[i][3] = q)
    BY <1>5, <1>10 DEF Holed
  <2>2. ASSUME NEW i \in 1 .. IndexLength PROVE ~(s[i][1] = "index" /\ s[i][3] = q)
    <3>1. CASE i \in 1 .. m
      BY <1>7, <2>1, <3>1
    <3>2. CASE i \notin 1 .. m
      <4>1. s[i][3] = i - 1
        BY <1>8, <3>2
      <4>2. i - 1 # q
        BY <1>1, <3>2
      <4> QED BY <4>1, <4>2
    <3> QED BY <3>1, <3>2
  <2>3. q \in 0 .. Len(s) - 1
    BY <1>1, <1>6
  <2>4. Holed(s)
    BY <1>6, <2>2, <2>3 DEF Holed
  <2> QED BY <1>10, <2>4 DEF Sound, s
<1> QED BY <1>2, <1>9, <1>10 DEF Sound

LEMMA SealSafe == ASSUME Safe, IndInv', Seal PROVE Safe'
<1>1. /\ pc = "seal" /\ pc' = "slot" /\ file' = PutSlot(file, OtherSlot, BrokenSlot)
      /\ disk' = disk /\ txns' = txns /\ log' = log /\ lost' = lost /\ acked' = acked
      /\ committed' = committed /\ faults' = faults /\ stream' = stream /\ exposed' = exposed
  BY DEF Seal, procVars, history
<1>2. IndInv /\ IsImage(file) /\ IsImage(disk) /\ wr \in Locals /\ Len(log) \in Nat
  BY Typed DEF Safe, IndInv, TypeOK
<1>3. /\ wr'.loc = wr.loc /\ wr'.index = wr.index /\ wr'.relocate = wr.relocate
      /\ wr'.mac = Ciphertext(file, IndexOffset, IndexLength)
  BY <1>2 DEF Seal, Locals
<1>4. /\ id' = id /\ txn' = txn /\ IndexOffset' = IndexOffset /\ IndexLength' = IndexLength
      /\ SameSlot' = SameSlot /\ Destructive' = Destructive
  BY <1>1, <1>3 DEF id, txn, IndexOffset, IndexLength, SameSlot, Destructive
<1>5. /\ wr.loc = ActiveLocator(file) /\ wr.loc \in Locator
  BY <1>1, CallFacts
<1>6. /\ SameSlot \in {0, 1} /\ OtherSlot \in {0, 1} /\ OtherSlot = 1 - SameSlot
      /\ OtherSlot # SameSlot
  BY <1>5 DEF Locator, SameSlot, OtherSlot
<1>7. /\ file'.body = file.body /\ file'.eof = file.eof
      /\ file'.slot = [file.slot EXCEPT ![OtherSlot] = BrokenSlot]
      /\ file.slot \in [{0, 1} -> Slot] /\ IsImage(file')
  BY <1>1, <1>2 DEF PutSlot, IsImage, IndInv, TypeOK
<1>8. file'.slot[OtherSlot] = BrokenSlot /\ file'.slot[SameSlot] = file.slot[SameSlot]
      /\ ~BrokenSlot.valid
  BY <1>6, <1>7 DEF BrokenSlot
<1>9. Durable(file, disk, Len(log), SameSlot)
  BY <1>1 DEF Safe, CallSlots
<1>10. Durable(file', disk, Len(log), SameSlot)
  BY <1>6, <1>8, <1>9 DEF Durable, Older
<1>11. ActiveLocator(file') = ActiveLocator(file)
  <2>1. ActiveLocator(file) = file.slot[SameSlot].loc
    BY <1>2, <1>6, <1>9, ActiveOfDurable
  <2>2. ActiveLocator(file') = file'.slot[SameSlot].loc
    BY <1>2, <1>6, <1>7, <1>10, ActiveOfDurable
  <2> QED BY <1>8, <2>1, <2>2
<1>12. /\ \A o, m : Ciphertext(file', o, m) = Ciphertext(file, o, m)
       /\ \A loc : IndexOn(file', loc) = IndexOn(file, loc)
       /\ \A i : FramesOn(txns, file', i) <=> FramesOn(txns, file, i)
  BY <1>7, SameBody
<1>13. LogOrdered' /\ FramesInBody' /\ StreamInPlace' /\ SnapshotSound'
  BY <1>1 DEF Safe, LogOrdered, FramesInBody, StreamInPlace, SnapshotSound
<1>14. SlotsSound'
  <2>1. \A i \in ValidSlots(file') : i \in ValidSlots(file) /\ file'.slot[i] = file.slot[i]
    BY <1>6, <1>7, <1>8 DEF ValidSlots
  <2> QED BY <1>1, <2>1 DEF Safe, SlotsSound
<1>15. SlotOrder'
  BY <1>1, <1>6, <1>10 DEF Safe, SlotOrder
<1>16. CallPlaced'
  BY <1>1, <1>3, <1>4 DEF Safe, CallPlaced
<1>17. CallSlots'
  BY <1>1, <1>3, <1>4, <1>5, <1>10, <1>11 DEF CallSlots
<1>18. Overwriting' <=> Overwriting
  BY <1>1, <1>4 DEF Overwriting
<1>19. CallIndex'
  BY <1>1, <1>3, <1>12, <1>18 DEF Safe, CallIndex
<1>20. NewIndex'
  <2>1. \A x \in Region(IndexOffset, IndexLength) : disk.body[x] = file.body[x]
    BY <1>1 DEF Safe, NewIndex, OnDisk
  <2>2. pc' \notin Copied /\ pc' \notin Entered
    BY <1>1 DEF Copied, Entered
  <2> QED BY <1>1, <1>3, <1>4, <1>7, <1>12, <2>1, <2>2, SealedSound DEF NewIndex
<1>21. OwnFrames'
  BY <1>1, <1>4, <1>12 DEF Safe, OwnFrames, Framed
<1>22. IdleIndex'
  BY <1>1 DEF IdleIndex
<1>23. ActiveIndexKept'
  BY <1>1, <1>11, <1>12, <1>18 DEF Safe, ActiveIndexKept, ActiveIndexOn, ActiveTxns
<1>24. DurableIndexKept'
  BY <1>1, <1>12 DEF Safe, DurableIndexKept, ActiveIndexOn, ActiveTxns
<1>25. CommittedChunksIntact'
  BY <1>1, <1>7 DEF Safe, CommittedChunksIntact
<1>26. NothingWasted'
  BY <1>1, <1>4 DEF Safe, NothingWasted
<1> QED BY <1>13, <1>14, <1>15, <1>16, <1>17, <1>19, <1>20, <1>21, <1>22, <1>23, <1>24, <1>25,
           <1>26 DEF Safe

\* A longer log lists the same under an old generation.
LEMMA UptoAppend ==
  ASSUME NEW T, NEW l \in Seq(T), NEW x \in T, NEW g \in 0 .. Len(l)
  PROVE  /\ \A h \in 1 .. g : Append(l, x)[h] = l[h]
         /\ Upto(Append(l, x), g) = Upto(l, g)
<1>1. \A h \in 1 .. g : Append(l, x)[h] = l[h]
  OBVIOUS
<1> QED BY <1>1 DEF Upto

LEMMA LocatorSoundAppend ==
  ASSUME NEW T, NEW l \in Seq(T), NEW x \in T, NEW t, NEW loc, loc.generation \in 0 .. Len(l),
         NEW damaged, LocatorSound(t, l, loc, damaged)
  PROVE  LocatorSound(t, Append(l, x), loc, damaged)
<1> DEFINE k == Append(l, x)
<1>1. /\ \A h \in 1 .. loc.generation : k[h] = l[h]
      /\ Upto(k, loc.generation) = Upto(l, loc.generation)
  BY UptoAppend
<1> HIDE DEF k
<1>2. LocatorSound(t, k, loc, damaged)
  <2>1. \A g \in 1 .. loc.generation : /\ EntryEnd(t, k[g]) <= loc.index_length
                                       /\ FrameEnd(t, k[g]) <= loc.index_offset
    BY <1>1 DEF LocatorSound
  <2>2. Sound(t, loc.index_mac, Upto(k, loc.generation), damaged)
    BY <1>1 DEF LocatorSound
  <2> QED BY <2>1, <2>2 DEF LocatorSound
<1> QED BY <1>2 DEF k

LEMMA PublishSafe == ASSUME Safe, IndInv', PublishSlot PROVE Safe'
<1> DEFINE n == Len(log)
<1>1. /\ pc = "slot" /\ pc' = "sync_slot"
      /\ file' = PutSlot(file, OtherSlot, [valid |-> TRUE, loc |-> NewLocator])
      /\ disk' = disk /\ wr' = wr /\ txns' = txns /\ log' = Append(log, id) /\ lost' = lost
      /\ acked' = acked /\ committed' = committed /\ faults' = faults /\ stream' = stream
      /\ exposed' = exposed
  BY DEF PublishSlot, procVars
<1>2. /\ IndInv /\ IsImage(file) /\ IsImage(disk) /\ n \in Nat /\ IsImage(file')
      /\ txns \in Seq(Txn) /\ log \in Seq(DOMAIN txns) /\ SlotsSound /\ SlotOrder
  BY Typed DEF Safe, IndInv, TypeOK
<1>3. /\ id' = id /\ txn' = txn /\ IndexOffset' = IndexOffset /\ IndexLength' = IndexLength
      /\ SameSlot' = SameSlot /\ OtherSlot' = OtherSlot /\ NewLocator' = NewLocator
  BY <1>1, SameCall
<1>4. /\ wr.loc = ActiveLocator(file) /\ wr.loc \in Locator /\ wr.loc.generation = n
      /\ id \in DOMAIN txns /\ txn = txns[id] /\ txn.start = wr.loc.index_length
      /\ txn.entry_len \in Nat \ {0} /\ wr.loc.index_length \in Nat /\ IndexOffset \in Nat
      /\ IndexLength = wr.loc.index_length + txn.entry_len
      /\ LocatorSound(txns, log, wr.loc, lost)
      /\ txn.off \in Nat /\ txn.chunk_len \in Nat /\ FrameEnd(txns, id) = txn.off + txn.chunk_len
      /\ FrameEnd(txns, id) <= IndexOffset
      /\ \A g \in DOMAIN log : FrameEnd(txns, log[g]) <= txn.off
  BY <1>1, CallFacts
<1>5. /\ SameSlot \in {0, 1} /\ OtherSlot \in {0, 1} /\ OtherSlot = 1 - SameSlot
      /\ OtherSlot # SameSlot /\ 1 - OtherSlot = SameSlot
  BY <1>4 DEF Locator, SameSlot, OtherSlot
<1> DEFINE new == [valid |-> TRUE, loc |-> NewLocator]
<1>6. new.valid /\ new.loc = NewLocator
  OBVIOUS
<1>7. /\ file'.body = file.body /\ file'.eof = file.eof
      /\ file'.slot = [file.slot EXCEPT ![OtherSlot] = new]
      /\ file.slot \in [{0, 1} -> Slot]
  BY <1>1, <1>2 DEF PutSlot, IsImage
<1> HIDE DEF new
<1>8. file'.slot[OtherSlot] = new /\ file'.slot[SameSlot] = file.slot[SameSlot]
  BY <1>5, <1>7
<1>9. Durable(file, disk, n, SameSlot)
  BY <1>1 DEF Safe, CallSlots
<1>10. /\ NewLocator.generation = n + 1 /\ NewLocator.index_offset = IndexOffset
       /\ NewLocator.index_length = IndexLength /\ NewLocator.index_mac = wr.mac
       /\ NewLocator.slot_index = OtherSlot
  BY <1>4 DEF NewLocator
<1>11. /\ log' \in Seq(DOMAIN txns) /\ Len(log') = n + 1 /\ log'[n + 1] = id
       /\ DOMAIN log = 1 .. n /\ DOMAIN log' = 1 .. n + 1
       /\ \A g \in 1 .. n : log'[g] = log[g]
  BY <1>1, <1>2, <1>4
<1>12. \A g \in 0 .. n : Upto(log', g) = Upto(log, g)
  BY <1>1, <1>2, <1>4, UptoAppend
<1>13. Upto(log', n + 1) = Upto(log, n) \cup {id}
  <2>1. Upto(log', n + 1) = Upto(log', n) \cup {log'[n + 1]}
    BY <1>2, UptoGrows
  <2>2. n \in 0 .. n
    BY <1>2
  <2> QED BY <1>11, <1>12, <2>1, <2>2
<1>14. Ahead(file', disk, n + 1, SameSlot)
  <2>1. n + 1 - 1 = n
    BY <1>2
  <2> QED BY <1>5, <1>6, <1>8, <1>9, <1>10, <2>1 DEF Durable, Ahead
<1>15. /\ ActiveLocator(file') = NewLocator
  <2>1. ActiveLocator(file') = file'.slot[1 - SameSlot].loc
    BY <1>2, <1>5, <1>14, ActiveOfAhead
  <2> QED BY <1>5, <1>6, <1>8, <2>1
<1>16. file.slot[SameSlot].loc = wr.loc
  BY <1>2, <1>4, <1>5, <1>9, ActiveOfDurable
<1>17. /\ \A o, m : Ciphertext(file', o, m) = Ciphertext(file, o, m)
       /\ \A loc : IndexOn(file', loc) = IndexOn(file, loc)
       /\ \A i : FramesOn(txns, file', i) <=> FramesOn(txns, file, i)
  BY <1>7, SameBody
<1>18. /\ wr.mac = Ciphertext(file, IndexOffset, IndexLength)
       /\ Sound(txns, wr.mac, Upto(log', n + 1), lost)
       /\ \A x \in Region(IndexOffset, IndexLength) : disk.body[x] = file.body[x]
  BY <1>1, <1>4, <1>13 DEF Safe, NewIndex, OnDisk
<1>19. EntryEnd(txns, id) = IndexLength
  BY <1>4 DEF EntryEnd
<1>20. \A g \in 1 .. n : EntryEnd(txns, log[g]) <= wr.loc.index_length
  BY <1>4 DEF LocatorSound
<1>21. \A g \in 1 .. n : /\ EntryEnd(txns, log[g]) \in Nat /\ FrameEnd(txns, log[g]) \in Nat
  <2>1. \A g \in 1 .. n : log[g] \in DOMAIN txns
    BY <1>2, <1>11
  <2> QED BY <1>2, <2>1, TxnFacts
<1> HIDE DEF n
<1>22. LogOrdered'
  <2> SUFFICES ASSUME NEW g \in 1 .. n + 1, NEW h \in 1 .. n + 1, g < h
               PROVE  EntryEnd(txns, log'[g]) <= txns[log'[h]].start
    BY <1>1, <1>11 DEF LogOrdered, Ordered
  <2>1. CASE h \in 1 .. n
    <3>1. g \in 1 .. n
      BY <1>2, <2>1
    <3> QED BY <1>11, <2>1, <3>1 DEF Safe, LogOrdered, Ordered
  <2>2. CASE h = n + 1
    <3>1. g \in 1 .. n
      BY <1>2, <2>2
    <3> QED BY <1>4, <1>11, <1>20, <2>2, <3>1
  <2> QED BY <1>2, <2>1, <2>2
<1>23. LocatorSound(txns, log', NewLocator, lost)
  <2>1. ASSUME NEW g \in 1 .. n + 1
        PROVE  EntryEnd(txns, log'[g]) <= IndexLength /\ FrameEnd(txns, log'[g]) <= IndexOffset
    <3>1. CASE g \in 1 .. n
      <4>1. /\ EntryEnd(txns, log[g]) <= wr.loc.index_length /\ FrameEnd(txns, log[g]) <= txn.off
            /\ EntryEnd(txns, log[g]) \in Nat /\ FrameEnd(txns, log[g]) \in Nat
        BY <1>4, <1>11, <1>20, <1>21, <3>1
      <4> QED BY <1>4, <1>11, <3>1, <4>1, SMTT(60)
    <3>2. CASE g = n + 1
      BY <1>4, <1>11, <1>19, <3>2
    <3> QED BY <1>2, <3>1, <3>2
  <2>2. Len(wr.mac) = IndexLength
    BY <1>4, <1>18 DEF Ciphertext
  <2> QED BY <1>10, <1>18, <2>1, <2>2 DEF LocatorSound
<1>24. SlotsSound'
  <2> SUFFICES ASSUME NEW f \in {file', disk}, NEW i \in ValidSlots(f)
               PROVE  f.slot[i].loc.slot_index = i
                      /\ LocatorSound(txns, log', f.slot[i].loc, lost)
    BY <1>1 DEF SlotsSound
  <2>1. ASSUME NEW e \in {file, disk}, i \in ValidSlots(e), e.slot[i] = f.slot[i]
        PROVE  f.slot[i].loc.slot_index = i
               /\ LocatorSound(txns, log', f.slot[i].loc, lost)
    <3>1. e.slot[i].loc.slot_index = i /\ LocatorSound(txns, log, e.slot[i].loc, lost)
      BY <1>2, <2>1 DEF SlotsSound
    <3>2. e.slot[i].loc.generation \in 0 .. Len(log)
      <4>1. e.slot[i].loc.generation \in Nat
        BY <1>2, <2>1, ValidSlotType
      <4>2. e.slot[i].loc.generation <= Len(log)
        BY <1>2, <2>1 DEF IndInv, GenerationsInLog
      <4> QED BY <1>2, <4>1, <4>2 DEF n
    <3> QED BY <1>1, <1>2, <1>4, <2>1, <3>1, <3>2, LocatorSoundAppend
  <2>2. CASE f = disk
    BY <2>1, <2>2
  <2>3. CASE f = file' /\ i = OtherSlot
    BY <1>6, <1>8, <1>10, <1>23, <2>3
  <2>4. CASE f = file' /\ i # OtherSlot
    <3>1. i = SameSlot
      BY <1>5, <2>4 DEF ValidSlots
    <3>2. f.slot[i] = file.slot[i] /\ i \in ValidSlots(file)
      BY <1>5, <1>8, <2>4, <3>1 DEF ValidSlots
    <3> QED BY <2>1, <3>2
  <2> QED BY <2>2, <2>3, <2>4
<1>25. SlotOrder'
  BY <1>1, <1>2, <1>5, <1>11, <1>14 DEF SlotOrder
<1>26. CallPlaced'
  BY <1>1, <1>3 DEF Safe, CallPlaced
<1>27. CallSlots'
  BY <1>1, <1>3, <1>6, <1>8, <1>11, <1>14, <1>16 DEF CallSlots
<1>28. CallIndex'
  <2>1. wr.index = Upto(log, wr.loc.generation) /\ wr.loc.generation \in 0 .. n
    BY <1>1, <1>2, <1>4 DEF Safe, CallIndex
  <2> QED BY <1>1, <1>12, <2>1 DEF CallIndex
<1>29. NewIndex'
  <2>1. Upto(log', wr.loc.generation) \cup {id} = Upto(log', n + 1)
    <3>1. n \in 0 .. n
      BY <1>2
    <3> QED BY <1>4, <1>12, <1>13, <3>1
  <2>2. pc' \notin Copied /\ pc' \notin Entered
    BY <1>1 DEF Copied, Entered
  <2>3. wr'.mac = Ciphertext(file', IndexOffset', IndexLength')
    BY <1>1, <1>3, <1>17, <1>18
  <2>4. Sound(txns', wr'.mac, Upto(log', wr'.loc.generation) \cup {id'}, lost')
    BY <1>1, <1>3, <1>18, <2>1
  <2>5. \A x \in Region(IndexOffset', IndexLength') : disk'.body[x] = file'.body[x]
    BY <1>1, <1>3, <1>7, <1>18
  <2> QED BY <2>2, <2>3, <2>4, <2>5 DEF NewIndex
<1>30. OwnFrames'
  BY <1>1 DEF OwnFrames, Framed
<1>31. SnapshotSound'
  <2> SUFFICES ASSUME NEW p \in DOMAIN committed
               PROVE  /\ committed[p].locator.generation <= Len(log')
                      /\ committed[p].index = Upto(log', committed[p].locator.generation)
    BY <1>1 DEF SnapshotSound, Upto
  <2>1. /\ committed[p].locator.generation <= n
        /\ committed[p].index = Upto(log, committed[p].locator.generation)
    BY DEF Safe, SnapshotSound, Upto, n
  <2>2. committed[p].locator.generation \in Nat
    BY <1>2 DEF IndInv, TypeOK, Snapshot, Locator
  <2>3. committed[p].locator.generation \in 0 .. n
    BY <1>2, <2>1, <2>2
  <2> QED BY <1>2, <1>11, <1>12, <2>1, <2>3
<1>32. IdleIndex'
  BY <1>1 DEF IdleIndex
<1>33. ActiveIndexKept'
  <2> SUFFICES ASSUME ~lost, NEW f \in {file', disk}
               PROVE  Exact(txns, Ciphertext(f, IndexOffset, IndexLength), Upto(log', n + 1))
    BY <1>1, <1>10, <1>15 DEF ActiveIndexKept, ActiveIndexOn, ActiveTxns, IndexOn
  <2>1. Exact(txns, wr.mac, Upto(log', n + 1))
    BY <1>18 DEF Sound
  <2>2. Ciphertext(disk, IndexOffset, IndexLength) = wr.mac
    <3>1. \A i \in 1 .. IndexLength : disk.body[IndexOffset + i - 1] = file.body[IndexOffset + i - 1]
      <4>1. \A i \in 1 .. IndexLength : IndexOffset + i - 1 \in Region(IndexOffset, IndexLength)
        BY <1>4 DEF Region
      <4> QED BY <1>18, <4>1
    <3>2. Ciphertext(disk, IndexOffset, IndexLength) = Ciphertext(file, IndexOffset, IndexLength)
      BY <3>1 DEF Ciphertext
    <3> QED BY <1>18, <3>2
  <2> QED BY <1>17, <1>18, <2>1, <2>2
<1>34. DurableIndexKept'
  <2>1. ActiveLocator(disk).generation \in 0 .. n
    BY <1>2, ActiveFacts DEF n
  <2>2. Upto(log', ActiveLocator(disk).generation) = Upto(log, ActiveLocator(disk).generation)
    BY <1>12, <2>1
  <2> QED BY <1>1, <1>17, <2>2 DEF Safe, DurableIndexKept, ActiveIndexOn, ActiveTxns
<1>35. CommittedChunksIntact'
  <2> SUFFICES ASSUME NEW g \in 1 .. n + 1
               PROVE  FramesOn(txns, file', log'[g]) /\ FramesOn(txns, disk, log'[g])
    BY <1>1, <1>11, ZenonT(60) DEF CommittedChunksIntact, FramesOn
  <2>1. CASE g \in 1 .. n
    BY <1>11, <1>17, <2>1, ChunksOnBoth DEF Safe
  <2>2. CASE g = n + 1
    BY <1>1, <1>11, <1>17, <2>2 DEF Safe, OwnFrames, Framed
  <2> QED BY <1>2, <2>1, <2>2
<1>36. FramesInBody' /\ StreamInPlace'
  BY <1>1 DEF Safe, FramesInBody, StreamInPlace
<1>37. NothingWasted'
  <2> SUFFICES ASSUME faults = 0, NEW i \in DOMAIN txns
               PROVE  \E g \in 1 .. n + 1 : log'[g] = i
    BY <1>1, <1>11 DEF NothingWasted
  <2>1. (\E g \in 1 .. n : log[g] = i) \/ i = id
    BY <1>11 DEF Safe, NothingWasted
  <2>2. n + 1 \in 1 .. n + 1 /\ \A g \in 1 .. n : g \in 1 .. n + 1
    BY <1>2
  <2> QED BY <1>11, <2>1, <2>2
<1> QED BY <1>22, <1>24, <1>25, <1>26, <1>27, <1>28, <1>29, <1>30, <1>31, <1>32, <1>33, <1>34,
           <1>35, <1>36, <1>37 DEF Safe

LEMMA SnapshotLists ==
  SnapshotSound <=> \A p \in DOMAIN committed :
                      /\ committed[p].locator.generation <= Len(log)
                      /\ committed[p].index = Upto(log, committed[p].locator.generation)
BY DEF SnapshotSound, Upto

LEMMA CommitSafe == ASSUME Safe, IndInv', Commit PROVE Safe'
<1> DEFINE s == [locator |-> NewLocator, index |-> wr.index \cup {id}]
<1>1. /\ pc = "sync_slot" /\ pc' = "free" /\ disk' = file /\ file' = file /\ exposed' = FALSE
      /\ txns' = txns /\ log' = log /\ lost' = lost /\ acked' = NewLocator.generation
      /\ faults' = faults /\ stream' = stream
      /\ committed' = [p \in DOMAIN committed \cup {lock} |-> IF p = lock THEN s ELSE committed[p]]
  BY DEF Commit, NewSnapshots
<1>2. /\ IndInv /\ Len(log) \in Nat /\ SlotsSound /\ SlotOrder
  BY Typed DEF Safe
<1>3. /\ ActiveLocator(file) = NewLocator
      /\ ActiveTxns(file) = wr.index \cup {id}
      /\ Sound(txns, ActiveIndexOn(file, file), ActiveTxns(file), lost)
  BY <1>1, PublishedSound
<1>4. ActiveLocator(file).generation = Len(log)
  BY <1>2, ActiveFacts
<1>5. s.locator = NewLocator /\ s.index = wr.index \cup {id}
  OBVIOUS
<1> HIDE DEF s
<1>6. \A p \in DOMAIN committed' : committed'[p] = s \/ (p \in DOMAIN committed /\ committed'[p] = committed[p])
  BY <1>1
<1>7. LogOrdered' /\ SlotsSound' /\ FramesInBody' /\ StreamInPlace'
  BY <1>1 DEF Safe, LogOrdered, SlotsSound, FramesInBody, StreamInPlace
<1>8. SlotOrder'
  <2>1. PICK c \in {0, 1} : Durable(file, file, Len(log), c)
    BY FileSlots
  <2> QED BY <1>1, <1>2, <1>3, <1>4, <2>1 DEF SlotOrder
<1>9. CallPlaced' /\ CallSlots' /\ CallIndex' /\ NewIndex' /\ OwnFrames'
  BY <1>1 DEF CallPlaced, CallSlots, CallIndex, NewIndex, OwnFrames, Copied, Entered, OnDisk, Framed
<1>10. SnapshotSound'
  <2>1. s.locator.generation <= Len(log) /\ s.index = Upto(log, s.locator.generation)
    <3>1. s.locator.generation = Len(log)
      BY <1>3, <1>4, <1>5
    <3>2. Len(log) <= Len(log)
      BY <1>2
    <3>3. Upto(log, Len(log)) = wr.index \cup {id}
      BY <1>3, <1>4 DEF ActiveTxns
    <3> QED BY <1>5, <3>1, <3>2, <3>3
  <2>2. ASSUME NEW p \in DOMAIN committed'
        PROVE  /\ committed'[p].locator.generation <= Len(log)
               /\ committed'[p].index = Upto(log, committed'[p].locator.generation)
    <3>1. CASE committed'[p] = s
      BY <2>1, <3>1
    <3>2. CASE p \in DOMAIN committed /\ committed'[p] = committed[p]
      BY <3>2, SnapshotLists DEF Safe
    <3> QED BY <1>6, <3>1, <3>2
  <2>3. \A p \in DOMAIN committed' :
          /\ committed'[p].locator.generation <= Len(log')
          /\ committed'[p].index = Upto(log', committed'[p].locator.generation)
    BY <1>1, <2>2
  <2> QED BY <2>3 DEF SnapshotSound, Upto
<1>11. IdleIndex'
  BY <1>1, <1>3 DEF IdleIndex, ActiveIndexOn, ActiveTxns
<1>12. ActiveIndexKept' /\ DurableIndexKept'
  BY <1>1, <1>3 DEF ActiveIndexKept, DurableIndexKept, ActiveIndexOn, ActiveTxns, Sound
<1>13. CommittedChunksIntact'
  BY <1>1 DEF Safe, CommittedChunksIntact
<1>14. NothingWasted'
  BY <1>1 DEF Safe, NothingWasted
<1> QED BY <1>7, <1>8, <1>9, <1>10, <1>11, <1>12, <1>13, <1>14 DEF Safe

LEMMA CrashSafe == ASSUME Safe, IndInv', HostCrash PROVE Safe'
<1> DEFINE loc == ActiveLocator(file')
           n == loc.generation
<1>1. /\ faults' = faults + 1 /\ file' \in CrashImages /\ disk' = file' /\ pc' = "free"
      /\ committed' = [p \in {} |-> {}] /\ log' = SubSeq(log, 1, n)
      /\ exposed' = FALSE /\ lost' = (lost \/ exposed \/ Overwriting)
      /\ txns' = txns /\ acked' = acked /\ stream' = stream
  BY DEF HostCrash
<1>2. /\ IndInv /\ LogOrdered /\ SlotsSound /\ SlotOrder /\ ActiveIndexKept /\ DurableIndexKept
      /\ IsImage(file) /\ IsImage(disk) /\ Len(log) \in Nat /\ disk.eof \in Nat
      /\ txns \in Seq(Txn) /\ log \in Seq(DOMAIN txns)
  BY Typed DEF Safe
<1>3. /\ IsImage(file') /\ disk.eof <= file'.eof /\ file'.eof \in Nat
      /\ \A x \in FRONT_MATTER_LEN .. disk.eof - 1 : file'.body[x] \in {file.body[x], disk.body[x]}
      /\ \A i \in {0, 1} : \/ file'.slot[i] \in {file.slot[i], disk.slot[i]}
                           \/ file.slot[i] # disk.slot[i] /\ file'.slot[i] = BrokenSlot
  BY <1>1, <1>2, CrashCells
<1>4. PICK e \in {file, disk} : \E c \in {0, 1} :
        ActiveLocator(file') = ActiveLocator(e) /\ Durable(file', file', ActiveLocator(e).generation, c)
  BY <1>1, <1>2, CrashSlots
<1>5. PICK c \in {0, 1} : loc = ActiveLocator(e) /\ Durable(file', file', n, c)
  BY <1>4
<1>6. n \in 0 .. Len(log)
  BY <1>2, <1>5, ActiveFacts
<1>7. acked <= n
  <2>1. acked <= ActiveLocator(disk).generation
    BY <1>2 DEF SlotOrder
  <2>2. ActiveLocator(file).generation = Len(log) /\ ActiveLocator(disk).generation \in 0 .. Len(log)
    BY <1>2, ActiveFacts
  <2>3. acked \in Nat
    BY <1>2 DEF IndInv, TypeOK
  <2> QED BY <1>2, <1>5, <2>1, <2>2, <2>3
<1>8. loc = ActiveLocator(file') /\ n = ActiveLocator(file').generation
  OBVIOUS
<1>9. (~lost /\ ~exposed /\ ~Overwriting)
        => Exact(txns, IndexOn(file', loc), Upto(log, n))
  BY <1>1, <1>2, CrashIndex
<1> HIDE DEF loc, n
<1>10. /\ Len(log') = n /\ DOMAIN log' = 1 .. n
       /\ \A h \in 1 .. n : log'[h] = log[h] /\ h \in DOMAIN log
  BY <1>1, <1>2, <1>6
<1>11. \A k \in 0 .. n : Upto(log', k) = Upto(log, k)
  <2> SUFFICES ASSUME NEW k \in 0 .. n PROVE Upto(log', k) = Upto(log, k)
    OBVIOUS
  <2>1. \A h \in 1 .. k : log'[h] = log[h]
    BY <1>6, <1>10
  <2> QED BY <2>1 DEF Upto
<1>12. n \in Nat /\ n \in 0 .. n
  BY <1>6
<1>13. LogOrdered'
  <2>1. Ordered(txns, log)
    BY <1>2 DEF LogOrdered
  <2>2. ASSUME NEW g \in 1 .. n, NEW h \in 1 .. n, g < h
        PROVE  EntryEnd(txns, log'[g]) <= txns[log'[h]].start
    <3>1. EntryEnd(txns, log[g]) <= txns[log[h]].start
      BY <1>10, <2>1, <2>2 DEF Ordered
    <3> QED BY <1>10, <3>1
  <2>3. Ordered(txns, log')
    BY <1>10, <2>2 DEF Ordered
  <2> QED BY <1>1, <2>3 DEF LogOrdered
<1>14. SlotsSound'
  <2> SUFFICES ASSUME NEW i \in ValidSlots(file')
               PROVE  file'.slot[i].loc.slot_index = i
                      /\ LocatorSound(txns, log', file'.slot[i].loc, lost')
    BY <1>1 DEF SlotsSound
  <2> DEFINE old == file'.slot[i].loc
  <2>1. i \in {0, 1} /\ file'.slot[i].valid /\ ~BrokenSlot.valid
    BY DEF ValidSlots, BrokenSlot
  <2>2. PICK f \in {file, disk} : f.slot[i] = file'.slot[i]
    BY <1>3, <2>1
  <2>3. i \in ValidSlots(f)
    BY <2>1, <2>2 DEF ValidSlots
  <2>4. old.slot_index = i /\ LocatorSound(txns, log, old, lost)
    BY <1>2, <2>2, <2>3 DEF SlotsSound
  <2>5. old.generation \in 0 .. n
    <3>1. old.generation \in Nat
      BY <1>3, ValidSlotType
    <3>2. i = c \/ i = 1 - c
      BY <2>1
    <3>3. old.generation <= n
      BY <1>5, <1>12, <2>1, <3>1, <3>2 DEF Durable, Older
    <3> QED BY <1>12, <3>1, <3>3
  <2> HIDE DEF old
  <2>6. LocatorSound(txns, log', old, lost)
    <3>1. \A g \in 1 .. old.generation : g \in 1 .. n
      BY <1>12, <2>5
    <3>2. \A g \in 1 .. old.generation : /\ EntryEnd(txns, log'[g]) <= old.index_length
                                         /\ FrameEnd(txns, log'[g]) <= old.index_offset
      BY <1>10, <2>4, <3>1 DEF LocatorSound
    <3>3. Sound(txns, old.index_mac, Upto(log', old.generation), lost)
      BY <1>11, <2>4, <2>5 DEF LocatorSound
    <3> QED BY <2>4, <3>2, <3>3 DEF LocatorSound
  <2>7. lost => lost'
    BY <1>1
  <2>8. LocatorSound(txns, log', old, lost')
    BY <2>6, <2>7, LocatorSoundWeaker
  <2> QED BY <2>4, <2>8 DEF old
<1>15. SlotOrder'
  BY <1>1, <1>5, <1>7, <1>8, <1>10 DEF SlotOrder
<1>16. CallPlaced' /\ CallSlots' /\ CallIndex' /\ NewIndex' /\ OwnFrames'
  BY <1>1 DEF CallPlaced, CallSlots, CallIndex, NewIndex, OwnFrames, Copied, Entered, OnDisk, Framed
<1>17. SnapshotSound' /\ IdleIndex'
  BY <1>1 DEF SnapshotSound, IdleIndex
<1>18. ActiveIndexKept' /\ DurableIndexKept'
  <2>1. ~lost' => Exact(txns, IndexOn(file', loc), Upto(log', n))
    BY <1>1, <1>9, <1>11, <1>12
  <2>2. ~lost' => Exact(txns', ActiveIndexOn(file', file'), Upto(log', ActiveLocator(file').generation))
    BY <1>1, <1>8, <2>1 DEF ActiveIndexOn
  <2> QED BY <1>1, <2>2 DEF ActiveIndexKept, DurableIndexKept, ActiveTxns, ActiveIndexOn
<1>19. CommittedChunksIntact'
  <2> SUFFICES ASSUME NEW g \in 1 .. n PROVE FramesOn(txns, file', log'[g])
    BY <1>1, <1>10 DEF CommittedChunksIntact, FramesOn
  <2>1. PICK i \in DOMAIN txns : i = log[g] /\ i = log'[g]
    BY <1>2, <1>10
  <2>2. FramesOn(txns, file, i) /\ FramesOn(txns, disk, i)
    BY <1>10, <2>1, ChunksOnBoth DEF Safe
  <2>3. FRONT_MATTER_LEN <= txns[i].off /\ txns[i].off \in Nat /\ txns[i].chunk_len \in Nat
    BY <1>2, TxnFacts DEF Safe, FramesInBody
  <2>4. ASSUME NEW x \in Region(txns[i].off, txns[i].chunk_len)
        PROVE  x < file'.eof /\ file'.body[x] = <<"chunk", i, x - txns[i].off + 1>>
    <3>1. /\ x < disk.eof /\ disk.body[x] = <<"chunk", i, x - txns[i].off + 1>>
          /\ file.body[x] = <<"chunk", i, x - txns[i].off + 1>>
      BY <2>2 DEF FramesOn
    <3>2. x \in Int /\ FRONT_MATTER_LEN <= x
      BY <2>3, LayoutAssumption DEF Region
    <3>3. x \in FRONT_MATTER_LEN .. disk.eof - 1
      BY <1>2, <3>1, <3>2, LayoutAssumption
    <3>4. file'.body[x] = <<"chunk", i, x - txns[i].off + 1>>
      BY <1>3, <3>1, <3>3
    <3>5. x < file'.eof
      BY <1>2, <1>3, <3>1, <3>2
    <3> QED BY <3>4, <3>5
  <2> QED BY <2>1, <2>4 DEF FramesOn
<1>20. FramesInBody' /\ StreamInPlace'
  BY <1>1 DEF Safe, FramesInBody, StreamInPlace
<1>21. NothingWasted'
  <2>1. faults \in Nat
    BY <1>2 DEF IndInv, TypeOK
  <2> QED BY <1>1, <2>1 DEF NothingWasted
<1> QED BY <1>13, <1>14, <1>15, <1>16, <1>17, <1>18, <1>19, <1>20, <1>21 DEF Safe

-----------------------------------------------------------------------------
(* A call begins. *)

\* New transactions change nothing about those the log lists.
LEMMA MoreTxns ==
  ASSUME NEW t \in Seq(Txn), NEW l \in Seq(DOMAIN t), NEW u \in Seq(Txn),
         \A i \in DOMAIN t : u[i] = t[i]
  PROVE  /\ \A i \in DOMAIN t : /\ Entries(u, i) = Entries(t, i)
                                /\ EntryEnd(u, i) = EntryEnd(t, i)
                                /\ FrameEnd(u, i) = FrameEnd(t, i)
                                /\ \A f : FramesOn(u, f, i) <=> FramesOn(t, f, i)
         /\ Ordered(t, l) => Ordered(u, l)
         /\ \A g \in 0 .. Len(l) : \A s : Exact(t, s, Upto(l, g)) => Exact(u, s, Upto(l, g))
         /\ \A loc, damaged : (loc.generation \in 0 .. Len(l) /\ LocatorSound(t, l, loc, damaged))
                                => LocatorSound(u, l, loc, damaged)
<1>1. \A i \in DOMAIN t : /\ Entries(u, i) = Entries(t, i)
                          /\ EntryEnd(u, i) = EntryEnd(t, i)
                          /\ FrameEnd(u, i) = FrameEnd(t, i)
                          /\ \A f : FramesOn(u, f, i) <=> FramesOn(t, f, i)
  BY DEF Entries, EntryEnd, FrameEnd, FramesOn
<1>2. \A g \in DOMAIN l : l[g] \in DOMAIN t
  OBVIOUS
<1>3. Ordered(t, l) => Ordered(u, l)
  BY <1>1, <1>2 DEF Ordered
<1>4. ASSUME NEW g \in 0 .. Len(l), NEW s, Exact(t, s, Upto(l, g))
      PROVE  Exact(u, s, Upto(l, g))
  <2>1. \A k \in Upto(l, g) : k \in DOMAIN t
    BY <1>2 DEF Upto
  <2>2. \A k \in Upto(l, g) : Entries(u, k) = Entries(t, k)
    BY <1>1, <2>1
  <2> QED BY <1>4, <2>2 DEF Exact
<1>5. ASSUME NEW loc, NEW damaged, loc.generation \in 0 .. Len(l), LocatorSound(t, l, loc, damaged)
      PROVE  LocatorSound(u, l, loc, damaged)
  <2>1. \A g \in 1 .. loc.generation : l[g] \in DOMAIN t
    BY <1>5
  <2>2. Sound(u, loc.index_mac, Upto(l, loc.generation), damaged)
    BY <1>4, <1>5 DEF LocatorSound, Sound
  <2> QED BY <1>1, <1>5, <2>1, <2>2 DEF LocatorSound
<1> QED BY <1>1, <1>3, <1>4, <1>5

\* The index a call begins with is the one of the active locator, and it is
\* on file: a snapshot vouches for it, or it has just been verified.
LEMMA LoadedSound ==
  ASSUME Safe, pc = "free", NEW p,
         SnapshotMatches(p, ActiveLocator(file)) \/ Verifies(file, ActiveLocator(file))
  PROVE  /\ LoadedIndex(p, ActiveLocator(file)) = ActiveTxns(file)
         /\ Sound(txns, ActiveIndexOn(file, file), ActiveTxns(file), lost)
<1> DEFINE loc == ActiveLocator(file)
<1>1. IndInv /\ LogOrdered /\ SlotsSound /\ SlotOrder /\ SnapshotSound /\ IdleIndex
  BY DEF Safe
<1>2. /\ loc \in Locator /\ loc.generation \in 0 .. Len(log) /\ loc.index_length \in Nat
      /\ loc.index_offset \in Nat /\ LocatorSound(txns, log, loc, lost)
  BY <1>1, ActiveFacts
<1>3. loc = ActiveLocator(file)
  OBVIOUS
<1> HIDE DEF loc
<1>4. CASE SnapshotMatches(p, loc)
  <2>1. p \in DOMAIN committed /\ committed[p].locator = loc /\ LoadedIndex(p, loc) = committed[p].index
    BY <1>4 DEF SnapshotMatches, LoadedIndex
  <2>2. committed[p].index = Upto(log, loc.generation)
    BY <1>1, <2>1, SnapshotLists
  <2>3. Sound(txns, ActiveIndexOn(file, file), ActiveTxns(file), lost)
    BY <1>1, <1>3, <2>1 DEF IdleIndex
  <2> QED BY <1>3, <2>1, <2>2, <2>3 DEF ActiveTxns
<1>5. CASE ~SnapshotMatches(p, loc)
  <2> DEFINE mac == loc.index_mac
             m == loc.index_length
             ids == Upto(log, loc.generation)
  <2>1. LoadedIndex(p, loc) = Decode(mac)
    BY <1>5 DEF LoadedIndex
  <2>2. Parses(mac) /\ IndexOn(file, loc) = mac
    BY <1>3, <1>5 DEF Verifies, MacOk, IndexOn
  <2>3. /\ \A g \in 1 .. loc.generation : EntryEnd(txns, log[g]) <= m
        /\ Len(mac) = m /\ Sound(txns, mac, ids, lost)
    BY <1>2 DEF LocatorSound
  <2>4. mac \in Seq(Cell) /\ m \in Nat
    BY <1>2 DEF Locator
  <2> HIDE DEF mac, m
  <2>5. DOMAIN mac = 1 .. m
    BY <2>3, <2>4
  <2>6. ~Holed(mac)
    BY <2>2, <2>3, <2>4, <2>5, HoledFails
  <2> HIDE DEF ids
  <2>7. Exact(txns, mac, ids)
    BY <2>3, <2>6 DEF Sound
  <2>8. Decode(mac) = ids
    BY <1>1, <1>2, <2>3, <2>4, <2>5, <2>7, ExactParses, Typed DEF ids
  <2>9. Sound(txns, ActiveIndexOn(file, file), ids, lost)
    BY <1>3, <2>2, <2>3 DEF ActiveIndexOn
  <2> QED BY <1>3, <2>1, <2>8, <2>9 DEF ActiveTxns, ids
<1> QED BY <1>3, <1>4, <1>5

LEMMA TailWithin ==
  ASSUME NEW ends, ends \subseteq Nat, NEW b \in Nat, FRONT_MATTER_LEN <= b, \A e \in ends : e <= b
  PROVE  /\ DataTail(ends) \in FRONT_MATTER_LEN .. b
         /\ \A e \in ends : e <= DataTail(ends)
<1> DEFINE S == ends \cup {FRONT_MATTER_LEN}
<1>1. S \subseteq Nat /\ S # {} /\ \A x \in S : x <= b
  BY LayoutAssumption
<1>2. Max(S) \in S
  <2> HIDE DEF S
  <2> QED BY <1>1, MaxExists
<1>3. DataTail(ends) \in S
  BY <1>2 DEF DataTail
<1>4. /\ DataTail(ends) \in Nat /\ FRONT_MATTER_LEN <= DataTail(ends)
      /\ \A e \in ends : e <= DataTail(ends)
  BY DataTailIsBound
<1>5. DataTail(ends) <= b
  BY <1>1, <1>3
<1> QED BY <1>4, <1>5, LayoutAssumption
\* The data tail: past all committed frames, before the index.
LEMMA TailPlaced ==
  ASSUME Safe
  PROVE  LET tail == DataTail({ChunkEnd(i) : i \in ActiveTxns(file)})
         IN  /\ tail \in Nat /\ FRONT_MATTER_LEN <= tail /\ tail <= ActiveLocator(file).index_offset
             /\ \A g \in DOMAIN log : FrameEnd(txns, log[g]) <= tail
<1> DEFINE loc == ActiveLocator(file)
           ends == {ChunkEnd(i) : i \in ActiveTxns(file)}
<1>1. IndInv /\ SlotsSound /\ SlotOrder
  BY DEF Safe
<1>2. /\ loc.generation = Len(log) /\ loc.index_offset \in Nat /\ FRONT_MATTER_LEN <= loc.index_offset
      /\ LocatorSound(txns, log, loc, lost)
  BY <1>1, ActiveFacts
<1>3. txns \in Seq(Txn) /\ log \in Seq(DOMAIN txns) /\ Len(log) \in Nat
  BY <1>1, Typed
<1>4. \A g \in DOMAIN log : /\ log[g] \in DOMAIN txns /\ FrameEnd(txns, log[g]) \in Nat
                            /\ FrameEnd(txns, log[g]) <= loc.index_offset
  <2>1. \A g \in DOMAIN log : g \in 1 .. loc.generation /\ log[g] \in DOMAIN txns
    BY <1>2, <1>3
  <2> QED BY <1>2, <1>3, <2>1, TxnFacts DEF LocatorSound
<1>5. ends = {FrameEnd(txns, log[g]) : g \in DOMAIN log}
  <2>1. DOMAIN log = 1 .. Len(log)
    BY <1>3
  <2>2. \A i : ChunkEnd(i) = FrameEnd(txns, i)
    BY DEF ChunkEnd, FrameEnd
  <2>3. ActiveTxns(file) = {log[g] : g \in DOMAIN log}
    BY <1>2, <2>1 DEF ActiveTxns, Upto
  <2> QED BY <2>2, <2>3
<1> HIDE DEF loc, ends
<1>6. ends \subseteq Nat /\ \A e \in ends : e <= loc.index_offset
  BY <1>4, <1>5
<1>7. /\ DataTail(ends) \in FRONT_MATTER_LEN .. loc.index_offset
      /\ \A e \in ends : e <= DataTail(ends)
  BY <1>2, <1>6, TailWithin
<1>8. \A g \in DOMAIN log : FrameEnd(txns, log[g]) <= DataTail(ends)
  BY <1>5, <1>7
<1> QED BY <1>2, <1>7, <1>8, LayoutAssumption DEF ends, loc

LEMMA BeginSafe ==
  ASSUME Safe, IndInv', NEW p \in Procs, NEW plan \in Plans, Begin(p, plan)
  PROVE  Safe'
<1> DEFINE loc == ActiveLocator(file)
           index == LoadedIndex(p, loc)
           tail == DataTail({ChunkEnd(i) : i \in index})
           move == NeedsRelocate(plan, loc, tail, file.eof)
           t == [off |-> tail, chunk_len |-> plan.chunk_len,
                 start |-> loc.index_length, entry_len |-> plan.entry_len]
           w == [loc |-> loc, index |-> index, relocate |-> move, mac |-> <<>>]
           n == Len(txns)
<1>1. /\ lock = NoProc /\ (SnapshotMatches(p, loc) \/ Verifies(file, loc))
      /\ txns' = Append(txns, t) /\ wr' = w
      /\ pc' = IF move THEN "grow" ELSE "append"
      /\ file' = file /\ disk' = disk /\ committed' = committed /\ faults' = faults /\ log' = log
      /\ acked' = acked /\ stream' = stream /\ exposed' = exposed /\ lost' = lost
  BY DEF Begin, procVars, history
<1>2. /\ IndInv /\ SlotsSound /\ SlotOrder /\ LogOrdered /\ pc = "free"
      /\ txns \in Seq(Txn) /\ txns' \in Seq(Txn) /\ log \in Seq(DOMAIN txns) /\ Len(log) \in Nat
  BY <1>1, Typed DEF Safe, IndInv, TypeOK
<1>3. plan.chunk_len \in Nat /\ plan.entry_len \in Nat \ {0}
  BY WriterAssumption DEF Plan
<1>4. /\ index = ActiveTxns(file)
      /\ Sound(txns, ActiveIndexOn(file, file), ActiveTxns(file), lost)
  BY <1>1, <1>2, LoadedSound
<1>5. /\ tail \in Nat /\ FRONT_MATTER_LEN <= tail /\ tail <= loc.index_offset
      /\ \A g \in DOMAIN log : FrameEnd(txns, log[g]) <= tail
  <2> HIDE DEF index
  <2> QED BY <1>4, TailPlaced
<1>6. /\ loc.generation = Len(log) /\ loc.index_offset \in Nat
      /\ ActiveLocator(disk).generation \in 0 .. Len(log)
  BY <1>2, ActiveFacts
<1>7. ~move => tail + plan.chunk_len <= loc.index_offset
  <2> HIDE DEF loc, tail
  <2>1. ~move => ~(plan.chunk_len > loc.index_offset - tail)
    BY <1>5, <1>6 DEF NeedsRelocate, LeadingGap
  <2> QED BY <1>3, <1>5, <1>6, <2>1
<1>8. /\ w.loc = loc /\ w.index = index /\ w.relocate = move
      /\ t.off = tail /\ t.chunk_len = plan.chunk_len
  OBVIOUS
<1>9. index = Upto(log, loc.generation)
  BY <1>4 DEF ActiveTxns
<1>10. move \in BOOLEAN
  BY DEF NeedsRelocate
<1>11. loc = ActiveLocator(file)
  OBVIOUS
<1> HIDE DEF loc, index, tail, move, t, w
<1>12. /\ Len(txns') = n + 1 /\ id' = n + 1 /\ txn' = t /\ txns'[n + 1] = t /\ n \in Nat
       /\ DOMAIN txns' = 1 .. n + 1 /\ DOMAIN txns = 1 .. n
       /\ \A i \in DOMAIN txns : txns'[i] = txns[i]
  <2>1. /\ Len(txns') = n + 1 /\ txns'[n + 1] = t /\ n \in Nat
        /\ DOMAIN txns' = 1 .. n + 1 /\ DOMAIN txns = 1 .. n
        /\ \A i \in DOMAIN txns : txns'[i] = txns[i]
    BY <1>1, <1>2
  <2> QED BY <2>1 DEF id, txn
<1> HIDE DEF n
<1>13. /\ \A i \in DOMAIN txns : /\ Entries(txns', i) = Entries(txns, i)
                                 /\ FrameEnd(txns', i) = FrameEnd(txns, i)
                                 /\ \A f : FramesOn(txns', f, i) <=> FramesOn(txns, f, i)
       /\ Ordered(txns, log) => Ordered(txns', log)
       /\ \A g \in 0 .. Len(log) : \A s : Exact(txns, s, Upto(log, g)) => Exact(txns', s, Upto(log, g))
       /\ \A l, damaged : (l.generation \in 0 .. Len(log) /\ LocatorSound(txns, log, l, damaged))
                                => LocatorSound(txns', log, l, damaged)
  BY <1>2, <1>12, MoreTxns
<1>14. \A g \in DOMAIN log : log[g] \in DOMAIN txns
  BY <1>2
<1>15. pc' \in {"grow", "append"}
  BY <1>1
<1>16. LogOrdered'
  BY <1>1, <1>2, <1>13 DEF LogOrdered
<1>17. SlotsSound'
  <2> SUFFICES ASSUME NEW f \in {file, disk}, NEW i \in ValidSlots(f)
               PROVE  f.slot[i].loc.slot_index = i
                      /\ LocatorSound(txns', log, f.slot[i].loc, lost)
    BY <1>1 DEF SlotsSound
  <2>1. f.slot[i].loc.slot_index = i /\ LocatorSound(txns, log, f.slot[i].loc, lost)
    BY <1>2 DEF SlotsSound
  <2>2. f.slot[i].loc.generation \in 0 .. Len(log)
    <3>1. f.slot[i].loc.generation \in Nat
      BY <1>2, ValidSlotType, Typed
    <3>2. f.slot[i].loc.generation <= Len(log)
      BY <1>2 DEF IndInv, GenerationsInLog
    <3> QED BY <1>2, <3>1, <3>2
  <2> QED BY <1>13, <2>1, <2>2
<1>18. SlotOrder'
  BY <1>1, <1>2 DEF SlotOrder
<1>19. CallPlaced'
  <2>1. \A g \in DOMAIN log : FrameEnd(txns', log[g]) <= tail
    BY <1>5, <1>13, <1>14
  <2>2. FrameEnd(txns', id') = tail + plan.chunk_len
    BY <1>8, <1>12 DEF FrameEnd
  <2>3. txn'.off = tail /\ wr'.loc = loc /\ wr'.relocate = move
    BY <1>1, <1>8, <1>12
  <2> QED BY <1>1, <1>5, <1>7, <2>1, <2>2, <2>3 DEF CallPlaced
<1>20. CallSlots'
  BY <1>1, <1>8, <1>11, <1>15 DEF CallSlots
<1>21. loc.generation \in 0 .. Len(log)
  BY <1>2, <1>6
<1>22. CallIndex'
  <2>1. Sound(txns, IndexOn(file, loc), Upto(log, loc.generation), lost)
    BY <1>4, <1>11 DEF ActiveIndexOn, ActiveTxns
  <2>2. Sound(txns', IndexOn(file, loc), Upto(log, loc.generation), lost)
    BY <1>13, <1>21, <2>1 DEF Sound
  <2>3. Sound(txns', IndexOn(file, loc), Upto(log, loc.generation), lost \/ Overwriting')
    BY <2>2 DEF Sound
  <2>4. wr'.loc = loc /\ wr'.index = Upto(log, loc.generation)
    BY <1>1, <1>8, <1>9
  <2> QED BY <1>1, <2>3, <2>4 DEF CallIndex
<1>23. NewIndex' /\ OwnFrames'
  BY <1>15 DEF NewIndex, OwnFrames, Copied, Entered, OnDisk, Framed
<1>24. SnapshotSound'
  BY <1>1 DEF Safe, SnapshotSound
<1>25. IdleIndex'
  BY <1>15 DEF IdleIndex
<1>26. ActiveIndexKept'
  <2> SUFFICES ASSUME ~lost, NEW f \in {file, disk}
               PROVE  Exact(txns', ActiveIndexOn(f, file), Upto(log, ActiveLocator(file).generation))
    BY <1>1 DEF ActiveIndexKept, ActiveTxns
  <2>1. ~Overwriting
    BY <1>2 DEF Overwriting
  <2>2. Exact(txns, ActiveIndexOn(f, file), Upto(log, ActiveLocator(file).generation))
    BY <2>1 DEF Safe, ActiveIndexKept, ActiveTxns
  <2> QED BY <1>11, <1>13, <1>21, <2>2
<1>27. DurableIndexKept'
  <2> SUFFICES ASSUME ~lost, ~exposed, NEW f \in {file, disk}
               PROVE  Exact(txns', ActiveIndexOn(f, disk), Upto(log, ActiveLocator(disk).generation))
    BY <1>1 DEF DurableIndexKept, ActiveTxns
  <2>1. Exact(txns, ActiveIndexOn(f, disk), Upto(log, ActiveLocator(disk).generation))
    BY DEF Safe, DurableIndexKept, ActiveTxns
  <2> QED BY <1>6, <1>13, <2>1
<1>28. CommittedChunksIntact'
  <2>1. \A g \in DOMAIN log : FramesOn(txns', file, log[g]) /\ FramesOn(txns', disk, log[g])
    BY <1>13, <1>14, ChunksOnBoth DEF Safe
  <2> QED BY <1>1, <2>1, ZenonT(60) DEF CommittedChunksIntact, FramesOn
<1>29. FramesInBody'
  <2>1. \A i \in DOMAIN txns' : i \in DOMAIN txns \/ i = n + 1
    BY <1>12
  <2>2. \A i \in DOMAIN txns : FRONT_MATTER_LEN <= txns'[i].off
    BY <1>12 DEF Safe, FramesInBody
  <2>3. FRONT_MATTER_LEN <= txns'[n + 1].off
    BY <1>5, <1>8, <1>12
  <2> QED BY <2>1, <2>2, <2>3 DEF FramesInBody
<1>30. NothingWasted'
  <2> SUFFICES ASSUME faults = 0, NEW i \in DOMAIN txns'
               PROVE  (\E g \in DOMAIN log : log[g] = i) \/ i = id'
    BY <1>1, <1>15 DEF NothingWasted
  <2>1. CASE i \in DOMAIN txns
    BY <1>2, <2>1 DEF Safe, NothingWasted
  <2>2. CASE i \notin DOMAIN txns
    BY <1>12, <2>2
  <2> QED BY <2>1, <2>2
<1>31. StreamInPlace'
  <2> SUFFICES ASSUME NEW a \in stream PROVE a[1] \in Entries(txns', a[2])
    BY <1>1 DEF StreamInPlace
  <2>1. a[2] \in DOMAIN txns
    BY <1>2 DEF IndInv, TypeOK
  <2> QED BY <1>13, <2>1 DEF Safe, StreamInPlace
<1> QED BY <1>16, <1>17, <1>18, <1>19, <1>20, <1>22, <1>23, <1>24, <1>25, <1>26, <1>27, <1>28,
           <1>29, <1>30, <1>31 DEF Safe

-----------------------------------------------------------------------------
(* The invariant. *)

LEMMA InitSafe == Init => Safe
<1> SUFFICES ASSUME Init PROVE Safe
  OBVIOUS
<1> DEFINE eof == FRONT_MATTER_LEN + initial_leading_gap + initial_trailing_gap
           first == [NoLocator EXCEPT
                       !.index_offset = FRONT_MATTER_LEN + initial_leading_gap]
           slots == [i \in {0, 1} |-> IF i = 0 THEN [valid |-> TRUE, loc |-> first]
                                      ELSE BrokenSlot]
           body == [x \in FRONT_MATTER_LEN .. eof - 1 |-> Junk]
<1>1. /\ file = [slot |-> slots, eof |-> eof, body |-> body] /\ disk = file
      /\ committed = [p \in {} |-> {}] /\ pc = "free" /\ txns = <<>> /\ log = <<>>
      /\ acked = 0 /\ stream = {} /\ faults = 0
  BY DEF Init
<1>2. /\ first.generation = 0 /\ first.index_length = 0 /\ first.index_mac = <<>>
      /\ first.slot_index = 0
  BY DEF NoLocator
<1>3. /\ file.slot = slots
  BY <1>1
<1> HIDE DEF first
<1>4. slots[0].valid /\ slots[0].loc = first /\ ~slots[1].valid
  BY DEF BrokenSlot
<1> HIDE DEF slots, body, eof
<1>5. IndInv
  BY InitIndInv
<1>6. ActiveLocator(file) = first /\ ActiveLocator(disk) = first
  BY <1>1, <1>3, <1>4 DEF ActiveLocator
<1>7. DOMAIN log = {} /\ DOMAIN txns = {} /\ Len(log) = 0
  BY <1>1
<1>8. LogOrdered /\ CallPlaced /\ CallSlots /\ CallIndex /\ NewIndex /\ OwnFrames
  BY <1>1, <1>7 DEF LogOrdered, Ordered, CallPlaced, CallSlots, CallIndex, NewIndex, OwnFrames,
                    Copied, Entered, OnDisk, Framed
<1>9. SnapshotSound /\ IdleIndex /\ CommittedChunksIntact /\ FramesInBody /\ NothingWasted
      /\ StreamInPlace
  BY <1>1, <1>7 DEF SnapshotSound, IdleIndex, CommittedChunksIntact, FramesInBody, NothingWasted,
                    StreamInPlace
<1>10. SlotsSound
  <2>1. \A f \in {file, disk} : \A i \in ValidSlots(f) : i = 0 /\ f.slot[i].loc = first
    BY <1>1, <1>3, <1>4 DEF ValidSlots
  <2>2. LocatorSound(txns, log, first, lost)
    BY <1>2 DEF LocatorSound, Sound, Exact
  <2> QED BY <1>2, <2>1, <2>2 DEF SlotsSound
<1>11. SlotOrder
  <2>1. Durable(file, disk, 0, 0)
    BY <1>1, <1>2, <1>3, <1>4 DEF Durable, Older
  <2> QED BY <1>1, <1>2, <1>6, <1>7, <2>1 DEF SlotOrder
<1>12. ActiveIndexKept /\ DurableIndexKept
  <2>1. \A f, t, ids : Exact(t, IndexOn(f, first), ids)
    BY <1>2 DEF Exact, IndexOn, Ciphertext
  <2> QED BY <1>6, <2>1 DEF ActiveIndexKept, DurableIndexKept, ActiveIndexOn
<1> QED BY <1>5, <1>8, <1>9, <1>10, <1>11, <1>12 DEF Safe

LEMMA NextSafe == Safe /\ [Next]_vars => Safe'
<1> SUFFICES ASSUME Safe, [Next]_vars PROVE Safe'
  OBVIOUS
<1>1. IndInv'
  BY NextIndInv DEF Safe
<1>2. ASSUME NEW p \in Procs, Open(p) PROVE Safe'
  BY <1>1, <1>2, QuietSafe DEF Open, history
<1>3. ASSUME NEW p \in Procs, Close(p) PROVE Safe'
  <2>1. \A q \in DOMAIN committed' : q \in DOMAIN committed /\ committed'[q] = committed[q]
    BY <1>3 DEF Close, Drop, Restrict
  <2> QED BY <1>1, <1>3, <2>1, QuietSafe DEF Close, history
<1>4. ASSUME NEW p \in Procs, NEW plan \in Plans, Begin(p, plan) PROVE Safe'
  BY <1>1, <1>4, BeginSafe
<1>5. CASE AppendFrames
  BY <1>1, <1>5, WriteSafe DEF AppendFrames, Following
<1>6. CASE AppendEntries
  BY <1>1, <1>6, WriteSafe DEF AppendEntries, Following
<1>7. CASE Grow
  BY <1>1, <1>7, WriteSafe DEF Grow, Following
<1>8. CASE CopyIndex
  BY <1>1, <1>8, WriteSafe DEF CopyIndex, Following
<1>9. CASE MoveEntries
  BY <1>1, <1>9, WriteSafe DEF MoveEntries, Following
<1>10. CASE MoveFrames
  BY <1>1, <1>10, WriteSafe DEF MoveFrames, Following
<1>11. CASE SyncFrames
  BY <1>1, <1>11, SyncSafe DEF SyncFrames
<1>12. CASE SyncEntries
  BY <1>1, <1>12, SyncSafe DEF SyncEntries
<1>13. CASE SyncMoved
  BY <1>1, <1>13, SyncSafe DEF SyncMoved
<1>14. CASE Seal
  BY <1>1, <1>14, SealSafe
<1>15. CASE PublishSlot
  BY <1>1, <1>15, PublishSafe
<1>16. CASE Commit
  BY <1>1, <1>16, CommitSafe
<1>17. CASE Fail
  BY <1>1, <1>17, AbandonSafe DEF Fail, procVars
<1>18. CASE Kill
  <2>1. \A q \in DOMAIN committed' : q \in DOMAIN committed /\ committed'[q] = committed[q]
    BY <1>18 DEF Kill, Drop, Restrict
  <2> QED BY <1>1, <1>18, <2>1, AbandonSafe DEF Kill
<1>19. CASE HostCrash
  BY <1>1, <1>19, CrashSafe
<1>20. CASE UNCHANGED vars
  BY <1>1, <1>20, QuietSafe DEF vars
<1> QED BY <1>2, <1>3, <1>4, <1>5, <1>6, <1>7, <1>8, <1>9, <1>10, <1>11, <1>12, <1>13, <1>14,
           <1>15, <1>16, <1>17, <1>18, <1>19, <1>20 DEF Next, WriteStep

LEMMA AlwaysSafe == Spec => []Safe
BY InitSafe, NextSafe, PTL DEF Spec

-----------------------------------------------------------------------------
(* What it gives. *)

(* Whatever stops write_chunks and wherever, the file serves every         *)
(* transaction whose locator was written, and the disk every one that a    *)
(* call returned Ok for, unless a relocation that runs over the index it   *)
(* moves is under way or was cut: the file and the disk each have a slot   *)
(* whose index is whole, where its locator says, and verifies.             *)
THEOREM IndexStaysReadable == Spec => []CommittedIndexReadable
BY AlwaysSafe, SafeReadable, PTL

(* The same of every image that a crash of the host may leave, with any    *)
(* part of the unsynced writes in it and a slot cut in the middle: the two *)
(* volatile slots and the syncs around them are enough.                    *)
THEOREM AcknowledgedSurvives == Spec => []AckedSurvivesCrash
BY AlwaysSafe, SafeSurvives, PTL

(* Nothing is ever written over the chunk frames of a published            *)
(* transaction, on file or on disk, even after a relocation that lost its  *)
(* index: no later call takes a data tail below them.                      *)
THEOREM ChunksAreImmutable == Spec => []CommittedChunksIntact
<1>1. Safe => CommittedChunksIntact
  BY DEF Safe
<1> QED BY <1>1, AlwaysSafe, PTL

(* A snapshot that load_index_for_write takes instead of the index on file *)
(* lists what that generation of the blob lists, whoever wrote since.      *)
THEOREM SnapshotsAreSound == Spec => []SnapshotSound
<1>1. Safe => SnapshotSound
  BY DEF Safe
<1> QED BY <1>1, AlwaysSafe, PTL

(* As long as no call is cut short, no position of the index keystream is  *)
(* used for two transactions, by however many processes and relocations.   *)
THEOREM KeystreamUsedOnce == Spec => []KeystreamOnceUncut
BY AlwaysSafe, SafeKeystream, PTL

-----------------------------------------------------------------------------
(* The blob implements the log of BlobLog, as long as no relocation that   *)
(* runs over its own index is cut short.                                   *)

\* The log names a transaction once.
LEMMA LogInjective ==
  ASSUME NEW t \in Seq(Txn), NEW l \in Seq(DOMAIN t), Ordered(t, l),
         NEW g \in DOMAIN l, NEW h \in DOMAIN l, l[g] = l[h]
  PROVE  g = h
<1>1. l[g] \in DOMAIN t
  OBVIOUS
<1>2. t[l[g]].start \in Entries(t, l[g])
  BY <1>1, TxnFacts
<1> QED BY <1>2, OneOwner

LEMMA UptoCounts ==
  ASSUME NEW l, NEW g \in Nat, \A h, k \in 1 .. g : l[h] = l[k] => h = k
  PROVE  Cardinality(Upto(l, g)) = g
<1> DEFINE f == [h \in 1 .. g |-> l[h]]
<1>1. f \in Bijection(1 .. g, Upto(l, g))
  BY DEF Bijection, Injection, Surjection, IsInjective, Upto
<1>2. ExistsBijection(1 .. g, Upto(l, g))
  BY <1>1 DEF ExistsBijection
<1> QED BY <1>2, FS_CountingElements

\* The transactions whose entries lie before those of the g-th one are the
\* first g - 1.
LEMMA EntriesInLogOrder ==
  ASSUME NEW t \in Seq(Txn), NEW l \in Seq(DOMAIN t), Ordered(t, l), NEW g \in 1 .. Len(l)
  PROVE  {j \in Upto(l, Len(l)) : t[j].start < t[l[g]].start} = Upto(l, g - 1)
<1>1. \A h \in 1 .. Len(l) : l[h] \in DOMAIN t
  OBVIOUS
<1>2. \A h \in 1 .. Len(l) : /\ t[l[h]].start \in Nat /\ EntryEnd(t, l[h]) \in Nat
                             /\ t[l[h]].start < EntryEnd(t, l[h])
  BY <1>1, TxnFacts
<1>3. \A h, k \in 1 .. Len(l) : h < k => EntryEnd(t, l[h]) <= t[l[k]].start
  BY DEF Ordered
<1>4. \A h \in 1 .. Len(l) : t[l[h]].start < t[l[g]].start <=> h <= g - 1
  <2> SUFFICES ASSUME NEW h \in 1 .. Len(l)
               PROVE  t[l[h]].start < t[l[g]].start <=> h <= g - 1
    OBVIOUS
  <2>1. CASE h < g
    BY <2>1, <1>2, <1>3, SMTT(60)
  <2>2. CASE h = g
    BY <2>2, <1>2
  <2>3. CASE g < h
    BY <2>3, <1>2, <1>3, SMTT(60)
  <2>4. h < g \/ h = g \/ g < h
    OBVIOUS
  <2> QED BY <2>1, <2>2, <2>3, <2>4, Zenon
<1> QED BY <1>4, SMTT(60) DEF Upto

\* What the active locator vouches for is the log, in the order of the log.
LEMMA SafeLists == Safe /\ ~lost => Listed = log
<1> SUFFICES ASSUME Safe, ~lost
             PROVE  Listed = log
  OBVIOUS
<1>1. /\ IndInv /\ LogOrdered /\ SlotsSound /\ SlotOrder /\ Ordered(txns, log)
      /\ txns \in Seq(Txn) /\ log \in Seq(DOMAIN txns) /\ Len(log) \in Nat
  BY Typed DEF Safe, LogOrdered
<1> DEFINE n   == Len(log)
           ids == Decode(ActiveLocator(file).index_mac)
           Before(i) == {j \in ids : txns[j].start < txns[i].start}
           Pick(g) == CHOOSE i \in ids : Cardinality(Before(i)) = g - 1
<1>2. ids = Upto(log, n)
  <2> DEFINE mac == ActiveLocator(file).index_mac
             m == ActiveLocator(file).index_length
  <2>1. /\ ActiveLocator(file).generation = n /\ ActiveLocator(file) \in Locator /\ m \in Nat
        /\ LocatorSound(txns, log, ActiveLocator(file), lost)
    BY <1>1, ActiveFacts
  <2>2. mac \in Seq(Cell) /\ Len(mac) = m /\ Exact(txns, mac, Upto(log, n))
        /\ \A h \in 1 .. n : EntryEnd(txns, log[h]) <= m
    BY <2>1 DEF LocatorSound, Sound, Locator
  <2> HIDE DEF mac, m
  <2>3. DOMAIN mac = 1 .. m
    BY <2>2
  <2>4. n \in 0 .. Len(log) /\ m \in Nat
    BY <1>1, <2>1
  <2> HIDE DEF n
  <2>5. Decode(mac) = Upto(log, n)
    BY <1>1, <2>2, <2>3, <2>4, ExactParses
  <2> QED BY <2>5 DEF mac
<1>3. \A h, k \in 1 .. n : log[h] = log[k] => h = k
  BY <1>1, LogInjective
<1>4. Cardinality(ids) = n
  BY <1>1, <1>2, <1>3, UptoCounts
<1>5. ASSUME NEW g \in 1 .. n
      PROVE  log[g] \in ids /\ Cardinality(Before(log[g])) = g - 1
  <2>1. Before(log[g]) = Upto(log, g - 1)
    BY <1>1, <1>2, EntriesInLogOrder
  <2>2. g - 1 \in Nat /\ \A h, k \in 1 .. g - 1 : log[h] = log[k] => h = k
    BY <1>1, <1>3
  <2>3. Cardinality(Upto(log, g - 1)) = g - 1
    BY <2>2, UptoCounts
  <2> QED BY <1>2, <2>1, <2>3 DEF Upto
<1> HIDE DEF ids, Before
<1>6. ASSUME NEW g \in 1 .. n
      PROVE  Pick(g) = log[g]
  <2>1. ASSUME NEW i \in ids, Cardinality(Before(i)) = g - 1
        PROVE  i = log[g]
    <3>1. PICK h \in 1 .. n : i = log[h]
      BY <1>2 DEF Upto
    <3>2. h - 1 = g - 1
      BY <1>5, <2>1, <3>1
    <3> QED BY <1>1, <3>1, <3>2
  <2>2. log[g] \in ids /\ Cardinality(Before(log[g])) = g - 1
    BY <1>5
  <2> QED BY <2>1, <2>2
<1>7. Listed = [g \in 1 .. Cardinality(ids) |-> Pick(g)]
  BY DEF Listed, ids, Before
<1> HIDE DEF Pick
<1>8. Listed = [g \in 1 .. n |-> log[g]]
  BY <1>4, <1>6, <1>7
<1>9. log = [g \in 1 .. n |-> log[g]]
  BY <1>1
<1> QED BY <1>8, <1>9

\* What each step does to the log.
LEMMA PublishAppends ==
  ASSUME Safe, Safe', PublishSlot
  PROVE  /\ log' = Append(log, id) /\ Len(log') = Len(log) + 1 /\ log'[Len(log')] = id
         /\ \A g \in DOMAIN log : id # log[g]
         /\ acked' = acked
<1>1. log \in Seq(DOMAIN txns) /\ txns \in Seq(Txn) /\ txns' = txns
  BY Typed DEF Safe, PublishSlot
<1>2. log' \in Seq(DOMAIN txns) /\ Ordered(txns, log')
  <2>1. Safe'
    OBVIOUS
  <2>2. LogOrdered' /\ IndInv'
    BY <2>1 DEF Safe
  <2>3. log' \in Seq(DOMAIN txns')
    BY <2>2 DEF IndInv, TypeOK
  <2> QED BY <1>1, <2>2, <2>3 DEF LogOrdered
<1>3. log' = Append(log, id) /\ acked' = acked
  BY DEF PublishSlot
<1>4. Len(log') = Len(log) + 1 /\ log'[Len(log')] = id /\ \A g \in DOMAIN log : log'[g] = log[g]
  <2>1. log' \in Seq(DOMAIN txns) /\ Len(log) \in Nat
    BY <1>1, <1>2
  <2> QED BY <1>1, <1>3, <2>1
<1>5. ASSUME NEW g \in DOMAIN log, id = log[g]
      PROVE  FALSE
  <2> DEFINE k == Len(log')
  <2>1. g \in DOMAIN log' /\ k \in DOMAIN log' /\ g # k
    BY <1>1, <1>2, <1>4
  <2>2. log'[g] = log'[k]
    BY <1>4, <1>5
  <2> HIDE DEF k
  <2> QED BY <1>1, <1>2, <2>1, <2>2, LogInjective
<1> QED BY <1>3, <1>4, <1>5

LEMMA CommitAcknowledges ==
  ASSUME Safe, Commit
  PROVE  acked' = Len(log) /\ log' = log
<1>1. pc = "sync_slot" /\ acked' = NewLocator.generation /\ log' = log
  BY DEF Commit
<1>2. /\ Ahead(file, disk, Len(log), SameSlot)
      /\ file.slot[SameSlot].loc = wr.loc
  BY <1>1 DEF Safe, CallSlots
<1>3. wr.loc.generation = Len(log) - 1
  BY <1>2 DEF Ahead
<1>4. NewLocator.generation = wr.loc.generation + 1
  BY DEF NewLocator
<1>5. Len(log) \in Nat
  BY Typed DEF Safe
<1> QED BY <1>1, <1>3, <1>4, <1>5

LEMMA CrashCutsTheLog ==
  ASSUME Safe, HostCrash, ~lost'
  PROVE  acked' = acked /\ \E n \in acked .. Len(log) : log' = SubSeq(log, 1, n)
<1>1. /\ file' \in CrashImages /\ acked' = acked
      /\ log' = SubSeq(log, 1, ActiveLocator(file').generation)
      /\ ~lost /\ ~exposed /\ ~Overwriting
  BY DEF HostCrash
<1>2. /\ IndInv /\ LogOrdered /\ SlotsSound /\ SlotOrder /\ ActiveIndexKept /\ DurableIndexKept
      /\ acked \in Nat
  BY DEF Safe, IndInv, TypeOK
<1> DEFINE loc == ActiveLocator(file')
<1>3. loc \in {ActiveLocator(file), ActiveLocator(disk)} /\ acked <= loc.generation
  BY <1>1, <1>2, CrashIndex
<1>4. loc.generation \in 0 .. Len(log)
  BY <1>2, <1>3, ActiveFacts
<1>5. loc.generation \in acked .. Len(log)
  BY <1>2, <1>3, <1>4
<1> QED BY <1>1, <1>5

\* All the others leave it as it is.
LEMMA OthersKeepTheLog ==
  ASSUME [Next]_vars, ~PublishSlot, ~Commit, ~HostCrash
  PROVE  log' = log /\ acked' = acked
<1>1. ASSUME NEW p \in Procs, Open(p) \/ Close(p)
      PROVE  log' = log /\ acked' = acked
  BY <1>1 DEF Open, Close, history
<1>2. ASSUME NEW p \in Procs, NEW plan \in Plans, Begin(p, plan)
      PROVE  log' = log /\ acked' = acked
  BY <1>2 DEF Begin, history
<1>3. CASE WriteStep
  BY <1>3 DEF WriteStep, AppendFrames, SyncFrames, AppendEntries, SyncEntries, Grow, CopyIndex,
              MoveEntries, MoveFrames, SyncMoved, Seal, WriteBody, SyncBody, history
<1>4. CASE Fail \/ Kill
  BY <1>4 DEF Fail, Kill, Abandon
<1>5. CASE UNCHANGED vars
  BY <1>5 DEF vars
<1> QED BY <1>1, <1>2, <1>3, <1>4, <1>5 DEF Next

LEMMA StepOfTheLog ==
  ASSUME Safe, Safe', ~lost, ~lost', [Next]_vars, Listed = log, (Listed = log)'
  PROVE  [AbstractLog!LogNext]_<<Listed, acked>>
<1>1. Listed' = log' /\ Listed = log
  OBVIOUS
<1>2. CASE PublishSlot
  <2>1. /\ log' = Append(log, id) /\ Len(log') = Len(log) + 1 /\ log'[Len(log')] = id
        /\ \A g \in DOMAIN log : id # log[g]
        /\ acked' = acked
    BY <1>2, PublishAppends
  <2>2. AbstractLog!Publish
    BY <1>1, <2>1 DEF AbstractLog!Publish
  <2> QED BY <2>2 DEF AbstractLog!LogNext
<1>3. CASE Commit
  <2>1. AbstractLog!Acknowledge
    BY <1>1, <1>3, CommitAcknowledges DEF AbstractLog!Acknowledge
  <2> QED BY <2>1 DEF AbstractLog!LogNext
<1>4. CASE HostCrash
  <2>1. AbstractLog!Crash
    BY <1>1, <1>4, CrashCutsTheLog DEF AbstractLog!Crash
  <2> QED BY <2>1 DEF AbstractLog!LogNext
<1>5. CASE ~PublishSlot /\ ~Commit /\ ~HostCrash
  <2>1. log' = log /\ acked' = acked
    BY <1>5, OthersKeepTheLog
  <2> QED BY <1>1, <2>1
<1> QED BY <1>2, <1>3, <1>4, <1>5

LEMMA InitOfTheLog == Init => log = <<>> /\ acked = 0 /\ ~lost
BY DEF Init

(* Every step of the writers, of a fault and of a recovery is a step of    *)
(* the log of BlobLog or leaves it: as long as no relocation that runs     *)
(* over the index it moves is cut short, the blob is an append-only log of *)
(* whole transactions, and a crash takes none that a call returned Ok for. *)
THEOREM BlobIsALog == Spec /\ []~lost => ImplementsLog
<1>1. Init /\ (Safe /\ ~lost => Listed = log) => AbstractLog!LogInit
  BY InitOfTheLog, InitSafe DEF AbstractLog!LogInit
<1>2. /\ Safe /\ Safe' /\ ~lost /\ ~lost' /\ [Next]_vars
      /\ Listed = log /\ (Listed = log)'
      => [AbstractLog!LogNext]_<<Listed, acked>>
  BY StepOfTheLog
<1> QED BY <1>1, <1>2, AlwaysSafe, SafeLists, PTL DEF Spec, ImplementsLog, AbstractLog!LogSpec

(* With nobody inside write_chunks, the file serves a committed index, as  *)
(* long as no relocation that runs over its own index was cut short.       *)
THEOREM IdleBlobIsReadable == Spec => [](~lost => RecoversWhenIdle)
<1>1. Safe /\ ~lost => RecoversWhenIdle
  <2> SUFFICES ASSUME Safe, ~lost, lock = NoProc
               PROVE  Recovers(file, 0)
    BY DEF RecoversWhenIdle
  <2>1. IndInv /\ pc = "free" /\ Len(log) \in Nat
    BY Typed DEF Safe, IndInv, TypeOK
  <2>2. ~Overwriting
    BY <2>1 DEF Overwriting
  <2>3. Recovers(file, Len(log))
    BY <2>2, SafeReadable DEF CommittedIndexReadable
  <2>4. ActiveLocator(file).generation = Len(log)
    BY ActiveFacts DEF Safe
  <2> QED BY <2>1, <2>3, <2>4 DEF Recovers
<1> QED BY <1>1, AlwaysSafe, PTL

-----------------------------------------------------------------------------
(* The frames of the log lie one behind the other, from the front matter   *)
(* to the data tail, so that the parts of layout_stats are the body.       *)

\* Where the first g transactions of the log end.
EndOf(t, l, g) == IF g = 0 THEN FRONT_MATTER_LEN ELSE FrameEnd(t, l[g])

PackedLog(t, l) ==
  /\ \A g \in 1 .. Len(l) : t[l[g]].off = EndOf(t, l, g - 1)
  /\ \A g, h \in 1 .. Len(l) : g < h => FrameEnd(t, l[g]) <= t[l[h]].off

Packed ==
  /\ PackedLog(txns, log)
  /\ pc \notin {"free", "sync_slot"} => txn.off = EndOf(txns, log, Len(log))

LEMMA MaxIs ==
  ASSUME NEW S, S \subseteq Nat, NEW e \in S, \A x \in S : x <= e
  PROVE  Max(S) = e
<1>1. \E m \in S : \A x \in S : m >= x
  BY DEF Max
<1>2. Max(S) \in S /\ \A x \in S : Max(S) >= x
  BY <1>1 DEF Max
<1>3. Max(S) >= e /\ Max(S) <= e /\ Max(S) \in Nat /\ e \in Nat
  BY <1>2
<1> QED BY <1>3

\* The end of the log is the data tail of what it lists.
LEMMA EndIsTail ==
  ASSUME NEW t \in Seq(Txn), NEW l \in Seq(DOMAIN t), PackedLog(t, l),
         \A i \in DOMAIN t : FRONT_MATTER_LEN <= t[i].off
  PROVE  DataTail({FrameEnd(t, i) : i \in Upto(l, Len(l))}) = EndOf(t, l, Len(l))
<1> DEFINE n == Len(l)
           e == EndOf(t, l, n)
           S == {FrameEnd(t, i) : i \in Upto(l, n)} \cup {FRONT_MATTER_LEN}
<1>1. n \in Nat /\ FRONT_MATTER_LEN \in Nat
  BY LayoutAssumption
<1>2. \A g \in 1 .. n : /\ l[g] \in DOMAIN t /\ FrameEnd(t, l[g]) \in Nat
                        /\ FRONT_MATTER_LEN <= FrameEnd(t, l[g])
                        /\ t[l[g]].off <= FrameEnd(t, l[g])
  <2> TAKE g \in 1 .. n
  <2>1. l[g] \in DOMAIN t
    OBVIOUS
  <2>2. /\ FrameEnd(t, l[g]) \in Nat /\ t[l[g]].off \in Nat /\ t[l[g]].chunk_len \in Nat
        /\ FrameEnd(t, l[g]) = t[l[g]].off + t[l[g]].chunk_len /\ FRONT_MATTER_LEN <= t[l[g]].off
    BY <2>1, TxnFacts DEF FrameEnd
  <2> QED BY <1>1, <2>1, <2>2
<1>3. \A g \in 1 .. n : FrameEnd(t, l[g]) <= e
  <2> SUFFICES ASSUME NEW g \in 1 .. n PROVE FrameEnd(t, l[g]) <= FrameEnd(t, l[n])
    BY <1>1 DEF EndOf
  <2>1. CASE g = n
    BY <1>2, <2>1
  <2>2. CASE g < n
    <3>1. n \in 1 .. n /\ FrameEnd(t, l[g]) <= t[l[n]].off
      BY <1>1, <2>2 DEF PackedLog
    <3>2. t[l[n]].off <= FrameEnd(t, l[n]) /\ t[l[n]].off \in Nat
      BY <1>2, <3>1, TxnFacts
    <3> QED BY <1>2, <3>1, <3>2
  <2> QED BY <1>1, <2>1, <2>2
<1>4. e \in S /\ FRONT_MATTER_LEN <= e
  <2>1. CASE n = 0
    BY <1>1, <2>1 DEF EndOf
  <2>2. CASE n # 0
    <3>1. n \in 1 .. n /\ e = FrameEnd(t, l[n])
      BY <1>1, <2>2 DEF EndOf
    <3>2. l[n] \in Upto(l, n)
      BY <3>1 DEF Upto
    <3> QED BY <1>2, <3>1, <3>2
  <2> QED BY <2>1, <2>2
<1>5. S \subseteq Nat /\ \A x \in S : x <= e
  <2>1. \A x \in S : x = FRONT_MATTER_LEN \/ \E g \in 1 .. n : x = FrameEnd(t, l[g])
    BY DEF Upto
  <2> HIDE DEF S, e
  <2> QED BY <1>1, <1>2, <1>3, <1>4, <2>1
<1>6. Max(S) = e
  <2> HIDE DEF S, e
  <2> QED BY <1>4, <1>5, MaxIs
<1> QED BY <1>6 DEF DataTail

\* A shorter log, and more transactions.
LEMMA PackedStays ==
  ASSUME NEW t \in Seq(Txn), NEW l \in Seq(DOMAIN t), PackedLog(t, l),
         NEW u, NEW m, \A g \in 1 .. Len(m) : g \in 1 .. Len(l) /\ m[g] = l[g],
         Len(m) \in Nat, \A i \in DOMAIN t : u[i] = t[i]
  PROVE  PackedLog(u, m)
<1>1. \A g \in 1 .. Len(m) : /\ u[m[g]] = t[l[g]] /\ FrameEnd(u, m[g]) = FrameEnd(t, l[g])
  BY DEF FrameEnd
<1>2. \A g \in 0 .. Len(m) : EndOf(u, m, g) = EndOf(t, l, g)
  BY <1>1 DEF EndOf
<1>3. \A g \in 1 .. Len(m) : g - 1 \in 0 .. Len(m)
  OBVIOUS
<1> QED BY <1>1, <1>2, <1>3 DEF PackedLog

LEMMA BeginPacked ==
  ASSUME Safe, Safe', Packed, NEW p \in Procs, NEW plan \in Plans, Begin(p, plan)
  PROVE  Packed'
<1> DEFINE loc == ActiveLocator(file)
           index == LoadedIndex(p, loc)
           tail == DataTail({ChunkEnd(i) : i \in index})
           t == [off |-> tail, chunk_len |-> plan.chunk_len,
                 start |-> loc.index_length, entry_len |-> plan.entry_len]
<1>1. /\ lock = NoProc /\ (SnapshotMatches(p, loc) \/ Verifies(file, loc))
      /\ txns' = Append(txns, t) /\ log' = log
  BY DEF Begin, history
<1>2. /\ txns \in Seq(Txn) /\ log \in Seq(DOMAIN txns) /\ Len(log) \in Nat /\ pc = "free"
      /\ IndInv /\ SlotsSound /\ SlotOrder
      /\ \A i \in DOMAIN txns : FRONT_MATTER_LEN <= txns[i].off
  BY <1>1, Typed DEF Safe, IndInv, TypeOK, FramesInBody
<1>3. index = Upto(log, Len(log))
  <2>1. index = ActiveTxns(file)
    BY <1>1, <1>2, LoadedSound
  <2>2. loc.generation = Len(log)
    BY <1>2, ActiveFacts
  <2> QED BY <2>1, <2>2 DEF ActiveTxns
<1>4. tail = EndOf(txns, log, Len(log))
  <2>1. tail = DataTail({FrameEnd(txns, i) : i \in index})
    BY DEF ChunkEnd, FrameEnd
  <2>2. PackedLog(txns, log)
    BY DEF Packed
  <2> HIDE DEF index, tail
  <2> QED BY <1>2, <1>3, <2>1, <2>2, EndIsTail
<1>5. t.off = tail
  OBVIOUS
<1> HIDE DEF t, tail
<1>6. /\ Len(txns') = Len(txns) + 1 /\ txns'[Len(txns) + 1] = t
      /\ \A i \in DOMAIN txns : txns'[i] = txns[i]
  BY <1>1, <1>2
<1>7. txn'.off = EndOf(txns, log, Len(log))
  BY <1>4, <1>5, <1>6 DEF txn, id
<1>8. /\ PackedLog(txns', log)
      /\ EndOf(txns', log, Len(log)) = EndOf(txns, log, Len(log))
  <2>1. PackedLog(txns, log)
    BY DEF Packed
  <2>2. PICK m : m = log
    OBVIOUS
  <2>3. /\ txns \in Seq(Txn) /\ log \in Seq(DOMAIN txns) /\ Len(m) \in Nat
        /\ \A g \in 1 .. Len(m) : g \in 1 .. Len(log) /\ m[g] = log[g]
        /\ \A i \in DOMAIN txns : txns'[i] = txns[i]
    BY <1>2, <1>6, <2>2
  <2>4. PackedLog(txns', m)
    BY <2>1, <2>3, PackedStays, ZenonT(60)
  <2>5. EndOf(txns', log, Len(log)) = EndOf(txns, log, Len(log))
    <3>1. CASE Len(log) = 0
      BY <3>1 DEF EndOf
    <3>2. CASE Len(log) # 0
      <4>1. log[Len(log)] \in DOMAIN txns
        BY <1>2, <3>2
      <4>2. txns'[log[Len(log)]] = txns[log[Len(log)]]
        BY <1>6, <4>1
      <4> QED BY <4>2 DEF EndOf, FrameEnd
    <3> QED BY <3>1, <3>2
  <2> QED BY <2>2, <2>4, <2>5
<1> QED BY <1>1, <1>2, <1>7, <1>8 DEF Packed

LEMMA PublishPacked ==
  ASSUME Safe, Packed, PublishSlot
  PROVE  Packed'
<1>1. /\ pc = "slot" /\ pc' = "sync_slot" /\ log' = Append(log, id) /\ txns' = txns
  BY DEF PublishSlot
<1>2. /\ txns \in Seq(Txn) /\ log \in Seq(DOMAIN txns) /\ Len(log) \in Nat
  BY Typed DEF Safe
<1>3. /\ id \in DOMAIN txns /\ txn = txns[id] /\ txn.off = EndOf(txns, log, Len(log))
      /\ \A g \in DOMAIN log : FrameEnd(txns, log[g]) <= txn.off
  BY <1>1, CallFacts DEF Packed
<1>4. /\ Len(log') = Len(log) + 1 /\ log'[Len(log) + 1] = id
      /\ \A g \in 1 .. Len(log) : log'[g] = log[g] /\ g \in DOMAIN log
  BY <1>1, <1>2, <1>3
<1>5. PackedLog(txns, log)
  BY DEF Packed
<1>6. \A g \in 1 .. Len(log') : g \in 1 .. Len(log) \/ g = Len(log) + 1
  BY <1>2, <1>4
<1>7. \A g \in 1 .. Len(log') : EndOf(txns, log', g - 1) = EndOf(txns, log, g - 1)
  BY <1>2, <1>4 DEF EndOf
<1>8. \A g \in 1 .. Len(log') : txns[log'[g]].off = EndOf(txns, log', g - 1)
  <2> TAKE g \in 1 .. Len(log')
  <2>1. CASE g \in 1 .. Len(log)
    BY <1>4, <1>5, <1>7, <2>1 DEF PackedLog
  <2>2. CASE g = Len(log) + 1
    <3>1. g - 1 = Len(log)
      BY <1>2, <2>2
    <3> QED BY <1>3, <1>4, <1>7, <2>2, <3>1
  <2> QED BY <1>6, <2>1, <2>2
<1>9. \A g, h \in 1 .. Len(log') : g < h => FrameEnd(txns, log'[g]) <= txns[log'[h]].off
  <2> SUFFICES ASSUME NEW g \in 1 .. Len(log'), NEW h \in 1 .. Len(log'), g < h
               PROVE  FrameEnd(txns, log'[g]) <= txns[log'[h]].off
    OBVIOUS
  <2>1. g \in 1 .. Len(log) /\ log'[g] = log[g] /\ g \in DOMAIN log
    BY <1>2, <1>4
  <2>2. CASE h \in 1 .. Len(log)
    BY <1>4, <1>5, <2>1, <2>2 DEF PackedLog
  <2>3. CASE h = Len(log) + 1
    BY <1>3, <1>4, <2>1, <2>3
  <2> QED BY <1>6, <2>2, <2>3
<1>10. PackedLog(txns', log')
  BY <1>1, <1>8, <1>9 DEF PackedLog
<1> QED BY <1>1, <1>10 DEF Packed

LEMMA CrashPacked ==
  ASSUME Safe, Packed, HostCrash
  PROVE  Packed'
<1> DEFINE n == ActiveLocator(file').generation
<1>1. file' \in CrashImages /\ pc' = "free" /\ log' = SubSeq(log, 1, n) /\ txns' = txns
  BY DEF HostCrash
<1>2. /\ IndInv /\ SlotsSound /\ SlotOrder /\ Len(log) \in Nat
      /\ txns \in Seq(Txn) /\ log \in Seq(DOMAIN txns)
  BY Typed DEF Safe
<1>3. PICK e \in {file, disk} : ActiveLocator(file') = ActiveLocator(e)
  BY <1>1, <1>2, CrashSlots
<1>4. n \in 0 .. Len(log)
  BY <1>2, <1>3, ActiveFacts
<1> HIDE DEF n
<1>5. Len(log') = n /\ \A g \in 1 .. n : log'[g] = log[g] /\ g \in 1 .. Len(log)
  BY <1>1, <1>2, <1>4
<1>6. PackedLog(txns', log')
  <2>1. PackedLog(txns, log)
    BY DEF Packed
  <2>2. /\ Len(log') \in Nat /\ \A i \in DOMAIN txns : txns'[i] = txns[i]
        /\ \A g \in 1 .. Len(log') : g \in 1 .. Len(log) /\ log'[g] = log[g]
    BY <1>1, <1>4, <1>5
  <2> QED BY <1>2, <2>1, <2>2, PackedStays, ZenonT(60)
<1> QED BY <1>1, <1>6 DEF Packed

LEMMA NextPacked == Safe /\ Safe' /\ Packed /\ [Next]_vars => Packed'
<1> SUFFICES ASSUME Safe, Safe', Packed, [Next]_vars PROVE Packed'
  OBVIOUS
<1>1. ASSUME txns' = txns, log' = log,
             pc' \in {"free", "sync_slot"} \/ pc \notin {"free", "sync_slot"}
      PROVE  Packed'
  BY <1>1 DEF Packed, PackedLog, EndOf, FrameEnd, txn, id
<1>2. ASSUME NEW p \in Procs, NEW plan \in Plans, Begin(p, plan) PROVE Packed'
  BY <1>2, BeginPacked
<1>3. CASE PublishSlot
  BY <1>3, PublishPacked
<1>4. CASE HostCrash
  BY <1>4, CrashPacked
<1>5. ASSUME NEW p \in Procs, Open(p) \/ Close(p) PROVE Packed'
  <2>1. txns' = txns /\ log' = log /\ pc' = pc
    BY <1>5 DEF Open, Close, history
  <2> QED BY <1>1, <2>1
<1>6. CASE WriteStep /\ ~PublishSlot
  <2>1. txns' = txns /\ log' = log
    BY <1>6 DEF WriteStep, AppendFrames, SyncFrames, AppendEntries, SyncEntries, Grow, CopyIndex,
                MoveEntries, MoveFrames, SyncMoved, Seal, Commit, WriteBody, SyncBody, history
  <2>2. pc' \in {"free", "sync_slot"} \/ pc \notin {"free", "sync_slot"}
    BY <1>6 DEF WriteStep, AppendFrames, SyncFrames, AppendEntries, SyncEntries, Grow, CopyIndex,
                MoveEntries, MoveFrames, SyncMoved, Seal, Commit, WriteBody, SyncBody
  <2> QED BY <1>1, <2>1, <2>2
<1>7. CASE Fail \/ Kill
  <2>1. txns' = txns /\ log' = log /\ pc' = "free"
    BY <1>7 DEF Fail, Kill, Abandon
  <2> QED BY <1>1, <2>1
<1>8. CASE UNCHANGED vars
  BY <1>1, <1>8 DEF vars
<1> QED BY <1>2, <1>3, <1>4, <1>5, <1>6, <1>7, <1>8 DEF Next

LEMMA AlwaysPacked == Spec => []Packed
<1>1. Init => Packed
  BY DEF Init, Packed, PackedLog
<1> QED BY <1>1, NextPacked, AlwaysSafe, PTL DEF Spec

-----------------------------------------------------------------------------
(* Sums of frame lengths. *)

Widths == [i \in DOMAIN txns |-> txns[i].chunk_len]

ChunksUpto(g) == Chunks(Upto(log, g))

LEMMA LogFacts ==
  ASSUME Safe, Packed
  PROVE  /\ Len(log) \in Nat /\ FRONT_MATTER_LEN \in Nat /\ DOMAIN log = 1 .. Len(log)
         /\ \A g \in 1 .. Len(log) :
              /\ log[g] \in DOMAIN txns
              /\ txns[log[g]].off \in Nat /\ txns[log[g]].chunk_len \in Nat
              /\ FrameEnd(txns, log[g]) = txns[log[g]].off + txns[log[g]].chunk_len
              /\ FRONT_MATTER_LEN <= txns[log[g]].off
              /\ txns[log[g]].off = EndOf(txns, log, g - 1)
              /\ EndOf(txns, log, g) = FrameEnd(txns, log[g])
         /\ \A g, h \in 1 .. Len(log) : g < h => FrameEnd(txns, log[g]) <= txns[log[h]].off
         /\ \A g, h \in 1 .. Len(log) : log[g] = log[h] => g = h
<1>1. /\ txns \in Seq(Txn) /\ log \in Seq(DOMAIN txns) /\ Len(log) \in Nat
      /\ DOMAIN log = 1 .. Len(log)
  BY Typed DEF Safe
<1>2. \A g \in 1 .. Len(log) : log[g] \in DOMAIN txns
  BY <1>1
<1>3. \A g \in 1 .. Len(log) :
        /\ txns[log[g]].off \in Nat /\ txns[log[g]].chunk_len \in Nat
        /\ FrameEnd(txns, log[g]) = txns[log[g]].off + txns[log[g]].chunk_len
        /\ FRONT_MATTER_LEN <= txns[log[g]].off
  BY <1>1, <1>2, TxnFacts DEF FrameEnd, Safe, FramesInBody
<1>4. \A g \in 1 .. Len(log) : EndOf(txns, log, g) = FrameEnd(txns, log[g])
  BY DEF EndOf
<1>5. \A g, h \in 1 .. Len(log) : log[g] = log[h] => g = h
  <2>1. Ordered(txns, log)
    BY DEF Safe, LogOrdered
  <2> QED BY <1>1, <2>1, LogInjective
<1>6. /\ \A g \in 1 .. Len(log) : txns[log[g]].off = EndOf(txns, log, g - 1)
      /\ \A g, h \in 1 .. Len(log) : g < h => FrameEnd(txns, log[g]) <= txns[log[h]].off
  BY DEF Packed, PackedLog
<1> QED BY <1>1, <1>2, <1>3, <1>4, <1>5, <1>6, LayoutAssumption

LEMMA ChunksUptoFacts ==
  ASSUME Safe, Packed, NEW g \in 0 .. Len(log)
  PROVE  /\ IsFiniteSet(ChunksUpto(g)) /\ ChunksUpto(g) \subseteq DOMAIN txns
         /\ \A i : i \in ChunksUpto(g) <=> \E h \in 1 .. g : i = log[h] /\ txns[i].chunk_len > 0
         /\ \A i \in ChunksUpto(g) : Widths[i] = txns[i].chunk_len /\ Widths[i] \in Nat
<1>1. \A i : i \in ChunksUpto(g) <=> \E h \in 1 .. g : i = log[h] /\ txns[i].chunk_len > 0
  BY DEF ChunksUpto, Chunks, Upto
<1>2. \A h \in 1 .. g : h \in 1 .. Len(log)
  BY LogFacts
<1>3. \A i \in ChunksUpto(g) : i \in DOMAIN txns /\ txns[i].chunk_len \in Nat
  BY <1>1, <1>2, LogFacts
<1>4. IsFiniteSet(ChunksUpto(g))
  <2> DEFINE f == [h \in 1 .. g |-> log[h]]
  <2>1. f \in Surjection(1 .. g, Upto(log, g))
    BY DEF Upto, Surjection
  <2>2. IsFiniteSet(1 .. g)
    BY FS_Interval, LogFacts
  <2>3. IsFiniteSet(Upto(log, g))
    <3> HIDE DEF f
    <3> QED BY <2>1, <2>2, FS_Surjection
  <2>4. ChunksUpto(g) \subseteq Upto(log, g)
    BY DEF ChunksUpto, Chunks
  <2> QED BY <2>3, <2>4, FS_Subset
<1> QED BY <1>1, <1>3, <1>4 DEF Widths

\* The frames of the first g transactions fill the body up to their end.
LEMMA FramesAddUp ==
  ASSUME Safe, Packed
  PROVE  \A g \in 0 .. Len(log) :
           SumOver(Widths, ChunksUpto(g)) = EndOf(txns, log, g) - FRONT_MATTER_LEN
<1> DEFINE sum(g) == SumOver(Widths, ChunksUpto(g))
           end(g) == EndOf(txns, log, g)
           Bad == {g \in 0 .. Len(log) : sum(g) # end(g) - FRONT_MATTER_LEN}
<1> SUFFICES ASSUME Bad # {} PROVE FALSE
  OBVIOUS
<1>1. Bad \subseteq Nat
  BY LogFacts
<1>2. PICK g \in Bad : \A h \in Bad : g <= h
  <2> HIDE DEF Bad
  <2> QED BY <1>1, LeastNatural
<1>3. g \in 0 .. Len(log) /\ sum(g) # end(g) - FRONT_MATTER_LEN
  OBVIOUS
<1>4. g # 0
  <2> SUFFICES ASSUME g = 0 PROVE FALSE
    OBVIOUS
  <2>1. ChunksUpto(g) = {}
    BY ChunksUptoFacts
  <2>2. sum(g) = 0
    BY <2>1, SumOfNothing
  <2>3. end(g) = FRONT_MATTER_LEN
    BY DEF EndOf
  <2> QED BY <1>3, <2>2, <2>3, LogFacts
<1>5. /\ g - 1 \in 0 .. Len(log) /\ g \in 1 .. Len(log)
      /\ \A h : h \in 1 .. g <=> h \in 1 .. g - 1 \/ h = g
  BY <1>3, <1>4, LogFacts
<1>6. sum(g - 1) = end(g - 1) - FRONT_MATTER_LEN
  <2>1. g - 1 \notin Bad
    BY <1>2, <1>5
  <2> QED BY <1>5, <2>1
<1> DEFINE i == log[g]
<1>7. /\ i \in DOMAIN txns /\ txns[i].chunk_len \in Nat /\ end(g - 1) \in Nat
      /\ end(g) = end(g - 1) + txns[i].chunk_len
  BY <1>5, LogFacts
<1>8. CASE txns[i].chunk_len = 0
  <2>1. ChunksUpto(g) = ChunksUpto(g - 1)
    <3>1. \A j : j \in ChunksUpto(g) <=> \E h \in 1 .. g : j = log[h] /\ txns[j].chunk_len > 0
      BY <1>3, ChunksUptoFacts
    <3>2. \A j : j \in ChunksUpto(g - 1) <=> \E h \in 1 .. g - 1 : j = log[h] /\ txns[j].chunk_len > 0
      BY <1>5, ChunksUptoFacts
    <3>3. ~(txns[log[g]].chunk_len > 0)
      BY <1>8
    <3>4. \A j : j \in ChunksUpto(g) <=> j \in ChunksUpto(g - 1)
      BY <1>5, <3>1, <3>2, <3>3
    <3> QED BY <3>4
  <2>2. sum(g) = sum(g - 1)
    BY <2>1
  <2>3. end(g) = end(g - 1)
    BY <1>7, <1>8
  <2> QED BY <1>3, <1>6, <2>2, <2>3
<1>9. CASE txns[i].chunk_len > 0
  <2>1. ChunksUpto(g) = ChunksUpto(g - 1) \cup {i}
    <3>1. \A j : j \in ChunksUpto(g) <=> \E h \in 1 .. g : j = log[h] /\ txns[j].chunk_len > 0
      BY <1>3, ChunksUptoFacts
    <3>2. \A j : j \in ChunksUpto(g - 1) <=> \E h \in 1 .. g - 1 : j = log[h] /\ txns[j].chunk_len > 0
      BY <1>5, ChunksUptoFacts
    <3>3. \A j : j \in ChunksUpto(g) <=> j \in ChunksUpto(g - 1) \/ j = i
      BY <1>5, <1>9, <3>1, <3>2
    <3> QED BY <3>3
  <2>2. i \notin ChunksUpto(g - 1)
    <3> SUFFICES ASSUME i \in ChunksUpto(g - 1) PROVE FALSE
      OBVIOUS
    <3>1. PICK h \in 1 .. g - 1 : i = log[h]
      BY <1>5, ChunksUptoFacts
    <3>2. h \in 1 .. Len(log) /\ h # g /\ log[h] = log[g]
      BY <1>5, <3>1
    <3> QED BY <1>5, <3>2, LogFacts
  <2>3. Widths[i] = txns[i].chunk_len
    BY <1>7 DEF Widths
  <2>4. IsFiniteSet(ChunksUpto(g - 1)) /\ \A c \in ChunksUpto(g - 1) \cup {i} : Widths[c] \in Int
    <3>1. IsFiniteSet(ChunksUpto(g - 1)) /\ \A c \in ChunksUpto(g - 1) : Widths[c] \in Nat
      BY <1>5, ChunksUptoFacts
    <3> QED BY <1>7, <2>3, <3>1
  <2>5. sum(g) = Widths[i] + sum(g - 1)
    <3> HIDE DEF i
    <3> QED BY <2>1, <2>2, <2>4, SumWith
  <2> HIDE DEF sum, end, i, Bad
  <2>6. sum(g) = end(g) - FRONT_MATTER_LEN
    BY <1>6, <1>7, <2>3, <2>5, LogFacts
  <2> QED BY <1>3, <2>6
<1> QED BY <1>7, <1>8, <1>9

\* The first h transactions end where the last of them with a frame does.
LEMMA LastFrame ==
  ASSUME Safe, Packed, NEW h \in 0 .. Len(log)
  PROVE  \/ ChunksUpto(h) = {} /\ EndOf(txns, log, h) = FRONT_MATTER_LEN
         \/ \E g \in 1 .. h : /\ log[g] \in ChunksUpto(h)
                              /\ EndOf(txns, log, h) = FrameEnd(txns, log[g])
                              /\ \A k \in 1 .. h : log[k] \in ChunksUpto(h) => k <= g
<1>1. /\ h \in Nat /\ Len(log) \in Nat /\ FRONT_MATTER_LEN \in Nat
      /\ \A k \in 0 .. h : k \in 0 .. Len(log)
      /\ \A k \in 1 .. h : k \in 1 .. Len(log)
  BY LogFacts
<1>2. \A k \in 0 .. h : EndOf(txns, log, k) \in Nat
  BY <1>1, LogFacts DEF EndOf
<1>3. CASE ChunksUpto(h) = {}
  <2>1. SumOver(Widths, ChunksUpto(h)) = 0
    BY <1>3, SumOfNothing
  <2>2. SumOver(Widths, ChunksUpto(h)) = EndOf(txns, log, h) - FRONT_MATTER_LEN
    BY FramesAddUp
  <2>3. EndOf(txns, log, h) \in Nat
    BY <1>1, <1>2
  <2> QED BY <1>1, <1>3, <2>1, <2>2, <2>3
<1>4. CASE ChunksUpto(h) # {}
  <2> DEFINE K == {k \in 1 .. h : log[k] \in ChunksUpto(h)}
  <2>1. K \subseteq Nat /\ K # {} /\ \A k \in K : k <= h
    <3>1. PICK i : i \in ChunksUpto(h)
      BY <1>4
    <3>2. PICK k \in 1 .. h : i = log[k]
      BY <3>1, ChunksUptoFacts
    <3>3. k \in K
      BY <3>1, <3>2
    <3> QED BY <1>1, <3>3
  <2>2. PICK g \in K : \A k \in K : k <= g
    <3> HIDE DEF K
    <3> QED BY <1>1, <2>1, MaxExists
  <2>3. g \in 1 .. h /\ log[g] \in ChunksUpto(h) /\ g \in 0 .. Len(log) /\ g \in 0 .. h
        /\ g \in 1 .. Len(log)
    BY <1>1
  <2>4. ChunksUpto(g) = ChunksUpto(h)
    <3>1. \A i : i \in ChunksUpto(h) <=> \E k \in 1 .. h : i = log[k] /\ txns[i].chunk_len > 0
      BY ChunksUptoFacts
    <3>2. \A i : i \in ChunksUpto(g) <=> \E k \in 1 .. g : i = log[k] /\ txns[i].chunk_len > 0
      BY <2>3, ChunksUptoFacts
    <3>3. ASSUME NEW i \in ChunksUpto(h) PROVE i \in ChunksUpto(g)
      <4>1. PICK k \in 1 .. h : i = log[k] /\ txns[i].chunk_len > 0
        BY <3>1, <3>3
      <4>2. k \in K
        BY <3>3, <4>1
      <4>3. k \in 1 .. g
        BY <1>1, <2>2, <2>3, <4>1, <4>2
      <4> QED BY <3>2, <4>1, <4>3
    <3>4. ASSUME NEW i \in ChunksUpto(g) PROVE i \in ChunksUpto(h)
      <4>1. PICK k \in 1 .. g : i = log[k] /\ txns[i].chunk_len > 0
        BY <3>2, <3>4
      <4>2. k \in 1 .. h
        BY <1>1, <2>3
      <4> QED BY <3>1, <4>1, <4>2
    <3> QED BY <3>3, <3>4
  <2>5. SumOver(Widths, ChunksUpto(h)) = EndOf(txns, log, h) - FRONT_MATTER_LEN
    BY FramesAddUp
  <2>6. SumOver(Widths, ChunksUpto(h)) = EndOf(txns, log, g) - FRONT_MATTER_LEN
    BY <2>3, <2>4, FramesAddUp
  <2>7. EndOf(txns, log, h) \in Nat /\ EndOf(txns, log, g) \in Nat
    BY <1>1, <1>2, <2>3
  <2>8. EndOf(txns, log, h) = EndOf(txns, log, g)
    BY <1>1, <2>5, <2>6, <2>7
  <2>9. EndOf(txns, log, h) = FrameEnd(txns, log[g])
    BY <2>3, <2>8, LogFacts
  <2>10. \A k \in 1 .. h : log[k] \in ChunksUpto(h) => k <= g
    BY <2>2
  <2> QED BY <2>3, <2>9, <2>10
<1> QED BY <1>3, <1>4

-----------------------------------------------------------------------------
(* layout_stats. *)

\* MapThenSumSet over frame lengths and over gaps, as sums of a function.
LEMMA FrameBytesAreASum ==
  ASSUME NEW index, IsFiniteSet(Chunks(index)), Chunks(index) \subseteq DOMAIN txns
  PROVE  chunk_frame_bytes(index) = SumOver(Widths, Chunks(index))
<1> DEFINE S == Chunks(index)
           next(j, s) == IF s = {} THEN 0 ELSE txns[Take(s)].chunk_len + j[s \ {Take(s)}]
           SumsHere(j) == j = [s \in SUBSET S |-> next(j, s)]
<1>1. ASSUME NEW s \in SUBSET S, s # {}
      PROVE  Widths[Take(s)] = txns[Take(s)].chunk_len
  <2>1. Take(s) \in DOMAIN txns
    BY <1>1, TakeIsIn
  <2> QED BY <2>1 DEF Widths
<1>2. ASSUME NEW j
      PROVE  Sums(Widths, S, j) <=> SumsHere(j)
  <2>1. ASSUME NEW s \in SUBSET S
        PROVE  next(j, s) = IF s = {} THEN 0 ELSE Widths[Take(s)] + j[s \ {Take(s)}]
    BY <1>1
  <2> HIDE DEF next
  <2> QED BY <2>1 DEF Sums
<1>3. PICK i : Sums(Widths, S, i)
  BY SumsExist
<1>4. PICK j : SumsHere(j) /\ chunk_frame_bytes(index) = j[S]
  <2>1. SumsHere(i)
    BY <1>2, <1>3
  <2> QED BY <2>1 DEF chunk_frame_bytes, MapThenSumSet, MapThenFoldSet, Take
<1>5. PICK k : Sums(Widths, S, k) /\ SumOver(Widths, S) = k[S]
  BY SumIsInATable
<1>6. Sums(Widths, S, j)
  BY <1>2, <1>4
<1>7. j[S] = k[S]
  BY <1>5, <1>6, SumsAgree
<1> QED BY <1>4, <1>5, <1>7

LEMMA NoGapsNoBytes ==
  ASSUME NEW index, IsFiniteSet(Chunks(index)),
         \A i \in Chunks(index) : Max({0, txns[i].off - Cursor(index, i)}) = 0
  PROVE  inter_chunk_gap_bytes(index) = 0
<1> DEFINE S == Chunks(index)
           zero == [s \in SUBSET S |-> 0]
           next(j, s) == IF s = {} THEN 0
                         ELSE Max({0, txns[Take(s)].off - Cursor(index, Take(s))})
                                + j[s \ {Take(s)}]
           SumsHere(j) == j = [s \in SUBSET S |-> next(j, s)]
<1>1. ASSUME NEW s \in SUBSET S, s # {}
      PROVE  Max({0, txns[Take(s)].off - Cursor(index, Take(s))}) = 0
  <2>1. Take(s) \in S
    BY <1>1, TakeIsIn
  <2> QED BY <2>1
<1>2. SumsHere(zero)
  <2>1. ASSUME NEW s \in SUBSET S PROVE next(zero, s) = 0
    BY <1>1
  <2> HIDE DEF next
  <2> QED BY <2>1
<1> HIDE DEF zero
<1>3. PICK j : SumsHere(j) /\ inter_chunk_gap_bytes(index) = j[S]
  BY <1>2 DEF inter_chunk_gap_bytes, MapThenSumSet, MapThenFoldSet, Take
<1> DEFINE W == [i \in S |-> 0]
<1>4. Sums(W, S, j)
  <2>1. ASSUME NEW s \in SUBSET S
        PROVE  next(j, s) = IF s = {} THEN 0 ELSE W[Take(s)] + j[s \ {Take(s)}]
    BY <1>1, TakeIsIn
  <2> HIDE DEF next
  <2> QED BY <1>3, <2>1 DEF Sums
<1>5. Sums(W, S, zero)
  <2>1. ASSUME NEW s \in SUBSET S
        PROVE  0 = IF s = {} THEN 0 ELSE W[Take(s)] + zero[s \ {Take(s)}]
    BY TakeIsIn DEF zero
  <2> QED BY <2>1 DEF Sums, zero
<1>6. j[S] = zero[S]
  BY <1>4, <1>5, SumsAgree
<1> QED BY <1>3, <1>6 DEF zero

\* What a locator that can be read lists.
LEMMA ReadableIndex ==
  ASSUME Safe, ValidSlots(file) # {}, Verifies(file, ActiveLocator(file))
  PROVE  LET loc == ActiveLocator(file)
         IN  /\ Decode(loc.index_mac) = Upto(log, Len(log))
             /\ loc.index_offset \in Nat /\ loc.index_length \in Nat
             /\ FRONT_MATTER_LEN <= loc.index_offset
             /\ loc.index_offset + loc.index_length <= file.eof
             /\ file.eof \in Nat
             /\ \A g \in 1 .. Len(log) : FrameEnd(txns, log[g]) <= loc.index_offset
<1> DEFINE loc == ActiveLocator(file)
<1>1. /\ IndInv /\ SlotsSound /\ SlotOrder /\ LogOrdered /\ txns \in Seq(Txn)
      /\ log \in Seq(DOMAIN txns) /\ Len(log) \in Nat
      /\ file.eof \in Nat /\ disk.eof \in Nat /\ disk.eof <= file.eof
  BY Typed DEF Safe
<1>2. /\ loc.generation = Len(log) /\ loc.index_offset \in Nat /\ loc.index_length \in Nat
      /\ loc \in Locator /\ FRONT_MATTER_LEN <= loc.index_offset
      /\ loc.index_offset + loc.index_length <= disk.eof
      /\ LocatorSound(txns, log, loc, lost)
  BY <1>1, ActiveFacts
<1>3. Parses(loc.index_mac)
  BY DEF Verifies
<1> HIDE DEF loc
<1> DEFINE s == loc.index_mac
           n == loc.index_length
<1>4. DOMAIN s = 1 .. n /\ Len(s) = n /\ n \in Nat
  <2>1. s \in Seq(Cell) /\ Len(s) = n
    BY <1>2 DEF Locator, LocatorSound
  <2> QED BY <1>2, <2>1
<1>5. /\ Sound(txns, s, Upto(log, Len(log)), lost)
      /\ \A g \in 1 .. Len(log) : EntryEnd(txns, log[g]) <= n /\ FrameEnd(txns, log[g]) <= loc.index_offset
  BY <1>2 DEF LocatorSound
<1>6. Exact(txns, s, Upto(log, Len(log)))
  <2>1. ~Holed(s)
    <3> HIDE DEF s, n
    <3>1. Parses(s)
      BY <1>3 DEF s
    <3> QED BY <1>4, <3>1, HoledFails
  <2> QED BY <1>5, <2>1 DEF Sound
<1>7. Decode(s) = Upto(log, Len(log))
  <2>1. Len(log) \in 0 .. Len(log)
    BY <1>1
  <2> HIDE DEF s, n
  <2> QED BY <1>1, <1>4, <1>5, <1>6, <2>1, ExactParses
<1> QED BY <1>1, <1>2, <1>5, <1>7 DEF loc

\* The loop over the sorted chunks finds each where the one before ends.
LEMMA CursorMeetsChunk ==
  ASSUME Safe, Packed, NEW i \in ChunksUpto(Len(log))
  PROVE  Cursor(Upto(log, Len(log)), i) = txns[i].off
<1> DEFINE n == Len(log)
           all == ChunksUpto(n)
           before == {j \in all : txns[j].off < txns[i].off}
<1>1. n \in Nat /\ n \in 0 .. n
  BY LogFacts
<1>2. \A j : j \in all <=> \E k \in 1 .. n : j = log[k] /\ txns[j].chunk_len > 0
  BY <1>1, ChunksUptoFacts
<1>3. PICK h \in 1 .. n : i = log[h] /\ txns[i].chunk_len > 0
  BY <1>2
<1>4. h - 1 \in 0 .. n /\ txns[i].off = EndOf(txns, log, h - 1)
  BY <1>1, <1>3, LogFacts
<1>5. \A j : j \in ChunksUpto(h - 1) <=> \E k \in 1 .. h - 1 : j = log[k] /\ txns[j].chunk_len > 0
  BY <1>4, ChunksUptoFacts
<1>6. \A k \in 1 .. n : /\ txns[log[k]].off \in Nat /\ txns[log[k]].chunk_len \in Nat
                        /\ FrameEnd(txns, log[k]) = txns[log[k]].off + txns[log[k]].chunk_len
  BY LogFacts
<1>7. \A k, m \in 1 .. n : k < m => FrameEnd(txns, log[k]) <= txns[log[m]].off
  BY LogFacts
<1>8. \A k \in 1 .. n : log[k] \in before <=> k < h /\ txns[log[k]].chunk_len > 0
  <2> TAKE k \in 1 .. n
  <2>1. CASE k < h
    BY <1>2, <1>3, <1>6, <1>7, <2>1
  <2>2. CASE k = h
    BY <1>1, <1>3, <1>6, <2>2
  <2>3. CASE k > h
    BY <1>3, <1>6, <1>7, <2>3
  <2> QED BY <1>1, <2>1, <2>2, <2>3
<1>9. before = ChunksUpto(h - 1)
  <2>1. ASSUME NEW j \in before PROVE j \in ChunksUpto(h - 1)
    <3>1. PICK k \in 1 .. n : j = log[k] /\ txns[j].chunk_len > 0
      BY <1>2
    <3>2. k \in 1 .. h - 1
      BY <1>1, <1>8, <2>1, <3>1
    <3> QED BY <1>5, <3>1, <3>2
  <2>2. ASSUME NEW j \in ChunksUpto(h - 1) PROVE j \in before
    <3>1. PICK k \in 1 .. h - 1 : j = log[k] /\ txns[j].chunk_len > 0
      BY <1>5, <2>2
    <3>2. k \in 1 .. n /\ k < h
      BY <1>1
    <3> QED BY <1>8, <3>1, <3>2
  <2> QED BY <2>1, <2>2
<1> DEFINE last == CHOOSE j \in before : \A k \in before : txns[k].off <= txns[j].off
<1>10. Cursor(Upto(log, n), i) = IF before = {} THEN FRONT_MATTER_LEN ELSE ChunkEnd(last)
  BY DEF Cursor, ChunksUpto
<1> HIDE DEF before, all, n
<1>11. CASE before = {}
  <2>1. EndOf(txns, log, h - 1) = FRONT_MATTER_LEN
    BY <1>4, <1>9, <1>11, LastFrame DEF n
  <2> QED BY <1>4, <1>10, <1>11, <2>1 DEF n
<1>12. CASE before # {}
  <2>1. PICK g \in 1 .. h - 1 : /\ log[g] \in before
                                /\ EndOf(txns, log, h - 1) = FrameEnd(txns, log[g])
                                /\ \A k \in 1 .. h - 1 : log[k] \in before => k <= g
    BY <1>4, <1>9, <1>12, LastFrame DEF n
  <2>2. \A j \in before : \E k \in 1 .. g : j = log[k] /\ txns[j].chunk_len > 0
    <3> TAKE j \in before
    <3>1. PICK k \in 1 .. h - 1 : j = log[k] /\ txns[j].chunk_len > 0
      BY <1>5, <1>9
    <3>2. k <= g
      BY <2>1, <3>1
    <3> QED BY <1>1, <3>1, <3>2
  <2>3. g \in 1 .. n /\ txns[log[g]].chunk_len > 0
    BY <1>1, <1>8, <2>1
  <2>4. \A j \in before : /\ txns[j].off <= txns[log[g]].off
                          /\ txns[j].off >= txns[log[g]].off => j = log[g]
    <3> TAKE j \in before
    <3>1. PICK k \in 1 .. g : j = log[k] /\ txns[j].chunk_len > 0
      BY <2>2
    <3>2. CASE k = g
      BY <1>6, <2>3, <3>1, <3>2
    <3>3. CASE k < g
      <4>1. k \in 1 .. n
        BY <1>1, <2>3
      <4>2. FrameEnd(txns, log[k]) <= txns[log[g]].off
        BY <1>7, <2>3, <3>3, <4>1
      <4> QED BY <1>6, <2>3, <3>1, <4>1, <4>2, SMTT(60)
    <3> QED BY <2>3, <3>1, <3>2, <3>3
  <2>5. last \in before /\ \A k \in before : txns[k].off <= txns[last].off
    <3>1. \E j \in before : \A k \in before : txns[k].off <= txns[j].off
      BY <2>1, <2>4
    <3> QED BY <3>1
  <2> HIDE DEF last
  <2>6. last = log[g]
    <3>1. txns[log[g]].off <= txns[last].off /\ txns[log[g]].off \in Nat
      BY <1>6, <2>1, <2>3, <2>5
    <3>2. txns[last].off >= txns[log[g]].off
      BY <3>1
    <3> QED BY <2>4, <2>5, <3>2
  <2>7. ChunkEnd(last) = txns[i].off
    BY <1>4, <2>1, <2>6 DEF ChunkEnd, FrameEnd
  <2> QED BY <1>10, <1>12, <2>7 DEF n
<1> QED BY <1>11, <1>12

\* The first frame comes right after the front matter.
LEMMA NothingBeforeFirst ==
  ASSUME Safe, Packed
  PROVE  gap_before_first_chunk_bytes(Upto(log, Len(log))) = 0
<1> DEFINE n == Len(log)
           index == Upto(log, n)
           all == ChunksUpto(n)
           offs == {txns[i].off : i \in Chunks(index)}
           K == {k \in 1 .. n : log[k] \in all}
<1>1. n \in Nat /\ n \in 0 .. n /\ FRONT_MATTER_LEN \in Nat
  BY LogFacts
<1>2. \A j : j \in all <=> \E k \in 1 .. n : j = log[k] /\ txns[j].chunk_len > 0
  BY <1>1, ChunksUptoFacts
<1>3. Chunks(index) = all
  BY DEF ChunksUpto
<1> SUFFICES ASSUME all # {} PROVE Min(offs) - FRONT_MATTER_LEN = 0
  BY <1>3 DEF gap_before_first_chunk_bytes
<1>4. K \subseteq Nat /\ K # {}
  BY <1>1, <1>2
<1>5. PICK h \in K : \A k \in K : h <= k
  <2> HIDE DEF K
  <2> QED BY <1>4, LeastNatural
<1>6. h \in 1 .. n /\ log[h] \in all /\ h - 1 \in 0 .. n
  BY <1>1
<1>7. ChunksUpto(h - 1) = {}
  <2> SUFFICES ASSUME NEW j \in ChunksUpto(h - 1) PROVE FALSE
    OBVIOUS
  <2>1. PICK k \in 1 .. h - 1 : j = log[k] /\ txns[j].chunk_len > 0
    BY <1>6, ChunksUptoFacts
  <2>2. k \in 1 .. n /\ k < h
    BY <1>1, <1>6
  <2>3. k \in K
    BY <1>2, <2>1, <2>2
  <2> QED BY <1>1, <1>5, <1>6, <2>2, <2>3
<1>8. txns[log[h]].off = FRONT_MATTER_LEN
  <2>1. EndOf(txns, log, h - 1) = FRONT_MATTER_LEN
    BY <1>6, <1>7, LastFrame
  <2> QED BY <1>6, <2>1, LogFacts
<1>9. FRONT_MATTER_LEN \in offs
  BY <1>3, <1>6, <1>8
<1>10. \A x \in offs : x \in Nat /\ FRONT_MATTER_LEN <= x
  <2> SUFFICES ASSUME NEW i \in all PROVE txns[i].off \in Nat /\ FRONT_MATTER_LEN <= txns[i].off
    BY <1>3
  <2>1. PICK k \in 1 .. n : i = log[k]
    BY <1>2
  <2> QED BY <2>1, LogFacts
<1> HIDE DEF offs
<1>11. Min(offs) \in offs /\ \A x \in offs : Min(offs) <= x
  BY <1>9, <1>10 DEF Min
<1>12. Min(offs) = FRONT_MATTER_LEN
  <2>1. Min(offs) \in Nat /\ FRONT_MATTER_LEN <= Min(offs)
    BY <1>10, <1>11
  <2>2. Min(offs) <= FRONT_MATTER_LEN
    BY <1>9, <1>11
  <2> QED BY <1>1, <2>1, <2>2
<1> QED BY <1>1, <1>12

\* The data tail of the chunks is where the log ends.
LEMMA ChunksEndAtTail ==
  ASSUME Safe, Packed
  PROVE  DataTail({ChunkEnd(i) : i \in Chunks(Upto(log, Len(log)))}) = EndOf(txns, log, Len(log))
<1> DEFINE n == Len(log)
           all == ChunksUpto(n)
           S == {ChunkEnd(i) : i \in Chunks(Upto(log, n))} \cup {FRONT_MATTER_LEN}
           e == EndOf(txns, log, n)
<1>1. n \in Nat /\ n \in 0 .. n /\ FRONT_MATTER_LEN \in Nat
  BY LogFacts
<1>2. \A k \in 1 .. n : /\ FrameEnd(txns, log[k]) \in Nat /\ FRONT_MATTER_LEN <= FrameEnd(txns, log[k])
                        /\ txns[log[k]].off \in Nat /\ txns[log[k]].off <= FrameEnd(txns, log[k])
  <2> TAKE k \in 1 .. n
  <2>1. /\ txns[log[k]].off \in Nat /\ txns[log[k]].chunk_len \in Nat
        /\ FrameEnd(txns, log[k]) = txns[log[k]].off + txns[log[k]].chunk_len
        /\ FRONT_MATTER_LEN <= txns[log[k]].off
    BY LogFacts
  <2> QED BY <1>1, <2>1
<1>3. \A x : x \in S <=> x = FRONT_MATTER_LEN \/ \E k \in 1 .. n : log[k] \in all /\ x = FrameEnd(txns, log[k])
  <2>1. \A j : j \in all <=> \E k \in 1 .. n : j = log[k] /\ txns[j].chunk_len > 0
    BY <1>1, ChunksUptoFacts
  <2>2. S = {FrameEnd(txns, i) : i \in all} \cup {FRONT_MATTER_LEN}
    BY DEF ChunkEnd, FrameEnd, ChunksUpto
  <2> HIDE DEF S, all
  <2> QED BY <2>1, <2>2
<1> HIDE DEF S, all
<1>4. e \in S /\ \A x \in S : x <= e
  <2>1. CASE all = {} /\ e = FRONT_MATTER_LEN
    <3> HIDE DEF e
    <3> QED BY <1>1, <1>3, <2>1
  <2>2. ASSUME NEW g \in 1 .. n, log[g] \in all, e = FrameEnd(txns, log[g]),
               \A k \in 1 .. n : log[k] \in all => k <= g
        PROVE  e \in S /\ \A x \in S : x <= e
    <3> HIDE DEF e
    <3>1. e \in S
      BY <1>3, <2>2
    <3>2. ASSUME NEW k \in 1 .. n, log[k] \in all PROVE FrameEnd(txns, log[k]) <= e
      <4>1. CASE k = g
        BY <1>2, <2>2, <4>1
      <4>2. CASE k < g
        <5>1. FrameEnd(txns, log[k]) <= txns[log[g]].off
          BY <2>2, <4>2, LogFacts
        <5> QED BY <1>2, <2>2, <5>1
      <4> QED BY <1>1, <2>2, <3>2, <4>1, <4>2
    <3> QED BY <1>2, <1>3, <2>2, <3>1, <3>2
  <2> QED BY <1>1, <2>1, <2>2, LastFrame DEF all
<1>5. S \subseteq Nat
  BY <1>1, <1>2, <1>3
<1>6. Max(S) = e
  <2> HIDE DEF e
  <2> QED BY <1>4, <1>5, MaxIs
<1> QED BY <1>6 DEF DataTail, S

LEMMA PartsAreTheBody == Safe /\ Packed => StatsPartitionBody
<1> SUFFICES ASSUME Safe, Packed, ValidSlots(file) # {}, Verifies(file, ActiveLocator(file))
             PROVE  LET s == layout_stats(file)
                    IN  s.frames + s.before_first + s.between + s.leading + s.index + s.trailing
                          = s.body
  BY DEF StatsPartitionBody
<1> DEFINE loc == ActiveLocator(file)
           index == Decode(loc.index_mac)
           n == Len(log)
           tail == DataTail({ChunkEnd(i) : i \in Chunks(index)})
           e == EndOf(txns, log, n)
<1>1. /\ index = Upto(log, n) /\ loc.index_offset \in Nat /\ loc.index_length \in Nat
      /\ FRONT_MATTER_LEN <= loc.index_offset
      /\ loc.index_offset + loc.index_length <= file.eof /\ file.eof \in Nat
      /\ \A g \in 1 .. n : FrameEnd(txns, log[g]) <= loc.index_offset
  BY ReadableIndex
<1>2. n \in Nat /\ n \in 0 .. n /\ FRONT_MATTER_LEN \in Nat
  BY LogFacts
<1>3. tail = e
  BY <1>1, ChunksEndAtTail
<1>4. e \in Nat /\ FRONT_MATTER_LEN <= e /\ e <= loc.index_offset
  <2>1. CASE n = 0
    BY <1>1, <1>2, <2>1 DEF EndOf
  <2>2. CASE n # 0
    <3>1. n \in 1 .. n
      BY <1>2, <2>2
    <3>2. /\ txns[log[n]].off \in Nat /\ txns[log[n]].chunk_len \in Nat
          /\ FrameEnd(txns, log[n]) = txns[log[n]].off + txns[log[n]].chunk_len
          /\ FRONT_MATTER_LEN <= txns[log[n]].off /\ e = FrameEnd(txns, log[n])
      BY <3>1, LogFacts
    <3> QED BY <1>1, <1>2, <3>1, <3>2
  <2> QED BY <2>1, <2>2
<1>5. Chunks(index) = ChunksUpto(n)
  BY <1>1 DEF ChunksUpto
<1>6. chunk_frame_bytes(index) = e - FRONT_MATTER_LEN
  <2>1. IsFiniteSet(Chunks(index)) /\ Chunks(index) \subseteq DOMAIN txns
    BY <1>2, <1>5, ChunksUptoFacts
  <2>2. chunk_frame_bytes(index) = SumOver(Widths, Chunks(index))
    <3> HIDE DEF index
    <3> QED BY <2>1, FrameBytesAreASum
  <2> QED BY <1>2, <1>5, <2>2, FramesAddUp
<1>7. gap_before_first_chunk_bytes(index) = 0
  BY <1>1, NothingBeforeFirst
<1>8. inter_chunk_gap_bytes(index) = 0
  <2>1. IsFiniteSet(Chunks(index))
    BY <1>2, <1>5, ChunksUptoFacts
  <2>2. ASSUME NEW i \in Chunks(index) PROVE Max({0, txns[i].off - Cursor(index, i)}) = 0
    <3>1. i \in ChunksUpto(n)
      BY <1>5
    <3>2. Cursor(index, i) = txns[i].off
      BY <1>1, <3>1, CursorMeetsChunk
    <3>3. PICK k \in 1 .. n : i = log[k]
      BY <1>2, <3>1, ChunksUptoFacts
    <3>4. txns[i].off \in Nat
      BY <3>3, LogFacts
    <3>5. {0, txns[i].off - Cursor(index, i)} = {0}
      BY <3>2, <3>4
    <3>6. Max({0}) = 0
      BY MaxIs
    <3> QED BY <3>5, <3>6
  <2> HIDE DEF index
  <2> QED BY <2>1, <2>2, NoGapsNoBytes
<1> HIDE DEF index, tail, e, n
<1>9. LeadingGap(loc, tail) = loc.index_offset - e
  BY <1>1, <1>3, <1>4 DEF LeadingGap
<1>10. Max({0, TrailingGap(loc, file.eof)}) = file.eof - (loc.index_offset + loc.index_length)
  <2> DEFINE gap == file.eof - (loc.index_offset + loc.index_length)
  <2>1. gap \in Nat /\ TrailingGap(loc, file.eof) = gap
    BY <1>1 DEF TrailingGap, IndexEnd
  <2> HIDE DEF gap
  <2>2. Max({0, gap}) = gap
    BY <2>1, MaxIs
  <2> QED BY <2>1, <2>2 DEF gap
<1> DEFINE s == layout_stats(file)
<1>11. /\ s.body = file.eof - FRONT_MATTER_LEN
       /\ s.frames = e - FRONT_MATTER_LEN /\ s.before_first = 0 /\ s.between = 0
       /\ s.leading = loc.index_offset - e /\ s.index = loc.index_length
       /\ s.trailing = file.eof - (loc.index_offset + loc.index_length)
  BY <1>6, <1>7, <1>8, <1>9, <1>10 DEF layout_stats, index, tail
<1> HIDE DEF s, loc
<1>12. s.frames + s.before_first + s.between + s.leading + s.index + s.trailing = s.body
  BY <1>1, <1>2, <1>4, <1>11
<1> QED BY <1>12 DEF s

(* In every state the writers can reach, after any fault and in the middle *)
(* of any call, the parts that layout_stats reports for an index it can    *)
(* read add up to the body, although its gap before the first chunk and    *)
(* its gaps between chunks count from the same byte: both are empty, as    *)
(* every transaction starts where the last committed one ended.            *)
THEOREM StatsAddUp == Spec => []StatsPartitionBody
BY AlwaysSafe, AlwaysPacked, PartsAreTheBody, PTL
=============================================================================

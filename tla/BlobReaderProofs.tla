-------------------------- MODULE BlobReaderProofs --------------------------
(***************************************************************************)
(* Proofs about the lock-free readers of BlobReader beside the writers of  *)
(* BlobWriter: for any readers, writers, transactions, faults, gaps and    *)
(* retry budget.                                                           *)
(***************************************************************************)
EXTENDS BlobReader, BlobWriterSafety

-----------------------------------------------------------------------------
(* The invariant.  t stands for txns, l for log, f for file and r for what *)
(* one reader's call is doing.                                             *)

ReadRecords == [op : {"none", "read_index", "refresh"},
                step : {"idle", "slot_a", "slot_b", "index"},
                a : Slot, todo : Seq(Locator), got : Seq(Cell),
                tries : 0 .. reader_retry_budget,
                from : Nat, quiet : BOOLEAN]

Views == [ok : BOOLEAN, generation : Nat, index : SUBSET Nat,
          error : {"none", "NoValidLocator", "IndexChainBroken",
                   "RetryBudgetExceeded"},
          from : Nat, quiet : BOOLEAN]

\* A locator that was committed.
Known(t, l, damaged, eof, loc) ==
  /\ loc \in Locator
  /\ loc.generation <= Len(l)
  /\ LocatorSound(t, l, loc, damaged)
  /\ FRONT_MATTER_LEN <= loc.index_offset /\ IndexEnd(loc) <= eof

\* Every locator a reader holds is.
KnownBy(t, l, damaged, eof, r) ==
  /\ r.a.valid => Known(t, l, damaged, eof, r.a.loc)
  /\ \A k \in DOMAIN r.todo : Known(t, l, damaged, eof, r.todo[k])
  /\ r.step = "index" => r.todo # <<>>

ReadersKnow == \A p \in Readers : KnownBy(txns, log, lost, disk.eof, rd[p])

\* What a reader has read of an index is still there,
Unchanged(f, r) ==
  \A i \in DOMAIN r.got : r.got[i] = f.body[Head(r.todo).index_offset + i - 1]

ReadsActive(f, r) == r.step = "index" /\ Head(r.todo) = ActiveLocator(f)

\* or, of the active index, that index has been sound ever since.
ReadsFresh ==
  \A p \in Readers : (pc = "free" /\ ReadsActive(file, rd[p])) =>
    Sound(txns, ActiveIndexOn(file, file), ActiveTxns(file), lost) \/ Unchanged(file, rd[p])

\* The slots of an image are of two successive generations.
Near(f, g) == \A i \in {0, 1} : f.slot[i].valid => f.slot[i].loc.generation + 1 >= g

SlotsNear == Near(file, Len(log)) /\ Near(disk, ActiveLocator(disk).generation)

\* So a reader holds no locator older than the one before its call.
UpToDate(n, r) ==
  r.step # "idle" =>
    /\ r.from <= n
    /\ r.a.valid => r.a.loc.generation + 1 >= r.from
    /\ \A k \in DOMAIN r.todo : r.todo[k].generation + 1 >= r.from

ReadersUpToDate == \A p \in Readers : UpToDate(Len(log), rd[p])

\* Nothing has moved under a call that no writer disturbed.
Undisturbed(f, r) ==
  /\ r.from = ActiveLocator(f).generation
  /\ r.step = "slot_b" => r.a = f.slot[0]
  /\ r.step = "index" => ReadsActive(f, r) /\ Unchanged(f, r)

QuietReads ==
  \A p \in Readers : (rd[p].step # "idle" /\ rd[p].quiet /\ ~lost) =>
    lock = NoProc /\ Undisturbed(file, rd[p])

\* The three properties, for what one call returned.
Committed(l, v) ==
  v.ok => v.generation <= Len(l) /\ v.index = Upto(l, v.generation)

Recent(v) == v.ok => v.generation + 1 >= v.from

Found(damaged, v) ==
  (v.quiet /\ (v.ok \/ v.error # "none") /\ ~damaged) => v.ok /\ v.generation = v.from

ViewsGood ==
  \A p \in Readers : Committed(log, view[p]) /\ Recent(view[p]) /\ Found(lost, view[p])

ReadSafe ==
  /\ Safe
  /\ ReadTypeOK
  /\ ReadersKnow
  /\ ReadsFresh
  /\ SlotsNear
  /\ ReadersUpToDate
  /\ QuietReads
  /\ ViewsGood

-----------------------------------------------------------------------------
(* What a reader may meet. *)

LEMMA ReadTypes ==
  ReadTypeOK <=> /\ rd \in [Readers -> ReadRecords] /\ view \in [Readers -> Views]
                 /\ \A p \in Readers : rd[p].step # "idle" => p \in opened /\ p # lock
BY DEF ReadTypeOK, ReadRecords, Views, Reading

LEMMA ViewsThree == ViewsGood => ViewIsCommitted /\ ViewAtMostOneBehind /\ QuietReadSucceeds
BY DEF ViewsGood, Committed, Recent, Found, ViewIsCommitted, ViewAtMostOneBehind,
       QuietReadSucceeds, Upto

\* A slot that a reader finds valid.
LEMMA SlotKnown ==
  ASSUME Safe, SlotsNear, NEW i \in {0, 1}, file.slot[i].valid
  PROVE  /\ Known(txns, log, lost, disk.eof, file.slot[i].loc)
         /\ file.slot[i].loc.generation + 1 >= Len(log)
<1>1. /\ IndInv /\ SlotsSound /\ IsImage(file) /\ Len(log) \in Nat
  BY Typed DEF Safe
<1>2. SlotsBounded(file, disk.eof, Len(log))
  BY <1>1, SlotsBoundedIff DEF IndInv
<1>3. i \in ValidSlots(file) /\ file.slot[i].loc \in Locator
  BY <1>1, SlotGeneration
<1>4. LocatorSound(txns, log, file.slot[i].loc, lost)
  BY <1>1, <1>3 DEF SlotsSound
<1> QED BY <1>2, <1>3, <1>4 DEF Known, SlotsBounded, SlotsNear, Near

\* An index that verifies is the one that was committed.
LEMMA VerifiedIsCommitted ==
  ASSUME Safe, NEW loc, Known(txns, log, lost, disk.eof, loc), Parses(loc.index_mac)
  PROVE  /\ Exact(txns, loc.index_mac, Upto(log, loc.generation))
         /\ Decode(loc.index_mac) = Upto(log, loc.generation)
         /\ loc.generation \in Nat /\ Upto(log, loc.generation) \subseteq DOMAIN txns
<1> DEFINE mac == loc.index_mac
           m == loc.index_length
           g == loc.generation
<1>1. /\ IndInv /\ LogOrdered /\ txns \in Seq(Txn) /\ log \in Seq(DOMAIN txns) /\ Len(log) \in Nat
  BY Typed DEF Safe
<1>2. mac \in Seq(Cell) /\ m \in Nat /\ g \in Nat /\ g <= Len(log)
  BY DEF Known, Locator
<1>3. /\ \A h \in 1 .. g : EntryEnd(txns, log[h]) <= m
      /\ Len(mac) = m /\ Sound(txns, mac, Upto(log, g), lost)
  BY DEF Known, LocatorSound
<1>4. Parses(mac)
  OBVIOUS
<1>5. g \in 0 .. Len(log)
  BY <1>1, <1>2
<1> HIDE DEF mac, m, g
<1>6. DOMAIN mac = 1 .. m
  BY <1>2, <1>3
<1>7. ~Holed(mac)
  BY <1>2, <1>3, <1>4, <1>6, HoledFails
<1>8. Exact(txns, mac, Upto(log, g))
  BY <1>3, <1>7 DEF Sound
<1>9. Decode(mac) = Upto(log, g)
  BY <1>1, <1>2, <1>3, <1>5, <1>6, <1>8, ExactParses
<1>10. Upto(log, g) \subseteq DOMAIN txns
  BY <1>1, <1>5 DEF Upto
<1> QED BY <1>2, <1>8, <1>9, <1>10 DEF mac, g

-----------------------------------------------------------------------------
(* A step of one reader: its call becomes r, its result v. *)

LEMMA ReaderMoves ==
  ASSUME ReadSafe, Safe', NEW p \in Readers, NEW r \in ReadRecords, NEW v \in Views,
         rd' = [rd EXCEPT ![p] = r], view' = [view EXCEPT ![p] = v],
         <<file, disk, opened, lock, pc, txns, log, lost>>'
           = <<file, disk, opened, lock, pc, txns, log, lost>>,
         r.step # "idle" => p \in opened /\ p # lock,
         KnownBy(txns, log, lost, disk.eof, r),
         (pc = "free" /\ ReadsActive(file, r)) =>
           Sound(txns, ActiveIndexOn(file, file), ActiveTxns(file), lost) \/ Unchanged(file, r),
         UpToDate(Len(log), r),
         (r.step # "idle" /\ r.quiet /\ ~lost) => lock = NoProc /\ Undisturbed(file, r),
         Committed(log, v), Recent(v), Found(lost, v)
  PROVE  ReadSafe'
<1>1. /\ file' = file /\ disk' = disk /\ opened' = opened /\ lock' = lock /\ pc' = pc
      /\ txns' = txns /\ log' = log /\ lost' = lost
  OBVIOUS
<1>2. /\ rd \in [Readers -> ReadRecords] /\ view \in [Readers -> Views]
      /\ \A q \in Readers : rd[q].step # "idle" => q \in opened /\ q # lock
  BY ReadTypes DEF ReadSafe
<1>3. /\ rd' \in [Readers -> ReadRecords] /\ view' \in [Readers -> Views]
      /\ rd'[p] = r /\ view'[p] = v
      /\ \A q \in Readers : q # p => rd'[q] = rd[q] /\ view'[q] = view[q]
  BY <1>2
<1>4. ReadTypeOK'
  <2>1. \A q \in Readers : rd'[q].step # "idle" => q \in opened' /\ q # lock'
    BY <1>1, <1>2, <1>3
  <2> QED BY <1>3, <2>1 DEF ReadTypeOK, ReadRecords, Views, Reading
<1>5. ReadersKnow'
  <2>1. \A q \in Readers : KnownBy(txns, log, lost, disk.eof, rd'[q])
    BY <1>3 DEF ReadSafe, ReadersKnow
  <2> QED BY <1>1, <2>1 DEF ReadersKnow
<1>6. ReadsFresh'
  <2>1. \A q \in Readers : (pc = "free" /\ ReadsActive(file, rd'[q])) =>
          \/ Sound(txns, ActiveIndexOn(file, file), ActiveTxns(file), lost)
          \/ Unchanged(file, rd'[q])
    BY <1>3 DEF ReadSafe, ReadsFresh
  <2> QED BY <1>1, <2>1 DEF ReadsFresh, ActiveTxns
<1>7. SlotsNear'
  BY <1>1 DEF ReadSafe, SlotsNear
<1>8. ReadersUpToDate'
  <2>1. \A q \in Readers : UpToDate(Len(log), rd'[q])
    BY <1>3 DEF ReadSafe, ReadersUpToDate
  <2> QED BY <1>1, <2>1 DEF ReadersUpToDate
<1>9. QuietReads'
  <2>1. \A q \in Readers : (rd'[q].step # "idle" /\ rd'[q].quiet /\ ~lost) =>
          lock = NoProc /\ Undisturbed(file, rd'[q])
    BY <1>3 DEF ReadSafe, QuietReads
  <2> QED BY <1>1, <2>1 DEF QuietReads
<1>10. ViewsGood'
  <2>1. \A q \in Readers : Committed(log, view'[q]) /\ Recent(view'[q]) /\ Found(lost, view'[q])
    BY <1>3 DEF ReadSafe, ViewsGood
  <2> QED BY <1>1, <2>1 DEF ViewsGood
<1> QED BY <1>4, <1>5, <1>6, <1>7, <1>8, <1>9, <1>10 DEF ReadSafe

\* Most steps of a reader leave the blob and its handle as they are.
LEMMA BlobUntouched ==
  ASSUME Safe, UNCHANGED vars
  PROVE  /\ Safe'
         /\ <<file, disk, opened, lock, pc, txns, log, lost>>'
              = <<file, disk, opened, lock, pc, txns, log, lost>>
BY NextSafe DEF vars

\* What holds of one reader's call and of its last result.
LEMMA OneReader ==
  ASSUME ReadSafe, NEW p \in Readers
  PROVE  /\ rd \in [Readers -> ReadRecords] /\ view \in [Readers -> Views]
         /\ rd[p] \in ReadRecords /\ view[p] \in Views
         /\ rd[p].step # "idle" => p \in opened /\ p # lock
         /\ KnownBy(txns, log, lost, disk.eof, rd[p])
         /\ (pc = "free" /\ ReadsActive(file, rd[p])) =>
              Sound(txns, ActiveIndexOn(file, file), ActiveTxns(file), lost) \/ Unchanged(file, rd[p])
         /\ UpToDate(Len(log), rd[p])
         /\ (rd[p].step # "idle" /\ rd[p].quiet /\ ~lost) =>
              lock = NoProc /\ Undisturbed(file, rd[p])
         /\ Committed(log, view[p]) /\ Recent(view[p]) /\ Found(lost, view[p])
         /\ Safe /\ SlotsNear /\ Len(log) \in Nat
<1>1. ReadTypeOK /\ Safe
  BY DEF ReadSafe
<1>2. Len(log) \in Nat
  BY <1>1, Typed DEF Safe
<1>3. /\ rd \in [Readers -> ReadRecords] /\ view \in [Readers -> Views]
      /\ rd[p].step # "idle" => p \in opened /\ p # lock
  BY <1>1, ReadTypes
<1> QED BY <1>1, <1>2, <1>3 DEF ReadSafe, ReadersKnow, ReadsFresh, ReadersUpToDate, QuietReads, ViewsGood

\* Between calls nothing is held.
LEMMA IdleHolds ==
  /\ Idle \in ReadRecords /\ Idle.step = "idle" /\ ~Idle.a.valid
  /\ \A t, l, damaged, eof : KnownBy(t, l, damaged, eof, Idle)
  /\ \A f : ~ReadsActive(f, Idle)
  /\ \A n : UpToDate(n, Idle)
<1>1. Idle.step = "idle" /\ Idle.a = BrokenSlot /\ Idle.todo = <<>> /\ ~BrokenSlot.valid
  BY DEF Idle, BrokenSlot
<1>2. Idle \in ReadRecords
  BY ReaderAssumption DEF Idle, ReadRecords, Slot
<1> QED BY <1>1, <1>2 DEF KnownBy, ReadsActive, UpToDate

LEMMA StartSafe ==
  ASSUME ReadSafe, NEW p \in Readers, NEW op \in {"read_index", "refresh"}, Start(p, op)
  PROVE  ReadSafe'
<1>1. PICK r : r = [Idle EXCEPT !.op = op, !.step = "slot_a", !.tries = reader_retry_budget,
                                !.from = Generation, !.quiet = (lock = NoProc)]
  OBVIOUS
<1>2. /\ p \in opened /\ p # lock /\ UNCHANGED vars /\ view' = view
      /\ rd' = [rd EXCEPT ![p] = r]
  BY <1>1 DEF Start
<1>3. Safe /\ view[p] \in Views /\ view \in [Readers -> Views] /\ Len(log) \in Nat
  BY OneReader
<1>4. Generation = Len(log)
  BY <1>3, ActiveFacts DEF Safe, Generation
<1>5. /\ r.step = "slot_a" /\ r.a = BrokenSlot /\ r.todo = <<>> /\ r.got = <<>>
      /\ r.from = Generation /\ r.quiet = (lock = NoProc) /\ r.op = op /\ r.tries = reader_retry_budget
      /\ r = [op |-> r.op, step |-> r.step, a |-> r.a, todo |-> r.todo, got |-> r.got,
              tries |-> r.tries, from |-> r.from, quiet |-> r.quiet]
  BY <1>1 DEF Idle
<1>6. r \in ReadRecords
  <2>1. BrokenSlot \in Slot /\ <<>> \in Seq(Locator) /\ <<>> \in Seq(Cell)
        /\ reader_retry_budget \in 0 .. reader_retry_budget
    BY ReaderAssumption DEF Slot
  <2> QED BY <1>3, <1>4, <1>5, <2>1 DEF ReadRecords
<1>7. ~BrokenSlot.valid
  BY DEF BrokenSlot
<1>8. KnownBy(txns, log, lost, disk.eof, r) /\ ~ReadsActive(file, r) /\ UpToDate(Len(log), r)
  BY <1>3, <1>4, <1>5, <1>7 DEF KnownBy, ReadsActive, UpToDate
<1>9. Undisturbed(file, r)
  BY <1>5 DEF Undisturbed, Generation
<1>10. view' = [view EXCEPT ![p] = view[p]]
  BY <1>2, <1>3
<1>11. /\ Safe'
       /\ <<file, disk, opened, lock, pc, txns, log, lost>>'
            = <<file, disk, opened, lock, pc, txns, log, lost>>
  BY <1>2, <1>3, BlobUntouched
<1>12. Committed(log, view[p]) /\ Recent(view[p]) /\ Found(lost, view[p])
  BY OneReader
<1> QED BY <1>2, <1>3, <1>5, <1>6, <1>8, <1>9, <1>10, <1>11, <1>12, ReaderMoves

LEMMA ReadSlotASafe ==
  ASSUME ReadSafe, NEW p \in Readers, ReadSlotA(p)
  PROVE  ReadSafe'
<1>1. PICK r : r = [rd[p] EXCEPT !.a = file.slot[0], !.step = "slot_b"]
  OBVIOUS
<1>2. /\ rd[p] \in ReadRecords /\ rd \in [Readers -> ReadRecords] /\ view \in [Readers -> Views]
      /\ KnownBy(txns, log, lost, disk.eof, rd[p]) /\ UpToDate(Len(log), rd[p])
      /\ Safe /\ SlotsNear /\ Len(log) \in Nat
  BY OneReader
<1>3. /\ rd[p].step = "slot_a" /\ UNCHANGED vars /\ view' = view
      /\ rd' = [rd EXCEPT ![p] = r]
  BY <1>1, <1>2 DEF ReadSlotA
<1>4. /\ r.step = "slot_b" /\ r.a = file.slot[0] /\ r.todo = rd[p].todo /\ r.got = rd[p].got
      /\ r.from = rd[p].from /\ r.quiet = rd[p].quiet /\ r.op = rd[p].op /\ r.tries = rd[p].tries
      /\ r = [op |-> r.op, step |-> r.step, a |-> r.a, todo |-> r.todo, got |-> r.got,
              tries |-> r.tries, from |-> r.from, quiet |-> r.quiet]
  BY <1>1, <1>2 DEF ReadRecords
<1>5. file.slot[0] \in Slot
  BY <1>2, Typed DEF Safe, IsImage
<1>6. r \in ReadRecords
  BY <1>2, <1>4, <1>5 DEF ReadRecords
<1>7. file.slot[0].valid => /\ Known(txns, log, lost, disk.eof, file.slot[0].loc)
                            /\ file.slot[0].loc.generation + 1 >= Len(log)
  BY <1>2, SlotKnown
<1>8. KnownBy(txns, log, lost, disk.eof, r) /\ ~ReadsActive(file, r)
  BY <1>2, <1>4, <1>7 DEF KnownBy, ReadsActive
<1>9. UpToDate(Len(log), r)
  <2>1. /\ rd[p].from <= Len(log) /\ rd[p].from \in Nat
        /\ \A k \in DOMAIN rd[p].todo : rd[p].todo[k].generation + 1 >= rd[p].from
    BY <1>2, <1>3 DEF UpToDate, ReadRecords
  <2>2. file.slot[0].valid => file.slot[0].loc.generation + 1 >= rd[p].from
    <3>1. file.slot[0].valid => file.slot[0].loc.generation \in Nat
      BY <1>7 DEF Known, Locator
    <3> QED BY <1>2, <1>7, <2>1, <3>1
  <2> QED BY <1>4, <2>1, <2>2 DEF UpToDate
<1>10. (r.quiet /\ ~lost) => lock = NoProc /\ Undisturbed(file, r)
  <2>1. (rd[p].quiet /\ ~lost) => lock = NoProc /\ Undisturbed(file, rd[p])
    BY <1>3, OneReader
  <2> QED BY <1>4, <2>1 DEF Undisturbed
<1>11. /\ Safe' /\ view' = [view EXCEPT ![p] = view[p]]
       /\ <<file, disk, opened, lock, pc, txns, log, lost>>'
            = <<file, disk, opened, lock, pc, txns, log, lost>>
  BY <1>2, <1>3, BlobUntouched
<1>12. /\ view[p] \in Views /\ Committed(log, view[p]) /\ Recent(view[p]) /\ Found(lost, view[p])
       /\ p \in opened /\ p # lock
  BY <1>3, OneReader
<1> QED BY <1>3, <1>6, <1>8, <1>9, <1>10, <1>11, <1>12, ReaderMoves

\* A call returns.
LEMMA ReturnSafe ==
  ASSUME ReadSafe, Safe', NEW p \in Readers, NEW result \in Views, Return(p, result),
         rd[p].step # "idle",
         <<file, disk, opened, lock, pc, txns, log, lost>>'
           = <<file, disk, opened, lock, pc, txns, log, lost>>,
         Committed(log, result),
         result.ok => result.generation + 1 >= rd[p].from,
         (rd[p].quiet /\ ~lost) => result.ok /\ result.generation = rd[p].from
  PROVE  ReadSafe'
<1>1. PICK v : v = [result EXCEPT !.from = rd[p].from, !.quiet = rd[p].quiet]
  OBVIOUS
<1>2. rd[p] \in ReadRecords /\ view \in [Readers -> Views]
  BY OneReader
<1>3. rd' = [rd EXCEPT ![p] = Idle] /\ view' = [view EXCEPT ![p] = v]
  BY <1>1 DEF Return
<1>4. /\ v.ok = result.ok /\ v.generation = result.generation /\ v.index = result.index
      /\ v.error = result.error /\ v.from = rd[p].from /\ v.quiet = rd[p].quiet
      /\ v = [ok |-> v.ok, generation |-> v.generation, index |-> v.index, error |-> v.error,
              from |-> v.from, quiet |-> v.quiet]
  BY <1>1 DEF Views
<1>5. v \in Views
  BY <1>2, <1>4 DEF Views, ReadRecords
<1>6. Committed(log, v)
  BY <1>4 DEF Committed
<1>7. Recent(v) /\ Found(lost, v)
  BY <1>4 DEF Recent, Found
<1> HIDE DEF Idle
<1> QED BY <1>3, <1>5, <1>6, <1>7, IdleHolds, ReaderMoves

\* The locators in the order in which they are tried.
LEMMA SortedFacts ==
  ASSUME NEW a \in Slot, NEW b \in Slot
  PROVE  /\ Sorted(a, b) \in Seq(Locator)
         /\ Sorted(a, b) = <<>> <=> ~a.valid /\ ~b.valid
         /\ \A k \in DOMAIN Sorted(a, b) : \/ a.valid /\ Sorted(a, b)[k] = a.loc
                                           \/ b.valid /\ Sorted(a, b)[k] = b.loc
         /\ Sorted(a, b) # <<>> =>
              Head(Sorted(a, b)) = IF ~b.valid \/ (a.valid /\ a.loc.generation >= b.loc.generation)
                                   THEN a.loc ELSE b.loc
<1>1. (a.valid => a.loc \in Locator) /\ (b.valid => b.loc \in Locator)
  <2>1. \A s \in Slot : s.valid => s.loc \in Locator
    <3> TAKE s \in Slot
    <3>1. CASE s \in [valid : {TRUE}, loc : Locator]
      BY <3>1
    <3>2. CASE s = BrokenSlot
      BY <3>2 DEF BrokenSlot
    <3> QED BY <3>1, <3>2 DEF Slot
  <2> QED BY <2>1
<1>2. /\ a.valid => a.loc.generation \in Nat
      /\ b.valid => b.loc.generation \in Nat
  BY <1>1 DEF Locator
<1>3. CASE a.valid /\ b.valid /\ b.loc.generation > a.loc.generation
  <2>1. Sorted(a, b) = <<b.loc>> \o <<a.loc>>
    BY <1>3 DEF Sorted
  <2> QED BY <1>1, <1>2, <1>3, <2>1
<1>4. CASE a.valid /\ b.valid /\ ~(b.loc.generation > a.loc.generation)
  <2>1. Sorted(a, b) = <<a.loc>> \o <<b.loc>>
    BY <1>4 DEF Sorted
  <2> QED BY <1>1, <1>2, <1>4, <2>1
<1>5. CASE a.valid /\ ~b.valid
  <2>1. Sorted(a, b) = <<a.loc>>
    BY <1>5 DEF Sorted
  <2> QED BY <1>1, <1>5, <2>1
<1>6. CASE ~a.valid /\ b.valid
  <2>1. Sorted(a, b) = <<b.loc>>
    BY <1>6 DEF Sorted
  <2> QED BY <1>1, <1>6, <2>1
<1>7. CASE ~a.valid /\ ~b.valid
  <2>1. Sorted(a, b) = <<>>
    BY <1>7 DEF Sorted
  <2> QED BY <1>7, <2>1
<1> QED BY <1>3, <1>4, <1>5, <1>6, <1>7

LEMMA ErrFacts ==
  ASSUME NEW e \in {"NoValidLocator", "IndexChainBroken", "RetryBudgetExceeded"}
  PROVE  Err(e) \in Views /\ ~Err(e).ok
BY DEF Err, NoView, Views

LEMMA ReadSlotBSafe ==
  ASSUME ReadSafe, NEW p \in Readers, ReadSlotB(p)
  PROVE  ReadSafe'
<1>1. PICK locators : locators = Sorted(rd[p].a, file.slot[1])
  OBVIOUS
<1>2. /\ rd[p] \in ReadRecords /\ rd \in [Readers -> ReadRecords] /\ view \in [Readers -> Views]
      /\ KnownBy(txns, log, lost, disk.eof, rd[p]) /\ UpToDate(Len(log), rd[p])
      /\ Safe /\ SlotsNear /\ Len(log) \in Nat
  BY OneReader
<1>3. /\ rd[p].step = "slot_b" /\ UNCHANGED vars
      /\ IF locators = <<>>
         THEN Return(p, Err("NoValidLocator"))
         ELSE /\ rd' = [rd EXCEPT ![p].step = "index", ![p].a = BrokenSlot,
                          ![p].todo = locators, ![p].got = <<>>]
              /\ UNCHANGED view
  BY <1>1 DEF ReadSlotB
<1>4. rd[p].a \in Slot /\ file.slot[1] \in Slot /\ file.slot[0] \in Slot
  BY <1>2, Typed DEF Safe, IsImage, ReadRecords
<1>5. /\ locators \in Seq(Locator)
      /\ locators = <<>> <=> ~rd[p].a.valid /\ ~file.slot[1].valid
      /\ \A k \in DOMAIN locators : \/ rd[p].a.valid /\ locators[k] = rd[p].a.loc
                                    \/ file.slot[1].valid /\ locators[k] = file.slot[1].loc
      /\ (rd[p].a = file.slot[0] /\ locators # <<>>) => Head(locators) = ActiveLocator(file)
  <2>1. PICK a : a = rd[p].a
    OBVIOUS
  <2>2. PICK b : b = file.slot[1]
    OBVIOUS
  <2>3. /\ locators \in Seq(Locator)
        /\ locators = <<>> <=> ~a.valid /\ ~b.valid
        /\ \A k \in DOMAIN locators : \/ a.valid /\ locators[k] = a.loc
                                      \/ b.valid /\ locators[k] = b.loc
        /\ locators # <<>> =>
             Head(locators) = IF ~b.valid \/ (a.valid /\ a.loc.generation >= b.loc.generation)
                              THEN a.loc ELSE b.loc
    BY <1>1, <1>4, <2>1, <2>2, SortedFacts, SMTT(60)
  <2>4. a = file.slot[0] =>
          ActiveLocator(file) = IF ~b.valid \/ (a.valid /\ a.loc.generation >= b.loc.generation)
                                THEN a.loc ELSE b.loc
    BY <2>2 DEF ActiveLocator
  <2>5. (a = file.slot[0] /\ locators # <<>>) => Head(locators) = ActiveLocator(file)
    BY <2>3, <2>4
  <2> QED BY <2>1, <2>2, <2>3, <2>5
<1>6. /\ Safe'
      /\ <<file, disk, opened, lock, pc, txns, log, lost>>'
           = <<file, disk, opened, lock, pc, txns, log, lost>>
  BY <1>2, <1>3, BlobUntouched
<1>7. /\ view[p] \in Views /\ Committed(log, view[p]) /\ Recent(view[p]) /\ Found(lost, view[p])
      /\ p \in opened /\ p # lock
      /\ (rd[p].quiet /\ ~lost) => lock = NoProc /\ Undisturbed(file, rd[p])
  BY <1>3, OneReader
<1>8. (rd[p].quiet /\ ~lost) => rd[p].a = file.slot[0]
  BY <1>3, <1>7 DEF Undisturbed
<1>9. CASE locators = <<>>
  <2>1. Return(p, Err("NoValidLocator"))
    BY <1>3, <1>9
  <2>2. Err("NoValidLocator") \in Views /\ ~Err("NoValidLocator").ok
    BY ErrFacts
  <2>3. ~(rd[p].quiet /\ ~lost)
    <3>1. ValidSlots(file) # {}
      BY <1>2, ActiveFacts DEF Safe
    <3>2. file.slot[0].valid \/ file.slot[1].valid
      BY <3>1 DEF ValidSlots
    <3> QED BY <1>5, <1>8, <1>9, <3>2
  <2>4. Committed(log, Err("NoValidLocator"))
    BY <2>2 DEF Committed
  <2>5. Safe'
    BY <1>2, <1>3, BlobUntouched
  <2> QED BY <1>3, <1>6, <2>1, <2>2, <2>3, <2>4, <2>5, ReturnSafe
<1>10. CASE locators # <<>>
  <2>1. PICK r : r = [rd[p] EXCEPT !.step = "index", !.a = BrokenSlot, !.todo = locators, !.got = <<>>]
    OBVIOUS
  <2>2. rd' = [rd EXCEPT ![p] = r] /\ view' = view
    BY <1>2, <1>3, <1>10, <2>1
  <2>3. /\ r.step = "index" /\ r.a = BrokenSlot /\ r.todo = locators /\ r.got = <<>>
        /\ r.from = rd[p].from /\ r.quiet = rd[p].quiet /\ r.op = rd[p].op /\ r.tries = rd[p].tries
        /\ r = [op |-> r.op, step |-> r.step, a |-> r.a, todo |-> r.todo, got |-> r.got,
                tries |-> r.tries, from |-> r.from, quiet |-> r.quiet]
    BY <1>2, <2>1 DEF ReadRecords
  <2>4. r \in ReadRecords
    <3>1. BrokenSlot \in Slot /\ <<>> \in Seq(Cell)
      BY DEF Slot
    <3> QED BY <1>2, <1>5, <2>3, <3>1 DEF ReadRecords
  <2>5. /\ ~BrokenSlot.valid
        /\ file.slot[1].valid => /\ Known(txns, log, lost, disk.eof, file.slot[1].loc)
                                 /\ file.slot[1].loc.generation + 1 >= Len(log)
    BY <1>2, SlotKnown DEF BrokenSlot
  <2>6. KnownBy(txns, log, lost, disk.eof, r)
    BY <1>2, <1>5, <1>10, <2>3, <2>5 DEF KnownBy
  <2>7. Unchanged(file, r)
    BY <2>3 DEF Unchanged
  <2>8. UpToDate(Len(log), r)
    <3>1. /\ rd[p].from <= Len(log) /\ rd[p].from \in Nat
          /\ rd[p].a.valid => rd[p].a.loc.generation + 1 >= rd[p].from
      BY <1>2, <1>3 DEF UpToDate, ReadRecords
    <3>2. file.slot[1].valid => file.slot[1].loc.generation + 1 >= rd[p].from
      <4>1. file.slot[1].valid => file.slot[1].loc.generation \in Nat
        BY <2>5 DEF Known, Locator
      <4> QED BY <1>2, <2>5, <3>1, <4>1
    <3> QED BY <1>5, <2>3, <2>5, <3>1, <3>2 DEF UpToDate
  <2>9. (r.quiet /\ ~lost) => lock = NoProc /\ Undisturbed(file, r)
    BY <1>5, <1>7, <1>8, <1>10, <2>3, <2>7 DEF Undisturbed, ReadsActive
  <2>10. Safe' /\ view' = [view EXCEPT ![p] = view[p]]
    BY <1>2, <1>3, <2>2, BlobUntouched
  <2> QED BY <1>6, <1>7, <2>2, <2>4, <2>6, <2>7, <2>8, <2>9, <2>10, ReaderMoves
<1> QED BY <1>9, <1>10

LEMMA ReadUnitSafe ==
  ASSUME ReadSafe, NEW p \in Readers, ReadUnit(p)
  PROVE  ReadSafe'
<1>1. /\ rd[p] \in ReadRecords /\ rd \in [Readers -> ReadRecords] /\ view \in [Readers -> Views]
      /\ KnownBy(txns, log, lost, disk.eof, rd[p]) /\ UpToDate(Len(log), rd[p])
      /\ Safe /\ Len(log) \in Nat
  BY OneReader
<1>2. PICK loc : loc = Head(rd[p].todo)
  OBVIOUS
<1>3. PICK cell : cell = file.body[loc.index_offset + Len(rd[p].got)]
  OBVIOUS
<1>4. PICK r : r = [rd[p] EXCEPT !.got = Append(@, cell)]
  OBVIOUS
<1>5. /\ rd[p].step = "index" /\ UNCHANGED vars /\ view' = view
      /\ Len(rd[p].got) < loc.index_length
      /\ rd' = [rd EXCEPT ![p] = r]
  BY <1>1, <1>2, <1>3, <1>4 DEF ReadUnit
<1>6. /\ r.step = "index" /\ r.a = rd[p].a /\ r.todo = rd[p].todo /\ r.got = Append(rd[p].got, cell)
      /\ r.from = rd[p].from /\ r.quiet = rd[p].quiet /\ r.op = rd[p].op /\ r.tries = rd[p].tries
      /\ r = [op |-> r.op, step |-> r.step, a |-> r.a, todo |-> r.todo, got |-> r.got,
              tries |-> r.tries, from |-> r.from, quiet |-> r.quiet]
  BY <1>1, <1>4, <1>5 DEF ReadRecords
<1>7. rd[p].got \in Seq(Cell) /\ rd[p].todo \in Seq(Locator) /\ rd[p].todo # <<>>
  BY <1>1, <1>5 DEF ReadRecords, KnownBy
<1>8. cell \in Cell
  <2>1. Known(txns, log, lost, disk.eof, loc)
    BY <1>1, <1>2, <1>7 DEF KnownBy
  <2>2. /\ loc.index_offset \in Nat /\ loc.index_length \in Nat
        /\ FRONT_MATTER_LEN <= loc.index_offset /\ loc.index_offset + loc.index_length <= disk.eof
    BY <2>1 DEF Known, Locator, IndexEnd
  <2>3. disk.eof <= file.eof /\ disk.eof \in Nat /\ file.eof \in Nat /\ IsImage(file)
    BY <1>1, Typed DEF Safe
  <2>4. loc.index_offset + Len(rd[p].got) \in FRONT_MATTER_LEN .. file.eof - 1
    <3>1. PICK n : n = Len(rd[p].got)
      OBVIOUS
    <3>2. n \in Nat /\ n < loc.index_length
      BY <1>5, <1>7, <3>1
    <3>3. loc.index_offset + n \in FRONT_MATTER_LEN .. file.eof - 1
      BY <2>2, <2>3, <3>2, LayoutAssumption
    <3> QED BY <3>1, <3>3
  <2>5. file.body \in [FRONT_MATTER_LEN .. file.eof - 1 -> Cell]
    BY <2>3 DEF IsImage
  <2> QED BY <1>3, <2>4, <2>5
<1>9. r \in ReadRecords
  <2>1. r.got \in Seq(Cell)
    BY <1>6, <1>7, <1>8
  <2> QED BY <1>1, <1>6, <2>1 DEF ReadRecords
<1>10. KnownBy(txns, log, lost, disk.eof, r)
  BY <1>1, <1>6, <1>7 DEF KnownBy
<1>11. UpToDate(Len(log), r)
  BY <1>1, <1>5, <1>6 DEF UpToDate
<1>12. Unchanged(file, rd[p]) => Unchanged(file, r)
  <2> SUFFICES ASSUME Unchanged(file, rd[p]), NEW i \in DOMAIN r.got
               PROVE  r.got[i] = file.body[Head(r.todo).index_offset + i - 1]
    BY DEF Unchanged
  <2>1. CASE i \in DOMAIN rd[p].got
    BY <1>6, <1>7, <1>8, <2>1 DEF Unchanged
  <2>2. CASE i = Len(rd[p].got) + 1
    <3>1. r.got[i] = cell /\ Head(r.todo) = loc
      BY <1>2, <1>6, <1>7, <1>8, <2>2
    <3>2. loc.index_offset \in Nat
      <4>1. Known(txns, log, lost, disk.eof, loc)
        BY <1>1, <1>2, <1>7 DEF KnownBy
      <4> QED BY <4>1 DEF Known, Locator
    <3>3. loc.index_offset + i - 1 = loc.index_offset + Len(rd[p].got)
      BY <1>7, <2>2, <3>2
    <3> QED BY <1>3, <3>1, <3>3
  <2> QED BY <1>6, <1>7, <1>8, <2>1, <2>2
<1>13. ReadsActive(file, r) <=> ReadsActive(file, rd[p])
  BY <1>5, <1>6 DEF ReadsActive
<1>14. /\ (pc = "free" /\ ReadsActive(file, rd[p])) =>
            Sound(txns, ActiveIndexOn(file, file), ActiveTxns(file), lost) \/ Unchanged(file, rd[p])
       /\ (rd[p].quiet /\ ~lost) => lock = NoProc /\ Undisturbed(file, rd[p])
       /\ view[p] \in Views /\ Committed(log, view[p]) /\ Recent(view[p]) /\ Found(lost, view[p])
       /\ p \in opened /\ p # lock
  BY <1>5, OneReader
<1>15. (r.quiet /\ ~lost) => lock = NoProc /\ Undisturbed(file, r)
  BY <1>5, <1>6, <1>12, <1>13, <1>14 DEF Undisturbed
<1>16. /\ Safe' /\ view' = [view EXCEPT ![p] = view[p]]
       /\ <<file, disk, opened, lock, pc, txns, log, lost>>'
            = <<file, disk, opened, lock, pc, txns, log, lost>>
  BY <1>1, <1>5, BlobUntouched
<1> QED BY <1>5, <1>9, <1>10, <1>11, <1>12, <1>13, <1>14, <1>15, <1>16, ReaderMoves

-----------------------------------------------------------------------------
(* What a whole index gives. *)

\* A reader that no writer disturbed finds the index of the active locator.
LEMMA QuietIndexReads ==
  ASSUME ReadSafe, NEW p \in Readers, WholeIndexRead(p), rd[p].quiet, ~lost
  PROVE  /\ Authentic(p) /\ Parses(rd[p].got)
         /\ Head(rd[p].todo).generation = rd[p].from
<1>1. /\ rd[p].step = "index" /\ Safe /\ lock = NoProc /\ Undisturbed(file, rd[p])
      /\ rd[p].got \in Seq(Cell)
  BY OneReader DEF WholeIndexRead, ReadRecords
<1>2. IndInv /\ SlotsSound /\ SlotOrder /\ LogOrdered /\ ActiveIndexKept
  BY <1>1 DEF Safe
<1>3. /\ IsImage(file) /\ file.eof \in Nat /\ txns \in Seq(Txn) /\ log \in Seq(DOMAIN txns)
      /\ Len(log) \in Nat
  BY <1>2, Typed
<1>4. ~Overwriting
  BY <1>1, <1>2 DEF IndInv, TypeOK, Overwriting
<1>5. PICK loc : loc = ActiveLocator(file)
  OBVIOUS
<1>6. /\ Head(rd[p].todo) = loc /\ rd[p].from = loc.generation
      /\ \A i \in DOMAIN rd[p].got : rd[p].got[i] = file.body[loc.index_offset + i - 1]
      /\ Len(rd[p].got) = loc.index_length
  BY <1>1, <1>5 DEF Undisturbed, ReadsActive, Unchanged, WholeIndexRead
<1>7. /\ loc \in Locator /\ loc.index_offset \in Nat /\ loc.index_length \in Nat
      /\ loc.generation \in 0 .. Len(log) /\ LocatorSound(txns, log, loc, lost)
  BY <1>2, <1>5, ActiveFacts
<1>8. PICK m : m = loc.index_length
  OBVIOUS
<1>9. PICK o : o = loc.index_offset
  OBVIOUS
<1>10. PICK g : g = loc.generation
  OBVIOUS
<1>11. /\ \A h \in 1 .. g : EntryEnd(txns, log[h]) <= m
       /\ Len(loc.index_mac) = m /\ Exact(txns, loc.index_mac, Upto(log, g))
  BY <1>7, <1>8, <1>10 DEF LocatorSound, Sound
<1>12. Exact(txns, Ciphertext(file, o, m), Upto(log, g))
  BY <1>2, <1>4, <1>5, <1>8, <1>9, <1>10 DEF ActiveIndexKept, ActiveIndexOn, IndexOn, ActiveTxns
<1>13. m \in Nat /\ o \in Nat /\ g \in 0 .. Len(log)
  BY <1>7, <1>8, <1>9, <1>10
<1>14. DOMAIN rd[p].got = 1 .. m /\ Len(rd[p].got) = m
  BY <1>1, <1>6, <1>8
<1>15. \A i \in 1 .. m : rd[p].got[i] = Ciphertext(file, o, m)[i]
  <2>1. \A i \in 1 .. m : rd[p].got[i] = file.body[o + i - 1]
    BY <1>6, <1>9, <1>14
  <2>2. \A i \in 1 .. m : Ciphertext(file, o, m)[i] = file.body[o + i - 1]
    BY <1>13, CiphertextCells
  <2> QED BY <2>1, <2>2
<1>16. Exact(txns, rd[p].got, Upto(log, g))
  <2>1. DOMAIN Ciphertext(file, o, m) = 1 .. m
    BY <1>13, CiphertextCells
  <2> QED BY <1>12, <1>14, <1>15, <2>1, SameCells
<1>17. loc.index_mac \in Seq(Cell) /\ DOMAIN loc.index_mac = 1 .. m
  BY <1>7, <1>11, <1>13 DEF Locator
<1>18. \A i \in 1 .. m : rd[p].got[i] = loc.index_mac[i]
  BY <1>2, <1>11, <1>13, <1>14, <1>16, <1>17, SameIndex
<1>19. rd[p].got = loc.index_mac
  BY <1>1, <1>14, <1>17, <1>18
<1>20. Parses(rd[p].got)
  BY <1>2, <1>3, <1>11, <1>13, <1>14, <1>16, ExactParses
<1> QED BY <1>6, <1>19, <1>20 DEF Authentic

\* What a reader accepts was committed; if its locator is still the active
\* one, so is the index on file sound.
LEMMA AcceptedIsCommitted ==
  ASSUME ReadSafe, NEW p \in Readers, WholeIndexRead(p), Authentic(p), Parses(rd[p].got),
         NEW loc, loc = Head(rd[p].todo)
  PROVE  /\ loc \in Locator /\ loc.generation <= Len(log)
         /\ loc.generation + 1 >= rd[p].from
         /\ Decode(rd[p].got) = Upto(log, loc.generation)
         /\ Decode(rd[p].got) \subseteq DOMAIN txns
         /\ (pc = "free" /\ loc = ActiveLocator(file)) =>
              Sound(txns, ActiveIndexOn(file, file), ActiveTxns(file), lost)
<1>1. /\ rd[p].step = "index" /\ Safe /\ rd[p] \in ReadRecords
      /\ KnownBy(txns, log, lost, disk.eof, rd[p]) /\ UpToDate(Len(log), rd[p])
  BY OneReader DEF WholeIndexRead
<1>2. rd[p].todo \in Seq(Locator) /\ rd[p].todo # <<>>
  BY <1>1 DEF KnownBy, ReadRecords
<1>3. 1 \in DOMAIN rd[p].todo /\ rd[p].todo[1] = loc
  BY <1>2
<1>4. /\ Known(txns, log, lost, disk.eof, loc)
      /\ loc.generation + 1 >= rd[p].from
  BY <1>1, <1>3 DEF KnownBy, UpToDate
<1>5. rd[p].got = loc.index_mac
  BY DEF Authentic
<1>6. Parses(loc.index_mac)
  BY <1>5
<1>7. /\ Exact(txns, loc.index_mac, Upto(log, loc.generation))
      /\ Decode(loc.index_mac) = Upto(log, loc.generation)
      /\ Upto(log, loc.generation) \subseteq DOMAIN txns
  BY <1>1, <1>4, <1>6, VerifiedIsCommitted
<1>8. ASSUME pc = "free", loc = ActiveLocator(file)
      PROVE  Sound(txns, ActiveIndexOn(file, file), ActiveTxns(file), lost)
  <2>1. CASE Unchanged(file, rd[p])
    <3>1. loc.index_offset \in Nat /\ loc.index_length \in Nat
      BY <1>4 DEF Known, Locator
    <3>2. PICK m : m = loc.index_length
      OBVIOUS
    <3>3. PICK o : o = loc.index_offset
      OBVIOUS
    <3>4. m \in Nat /\ o \in Nat
      BY <3>1, <3>2, <3>3
    <3>5. rd[p].got \in Seq(Cell) /\ Len(rd[p].got) = m
      BY <1>1, <3>2 DEF WholeIndexRead, ReadRecords
    <3>6. DOMAIN rd[p].got = 1 .. m
      BY <3>4, <3>5
    <3>7. \A i \in 1 .. m : rd[p].got[i] = Ciphertext(file, o, m)[i]
      BY <2>1, <3>3, <3>4, <3>6, CiphertextCells DEF Unchanged
    <3>8. DOMAIN Ciphertext(file, o, m) = 1 .. m
      BY <3>4, CiphertextCells
    <3>9. Exact(txns, rd[p].got, Upto(log, loc.generation))
      BY <1>5, <1>7
    <3>10. Exact(txns, Ciphertext(file, o, m), Upto(log, loc.generation))
      BY <3>6, <3>7, <3>8, <3>9, SameCells
    <3> QED BY <1>8, <3>2, <3>3, <3>10 DEF Sound, ActiveIndexOn, IndexOn, ActiveTxns
  <2>2. ReadsActive(file, rd[p])
    BY <1>1, <1>8 DEF ReadsActive
  <2> QED BY <1>8, <2>1, <2>2, OneReader
<1> QED BY <1>4, <1>5, <1>7, <1>8 DEF Known

\* A refresh leaves a snapshot like any other.
LEMMA RefreshSafe ==
  ASSUME ReadSafe, NEW p \in Readers, rd[p].step # "idle",
         NEW loc \in Locator, NEW index, index \subseteq DOMAIN txns,
         loc.generation <= Len(log), index = Upto(log, loc.generation),
         (pc = "free" /\ loc = ActiveLocator(file)) =>
           Sound(txns, ActiveIndexOn(file, file), ActiveTxns(file), lost),
         Keep(p, loc, index)
  PROVE  Safe'
<1>1. Safe /\ IndInv /\ p \in opened /\ txns \in Seq(Txn)
  BY OneReader, Typed DEF Safe
<1>2. /\ committed' = IF rd[p].op = "refresh"
                      THEN [q \in DOMAIN committed \cup {p} |->
                              IF q = p THEN [locator |-> loc, index |-> index]
                              ELSE committed[q]]
                      ELSE committed
      /\ opened' = opened
      /\ <<file, disk, lock, pc, wr, txns, faults, log, acked, stream, exposed, lost>>'
           = <<file, disk, lock, pc, wr, txns, faults, log, acked, stream, exposed, lost>>
  BY DEF Keep, history
<1>3. /\ committed \in [DOMAIN committed -> Snapshot] /\ DOMAIN committed \subseteq opened
      /\ \A q \in DOMAIN committed : committed[q].index \subseteq DOMAIN txns
  BY <1>1 DEF IndInv, TypeOK, SnapshotsInTxns
<1>4. [locator |-> loc, index |-> index] \in Snapshot
  BY <1>1 DEF Snapshot
<1>5. \A q \in DOMAIN committed' :
        \/ q \in DOMAIN committed /\ committed'[q] = committed[q]
        \/ q = p /\ committed'[q] = [locator |-> loc, index |-> index]
  BY <1>2
<1>6. /\ committed' \in [DOMAIN committed' -> Snapshot] /\ DOMAIN committed' \subseteq opened'
      /\ \A q \in DOMAIN committed' : committed'[q].index \subseteq DOMAIN txns
  BY <1>1, <1>2, <1>3, <1>4
<1>7. TypeOK'
  BY <1>1, <1>2, <1>6 DEF IndInv, TypeOK
<1>8. LocatorsInBounds' /\ GenerationsInLog' /\ FramesBounded'
  BY <1>1, <1>2 DEF IndInv, LocatorsInBounds, GenerationsInLog, FramesBounded, ChunkEnd
<1>9. SnapshotsInTxns'
  BY <1>2, <1>6 DEF SnapshotsInTxns
<1>10. CallInBounds'
  BY <1>1, <1>2 DEF IndInv, CallInBounds, id, txn, IndexOffset, IndexLength
<1>11. IndInv'
  BY <1>7, <1>8, <1>9, <1>10 DEF IndInv
<1>12. \A q \in DOMAIN committed' :
         \/ q \in DOMAIN committed /\ committed'[q] = committed[q]
         \/ /\ committed'[q].locator.generation <= Len(log)
            /\ committed'[q].index = Upto(log, committed'[q].locator.generation)
            /\ (pc = "free" /\ committed'[q].locator = ActiveLocator(file)) =>
                 Sound(txns, ActiveIndexOn(file, file), ActiveTxns(file), lost)
  BY <1>5
<1> QED BY <1>1, <1>2, <1>11, <1>12, SnapshotSafe

LEMMA AcceptSafe ==
  ASSUME ReadSafe, NEW p \in Readers, Accept(p)
  PROVE  ReadSafe'
<1>1. PICK loc : loc = Head(rd[p].todo)
  OBVIOUS
<1>2. PICK index : index = Decode(rd[p].got)
  OBVIOUS
<1>3. WholeIndexRead(p) /\ Authentic(p) /\ Parses(rd[p].got) /\ Keep(p, loc, index)
  BY <1>1, <1>2 DEF Accept
<1>4. /\ loc \in Locator /\ loc.generation <= Len(log)
      /\ loc.generation + 1 >= rd[p].from
      /\ index = Upto(log, loc.generation) /\ index \subseteq DOMAIN txns
      /\ (pc = "free" /\ loc = ActiveLocator(file)) =>
           Sound(txns, ActiveIndexOn(file, file), ActiveTxns(file), lost)
  BY <1>1, <1>2, <1>3, AcceptedIsCommitted
<1>5. rd[p].step # "idle"
  BY <1>3 DEF WholeIndexRead
<1>6. Safe'
  BY <1>3, <1>4, <1>5, RefreshSafe
<1>7. PICK result : result = [NoView EXCEPT !.ok = TRUE, !.generation = loc.generation, !.index = index]
  OBVIOUS
<1>8. /\ Return(p, result)
      /\ <<file, disk, opened, lock, pc, txns, log, lost>>'
           = <<file, disk, opened, lock, pc, txns, log, lost>>
  BY <1>3, <1>7 DEF Keep, history
<1>9. /\ result.ok /\ result.generation = loc.generation /\ result.index = index
      /\ result = [ok |-> TRUE, error |-> "none", generation |-> loc.generation, index |-> index,
                   from |-> 0, quiet |-> TRUE]
  BY <1>7 DEF NoView
<1>10. result \in Views
  <2>1. loc.generation \in Nat /\ index \in SUBSET Nat
    <3>1. txns \in Seq(Txn)
      BY OneReader, Typed DEF Safe
    <3> QED BY <1>4, <3>1 DEF Locator
  <2> QED BY <1>9, <2>1 DEF Views
<1>11. Committed(log, result)
  BY <1>4, <1>9 DEF Committed
<1>12. (rd[p].quiet /\ ~lost) => result.ok /\ result.generation = rd[p].from
  BY <1>1, <1>3, <1>9, QuietIndexReads
<1> QED BY <1>4, <1>5, <1>6, <1>8, <1>9, <1>10, <1>11, <1>12, ReturnSafe

\* A call that gives up found an index that is not there any more.
LEMMA FailedReturn ==
  ASSUME ReadSafe, NEW p \in Readers, WholeIndexRead(p), ~Authentic(p) \/ ~Parses(rd[p].got),
         NEW e \in {"NoValidLocator", "IndexChainBroken", "RetryBudgetExceeded"},
         Return(p, Err(e)), UNCHANGED vars
  PROVE  ReadSafe'
<1>1. Err(e) \in Views /\ ~Err(e).ok
  BY ErrFacts
<1>2. rd[p].step # "idle" /\ ~(rd[p].quiet /\ ~lost)
  BY QuietIndexReads DEF WholeIndexRead
<1>3. /\ Safe'
      /\ <<file, disk, opened, lock, pc, txns, log, lost>>'
           = <<file, disk, opened, lock, pc, txns, log, lost>>
  BY OneReader, BlobUntouched
<1>4. PICK result : result = Err(e)
  OBVIOUS
<1>5. Committed(log, result)
  BY <1>1, <1>4 DEF Committed
<1> QED BY <1>1, <1>2, <1>3, <1>4, <1>5, ReturnSafe

LEMMA RetrySafe ==
  ASSUME ReadSafe, NEW p \in Readers, Retry(p)
  PROVE  ReadSafe'
<1>1. /\ WholeIndexRead(p) /\ ~Authentic(p) /\ UNCHANGED vars
      /\ IF rd[p].tries = 0
         THEN Return(p, Err("RetryBudgetExceeded"))
         ELSE /\ rd' = [rd EXCEPT ![p].step = "slot_a", ![p].todo = <<>>,
                                 ![p].got = <<>>, ![p].tries = @ - 1]
              /\ UNCHANGED view
  BY DEF Retry
<1>2. CASE rd[p].tries = 0
  BY <1>1, <1>2, FailedReturn
<1>3. CASE rd[p].tries # 0
  <2>1. PICK r : r = [rd[p] EXCEPT !.step = "slot_a", !.todo = <<>>, !.got = <<>>, !.tries = @ - 1]
    OBVIOUS
  <2>2. /\ rd[p] \in ReadRecords /\ rd \in [Readers -> ReadRecords] /\ view \in [Readers -> Views]
        /\ KnownBy(txns, log, lost, disk.eof, rd[p]) /\ UpToDate(Len(log), rd[p])
        /\ Safe /\ Len(log) \in Nat
    BY OneReader
  <2>3. rd' = [rd EXCEPT ![p] = r] /\ view' = [view EXCEPT ![p] = view[p]]
    BY <1>1, <1>3, <2>1, <2>2
  <2>4. /\ r.step = "slot_a" /\ r.a = rd[p].a /\ r.todo = <<>> /\ r.got = <<>>
        /\ r.from = rd[p].from /\ r.quiet = rd[p].quiet /\ r.op = rd[p].op
        /\ r.tries = rd[p].tries - 1
        /\ r = [op |-> r.op, step |-> r.step, a |-> r.a, todo |-> r.todo, got |-> r.got,
                tries |-> r.tries, from |-> r.from, quiet |-> r.quiet]
    BY <2>1, <2>2 DEF ReadRecords
  <2>5. r \in ReadRecords
    <3>1. rd[p].tries \in 0 .. reader_retry_budget /\ <<>> \in Seq(Locator) /\ <<>> \in Seq(Cell)
      BY <2>2 DEF ReadRecords
    <3>2. rd[p].tries - 1 \in 0 .. reader_retry_budget
      BY <1>3, <3>1, ReaderAssumption
    <3> QED BY <2>2, <2>4, <3>1, <3>2 DEF ReadRecords
  <2>6. KnownBy(txns, log, lost, disk.eof, r) /\ ~ReadsActive(file, r)
    BY <2>2, <2>4 DEF KnownBy, ReadsActive
  <2>7. rd[p].step = "index"
    BY <1>1 DEF WholeIndexRead
  <2>8. UpToDate(Len(log), r)
    BY <2>2, <2>4, <2>7 DEF UpToDate
  <2>9. /\ (rd[p].quiet /\ ~lost) => lock = NoProc /\ Undisturbed(file, rd[p])
        /\ view[p] \in Views /\ Committed(log, view[p]) /\ Recent(view[p]) /\ Found(lost, view[p])
        /\ p \in opened /\ p # lock
    BY <2>7, OneReader
  <2>10. (r.quiet /\ ~lost) => lock = NoProc /\ Undisturbed(file, r)
    BY <2>4, <2>9 DEF Undisturbed
  <2>11. /\ Safe'
         /\ <<file, disk, opened, lock, pc, txns, log, lost>>'
              = <<file, disk, opened, lock, pc, txns, log, lost>>
    BY <1>1, <2>2, BlobUntouched
  <2> QED BY <2>3, <2>5, <2>6, <2>8, <2>9, <2>10, <2>11, ReaderMoves
<1> QED BY <1>2, <1>3

LEMMA RejectSafe ==
  ASSUME ReadSafe, NEW p \in Readers, Reject(p)
  PROVE  ReadSafe'
<1>1. /\ WholeIndexRead(p) /\ ~Parses(rd[p].got) /\ UNCHANGED vars
      /\ Return(p, Err("IndexChainBroken"))
  BY DEF Reject
<1> QED BY <1>1, FailedReturn

LEMMA NextLocatorSafe ==
  ASSUME ReadSafe, NEW p \in Readers, NextLocator(p)
  PROVE  ReadSafe'
<1>1. PICK left : left = Tail(rd[p].todo)
  OBVIOUS
<1>2. /\ WholeIndexRead(p) /\ UNCHANGED vars
      /\ ~Authentic(p) \/ ~Parses(rd[p].got)
      /\ IF left = <<>>
         THEN Return(p, Err("RetryBudgetExceeded"))
         ELSE /\ rd' = [rd EXCEPT ![p].todo = left, ![p].got = <<>>]
              /\ UNCHANGED view
  BY <1>1 DEF NextLocator
<1>3. CASE left = <<>>
  BY <1>2, <1>3, FailedReturn
<1>4. CASE left # <<>>
  <2>1. PICK r : r = [rd[p] EXCEPT !.todo = left, !.got = <<>>]
    OBVIOUS
  <2>2. /\ rd[p] \in ReadRecords /\ rd \in [Readers -> ReadRecords] /\ view \in [Readers -> Views]
        /\ KnownBy(txns, log, lost, disk.eof, rd[p]) /\ UpToDate(Len(log), rd[p])
        /\ Safe /\ Len(log) \in Nat
    BY OneReader
  <2>3. rd' = [rd EXCEPT ![p] = r] /\ view' = [view EXCEPT ![p] = view[p]]
    BY <1>2, <1>4, <2>1, <2>2
  <2>4. rd[p].step = "index"
    BY <1>2 DEF WholeIndexRead
  <2>5. /\ r.step = "index" /\ r.a = rd[p].a /\ r.todo = left /\ r.got = <<>>
        /\ r.from = rd[p].from /\ r.quiet = rd[p].quiet /\ r.op = rd[p].op
        /\ r.tries = rd[p].tries
        /\ r = [op |-> r.op, step |-> r.step, a |-> r.a, todo |-> r.todo, got |-> r.got,
                tries |-> r.tries, from |-> r.from, quiet |-> r.quiet]
    BY <2>1, <2>2, <2>4 DEF ReadRecords
  <2>6. rd[p].todo \in Seq(Locator) /\ rd[p].todo # <<>>
    BY <2>2, <2>4 DEF KnownBy, ReadRecords
  <2>7. /\ left \in Seq(Locator)
        /\ \A k \in DOMAIN left : k + 1 \in DOMAIN rd[p].todo /\ left[k] = rd[p].todo[k + 1]
    BY <1>1, <2>6
  <2>8. r \in ReadRecords
    <3>1. <<>> \in Seq(Cell)
      OBVIOUS
    <3> QED BY <2>2, <2>5, <2>7, <3>1 DEF ReadRecords
  <2>9. KnownBy(txns, log, lost, disk.eof, r)
    BY <1>4, <2>2, <2>5, <2>7 DEF KnownBy
  <2>10. Unchanged(file, r)
    BY <2>5 DEF Unchanged
  <2>11. UpToDate(Len(log), r)
    BY <2>2, <2>4, <2>5, <2>7 DEF UpToDate
  <2>12. ~(r.quiet /\ ~lost)
    BY <1>2, <2>5, QuietIndexReads
  <2>13. /\ view[p] \in Views /\ Committed(log, view[p]) /\ Recent(view[p]) /\ Found(lost, view[p])
         /\ p \in opened /\ p # lock
    BY <2>4, OneReader
  <2>14. /\ Safe'
         /\ <<file, disk, opened, lock, pc, txns, log, lost>>'
              = <<file, disk, opened, lock, pc, txns, log, lost>>
    BY <1>2, <2>2, BlobUntouched
  <2> QED BY <2>3, <2>8, <2>9, <2>10, <2>11, <2>12, <2>13, <2>14, ReaderMoves
<1> QED BY <1>3, <1>4

\* Every step of a reader.
LEMMA ReadStepSafe ==
  ASSUME ReadSafe, NEW p \in Readers, ReadStep(p)
  PROVE  ReadSafe'
BY StartSafe, ReadSlotASafe, ReadSlotBSafe, ReadUnitSafe, AcceptSafe, RetrySafe, RejectSafe,
   NextLocatorSafe DEF ReadStep, ReadIndex, Refresh

-----------------------------------------------------------------------------
(* The writers beside the readers. *)

WriterStep ==
  \/ \E p \in Procs : Open(p) \/ Close(p)
  \/ \E p \in Procs, plan \in Plans : Begin(p, plan)
  \/ WriteStep \/ Fail \/ Kill

LEMMA BodyStep ==
  ASSUME NEW from, NEW to, WriteBody(from, to), Safe
  PROVE  /\ file'.slot = file.slot /\ pc' = to
         /\ <<disk, opened, lock, txns, log, lost>>' = <<disk, opened, lock, txns, log, lost>>
BY DEF WriteBody, procVars, Put

LEMMA SyncStep ==
  ASSUME NEW from, NEW to, SyncBody(from, to)
  PROVE  /\ disk' = file /\ pc' = to
         /\ <<file, opened, lock, txns, log, lost>>' = <<file, opened, lock, txns, log, lost>>
BY DEF SyncBody, procVars

LEMMA AbandonKeeps ==
  ASSUME Abandon
  PROVE  /\ file'.slot = file.slot /\ lock' = NoProc /\ lock # NoProc
         /\ lost => lost'
         /\ <<disk, txns, log>>' = <<disk, txns, log>>
<1>1. file'.slot = file.slot
  BY DEF Abandon, Put
<1> QED BY <1>1 DEF Abandon

\* What a step of the writers leaves of the slots, in four kinds.
Keeps     == file'.slot = file.slot /\ disk' = disk /\ log' = log
Flushes   == file' = file /\ disk' = file /\ log' = log
Seals     == /\ \A i \in {0, 1} : file'.slot[i].valid => file'.slot[i] = file.slot[i]
             /\ disk' = disk /\ log' = log
Publishes == PublishSlot /\ log' = Append(log, id) /\ disk' = disk

LEMMA WriterKinds ==
  ASSUME Safe, WriterStep
  PROVE  Keeps \/ Flushes \/ Seals \/ Publishes
<1>1. ASSUME NEW p \in Procs, Open(p) \/ Close(p) PROVE Keeps
  BY <1>1 DEF Open, Close, Keeps, history
<1>2. ASSUME NEW p \in Procs, NEW plan \in Plans, Begin(p, plan) PROVE Keeps
  BY <1>2 DEF Begin, Keeps, history
<1>3. CASE AppendFrames \/ AppendEntries \/ Grow \/ CopyIndex \/ MoveEntries \/ MoveFrames
  BY <1>3, BodyStep DEF AppendFrames, AppendEntries, Grow, CopyIndex, MoveEntries, MoveFrames, Keeps
<1>4. CASE SyncFrames \/ SyncEntries \/ SyncMoved
  BY <1>4, SyncStep DEF SyncFrames, SyncEntries, SyncMoved, Flushes
<1>5. CASE Seal
  <2>1. file' = PutSlot(file, OtherSlot, BrokenSlot) /\ disk' = disk /\ log' = log
    BY <1>5 DEF Seal, history
  <2>2. IsImage(file) /\ ~BrokenSlot.valid
    BY Typed DEF Safe, BrokenSlot
  <2>3. \A i \in {0, 1} : file'.slot[i] = IF i = OtherSlot THEN BrokenSlot ELSE file.slot[i]
    BY <2>1, <2>2 DEF PutSlot, IsImage
  <2> QED BY <2>1, <2>2, <2>3 DEF Seals
<1>6. CASE PublishSlot
  BY <1>6 DEF PublishSlot, Publishes
<1>7. CASE Commit
  BY <1>7 DEF Commit, Flushes
<1>8. CASE Fail \/ Kill
  BY <1>8, AbandonKeeps DEF Fail, Kill, Keeps
<1> QED BY <1>1, <1>2, <1>3, <1>4, <1>5, <1>6, <1>7, <1>8 DEF WriterStep, WriteStep

LEMMA NearSlots ==
  ASSUME NEW f, NEW g, NEW n, Near(f, n),
         \A i \in {0, 1} : g.slot[i].valid => g.slot[i] = f.slot[i]
  PROVE  Near(g, n)
BY DEF Near

LEMMA SlotsNearKept ==
  ASSUME Safe, Safe', SlotsNear, WriterStep
  PROVE  SlotsNear'
<1>1. Near(file, Len(log)) /\ Near(disk, ActiveLocator(disk).generation)
  BY DEF SlotsNear
<1>2. CASE Keeps
  BY <1>1, <1>2, NearSlots DEF Keeps, SlotsNear
<1>3. CASE Flushes
  <2>1. ActiveLocator(file).generation = Len(log)
    BY ActiveFacts DEF Safe
  <2> QED BY <1>1, <1>3, <2>1 DEF Flushes, SlotsNear
<1>4. CASE Seals
  BY <1>1, <1>4, NearSlots DEF Seals, SlotsNear
<1>5. CASE Publishes
  <2>1. pc' = "sync_slot" /\ disk' = disk
    BY <1>5 DEF Publishes, PublishSlot
  <2>2. Ahead(file', disk', Len(log'), SameSlot')
    BY <2>1 DEF Safe, CallSlots
  <2>3. SameSlot' \in {0, 1} /\ Len(log') \in Nat
    <3>1. wr' \in Locals /\ IndInv'
      BY DEF Safe, IndInv, TypeOK
    <3>2. log' \in Seq(DOMAIN txns')
      BY <3>1 DEF IndInv, TypeOK
    <3> QED BY <3>1, <3>2 DEF SameSlot, Locals, Locator
  <2>4. Near(file', Len(log'))
    <3>1. PICK c \in {0, 1} : c = SameSlot'
      BY <2>3
    <3>2. PICK n \in Nat : n = Len(log')
      BY <2>3
    <3>3. \A i \in {0, 1} : i = c \/ i = 1 - c
      OBVIOUS
    <3>4. Near(file', n)
      BY <2>2, <3>1, <3>2, <3>3 DEF Ahead, Near
    <3> QED BY <3>2, <3>4
  <2> QED BY <1>1, <2>1, <2>4 DEF SlotsNear
<1> QED BY <1>2, <1>3, <1>4, <1>5, WriterKinds

\* A crash leaves two successive generations too.
LEMMA CrashNear ==
  ASSUME Safe, SlotsNear, NEW img \in CrashImages
  PROVE  Near(img, ActiveLocator(img).generation)
<1>1. IndInv /\ SlotsSound /\ SlotOrder /\ IsImage(file) /\ IsImage(disk) /\ Len(log) \in Nat
  BY Typed DEF Safe
<1>2. PICK n \in Nat : n = Len(log)
  BY <1>1
<1>3. PICK G : G = ActiveLocator(img).generation
  OBVIOUS
<1>4. Near(file, n) /\ Near(disk, ActiveLocator(disk).generation)
  BY <1>2 DEF SlotsNear
<1>5. /\ IsImage(img)
      /\ \A i \in {0, 1} : \/ img.slot[i] \in {file.slot[i], disk.slot[i]}
                           \/ img.slot[i] = BrokenSlot
  BY <1>1, CrashCells
<1>6. G \in 0 .. n
  <2>1. PICK f \in {file, disk} : ActiveLocator(img) = ActiveLocator(f)
    BY <1>1, CrashSlots
  <2> QED BY <1>1, <1>2, <1>3, <2>1, ActiveFacts
<1>7. \A i \in {0, 1} : /\ file.slot[i].valid => file.slot[i].loc.generation \in Nat
                        /\ disk.slot[i].valid => disk.slot[i].loc.generation \in Nat
  BY <1>1, SlotGeneration
<1>8. ~BrokenSlot.valid
  BY DEF BrokenSlot
<1>9. PICK c \in {0, 1} : Durable(file, disk, n, c) \/ Ahead(file, disk, n, c)
  BY <1>1, <1>2 DEF SlotOrder
<1>10. CASE Durable(file, disk, n, c)
  <2>1. ActiveLocator(disk).generation = n
    BY <1>1, <1>10, ActiveOfDurable DEF Durable
  <2>2. \A i \in {0, 1} : img.slot[i].valid =>
          img.slot[i].loc.generation \in Nat /\ img.slot[i].loc.generation + 1 >= n
    BY <1>4, <1>5, <1>7, <1>8, <2>1 DEF Near
  <2> QED BY <1>3, <1>6, <2>2 DEF Near
<1>11. CASE Ahead(file, disk, n, c)
  <2>1. ActiveLocator(disk).generation = n - 1
    BY <1>1, <1>11, ActiveOfAhead
  <2>2. /\ file.slot[c].loc.generation = n - 1 /\ file.slot[c] = disk.slot[c]
        /\ file.slot[1 - c].loc.generation = n
        /\ disk.slot[1 - c].valid => disk.slot[1 - c].loc.generation < n - 1
    BY <1>11 DEF Ahead, Older
  <2>3. \A i \in {0, 1} : i = c \/ i = 1 - c
    OBVIOUS
  <2>4. CASE img.slot[1 - c].valid /\ img.slot[1 - c] = disk.slot[1 - c]
    <3>1. \A i \in {0, 1} : img.slot[i].valid =>
            /\ img.slot[i].loc.generation \in Nat
            /\ img.slot[i].loc.generation <= n - 1 /\ img.slot[i].loc.generation + 1 >= n - 1
      BY <1>4, <1>5, <1>7, <1>8, <2>1, <2>2, <2>3, <2>4 DEF Near
    <3>2. \E i \in ValidSlots(img) : ActiveLocator(img) = img.slot[i].loc
      BY <1>5, <2>4, ActiveIsValid DEF ValidSlots
    <3>3. G <= n - 1
      BY <1>3, <3>1, <3>2 DEF ValidSlots
    <3> QED BY <1>3, <1>6, <3>1, <3>3 DEF Near
  <2>5. CASE ~(img.slot[1 - c].valid /\ img.slot[1 - c] = disk.slot[1 - c])
    <3>1. \A i \in {0, 1} : img.slot[i].valid =>
            img.slot[i].loc.generation \in Nat /\ img.slot[i].loc.generation + 1 >= n
      BY <1>5, <1>7, <1>8, <2>2, <2>3, <2>5
    <3> QED BY <1>3, <1>6, <3>1 DEF Near
  <2> QED BY <2>4, <2>5
<1> QED BY <1>9, <1>10, <1>11

\* The writers only add: transactions, generations, length on disk.
LEMMA WritersAdd ==
  ASSUME Safe, WriterStep
  PROVE  /\ \A i \in DOMAIN txns : txns'[i] = txns[i]
         /\ log' = log \/ (log' = Append(log, id) /\ txns' = txns /\ id \in DOMAIN txns)
         /\ lost => lost'
         /\ disk.eof <= disk'.eof
<1>1. IndInv /\ txns \in Seq(Txn) /\ disk.eof \in Nat /\ disk.eof <= file.eof
  BY Typed DEF Safe
<1>2. ASSUME NEW p \in Procs, Open(p) \/ Close(p)
      PROVE  <<txns, log, lost, disk>>' = <<txns, log, lost, disk>>
  BY <1>2 DEF Open, Close, history
<1>3. ASSUME NEW p \in Procs, NEW plan \in Plans, Begin(p, plan)
      PROVE  /\ \A i \in DOMAIN txns : txns'[i] = txns[i]
             /\ <<log, lost, disk>>' = <<log, lost, disk>>
  <2>1. PICK t : txns' = Append(txns, t)
    BY <1>3 DEF Begin
  <2>2. \A i \in DOMAIN txns : txns'[i] = txns[i]
    BY <1>1, <2>1
  <2> QED BY <1>3, <2>2 DEF Begin, history
<1>4. CASE AppendFrames \/ AppendEntries \/ Grow \/ CopyIndex \/ MoveEntries \/ MoveFrames
  <2>1. <<txns, log, lost, disk>>' = <<txns, log, lost, disk>>
    BY <1>4, BodyStep DEF AppendFrames, AppendEntries, Grow, CopyIndex, MoveEntries, MoveFrames
  <2> QED BY <1>1, <2>1
<1>5. CASE SyncFrames \/ SyncEntries \/ SyncMoved
  <2>1. <<txns, log, lost>>' = <<txns, log, lost>> /\ disk' = file
    BY <1>5, SyncStep DEF SyncFrames, SyncEntries, SyncMoved
  <2> QED BY <1>1, <2>1
<1>6. CASE Seal
  <2>1. <<txns, log, lost, disk>>' = <<txns, log, lost, disk>>
    BY <1>6 DEF Seal, history
  <2> QED BY <1>1, <2>1
<1>7. CASE PublishSlot
  <2>1. /\ <<txns, lost, disk>>' = <<txns, lost, disk>> /\ log' = Append(log, id)
        /\ pc = "slot"
    BY <1>7 DEF PublishSlot
  <2>2. id \in DOMAIN txns
    BY <1>1, <2>1, CallTypes
  <2> QED BY <1>1, <2>1, <2>2
<1>8. CASE Commit
  <2>1. <<txns, log, lost>>' = <<txns, log, lost>> /\ disk' = file
    BY <1>8 DEF Commit
  <2> QED BY <1>1, <2>1
<1>9. CASE Fail \/ Kill
  <2>1. /\ <<txns, log, disk>>' = <<txns, log, disk>>
        /\ lost => lost'
    BY <1>9, AbandonKeeps DEF Fail, Kill
  <2> QED BY <1>1, <2>1
<1>10. CASE \E p \in Procs : Open(p) \/ Close(p)
  <2>1. <<txns, log, lost, disk>>' = <<txns, log, lost, disk>>
    BY <1>2, <1>10
  <2> QED BY <1>1, <2>1
<1>11. CASE \E p \in Procs, plan \in Plans : Begin(p, plan)
  <2>1. /\ \A i \in DOMAIN txns : txns'[i] = txns[i]
        /\ <<log, lost, disk>>' = <<log, lost, disk>>
    BY <1>3, <1>11
  <2> QED BY <1>1, <2>1
<1> QED BY <1>4, <1>5, <1>6, <1>7, <1>8, <1>9, <1>10, <1>11 DEF WriterStep, WriteStep

\* So a locator that was committed stays one.
LEMMA KnownStays ==
  ASSUME Safe, Safe', WriterStep, NEW loc, Known(txns, log, lost, disk.eof, loc)
  PROVE  Known(txns', log', lost', disk'.eof, loc)
<1>1. /\ txns \in Seq(Txn) /\ log \in Seq(DOMAIN txns) /\ Len(log) \in Nat /\ disk.eof \in Nat
      /\ IndInv'
  BY Typed DEF Safe
<1>2. txns' \in Seq(Txn) /\ IsImage(disk')
  BY <1>1 DEF IndInv, TypeOK
<1>3. disk'.eof \in Nat
  BY <1>2 DEF IsImage
<1>4. /\ loc \in Locator /\ loc.generation \in Nat /\ loc.generation <= Len(log)
      /\ loc.index_offset \in Nat /\ loc.index_length \in Nat
      /\ LocatorSound(txns, log, loc, lost)
      /\ FRONT_MATTER_LEN <= loc.index_offset /\ IndexEnd(loc) <= disk.eof
  BY DEF Known, Locator
<1>5. loc.generation \in 0 .. Len(log)
  BY <1>1, <1>4
<1>6. /\ \A i \in DOMAIN txns : txns'[i] = txns[i]
      /\ log' = log \/ (log' = Append(log, id) /\ txns' = txns /\ id \in DOMAIN txns)
      /\ lost => lost'
      /\ disk.eof <= disk'.eof
  BY WritersAdd
<1>7. LocatorSound(txns', log, loc, lost)
  BY <1>1, <1>2, <1>4, <1>5, <1>6, MoreTxns
<1>8. LocatorSound(txns', log', loc, lost)
  <2>1. CASE log' = log
    BY <1>7, <2>1
  <2>2. CASE log' = Append(log, id) /\ txns' = txns /\ id \in DOMAIN txns
    BY <1>1, <1>4, <1>5, <2>2, LocatorSoundAppend
  <2> QED BY <1>6, <2>1, <2>2
<1>9. LocatorSound(txns', log', loc, lost')
  BY <1>6, <1>8, LocatorSoundWeaker
<1>10. Len(log) <= Len(log') /\ Len(log') \in Nat
  BY <1>1, <1>6
<1>11. IndexEnd(loc) <= disk'.eof
  BY <1>1, <1>3, <1>4, <1>6 DEF IndexEnd
<1>12. loc.generation <= Len(log')
  BY <1>1, <1>4, <1>10
<1> QED BY <1>4, <1>9, <1>11, <1>12 DEF Known

\* A returned generation stays as it is.
LEMMA CommittedStays ==
  ASSUME Safe, WriterStep, NEW v \in Views, Committed(log, v)
  PROVE  Committed(log', v)
<1>1. txns \in Seq(Txn) /\ log \in Seq(DOMAIN txns) /\ Len(log) \in Nat
  BY Typed DEF Safe
<1>2. log' = log \/ (log' = Append(log, id) /\ id \in DOMAIN txns)
  BY WritersAdd
<1>3. CASE log' = log
  BY <1>3
<1>4. CASE log' = Append(log, id) /\ id \in DOMAIN txns /\ v.ok
  <2>1. v.generation \in 0 .. Len(log) /\ v.index = Upto(log, v.generation)
    BY <1>1, <1>4 DEF Committed, Views
  <2>2. Upto(log', v.generation) = Upto(log, v.generation)
    BY <1>1, <1>4, <2>1, UptoAppend
  <2>3. v.generation <= Len(log')
    BY <1>1, <1>4, <2>1
  <2> QED BY <2>1, <2>2, <2>3 DEF Committed
<1>5. CASE ~v.ok
  BY <1>5 DEF Committed
<1> QED BY <1>2, <1>3, <1>4, <1>5

\* When nobody is inside write_chunks after a step: nobody was, or the step
\* is the end of a call.
LEMMA FreeAfter ==
  ASSUME Safe, WriterStep, pc' = "free"
  PROVE  \/ pc = "free" /\ <<file, txns, log, lost>>' = <<file, txns, log, lost>>
         \/ Abandon \/ Commit
<1>1. ASSUME NEW p \in Procs, Open(p) \/ Close(p)
      PROVE  <<pc, file, txns, log, lost>>' = <<pc, file, txns, log, lost>>
  BY <1>1 DEF Open, Close, history
<1>2. ASSUME NEW p \in Procs, NEW plan \in Plans, Begin(p, plan)
      PROVE  FALSE
  BY <1>2 DEF Begin
<1>3. CASE AppendFrames \/ AppendEntries \/ Grow \/ CopyIndex \/ MoveEntries \/ MoveFrames
  BY <1>3, BodyStep DEF AppendFrames, AppendEntries, Grow, CopyIndex, MoveEntries, MoveFrames
<1>4. CASE SyncFrames \/ SyncEntries \/ SyncMoved
  BY <1>4, SyncStep DEF SyncFrames, SyncEntries, SyncMoved
<1>5. CASE Seal \/ PublishSlot
  BY <1>5 DEF Seal, PublishSlot
<1>6. CASE \E p \in Procs : Open(p) \/ Close(p)
  <2>1. <<pc, file, txns, log, lost>>' = <<pc, file, txns, log, lost>>
    BY <1>1, <1>6
  <2> QED BY <2>1
<1>7. CASE \E p \in Procs, plan \in Plans : Begin(p, plan)
  BY <1>2, <1>7
<1> QED BY <1>3, <1>4, <1>5, <1>6, <1>7 DEF WriterStep, WriteStep, Fail, Kill

\* A process keeps its blob, outside write_chunks, while it reads.
LEMMA ReadersKeepHandles ==
  ASSUME Safe, ReadTypeOK, HandleStep, NEW p \in Readers, rd[p].step # "idle"
  PROVE  p \in opened' /\ p # lock'
<1>1. /\ p \in opened /\ p # lock /\ Reading(p) /\ p \in Procs /\ p # NoProc
  BY ReadTypes, ReaderAssumption, WriterAssumption DEF Reading
<1>2. CASE \E q \in Procs : Open(q) \/ (~Reading(q) /\ Close(q))
  BY <1>1, <1>2 DEF Open, Close, Drop
<1>3. CASE \E q \in Procs, plan \in Plans : ~Reading(q) /\ Begin(q, plan)
  BY <1>1, <1>3 DEF Begin, procVars
<1>4. CASE AppendFrames \/ AppendEntries \/ Grow \/ CopyIndex \/ MoveEntries \/ MoveFrames
  BY <1>1, <1>4, BodyStep DEF AppendFrames, AppendEntries, Grow, CopyIndex, MoveEntries, MoveFrames
<1>5. CASE SyncFrames \/ SyncEntries \/ SyncMoved
  BY <1>1, <1>5, SyncStep DEF SyncFrames, SyncEntries, SyncMoved
<1>6. CASE Seal \/ PublishSlot
  BY <1>1, <1>6 DEF Seal, PublishSlot, procVars
<1>7. CASE Commit
  BY <1>1, <1>7 DEF Commit
<1>8. CASE Fail
  <2>1. lock' = NoProc
    BY <1>8, AbandonKeeps DEF Fail
  <2> QED BY <1>1, <1>8, <2>1 DEF Fail, procVars
<1>9. CASE Kill
  <2>1. lock' = NoProc
    BY <1>9, AbandonKeeps DEF Kill
  <2> QED BY <1>1, <1>9, <2>1 DEF Kill, Drop
<1> QED BY <1>2, <1>3, <1>4, <1>5, <1>6, <1>7, <1>8, <1>9 DEF HandleStep, WriteStep

\* A step of a writer: a reader only learns that it was not alone.
LEMMA WritersBeside ==
  ASSUME ReadSafe, HandleStep
  PROVE  ReadSafe'
<1>1. /\ Safe /\ ReadTypeOK /\ ReadersKnow /\ SlotsNear /\ ReadersUpToDate /\ QuietReads /\ ViewsGood
      /\ rd \in [Readers -> ReadRecords] /\ view \in [Readers -> Views] /\ Len(log) \in Nat
  BY ReadTypes, Typed DEF ReadSafe, Safe
<1>2. WriterStep /\ view' = view
  BY DEF HandleStep, WriterStep
<1>3. Safe'
  <2>1. Next
    BY <1>2 DEF WriterStep, Next
  <2> QED BY <1>1, <2>1, NextSafe
<1>4. \A p \in Readers :
        /\ rd'[p] \in ReadRecords
        /\ rd'[p].step = rd[p].step /\ rd'[p].a = rd[p].a /\ rd'[p].todo = rd[p].todo
        /\ rd'[p].got = rd[p].got /\ rd'[p].from = rd[p].from
        /\ (rd[p].step # "idle" /\ rd'[p].quiet) => rd[p].quiet /\ file' = file /\ lock' = NoProc
  <2> SUFFICES ASSUME NEW p \in Readers
               PROVE  /\ rd'[p] \in ReadRecords
                      /\ rd'[p].step = rd[p].step /\ rd'[p].a = rd[p].a /\ rd'[p].todo = rd[p].todo
                      /\ rd'[p].got = rd[p].got /\ rd'[p].from = rd[p].from
                      /\ (rd[p].step # "idle" /\ rd'[p].quiet) =>
                           rd[p].quiet /\ file' = file /\ lock' = NoProc
    OBVIOUS
  <2>1. PICK r : r = rd[p]
    OBVIOUS
  <2>2. r \in ReadRecords
    BY <1>1, <2>1
  <2>4. rd'[p] = IF Reading(p)
                 THEN [r EXCEPT !.quiet = @ /\ file' = file /\ lock' = NoProc]
                 ELSE r
    BY <2>1 DEF HandleStep, ReadersSee
  <2>5. CASE rd[p].step # "idle"
    <3>1. rd'[p] = [r EXCEPT !.quiet = @ /\ file' = file /\ lock' = NoProc]
      BY <2>4, <2>5 DEF Reading
    <3>2. rd'[p] = [op |-> r.op, step |-> r.step, a |-> r.a, todo |-> r.todo, got |-> r.got,
                    tries |-> r.tries, from |-> r.from,
                    quiet |-> r.quiet /\ file' = file /\ lock' = NoProc]
      BY <2>2, <3>1 DEF ReadRecords
    <3>3. (r.quiet /\ file' = file /\ lock' = NoProc) \in BOOLEAN
      OBVIOUS
    <3>4. rd'[p] \in ReadRecords
      BY <2>2, <3>2, <3>3 DEF ReadRecords
    <3>5. /\ rd'[p].step = r.step /\ rd'[p].a = r.a /\ rd'[p].todo = r.todo
          /\ rd'[p].got = r.got /\ rd'[p].from = r.from
      BY <3>2
    <3>6. rd'[p].quiet = (r.quiet /\ file' = file /\ lock' = NoProc)
      BY <3>2
    <3>7. rd'[p].quiet => r.quiet /\ file' = file /\ lock' = NoProc
      BY <3>6
    <3> QED BY <2>1, <3>4, <3>5, <3>7
  <2>6. CASE rd[p].step = "idle"
    <3>1. rd'[p] = r
      BY <2>4, <2>6 DEF Reading
    <3> QED BY <2>1, <2>2, <2>6, <3>1
  <2> QED BY <2>5, <2>6
<1>5. ReadTypeOK'
  <2>1. rd' \in [Readers -> ReadRecords]
    BY <1>4 DEF HandleStep, ReadersSee
  <2>2. view' \in [Readers -> Views]
    BY <1>1, <1>2
  <2>3. \A p \in Readers : rd'[p].step # "idle" => p \in opened' /\ p # lock'
    BY <1>1, <1>4, ReadersKeepHandles
  <2> QED BY <2>1, <2>2, <2>3 DEF ReadTypeOK, ReadRecords, Views, Reading
<1>6. ReadersKnow'
  <2>1. ASSUME NEW p \in Readers PROVE KnownBy(txns', log', lost', disk'.eof, rd'[p])
    <3>1. KnownBy(txns, log, lost, disk.eof, rd[p])
      BY <1>1 DEF ReadersKnow
    <3> QED BY <1>1, <1>2, <1>3, <1>4, <3>1, KnownStays DEF KnownBy
  <2> QED BY <2>1 DEF ReadersKnow
<1>7. ReadsFresh'
  <2>1. ASSUME NEW p \in Readers, pc' = "free", ReadsActive(file', rd'[p])
        PROVE  \/ Sound(txns', ActiveIndexOn(file', file'), Upto(log', ActiveLocator(file').generation), lost')
               \/ Unchanged(file', rd'[p])
    <3>1. CASE pc = "free" /\ <<file, txns, log, lost>>' = <<file, txns, log, lost>>
      <4>1. ReadsActive(file, rd[p])
        BY <1>4, <2>1, <3>1 DEF ReadsActive
      <4>2. \/ Sound(txns, ActiveIndexOn(file, file), ActiveTxns(file), lost)
            \/ Unchanged(file, rd[p])
        BY <3>1, <4>1, OneReader
      <4>3. CASE Sound(txns, ActiveIndexOn(file, file), ActiveTxns(file), lost)
        BY <3>1, <4>3 DEF ActiveTxns
      <4>4. CASE Unchanged(file, rd[p])
        BY <1>4, <3>1, <4>4 DEF Unchanged
      <4> QED BY <4>2, <4>3, <4>4
    <3>2. CASE Abandon \/ Commit
      BY <1>1, <3>2, EndKeepsIndex
    <3> QED BY <1>1, <1>2, <2>1, <3>1, <3>2, FreeAfter
  <2> QED BY <2>1 DEF ReadsFresh, ActiveTxns
<1>8. SlotsNear'
  BY <1>1, <1>2, <1>3, SlotsNearKept
<1>9. Len(log) <= Len(log') /\ Len(log') \in Nat
  <2>1. log \in Seq(DOMAIN txns)
    BY <1>1, Typed DEF Safe
  <2> QED BY <1>1, <1>2, <2>1, WritersAdd
<1>10. ReadersUpToDate'
  <2>1. ASSUME NEW p \in Readers PROVE UpToDate(Len(log'), rd'[p])
    <3>1. UpToDate(Len(log), rd[p]) /\ rd[p].from \in Nat
      BY <1>1 DEF ReadersUpToDate, ReadRecords
    <3> QED BY <1>1, <1>4, <1>9, <3>1 DEF UpToDate
  <2> QED BY <2>1 DEF ReadersUpToDate
<1>11. QuietReads'
  <2>1. ASSUME NEW p \in Readers, rd'[p].step # "idle", rd'[p].quiet, ~lost'
        PROVE  lock' = NoProc /\ Undisturbed(file', rd'[p])
    <3>1. rd[p].step # "idle" /\ rd[p].quiet /\ file' = file /\ lock' = NoProc
      BY <1>4, <2>1
    <3>2. ~lost
      BY <1>1, <1>2, <2>1, WritersAdd
    <3>3. Undisturbed(file, rd[p])
      BY <1>1, <3>1, <3>2 DEF QuietReads
    <3> QED BY <1>4, <3>1, <3>3 DEF Undisturbed, ReadsActive, Unchanged
  <2> QED BY <2>1 DEF QuietReads
<1>12. ViewsGood'
  <2>1. ASSUME NEW p \in Readers
        PROVE  Committed(log', view'[p]) /\ Recent(view'[p]) /\ Found(lost', view'[p])
    <3>1. /\ Committed(log, view[p]) /\ Recent(view[p]) /\ Found(lost, view[p])
          /\ view[p] \in Views
      BY <1>1 DEF ViewsGood
    <3>2. lost => lost'
      BY <1>1, <1>2, WritersAdd
    <3>3. Committed(log', view[p])
      BY <1>1, <1>2, <3>1, CommittedStays
    <3>4. Found(lost', view[p])
      BY <3>1, <3>2 DEF Found
    <3> QED BY <1>2, <3>1, <3>3, <3>4
  <2> QED BY <2>1 DEF ViewsGood
<1> QED BY <1>3, <1>5, <1>6, <1>7, <1>8, <1>10, <1>11, <1>12 DEF ReadSafe

\* What holds when no call is under way and none returned.
Nobody == rd = [p \in Readers |-> Idle] /\ view = [p \in Readers |-> NoView]

LEMMA NobodyReads == Safe /\ SlotsNear /\ Nobody => ReadSafe
<1> SUFFICES ASSUME Safe, SlotsNear, Nobody PROVE ReadSafe
  OBVIOUS
<1>1. /\ Idle \in ReadRecords /\ Idle.step = "idle" /\ ~Idle.a.valid
      /\ \A t, l, damaged, eof : KnownBy(t, l, damaged, eof, Idle)
      /\ \A f : ~ReadsActive(f, Idle)
      /\ \A n : UpToDate(n, Idle)
  BY IdleHolds
<1>2. NoView \in Views /\ ~NoView.ok /\ NoView.error = "none"
  BY DEF NoView, Views
<1> HIDE DEF Idle, NoView
<1>3. \A p \in Readers : rd[p] = Idle /\ view[p] = NoView
  BY DEF Nobody
<1>4. ReadTypeOK
  <2>1. rd \in [Readers -> ReadRecords] /\ view \in [Readers -> Views]
    BY <1>1, <1>2 DEF Nobody
  <2> QED BY <1>1, <1>3, <2>1, ReadTypes
<1>5. ReadersKnow /\ ReadsFresh /\ ReadersUpToDate /\ QuietReads
  BY <1>1, <1>3 DEF ReadersKnow, ReadsFresh, ReadersUpToDate, QuietReads
<1>6. ViewsGood
  BY <1>2, <1>3 DEF ViewsGood, Committed, Recent, Found
<1> QED BY <1>4, <1>5, <1>6 DEF ReadSafe

LEMMA NobodyReadsNext == (Safe /\ SlotsNear /\ Nobody)' => ReadSafe'
BY NobodyReads, PTL

LEMMA LogIsActive == Safe => ActiveLocator(file).generation = Len(log)
BY ActiveFacts DEF Safe

LEMMA LogIsActiveNext == Safe' => (ActiveLocator(file).generation = Len(log))'
BY LogIsActive, PTL

LEMMA CrashAmongReaders ==
  ASSUME ReadSafe, CrashStep
  PROVE  ReadSafe'
<1>1. Safe /\ SlotsNear
  BY DEF ReadSafe
<1>2. /\ HostCrash /\ rd' = [p \in Readers |-> Idle] /\ view' = [p \in Readers |-> NoView]
  BY DEF CrashStep
<1>3. Safe'
  BY <1>1, <1>2, NextSafe DEF Next
<1>4. SlotsNear'
  <2>1. /\ file' \in CrashImages /\ disk' = file'
    BY <1>2 DEF HostCrash
  <2>2. Near(file', ActiveLocator(file').generation)
    BY <1>1, <2>1, CrashNear
  <2>3. ActiveLocator(file').generation = Len(log')
    BY <1>3, LogIsActiveNext
  <2> QED BY <2>1, <2>2, <2>3 DEF SlotsNear
<1> QED BY <1>2, <1>3, <1>4, NobodyReadsNext DEF Nobody

-----------------------------------------------------------------------------
(* The theorems. *)

LEMMA ReadInitSafe == ReadInit => ReadSafe
<1> SUFFICES ASSUME ReadInit PROVE ReadSafe
  OBVIOUS
<1>1. Init /\ Nobody
  BY DEF ReadInit, Nobody
<1>2. Safe
  BY <1>1, InitSafe
<1>3. SlotsNear
  <2>1. log = <<>> /\ disk = file
    BY <1>1 DEF Init
  <2>2. Len(log) = 0 /\ ActiveLocator(file).generation = 0
    BY <1>2, <2>1, LogIsActive
  <2>3. \A i \in {0, 1} : file.slot[i].valid => file.slot[i].loc.generation \in Nat
    BY <1>2, Typed, SlotGeneration DEF Safe
  <2> QED BY <2>1, <2>2, <2>3 DEF SlotsNear, Near
<1> QED BY <1>1, <1>2, <1>3, NobodyReads

LEMMA ReadStutter == ReadSafe /\ UNCHANGED allVars => ReadSafe'
<1> SUFFICES ASSUME ReadSafe, UNCHANGED allVars PROVE ReadSafe'
  OBVIOUS
<1>1. /\ <<file, disk, opened, lock, pc, txns, log, lost, rd, view>>'
           = <<file, disk, opened, lock, pc, txns, log, lost, rd, view>>
      /\ UNCHANGED vars
  BY DEF allVars, vars
<1>2. Safe'
  BY <1>1, BlobUntouched DEF ReadSafe
<1>3. ReadTypeOK' /\ SlotsNear'
  BY <1>1 DEF ReadSafe, ReadTypeOK, Reading, SlotsNear
<1>4. ReadersKnow' /\ ReadersUpToDate' /\ QuietReads' /\ ViewsGood'
  BY <1>1 DEF ReadSafe, ReadersKnow, ReadersUpToDate, QuietReads, ViewsGood
<1>5. ReadsFresh'
  BY <1>1 DEF ReadSafe, ReadsFresh, ActiveTxns
<1> QED BY <1>2, <1>3, <1>4, <1>5 DEF ReadSafe

LEMMA NextReadSafe == ReadSafe /\ [ReadNext]_allVars => ReadSafe'
BY ReadStepSafe, WritersBeside, CrashAmongReaders, ReadStutter DEF ReadNext

LEMMA AlwaysReadSafe == ReadSpec => []ReadSafe
BY ReadInitSafe, NextReadSafe, PTL DEF ReadSpec

\* The readers' calls and results stay in their types, and a process reads
\* only while it holds the blob open and is not itself inside write_chunks
\* (read_index and refresh_committed_snapshot of src/src/blob.rs).
THEOREM ReadTypesHold == ReadSpec => []ReadTypeOK
<1>1. ReadSafe => ReadTypeOK
  BY DEF ReadSafe
<1> QED BY <1>1, AlwaysReadSafe, PTL

\* Whatever the writers, the faults and the crashes between the reads of the
\* two slots and of the units of an index, an index whose MAC a reader
\* accepts is a generation that was committed, whole.
THEOREM ViewsAreCommitted == ReadSpec => []ViewIsCommitted
<1>1. ReadSafe => ViewIsCommitted
  BY ViewsThree DEF ReadSafe
<1> QED BY <1>1, AlwaysReadSafe, PTL

\* The slots read one after the other still show an index at most one
\* generation older than the active one when the call began: no retry of
\* read_index and no second locator of a refresh goes further back.
THEOREM ViewsAreRecent == ReadSpec => []ViewAtMostOneBehind
<1>1. ReadSafe => ViewAtMostOneBehind
  BY ViewsThree DEF ReadSafe
<1> QED BY <1>1, AlwaysReadSafe, PTL

\* A call during which no writer was at work returns the index that was
\* active when it began, at its first try, unless a relocation that
\* overwrites its own index was cut short before.
THEOREM QuietReadsSucceed == ReadSpec => []QuietReadSucceeds
<1>1. ReadSafe => QuietReadSucceeds
  BY ViewsThree DEF ReadSafe
<1> QED BY <1>1, AlwaysReadSafe, PTL

\* With refreshes beside the writers, the snapshot a process keeps (from its
\* own commit or from a refresh) is a generation as it was committed, and
\* published chunk frames stay what they were.
THEOREM RefreshedSnapshotsAreSound == ReadSpec => [](SnapshotSound /\ CommittedChunksIntact)
<1>1. ReadSafe => SnapshotSound /\ CommittedChunksIntact
  BY DEF ReadSafe, Safe
<1> QED BY <1>1, AlwaysReadSafe, PTL
=============================================================================

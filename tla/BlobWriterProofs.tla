-------------------------- MODULE BlobWriterProofs --------------------------
(***************************************************************************)
(* Proofs about BlobWriter and the geometry it uses (BlobLayout), for any  *)
(* number of processes, transactions and faults and any configuration of   *)
(* the gaps.                                                               *)
(***************************************************************************)
EXTENDS BlobWriter, WellFoundedInduction, TLAPS

-----------------------------------------------------------------------------
(* The geometry, for every configuration and every transaction.            *)

\* What the geometry needs of a transaction and of a locator.
Sized(plan) == plan.chunk_len \in Nat /\ plan.entry_len \in Nat \ {0}
Placed(loc) == loc.index_offset \in Nat /\ loc.index_length \in Nat

LEMMA MinExists ==
  ASSUME NEW S, S \subseteq Nat, S # {}
  PROVE  \E m \in S : \A x \in S : m <= x
<1> DEFINE Less == OpToRel(<, Nat)
<1>1. \E m \in S : \A y \in S : ~(<<y, m>> \in Less)
  BY NatLessThanWellFounded, WFMin
<1>2. PICK m \in S : \A y \in S : ~(<<y, m>> \in Less)
  BY <1>1, Zenon
<1>3. ASSUME NEW y \in S PROVE m <= y
  <2>1. ~(<<y, m>> \in Less)
    BY <1>2, Zenon
  <2>2. ~(y < m)
    BY <2>1 DEF OpToRel
  <2> QED BY <2>2
<1> QED BY <1>3

LEMMA MaxExists ==
  ASSUME NEW S, S \subseteq Nat, S # {}, NEW b \in Nat, \A x \in S : x <= b
  PROVE  /\ Max(S) \in S
         /\ \A x \in S : x <= Max(S)
<1> DEFINE D == {b - x : x \in S}
<1>1. D \subseteq Nat /\ D # {}
  <2>1. \A x \in S : b - x \in Nat
    OBVIOUS
  <2> QED BY <2>1 DEF D
<1> HIDE DEF D
<1>2. PICK d \in D : \A y \in D : d <= y
  BY <1>1, MinExists
<1>3. PICK m \in S : d = b - m
  BY <1>2 DEF D
<1>4. \A x \in S : x <= m
  BY <1>2, <1>3 DEF D
<1> QED BY <1>4 DEF Max

(* The data tail of a bounded set of frame ends is past all of them, and   *)
(* past the front matter.                                                  *)
LEMMA DataTailIsBound ==
  ASSUME NEW ends, ends \subseteq Nat, NEW b \in Nat, \A e \in ends : e <= b
  PROVE  /\ DataTail(ends) \in Nat
         /\ FRONT_MATTER_LEN <= DataTail(ends)
         /\ \A e \in ends : e <= DataTail(ends)
<1> DEFINE S == ends \cup {FRONT_MATTER_LEN}
<1>1. S \subseteq Nat /\ S # {}
  BY LayoutAssumption
<1>2. b + FRONT_MATTER_LEN \in Nat /\ \A x \in S : x <= b + FRONT_MATTER_LEN
  BY LayoutAssumption
<1>3. Max(S) \in S /\ \A x \in S : x <= Max(S)
  <2> HIDE DEF S
  <2> QED BY <1>1, <1>2, MaxExists
<1> QED BY <1>1, <1>3 DEF DataTail

(* Case 1 writes only padding: neither the frames nor the new entries of a *)
(* transaction that needs no relocation touch the live index, and both     *)
(* stay inside the file.                                                   *)
THEOREM InPlaceWritesPadding ==
  ASSUME NEW plan, Sized(plan), NEW loc, Placed(loc), NEW data_tail \in Nat, NEW eof \in Nat,
         ~NeedsRelocate(plan, loc, data_tail, eof)
  PROVE  /\ ~Overlap(data_tail, plan.chunk_len, loc.index_offset, loc.index_length)
         /\ ~Overlap(IndexEnd(loc), plan.entry_len, loc.index_offset, loc.index_length)
         /\ ~Overlap(data_tail, plan.chunk_len, IndexEnd(loc), plan.entry_len)
         /\ IndexEnd(loc) + plan.entry_len <= eof
BY DEF Sized, Placed, NeedsRelocate, LeadingGap, TrailingGap, IndexEnd, Overlap

(* Case 2 keeps its own writes apart: the moved index with its new entries *)
(* starts past the frames, relocation_leading_padding further on, and ends *)
(* inside the grown file.                                                  *)
THEOREM RelocationKeepsApart ==
  ASSUME NEW plan, Sized(plan), NEW loc, Placed(loc), NEW data_tail \in Nat
  PROVE  /\ RelocatedOffset(plan, data_tail) >= data_tail + plan.chunk_len
         /\ ~Overlap(data_tail, plan.chunk_len, RelocatedOffset(plan, data_tail),
                     NewIndexLength(plan, loc))
         /\ RelocatedOffset(plan, data_tail) + NewIndexLength(plan, loc)
              <= RequiredEof(plan, loc, data_tail)
BY LayoutAssumption DEF Sized, Placed, RelocatedOffset, NewIndexLength, RequiredEof, Overlap

(* A relocation forced by the leading gap always runs over the index it is *)
(* moving, whatever the padding: the frames that do not fit in the gap     *)
(* start before the index and end inside it.                               *)
THEOREM LeadingGapRelocationIsDestructive ==
  ASSUME NEW plan, Sized(plan), NEW loc, Placed(loc), NEW data_tail \in Nat,
         data_tail <= loc.index_offset, loc.index_length > 0,
         plan.chunk_len > LeadingGap(loc, data_tail)
  PROVE  OverwritesLiveIndex(plan, loc, data_tail)
BY DEF Sized, Placed, LeadingGap, Overlap, OverwritesLiveIndex

(* A relocation forced by the trailing gap alone leaves the live index     *)
(* alone when the padding makes it land past its end.                      *)
THEOREM EnoughPaddingIsSafe ==
  ASSUME NEW plan, Sized(plan), NEW loc, Placed(loc), NEW data_tail \in Nat,
         data_tail <= loc.index_offset,
         plan.chunk_len <= LeadingGap(loc, data_tail),
         plan.chunk_len + relocation_leading_padding
           >= LeadingGap(loc, data_tail) + loc.index_length
  PROVE  ~OverwritesLiveIndex(plan, loc, data_tail)
BY LayoutAssumption
   DEF Sized, Placed, LeadingGap, Overlap, OverwritesLiveIndex, RelocatedOffset, NewIndexLength

-----------------------------------------------------------------------------
(* What the steps of the writers preserve.                                 *)

(* The ends of the frames planned so far have a bound, so the data tail of *)
(* every set of them exists.                                               *)
FramesBounded == \E b \in Nat : \A i \in DOMAIN txns : ChunkEnd(i) <= b

IndInv ==
  /\ TypeOK
  /\ LocatorsInBounds
  /\ GenerationsInLog
  /\ SnapshotsInTxns
  /\ CallInBounds
  /\ FramesBounded

-----------------------------------------------------------------------------
(* The file operators. *)

LEMMA PutIsImage ==
  ASSUME NEW f, IsImage(f), NEW w, w.offset \in Nat, FRONT_MATTER_LEN <= w.offset,
         w.cells \in Seq(Cell), NEW n \in 0 .. Len(w.cells)
  PROVE  /\ IsImage(Put(f, w, n))
         /\ Put(f, w, n).slot = f.slot
         /\ f.eof <= Put(f, w, n).eof
         /\ w.offset + n <= Put(f, w, n).eof
<1>1. f.eof \in Nat /\ f.slot \in [{0, 1} -> Slot]
      /\ f.body \in [FRONT_MATTER_LEN .. f.eof - 1 -> Cell]
  BY DEF IsImage
<1> DEFINE eof == IF w.offset + n > f.eof THEN w.offset + n ELSE f.eof
           body == [x \in FRONT_MATTER_LEN .. eof - 1 |->
                      IF x \in Region(w.offset, n) THEN w.cells[x - w.offset + 1]
                      ELSE IF x < f.eof THEN f.body[x] ELSE Junk]
<1>2. Put(f, w, n) = [slot |-> f.slot, eof |-> eof, body |-> body]
  BY DEF Put
<1>3. eof \in Nat /\ f.eof <= eof /\ w.offset + n <= eof
  BY <1>1
<1>4. body \in [FRONT_MATTER_LEN .. eof - 1 -> Cell]
  <2>1. Junk \in Cell
    BY DEF Junk, Cell
  <2>2. ASSUME NEW x \in FRONT_MATTER_LEN .. eof - 1, x \in Region(w.offset, n)
        PROVE  w.cells[x - w.offset + 1] \in Cell
    <3>1. x - w.offset + 1 \in 1 .. Len(w.cells)
      BY <1>3, <2>2, LayoutAssumption DEF Region
    <3> QED BY <3>1
  <2>3. ASSUME NEW x \in FRONT_MATTER_LEN .. eof - 1, x < f.eof
        PROVE  f.body[x] \in Cell
    <3>1. x \in FRONT_MATTER_LEN .. f.eof - 1
      BY <1>1, <1>3, <2>3, LayoutAssumption
    <3> QED BY <1>1, <3>1
  <2> HIDE DEF eof
  <2> QED BY <2>1, <2>2, <2>3
<1> HIDE DEF eof, body
<1> QED BY <1>1, <1>2, <1>3, <1>4 DEF IsImage

LEMMA CiphertextType ==
  ASSUME NEW f, IsImage(f), NEW off \in Nat, NEW n \in Nat,
         FRONT_MATTER_LEN <= off, off + n <= f.eof
  PROVE  /\ Ciphertext(f, off, n) \in Seq(Cell)
         /\ Len(Ciphertext(f, off, n)) = n
<1>1. f.eof \in Nat /\ f.body \in [FRONT_MATTER_LEN .. f.eof - 1 -> Cell]
  BY DEF IsImage
<1>2. ASSUME NEW i \in 1 .. n PROVE f.body[off + i - 1] \in Cell
  <2>1. off + i - 1 \in FRONT_MATTER_LEN .. f.eof - 1
    BY <1>1, LayoutAssumption
  <2> QED BY <1>1, <2>1
<1> QED BY <1>2 DEF Ciphertext

LEMMA PutSlotIsImage ==
  ASSUME NEW f, IsImage(f), NEW i \in {0, 1}, NEW s \in Slot
  PROVE  /\ IsImage(PutSlot(f, i, s))
         /\ PutSlot(f, i, s).eof = f.eof
         /\ PutSlot(f, i, s).slot = [f.slot EXCEPT ![i] = s]
BY DEF IsImage, PutSlot

\* The active locator of a file with a valid slot is the one of that slot.
LEMMA ActiveIsValid ==
  ASSUME NEW f, IsImage(f), ValidSlots(f) # {}
  PROVE  /\ ActiveLocator(f) \in Locator
         /\ \E i \in ValidSlots(f) : ActiveLocator(f) = f.slot[i].loc
         /\ \A i \in ValidSlots(f) : f.slot[i].loc.generation <= ActiveLocator(f).generation
<1>1. f.slot \in [{0, 1} -> Slot]
  BY DEF IsImage
<1>2. ASSUME NEW i \in ValidSlots(f)
      PROVE  i \in {0, 1} /\ f.slot[i].loc \in Locator
  <2>1. i \in {0, 1} /\ f.slot[i].valid /\ f.slot[i] \in Slot
    BY <1>1 DEF ValidSlots
  <2>2. f.slot[i] # BrokenSlot
    BY <2>1 DEF BrokenSlot
  <2>3. f.slot[i] \in [valid : {TRUE}, loc : Locator]
    BY <2>1, <2>2 DEF Slot
  <2> QED BY <2>1, <2>3
<1>3. \A i \in ValidSlots(f) : f.slot[i].loc.generation \in Nat
  BY <1>2 DEF Locator
<1> QED BY <1>1, <1>2, <1>3 DEF ActiveLocator, ValidSlots

-----------------------------------------------------------------------------
(* What a call knows of its transaction and of the index it will write. *)

LEMMA CallTypes ==
  ASSUME IndInv, pc # "free"
  PROVE  /\ id \in DOMAIN txns /\ id \in Nat \ {0}
         /\ txn.off \in Nat /\ FRONT_MATTER_LEN <= txn.off
         /\ txn.chunk_len \in Nat /\ txn.entry_len \in Nat /\ txn.start \in Nat
         /\ wr.loc \in Locator /\ wr.relocate \in BOOLEAN
         /\ wr.loc.index_offset \in Nat /\ FRONT_MATTER_LEN <= wr.loc.index_offset
         /\ wr.loc.index_length \in Nat
         /\ IndexOffset \in Nat /\ FRONT_MATTER_LEN <= IndexOffset
         /\ IndexLength = wr.loc.index_length + txn.entry_len
<1>1. txns \in Seq(Txn) /\ txns # <<>> /\ wr \in Locals
  BY DEF IndInv, TypeOK, CallInBounds
<1>2. id \in DOMAIN txns /\ id \in Nat \ {0} /\ txn \in Txn
  BY <1>1 DEF id, txn
<1>3. txn.off \in Nat /\ txn.chunk_len \in Nat /\ txn.entry_len \in Nat /\ txn.start \in Nat
  BY <1>2 DEF Txn
<1>4. wr.loc \in Locator /\ wr.relocate \in BOOLEAN
  BY <1>1 DEF Locals
<1>5. wr.loc.index_offset \in Nat /\ wr.loc.index_length \in Nat
  BY <1>4 DEF Locator
<1>6. FRONT_MATTER_LEN <= wr.loc.index_offset /\ FRONT_MATTER_LEN <= txn.off
  BY DEF IndInv, CallInBounds
<1>7. IndexOffset \in Nat /\ FRONT_MATTER_LEN <= IndexOffset
  <2>1. CASE wr.relocate
    <3>1. IndexOffset = txn.off + txn.chunk_len + relocation_leading_padding
      BY <2>1 DEF IndexOffset, NewIndexOffset, RelocatedOffset
    <3> QED BY <3>1, <1>3, <1>6, LayoutAssumption
  <2>2. CASE ~wr.relocate
    BY <2>2, <1>5, <1>6 DEF IndexOffset, NewIndexOffset
  <2> QED BY <2>1, <2>2
<1>8. IndexLength = wr.loc.index_length + txn.entry_len
  BY DEF IndexLength, NewIndexLength
<1> QED BY <1>2, <1>3, <1>4, <1>5, <1>6, <1>7, <1>8

\* Every body write is a sequence of cells behind the front matter.
LEMMA PendingType ==
  ASSUME IndInv, pc \in BodyWrites
  PROVE  /\ Pending.offset \in Nat /\ FRONT_MATTER_LEN <= Pending.offset
         /\ Pending.cells \in Seq(Cell)
<1>1. pc # "free"
  BY DEF BodyWrites
<1>2. /\ id \in Nat /\ txn.off \in Nat /\ FRONT_MATTER_LEN <= txn.off
      /\ txn.chunk_len \in Nat /\ txn.entry_len \in Nat /\ txn.start \in Nat
      /\ wr.loc.index_offset \in Nat /\ FRONT_MATTER_LEN <= wr.loc.index_offset
      /\ wr.loc.index_length \in Nat
      /\ IndexOffset \in Nat /\ FRONT_MATTER_LEN <= IndexOffset
  BY <1>1, CallTypes
<1>3. IsImage(file) /\ IsImage(disk)
  BY DEF IndInv, TypeOK
<1>4. FRONT_MATTER_LEN <= disk.eof /\ disk.eof <= file.eof
      /\ file.eof \in Nat /\ disk.eof \in Nat
  BY <1>3 DEF IndInv, LocatorsInBounds, IsImage
<1>5. wr.loc.index_offset + wr.loc.index_length <= file.eof
  <2>1. wr.loc.index_offset + wr.loc.index_length <= disk.eof
    BY <1>1 DEF IndInv, CallInBounds, IndexEnd
  <2> QED BY <2>1, <1>2, <1>4
<1>6. CASE pc \in {"append", "frames"}
  <2>1. \A k \in 1 .. txn.chunk_len : <<"chunk", id, k>> \in Cell
    BY <1>2 DEF Cell
  <2>2. Pending = FrameWrite
    BY <1>6 DEF Pending
  <2>3. Pending.offset = txn.off
        /\ Pending.cells = [k \in 1 .. txn.chunk_len |-> <<"chunk", id, k>>]
    BY <2>2 DEF FrameWrite
  <2> QED BY <2>1, <2>3, <1>2
<1>7. CASE pc \in {"extend", "entries"}
  <2> DEFINE cell(k) == <<"index", id, txn.start + k - 1>>
  <2>1. \A k \in 1 .. txn.entry_len : cell(k) \in Cell
    BY <1>2 DEF Cell
  <2>2. Pending = EntryWrite
    BY <1>7 DEF Pending
  <2>3. /\ Pending.offset = IndexOffset + wr.loc.index_length
        /\ Pending.cells = [k \in 1 .. txn.entry_len |-> cell(k)]
    BY <2>2 DEF EntryWrite
  <2> HIDE DEF cell
  <2>4. Pending.offset \in Nat /\ FRONT_MATTER_LEN <= Pending.offset
    BY <2>3, <1>2, LayoutAssumption
  <2>5. Pending.cells \in Seq(Cell)
    BY <2>1, <2>3, <1>2
  <2> QED BY <2>4, <2>5
<1>8. CASE pc = "grow"
  <2> DEFINE n == RequiredEof(txn, wr.loc, txn.off) - file.eof
  <2>1. Pending = GrowWrite
    BY <1>8 DEF Pending
  <2>2. Pending.offset = file.eof /\ Pending.cells = [k \in 1 .. n |-> Junk]
    BY <2>1 DEF GrowWrite
  <2>3. RequiredEof(txn, wr.loc, txn.off) \in Nat
    BY <1>2, LayoutAssumption DEF RequiredEof, RelocatedOffset, NewIndexLength
  <2>4. n \in Int
    BY <2>3, <1>4
  <2>5. Junk \in Cell
    BY DEF Junk, Cell
  <2> HIDE DEF n
  <2>6. [k \in 1 .. n |-> Junk] \in Seq(Cell)
    <3>1. CASE n \in Nat
      BY <2>5, <3>1
    <3>2. CASE n < 0
      <4>1. 1 .. n = 1 .. 0
        BY <2>4, <3>2
      <4>2. [k \in 1 .. n |-> Junk] = [k \in 1 .. 0 |-> Junk]
        BY <4>1
      <4>3. [k \in 1 .. 0 |-> Junk] \in Seq(Cell)
        BY <2>5
      <4> QED BY <4>2, <4>3
    <3> QED BY <2>4, <3>1, <3>2
  <2>7. FRONT_MATTER_LEN <= file.eof
    BY <1>4, LayoutAssumption
  <2> QED BY <2>2, <2>6, <2>7, <1>4
<1>9. CASE pc = "copy"
  <2>1. Pending = CopyWrite
    BY <1>9 DEF Pending
  <2>2. Pending.offset = IndexOffset
        /\ Pending.cells = Ciphertext(file, wr.loc.index_offset, wr.loc.index_length)
    BY <2>1 DEF CopyWrite
  <2>3. Pending.cells \in Seq(Cell)
    BY <2>2, <1>2, <1>3, <1>5, CiphertextType
  <2> QED BY <2>2, <2>3, <1>2
<1> QED BY <1>6, <1>7, <1>8, <1>9 DEF BodyWrites
-----------------------------------------------------------------------------
(* The slots of an image, all at once: they point into its first eof       *)
(* offsets and are not ahead of generation g.                              *)

SlotsBounded(f, eof, g) ==
  \A i \in ValidSlots(f) :
    /\ FRONT_MATTER_LEN <= f.slot[i].loc.index_offset
    /\ IndexEnd(f.slot[i].loc) <= eof
    /\ f.slot[i].loc.generation <= g

LEMMA SlotsBoundedIff ==
  (LocatorsInBounds /\ GenerationsInLog)
    <=> /\ FRONT_MATTER_LEN <= disk.eof /\ disk.eof <= file.eof
        /\ SlotsBounded(file, disk.eof, Len(log))
        /\ SlotsBounded(disk, disk.eof, Len(log))
BY DEF LocatorsInBounds, GenerationsInLog, SlotsBounded

LEMMA ValidSlotType ==
  ASSUME NEW f, IsImage(f), NEW i \in ValidSlots(f)
  PROVE  /\ i \in {0, 1} /\ f.slot[i].loc \in Locator
         /\ f.slot[i].loc.index_offset \in Nat /\ f.slot[i].loc.index_length \in Nat
         /\ f.slot[i].loc.generation \in Nat
<1>1. i \in {0, 1} /\ f.slot[i].valid /\ f.slot[i] \in Slot
  BY DEF IsImage, ValidSlots
<1>2. f.slot[i] # BrokenSlot
  BY <1>1 DEF BrokenSlot
<1>3. f.slot[i] \in [valid : {TRUE}, loc : Locator]
  BY <1>1, <1>2 DEF Slot
<1>4. f.slot[i].loc \in Locator
  BY <1>3
<1> QED BY <1>1, <1>4 DEF Locator

LEMMA SlotsBoundedMonotone ==
  ASSUME NEW f, IsImage(f), NEW eof1 \in Nat, NEW eof2 \in Nat, NEW g1 \in Nat, NEW g2 \in Nat,
         eof1 <= eof2, g1 <= g2, SlotsBounded(f, eof1, g1)
  PROVE  SlotsBounded(f, eof2, g2)
<1> SUFFICES ASSUME NEW i \in ValidSlots(f)
             PROVE  /\ FRONT_MATTER_LEN <= f.slot[i].loc.index_offset
                    /\ IndexEnd(f.slot[i].loc) <= eof2
                    /\ f.slot[i].loc.generation <= g2
  BY DEF SlotsBounded
<1>1. IndexEnd(f.slot[i].loc) \in Nat /\ f.slot[i].loc.generation \in Nat
  BY ValidSlotType DEF IndexEnd
<1> QED BY <1>1 DEF SlotsBounded

LEMMA SlotsBoundedPut ==
  ASSUME NEW f, IsImage(f), NEW eof, NEW g, SlotsBounded(f, eof, g),
         NEW i \in {0, 1}, NEW s \in Slot,
         s.valid => /\ FRONT_MATTER_LEN <= s.loc.index_offset
                    /\ IndexEnd(s.loc) <= eof
                    /\ s.loc.generation <= g
  PROVE  SlotsBounded(PutSlot(f, i, s), eof, g)
<1>1. f.slot \in [{0, 1} -> Slot]
  BY DEF IsImage
<1>2. PutSlot(f, i, s).slot = [f.slot EXCEPT ![i] = s]
  BY PutSlotIsImage
<1>3. \A j \in {0, 1} : PutSlot(f, i, s).slot[j] = IF j = i THEN s ELSE f.slot[j]
  BY <1>1, <1>2
<1> QED BY <1>3 DEF SlotsBounded, ValidSlots

-----------------------------------------------------------------------------
(* The initial state. *)

LEMMA InitIndInv == Init => IndInv
<1> SUFFICES ASSUME Init PROVE IndInv
  OBVIOUS
<1> DEFINE eof == FRONT_MATTER_LEN + initial_leading_gap + initial_trailing_gap
           first == [NoLocator EXCEPT
                       !.index_offset = FRONT_MATTER_LEN + initial_leading_gap]
           slots == [i \in {0, 1} |-> IF i = 0 THEN [valid |-> TRUE, loc |-> first]
                                      ELSE BrokenSlot]
           body == [x \in FRONT_MATTER_LEN .. eof - 1 |-> Junk]
<1>1. file = [slot |-> slots, eof |-> eof, body |-> body] /\ disk = file
  BY DEF Init
<1>2. eof \in Nat /\ FRONT_MATTER_LEN <= eof
  BY LayoutAssumption
<1>3. first \in Locator /\ first.generation = 0 /\ first.index_length = 0
      /\ first.index_offset = FRONT_MATTER_LEN + initial_leading_gap
  <2> DEFINE at == FRONT_MATTER_LEN + initial_leading_gap
  <2>1. at \in Nat
    BY LayoutAssumption
  <2> HIDE DEF at
  <2>2. first = [generation |-> 0, index_offset |-> at, index_length |-> 0,
                 index_mac |-> <<>>, slot_index |-> 0]
    BY DEF NoLocator, at
  <2> HIDE DEF first
  <2>3. first \in Locator
    BY <2>1, <2>2 DEF Locator
  <2> QED BY <2>2, <2>3 DEF at
<1>4. slots \in [{0, 1} -> Slot]
  <2> HIDE DEF first
  <2> QED BY <1>3 DEF Slot
<1>5. body \in [FRONT_MATTER_LEN .. eof - 1 -> Cell]
  BY DEF Junk, Cell
<1>6. SlotsBounded(file, eof, 0)
  <2>1. IndexEnd(first) <= eof
    <3> HIDE DEF first
    <3> QED BY <1>3, LayoutAssumption DEF IndexEnd
  <2>2. FRONT_MATTER_LEN <= first.index_offset
    BY <1>3, LayoutAssumption
  <2> HIDE DEF first, eof, body
  <2>3. ValidSlots(file) = {0} /\ file.slot[0].loc = first
    BY <1>1 DEF ValidSlots, BrokenSlot
  <2> QED BY <1>3, <2>1, <2>2, <2>3 DEF SlotsBounded
<1> HIDE DEF first, eof, slots, body
<1>7. IsImage(file) /\ IsImage(disk) /\ file.eof = eof
  BY <1>1, <1>2, <1>4, <1>5 DEF IsImage
<1>8. log = <<>> /\ txns = <<>> /\ pc = "free"
  BY DEF Init
<1>9. LocatorsInBounds /\ GenerationsInLog
  BY <1>1, <1>2, <1>6, <1>7, <1>8, SlotsBoundedIff
<1>10. wr \in Locals
  BY DEF Init, NoLocals, Locals, NoLocator, Locator
<1>11. log \in Seq(DOMAIN txns) /\ txns \in Seq(Txn) /\ Len(txns) = 0
  BY <1>8
<1>12. TypeOK
  <2>1. /\ opened = {} /\ committed = [p \in {} |-> {}] /\ lock = NoProc
        /\ faults = 0 /\ acked = 0 /\ stream = {} /\ exposed = FALSE /\ lost = FALSE
    BY DEF Init
  <2>2. committed \in [DOMAIN committed -> Snapshot] /\ DOMAIN committed \subseteq opened
    BY <2>1
  <2>3. faults \in 0 .. MaxFaults /\ Len(txns) <= MaxTxns
    BY <2>1, <1>11, WriterAssumption
  <2> QED BY <1>7, <1>8, <1>10, <1>11, <2>1, <2>2, <2>3 DEF TypeOK
<1>13. SnapshotsInTxns /\ CallInBounds
  BY <1>8 DEF Init, SnapshotsInTxns, CallInBounds
<1>14. FramesBounded
  BY <1>8 DEF FramesBounded
<1> QED BY <1>9, <1>12, <1>13, <1>14 DEF IndInv
-----------------------------------------------------------------------------
(* Writes to the body, whole or cut. *)

LEMMA EncryptedType ==
  ASSUME IndInv, pc # "free", NEW n \in Nat
  PROVE  Encrypted(n) \subseteq Nat \X DOMAIN txns
<1>1. txn.start \in Nat /\ id \in DOMAIN txns
  BY CallTypes
<1>2. \A k \in 1 .. n : txn.start + k - 1 \in Nat
  BY <1>1
<1> QED BY <1>1, <1>2 DEF Encrypted

LEMMA BodyWritten ==
  ASSUME IndInv, pc \in BodyWrites, NEW n \in 0 .. Len(Pending.cells),
         file' = Put(file, Pending, n), disk' = disk, txns' = txns, log' = log,
         stream' = stream \cup Encrypted(n)
  PROVE  /\ IsImage(file') /\ IsImage(disk')
         /\ file.eof \in Nat /\ file'.eof \in Nat
         /\ file.eof <= file'.eof /\ Pending.offset + n <= file'.eof
         /\ LocatorsInBounds' /\ GenerationsInLog'
         /\ stream' \subseteq Nat \X DOMAIN txns'
<1>1. IsImage(file) /\ IsImage(disk) /\ stream \subseteq Nat \X DOMAIN txns
  BY DEF IndInv, TypeOK
<1>2. Pending.cells \in Seq(Cell) /\ Pending.offset \in Nat
      /\ FRONT_MATTER_LEN <= Pending.offset
  BY PendingType
<1>3. /\ IsImage(file') /\ file'.slot = file.slot
      /\ file.eof <= file'.eof /\ Pending.offset + n <= file'.eof
  <2> DEFINE w == Pending
  <2>1. w.cells \in Seq(Cell) /\ w.offset \in Nat /\ FRONT_MATTER_LEN <= w.offset
        /\ n \in 0 .. Len(w.cells) /\ file' = Put(file, w, n)
    BY <1>2
  <2> HIDE DEF w
  <2>2. /\ IsImage(file') /\ file'.slot = file.slot
        /\ file.eof <= file'.eof /\ w.offset + n <= file'.eof
    BY <1>1, <2>1, PutIsImage
  <2> QED BY <2>2 DEF w
<1>4. file.eof \in Nat /\ file'.eof \in Nat /\ disk.eof \in Nat
  BY <1>1, <1>3 DEF IsImage
<1>5. /\ FRONT_MATTER_LEN <= disk.eof /\ disk.eof <= file.eof
      /\ SlotsBounded(file, disk.eof, Len(log)) /\ SlotsBounded(disk, disk.eof, Len(log))
  BY SlotsBoundedIff DEF IndInv
<1>6. SlotsBounded(file', disk'.eof, Len(log'))
  BY <1>3, <1>5 DEF SlotsBounded, ValidSlots
<1>7. LocatorsInBounds' /\ GenerationsInLog'
  <2>1. /\ FRONT_MATTER_LEN <= disk'.eof /\ disk'.eof <= file'.eof
        /\ SlotsBounded(disk', disk'.eof, Len(log'))
    BY <1>3, <1>4, <1>5
  <2> QED BY <1>6, <2>1 DEF LocatorsInBounds, GenerationsInLog, SlotsBounded
<1>8. Encrypted(n) \subseteq Nat \X DOMAIN txns
  <2>1. pc # "free" /\ n \in Nat
    BY <1>2 DEF BodyWrites
  <2> QED BY <2>1, EncryptedType
<1> QED BY <1>1, <1>3, <1>4, <1>7, <1>8

\* The new index fits in the file once the file has grown, or once the new
\* entries are written behind it.
LEMMA BodyReaches ==
  ASSUME IndInv, pc \in {"extend", "grow"}, NEW eof \in Nat, file.eof <= eof,
         Pending.offset + Len(Pending.cells) <= eof
  PROVE  IndexOffset + IndexLength <= eof
<1>1. pc # "free"
  OBVIOUS
<1>2. /\ txn.off \in Nat /\ txn.chunk_len \in Nat /\ txn.entry_len \in Nat
      /\ wr.loc.index_length \in Nat /\ IndexOffset \in Nat
      /\ IndexLength = wr.loc.index_length + txn.entry_len
  BY <1>1, CallTypes
<1>3. CASE pc = "extend"
  <2>1. Pending = EntryWrite
    BY <1>3 DEF Pending
  <2> DEFINE cell(k) == <<"index", id, txn.start + k - 1>>
  <2>2. Pending.offset = IndexOffset + wr.loc.index_length
        /\ Pending.cells = [k \in 1 .. txn.entry_len |-> cell(k)]
    BY <2>1 DEF EntryWrite
  <2> HIDE DEF cell
  <2>3. Len(Pending.cells) = txn.entry_len
    BY <2>2, <1>2
  <2> QED BY <2>2, <2>3, <1>2
<1>4. CASE pc = "grow"
  <2> DEFINE n == RequiredEof(txn, wr.loc, txn.off) - file.eof
  <2>1. Pending = GrowWrite
    BY <1>4 DEF Pending
  <2>2. Pending.offset = file.eof /\ Pending.cells = [k \in 1 .. n |-> Junk]
    BY <2>1 DEF GrowWrite
  <2>3. file.eof \in Nat
    BY DEF IndInv, TypeOK, IsImage
  <2>4. RequiredEof(txn, wr.loc, txn.off) \in Nat
    <3>1. RequiredEof(txn, wr.loc, txn.off)
            = txn.off + txn.chunk_len + relocation_leading_padding
                + (wr.loc.index_length + txn.entry_len) + relocation_trailing_padding
      BY DEF RequiredEof, RelocatedOffset, NewIndexLength
    <3> QED BY <3>1, <1>2, LayoutAssumption, SMTT(60)
  <2>5. RequiredEof(txn, wr.loc, txn.off) <= eof
    <3>1. CASE n \in Nat
      <4>1. Len(Pending.cells) = n
        <5> HIDE DEF n
        <5> QED BY <2>2, <3>1
      <4> QED BY <4>1, <2>2, <2>3, <2>4
    <3>2. CASE n < 0
      BY <3>2, <2>3, <2>4
    <3> QED BY <2>3, <2>4, <3>1, <3>2
  <2>6. wr.relocate
    BY <1>4 DEF IndInv, CallInBounds, Moving
  <2>7. IndexOffset + IndexLength <= RequiredEof(txn, wr.loc, txn.off)
    BY <2>6, <1>2, LayoutAssumption
       DEF IndexOffset, IndexLength, NewIndexOffset, RequiredEof, RelocatedOffset,
           NewIndexLength
  <2>8. IndexLength \in Nat
    BY <1>2
  <2> QED BY <2>4, <2>5, <2>7, <2>8, <1>2
<1> QED BY <1>3, <1>4
\* One body write of either case.
LEMMA WriteBodyStep ==
  ASSUME IndInv, NEW from \in BodyWrites, NEW to \in BodyWrites \cup Syncs,
         WriteBody(from, to), to # "sync_slot",
         to \in InPlace => from \in InPlace, to \in Moving => from \in Moving,
         to \in OnFile => from \in OnFile \cup {"extend", "grow"}
  PROVE  IndInv'
<1>1. /\ pc = from /\ pc' = to /\ pc # "free" /\ pc' # "free" /\ pc # "sync_slot"
      /\ <<disk, opened, committed, lock, wr, txns, faults, log, acked, lost>>'
           = <<disk, opened, committed, lock, wr, txns, faults, log, acked, lost>>
  BY DEF WriteBody, BodyWrites, Syncs, procVars
<1> DEFINE n == Len(Pending.cells)
<1>2. file' = Put(file, Pending, n) /\ stream' = stream \cup Encrypted(n)
      /\ exposed' = (exposed \/ HitsDurableIndex(n))
  BY DEF WriteBody
<1>3. n \in 0 .. Len(Pending.cells)
  BY <1>1, PendingType
<1> HIDE DEF n
<1>4. /\ IsImage(file') /\ IsImage(disk')
      /\ file.eof \in Nat /\ file'.eof \in Nat
      /\ file.eof <= file'.eof /\ Pending.offset + n <= file'.eof
      /\ LocatorsInBounds' /\ GenerationsInLog'
      /\ stream' \subseteq Nat \X DOMAIN txns'
  BY <1>1, <1>2, <1>3, BodyWritten
<1>5. TypeOK'
  <2>1. (pc' = "free") = (lock' = NoProc)
    BY <1>1 DEF IndInv, TypeOK
  <2>2. exposed' \in BOOLEAN
    BY <1>2
  <2> QED BY <1>1, <1>4, <2>1, <2>2 DEF IndInv, TypeOK
<1>6. SnapshotsInTxns' /\ FramesBounded'
  BY <1>1 DEF IndInv, SnapshotsInTxns, FramesBounded, ChunkEnd
<1>7. CallInBounds'
  <2>1. id' = id /\ txn' = txn /\ IndexOffset' = IndexOffset /\ IndexLength' = IndexLength
    BY <1>1 DEF id, txn, IndexOffset, IndexLength
  <2>2. to \in OnFile => IndexOffset + IndexLength <= file'.eof
    <3>1. IndexOffset \in Nat /\ IndexLength \in Nat
      BY <1>1, CallTypes
    <3>2. CASE from \in OnFile
      <4>1. IndexOffset + IndexLength <= file.eof
        BY <1>1, <3>2 DEF IndInv, CallInBounds
      <4> QED BY <4>1, <3>1, <1>4
    <3>3. CASE from \in {"extend", "grow"}
      BY <1>1, <1>4, <3>3, BodyReaches DEF n
    <3> QED BY <3>2, <3>3
  <2>3. to \notin OnDisk
    BY DEF BodyWrites, Syncs, OnDisk
  <2> QED BY <1>1, <2>1, <2>2, <2>3 DEF IndInv, CallInBounds
<1> QED BY <1>4, <1>5, <1>6, <1>7 DEF IndInv

\* One sync of either case.
LEMMA SyncBodyStep ==
  ASSUME IndInv, NEW from \in Syncs, NEW to \in {"extend", "seal"},
         SyncBody(from, to), from # "sync_slot",
         to = "extend" => from \in InPlace, to = "seal" => from \in OnFile
  PROVE  IndInv'
<1>1. /\ pc = from /\ pc' = to /\ pc # "free" /\ pc' # "free" /\ pc # "sync_slot"
      /\ disk' = file /\ exposed' = Destructive
      /\ <<file, opened, committed, lock, wr, txns, faults, log, acked, stream, lost>>'
           = <<file, opened, committed, lock, wr, txns, faults, log, acked, stream, lost>>
  BY DEF SyncBody, Syncs, procVars
<1>2. IsImage(file) /\ IsImage(disk) /\ file.eof \in Nat /\ disk.eof \in Nat
      /\ Len(log) \in Nat
  BY DEF IndInv, TypeOK, IsImage
<1>3. FRONT_MATTER_LEN <= disk.eof /\ disk.eof <= file.eof
      /\ SlotsBounded(file, disk.eof, Len(log))
  BY SlotsBoundedIff DEF IndInv
<1>4. FRONT_MATTER_LEN <= file.eof /\ SlotsBounded(file, file.eof, Len(log))
  BY <1>2, <1>3, SlotsBoundedMonotone, LayoutAssumption
<1>5. LocatorsInBounds' /\ GenerationsInLog'
  BY <1>1, <1>2, <1>4 DEF LocatorsInBounds, GenerationsInLog, SlotsBounded
<1>6. TypeOK'
  <2>1. (pc' = "free") = (lock' = NoProc)
    BY <1>1 DEF IndInv, TypeOK
  <2>2. exposed' \in BOOLEAN
    BY <1>1 DEF Destructive
  <2>3. pc' \in BodyWrites \cup {"seal"}
    BY <1>1 DEF BodyWrites
  <2> QED BY <1>1, <2>1, <2>2, <2>3 DEF IndInv, TypeOK
<1>7. SnapshotsInTxns' /\ FramesBounded'
  BY <1>1 DEF IndInv, SnapshotsInTxns, FramesBounded, ChunkEnd
<1>8. CallInBounds'
  <2>1. id' = id /\ txn' = txn /\ IndexOffset' = IndexOffset /\ IndexLength' = IndexLength
    BY <1>1 DEF id, txn, IndexOffset, IndexLength
  <2>2. wr.loc.index_offset \in Nat /\ wr.loc.index_length \in Nat
    BY <1>1, CallTypes
  <2>3. IndexEnd(wr.loc) <= file.eof
    <3>1. IndexEnd(wr.loc) <= disk.eof
      BY <1>1 DEF IndInv, CallInBounds
    <3> QED BY <3>1, <2>2, <1>2, <1>3 DEF IndexEnd
  <2>4. to \in OnDisk => IndexOffset + IndexLength <= file.eof
    BY <1>1 DEF IndInv, CallInBounds, OnDisk
  <2>5. to \notin OnFile /\ to \notin Moving /\ (to \in InPlace => ~wr.relocate)
    BY <1>1 DEF IndInv, CallInBounds, OnFile, Moving, InPlace
  <2> QED BY <1>1, <2>1, <2>3, <2>4, <2>5 DEF IndInv, CallInBounds
<1> QED BY <1>5, <1>6, <1>7, <1>8 DEF IndInv
-----------------------------------------------------------------------------
(* Publication. *)

LEMMA SealStep == ASSUME IndInv, Seal PROVE IndInv'
<1>1. /\ pc = "seal" /\ pc' = "slot" /\ pc # "free"
      /\ file' = PutSlot(file, OtherSlot, BrokenSlot)
      /\ <<disk, opened, committed, lock, txns, faults, log, acked, stream, exposed, lost>>'
           = <<disk, opened, committed, lock, txns, faults, log, acked, stream, exposed, lost>>
  BY DEF Seal, procVars, history
<1> DEFINE mac == Ciphertext(file, IndexOffset, IndexLength)
<1>2. wr' = [wr EXCEPT !.mac = mac]
  BY DEF Seal
<1>3. /\ wr \in Locals /\ IsImage(file) /\ IsImage(disk)
      /\ file.eof \in Nat /\ disk.eof \in Nat /\ Len(log) \in Nat
  BY DEF IndInv, TypeOK, IsImage
<1>4. /\ txn.entry_len \in Nat /\ wr.loc \in Locator /\ wr.loc.index_length \in Nat
      /\ IndexOffset \in Nat /\ FRONT_MATTER_LEN <= IndexOffset
      /\ IndexLength = wr.loc.index_length + txn.entry_len
  BY <1>1, CallTypes
<1>5. /\ FRONT_MATTER_LEN <= disk.eof /\ disk.eof <= file.eof
      /\ SlotsBounded(file, disk.eof, Len(log)) /\ SlotsBounded(disk, disk.eof, Len(log))
  BY SlotsBoundedIff DEF IndInv
<1>6. IndexOffset + IndexLength <= disk.eof
  BY <1>1 DEF IndInv, CallInBounds, OnDisk
<1>7. mac \in Seq(Cell)
  BY <1>3, <1>4, <1>5, <1>6, CiphertextType
<1> HIDE DEF mac
<1>8. wr' \in Locals /\ wr'.loc = wr.loc /\ wr'.relocate = wr.relocate /\ wr'.index = wr.index
  BY <1>2, <1>3, <1>7 DEF Locals
<1>9. OtherSlot \in {0, 1} /\ BrokenSlot \in Slot /\ ~BrokenSlot.valid
  BY <1>4 DEF OtherSlot, Locator, Slot, BrokenSlot
<1>10. IsImage(file') /\ file'.eof = file.eof
  BY <1>1, <1>3, <1>9, PutSlotIsImage
<1>11. LocatorsInBounds' /\ GenerationsInLog'
  <2>1. SlotsBounded(file', disk'.eof, Len(log'))
    BY <1>1, <1>3, <1>5, <1>9, SlotsBoundedPut
  <2> QED BY <1>1, <1>5, <1>10, <2>1 DEF LocatorsInBounds, GenerationsInLog, SlotsBounded
<1>12. TypeOK'
  <2>1. (pc' = "free") = (lock' = NoProc)
    BY <1>1 DEF IndInv, TypeOK
  <2> QED BY <1>1, <1>8, <1>10, <2>1 DEF IndInv, TypeOK
<1>13. SnapshotsInTxns' /\ FramesBounded'
  BY <1>1 DEF IndInv, SnapshotsInTxns, FramesBounded, ChunkEnd
<1>14. CallInBounds'
  <2>1. id' = id /\ txn' = txn /\ IndexOffset' = IndexOffset /\ IndexLength' = IndexLength
    BY <1>1, <1>8 DEF id, txn, IndexOffset, IndexLength
  <2>2. pc' \notin OnFile \cup InPlace \cup Moving
    BY <1>1 DEF OnFile, InPlace, Moving
  <2> QED BY <1>1, <1>6, <1>8, <2>1, <2>2 DEF IndInv, CallInBounds
<1> QED BY <1>11, <1>12, <1>13, <1>14 DEF IndInv

LEMMA NewLocatorType ==
  ASSUME IndInv, pc \in {"slot", "sync_slot"}
  PROVE  /\ NewLocator \in Locator
         /\ NewLocator.generation = wr.loc.generation + 1
         /\ wr.loc.generation \in Nat
         /\ FRONT_MATTER_LEN <= NewLocator.index_offset
         /\ IndexEnd(NewLocator) <= disk.eof
         /\ OtherSlot \in {0, 1}
<1>1. wr \in Locals /\ pc # "free"
  BY DEF IndInv, TypeOK
<1>2. /\ txn.entry_len \in Nat /\ wr.loc \in Locator /\ wr.loc.index_length \in Nat
      /\ IndexOffset \in Nat /\ FRONT_MATTER_LEN <= IndexOffset
      /\ IndexLength = wr.loc.index_length + txn.entry_len
  BY <1>1, CallTypes
<1>3. wr.mac \in Seq(Cell)
  BY <1>1 DEF Locals
<1>4. wr.loc.generation \in Nat /\ OtherSlot \in {0, 1}
  BY <1>2 DEF OtherSlot, Locator
<1>5. IndexLength \in Nat /\ wr.loc.generation + 1 \in Nat
  BY <1>2, <1>4
<1>6. IndexOffset + IndexLength <= disk.eof
  BY DEF IndInv, CallInBounds, OnDisk
<1> QED BY <1>2, <1>3, <1>4, <1>5, <1>6 DEF NewLocator, Locator, IndexEnd

LEMMA PublishSlotStep == ASSUME IndInv, PublishSlot PROVE IndInv'
<1>1. /\ pc = "slot" /\ pc' = "sync_slot" /\ pc # "free"
      /\ file' = PutSlot(file, OtherSlot, [valid |-> TRUE, loc |-> NewLocator])
      /\ log' = Append(log, id)
      /\ <<disk, opened, committed, lock, wr, txns, faults, acked, stream, exposed, lost>>'
           = <<disk, opened, committed, lock, wr, txns, faults, acked, stream, exposed, lost>>
  BY DEF PublishSlot, procVars
<1>2. /\ IsImage(file) /\ IsImage(disk) /\ log \in Seq(DOMAIN txns)
      /\ file.eof \in Nat /\ disk.eof \in Nat /\ Len(log) \in Nat
  BY DEF IndInv, TypeOK, IsImage
<1>3. /\ NewLocator \in Locator /\ NewLocator.generation = wr.loc.generation + 1
      /\ wr.loc.generation \in Nat
      /\ FRONT_MATTER_LEN <= NewLocator.index_offset /\ IndexEnd(NewLocator) <= disk.eof
      /\ OtherSlot \in {0, 1}
  BY <1>1, NewLocatorType
<1>4. id \in DOMAIN txns
  BY <1>1, CallTypes
<1>5. log' \in Seq(DOMAIN txns) /\ Len(log') = Len(log) + 1
  BY <1>1, <1>2, <1>4
<1>6. wr.loc.generation <= Len(log)
  <2>1. wr.loc.generation + 0 <= Len(log)
    BY <1>1 DEF IndInv, CallInBounds
  <2> QED BY <2>1, <1>2, <1>3
<1>7. /\ FRONT_MATTER_LEN <= disk.eof /\ disk.eof <= file.eof
      /\ SlotsBounded(file, disk.eof, Len(log)) /\ SlotsBounded(disk, disk.eof, Len(log))
  BY SlotsBoundedIff DEF IndInv
<1>8. SlotsBounded(file, disk.eof, Len(log')) /\ SlotsBounded(disk, disk.eof, Len(log'))
  BY <1>2, <1>5, <1>7, SlotsBoundedMonotone
<1> DEFINE s == [valid |-> TRUE, loc |-> NewLocator]
<1>9. s \in Slot /\ s.loc = NewLocator
  BY <1>3 DEF Slot
<1>10. NewLocator.generation <= Len(log')
  BY <1>2, <1>3, <1>5, <1>6
<1>11. file' = PutSlot(file, OtherSlot, s)
  BY <1>1
<1> HIDE DEF s
<1>12. IsImage(file') /\ file'.eof = file.eof
  BY <1>2, <1>3, <1>9, <1>11, PutSlotIsImage
<1>13. LocatorsInBounds' /\ GenerationsInLog'
  <2>1. SlotsBounded(file', disk.eof, Len(log'))
    BY <1>2, <1>3, <1>8, <1>9, <1>10, <1>11, SlotsBoundedPut
  <2> QED BY <1>1, <1>7, <1>8, <1>12, <2>1 DEF LocatorsInBounds, GenerationsInLog, SlotsBounded
<1>14. TypeOK'
  <2>1. (pc' = "free") = (lock' = NoProc)
    BY <1>1 DEF IndInv, TypeOK
  <2>2. pc' \in Syncs
    BY <1>1 DEF Syncs
  <2> QED BY <1>1, <1>5, <1>12, <2>1, <2>2 DEF IndInv, TypeOK
<1>15. SnapshotsInTxns' /\ FramesBounded'
  BY <1>1 DEF IndInv, SnapshotsInTxns, FramesBounded, ChunkEnd
<1>16. CallInBounds'
  <2>1. id' = id /\ txn' = txn /\ IndexOffset' = IndexOffset /\ IndexLength' = IndexLength
    BY <1>1 DEF id, txn, IndexOffset, IndexLength
  <2>2. pc' \notin OnFile \cup InPlace \cup Moving /\ pc \in OnDisk
    BY <1>1 DEF OnFile, InPlace, Moving, OnDisk
  <2>3. wr.loc.generation + 1 <= Len(log')
    BY <1>2, <1>3, <1>5, <1>6
  <2> QED BY <1>1, <2>1, <2>2, <2>3 DEF IndInv, CallInBounds
<1> QED BY <1>13, <1>14, <1>15, <1>16 DEF IndInv

LEMMA CommitStep == ASSUME IndInv, Commit PROVE IndInv'
<1>1. /\ pc = "sync_slot" /\ pc' = "free" /\ pc # "free"
      /\ disk' = file /\ lock' = NoProc /\ wr' = NoLocals
      /\ acked' = NewLocator.generation /\ exposed' = FALSE
      /\ <<file, opened, txns, faults, log, stream, lost>>'
           = <<file, opened, txns, faults, log, stream, lost>>
  BY DEF Commit, NewSnapshots
<1> DEFINE s == [locator |-> NewLocator, index |-> wr.index \cup {id}]
<1>2. committed' = [p \in DOMAIN committed \cup {lock} |->
                      IF p = lock THEN s ELSE committed[p]]
  BY DEF Commit, NewSnapshots
<1>3. /\ IsImage(file) /\ IsImage(disk) /\ wr \in Locals
      /\ file.eof \in Nat /\ disk.eof \in Nat /\ Len(log) \in Nat
      /\ lock \in opened
      /\ committed \in [DOMAIN committed -> Snapshot] /\ DOMAIN committed \subseteq opened
  BY <1>1 DEF IndInv, TypeOK, IsImage
<1>4. NewLocator \in Locator /\ wr.loc.generation \in Nat
      /\ NewLocator.generation = wr.loc.generation + 1
  BY <1>1, NewLocatorType
<1>5. id \in DOMAIN txns /\ id \in Nat
  BY <1>1, CallTypes
<1>6. s \in Snapshot /\ s.index \subseteq DOMAIN txns
  <2>1. wr.index \subseteq DOMAIN txns /\ wr.index \subseteq Nat
    BY <1>1, <1>3 DEF IndInv, CallInBounds, Locals
  <2> QED BY <1>4, <1>5, <2>1 DEF Snapshot
<1> HIDE DEF s
<1>7. /\ DOMAIN committed' = DOMAIN committed \cup {lock}
      /\ committed' \in [DOMAIN committed' -> Snapshot] /\ DOMAIN committed' \subseteq opened
  BY <1>2, <1>3, <1>6
<1>8. /\ FRONT_MATTER_LEN <= disk.eof /\ disk.eof <= file.eof
      /\ SlotsBounded(file, disk.eof, Len(log))
  BY SlotsBoundedIff DEF IndInv
<1>9. FRONT_MATTER_LEN <= file.eof /\ SlotsBounded(file, file.eof, Len(log))
  BY <1>3, <1>8, SlotsBoundedMonotone, LayoutAssumption
<1>10. LocatorsInBounds' /\ GenerationsInLog'
  BY <1>1, <1>3, <1>9 DEF LocatorsInBounds, GenerationsInLog, SlotsBounded
<1>11. wr' \in Locals
  BY <1>1 DEF NoLocals, Locals, NoLocator, Locator
<1>12. TypeOK'
  <2>1. acked' \in Nat
    BY <1>1, <1>4
  <2>2. (pc' = "free") = (lock' = NoProc) /\ lock' \in opened' \cup {NoProc}
    BY <1>1
  <2> QED BY <1>1, <1>3, <1>7, <1>11, <2>1, <2>2 DEF IndInv, TypeOK
<1>13. SnapshotsInTxns'
  BY <1>1, <1>2, <1>6, <1>7 DEF IndInv, SnapshotsInTxns
<1>14. FramesBounded' /\ CallInBounds'
  BY <1>1 DEF IndInv, FramesBounded, ChunkEnd, CallInBounds
<1> QED BY <1>10, <1>12, <1>13, <1>14 DEF IndInv
-----------------------------------------------------------------------------
(* Processes come, go, and begin a call. *)

LEMMA OpenStep == ASSUME IndInv, NEW p \in Procs, Open(p) PROVE IndInv'
<1>1. /\ opened' = opened \cup {p}
      /\ <<file, disk, committed, lock, pc, wr, txns, faults, log, acked, stream,
           exposed, lost>>'
           = <<file, disk, committed, lock, pc, wr, txns, faults, log, acked, stream,
               exposed, lost>>
  BY DEF Open, history
<1>2. TypeOK'
  BY <1>1 DEF IndInv, TypeOK
<1>3. LocatorsInBounds' /\ GenerationsInLog' /\ SnapshotsInTxns' /\ FramesBounded'
  BY <1>1 DEF IndInv, LocatorsInBounds, GenerationsInLog, SnapshotsInTxns, FramesBounded,
              ChunkEnd
<1>4. CallInBounds'
  BY <1>1 DEF IndInv, CallInBounds, id, txn, IndexOffset, IndexLength
<1> QED BY <1>2, <1>3, <1>4 DEF IndInv

LEMMA DropType ==
  ASSUME IndInv, NEW p, Drop(p)
  PROVE  /\ opened' \subseteq opened
         /\ committed' \in [DOMAIN committed' -> Snapshot] /\ DOMAIN committed' \subseteq opened'
         /\ \A q \in DOMAIN committed' : committed'[q].index \subseteq DOMAIN txns
<1>1. opened' = opened \ {p}
      /\ committed' = [q \in DOMAIN committed \ {p} |-> committed[q]]
  BY DEF Drop, Restrict
<1>2. committed \in [DOMAIN committed -> Snapshot] /\ DOMAIN committed \subseteq opened
  BY DEF IndInv, TypeOK
<1>3. \A q \in DOMAIN committed : committed[q].index \subseteq DOMAIN txns
  BY DEF IndInv, SnapshotsInTxns
<1> QED BY <1>1, <1>2, <1>3

LEMMA CloseStep == ASSUME IndInv, NEW p \in Procs, Close(p) PROVE IndInv'
<1>1. /\ p # lock /\ Drop(p)
      /\ <<file, disk, lock, pc, wr, txns, faults, log, acked, stream, exposed, lost>>'
           = <<file, disk, lock, pc, wr, txns, faults, log, acked, stream, exposed, lost>>
  BY DEF Close, history
<1>2. TypeOK'
  <2>1. lock' \in opened' \cup {NoProc}
    BY <1>1 DEF IndInv, TypeOK, Drop
  <2> QED BY <1>1, <2>1, DropType DEF IndInv, TypeOK
<1>3. LocatorsInBounds' /\ GenerationsInLog' /\ FramesBounded'
  BY <1>1 DEF IndInv, LocatorsInBounds, GenerationsInLog, FramesBounded, ChunkEnd
<1>4. SnapshotsInTxns'
  BY <1>1, DropType DEF SnapshotsInTxns
<1>5. CallInBounds'
  BY <1>1 DEF IndInv, CallInBounds, id, txn, IndexOffset, IndexLength
<1> QED BY <1>2, <1>3, <1>4, <1>5 DEF IndInv

\* The data tail of a loaded index.
LEMMA TailType ==
  ASSUME IndInv, NEW index, index \subseteq DOMAIN txns
  PROVE  /\ DataTail({ChunkEnd(i) : i \in index}) \in Nat
         /\ FRONT_MATTER_LEN <= DataTail({ChunkEnd(i) : i \in index})
<1>1. PICK b \in Nat : \A i \in DOMAIN txns : ChunkEnd(i) <= b
  BY DEF IndInv, FramesBounded
<1> DEFINE ends == {ChunkEnd(i) : i \in index}
<1>2. \A i \in DOMAIN txns : ChunkEnd(i) \in Nat
  <2>1. txns \in Seq(Txn)
    BY DEF IndInv, TypeOK
  <2>2. ASSUME NEW i \in DOMAIN txns PROVE ChunkEnd(i) \in Nat
    <3>1. txns[i] \in Txn
      BY <2>1
    <3>2. txns[i].off \in Nat /\ txns[i].chunk_len \in Nat
      BY <3>1 DEF Txn
    <3> QED BY <3>2 DEF ChunkEnd
  <2> QED BY <2>2
<1>3. ends \subseteq Nat /\ \A e \in ends : e <= b
  BY <1>1, <1>2
<1> HIDE DEF ends
<1>4. DataTail(ends) \in Nat /\ FRONT_MATTER_LEN <= DataTail(ends)
  BY <1>3, DataTailIsBound
<1> QED BY <1>4 DEF ends

LEMMA BeginStep == ASSUME IndInv, NEW p \in Procs, NEW plan \in Plans, Begin(p, plan) PROVE IndInv'
<1> DEFINE loc == ActiveLocator(file)
           index == LoadedIndex(p, loc)
           tail == DataTail({ChunkEnd(i) : i \in index})
           move == NeedsRelocate(plan, loc, tail, file.eof)
           t == [off |-> tail, chunk_len |-> plan.chunk_len,
                 start |-> loc.index_length, entry_len |-> plan.entry_len]
<1>1. /\ p \in opened /\ lock = NoProc /\ Len(txns) < MaxTxns
      /\ ValidSlots(file) # {} /\ (SnapshotMatches(p, loc) \/ Verifies(file, loc))
      /\ lock' = p /\ txns' = Append(txns, t)
      /\ wr' = [loc |-> loc, index |-> index, relocate |-> move, mac |-> <<>>]
      /\ pc' = IF move THEN "grow" ELSE "append"
      /\ <<file, disk, opened, committed, faults, log, acked, stream, exposed, lost>>'
           = <<file, disk, opened, committed, faults, log, acked, stream, exposed, lost>>
  BY DEF Begin, procVars, history
<1>2. /\ IsImage(file) /\ IsImage(disk) /\ txns \in Seq(Txn) /\ Len(txns) \in Nat
      /\ log \in Seq(DOMAIN txns) /\ stream \subseteq Nat \X DOMAIN txns
      /\ Len(log) \in Nat
  BY DEF IndInv, TypeOK
<1>3. plan.chunk_len \in Nat /\ plan.entry_len \in Nat \ {0}
  BY WriterAssumption DEF Plan
<1>4. /\ loc \in Locator
      /\ \E i \in ValidSlots(file) : loc = file.slot[i].loc
  BY <1>1, <1>2, ActiveIsValid
<1>5. loc.index_offset \in Nat /\ loc.index_length \in Nat /\ loc.generation \in Nat
  BY <1>4 DEF Locator
<1>6. FRONT_MATTER_LEN <= loc.index_offset /\ IndexEnd(loc) <= disk.eof
      /\ loc.generation <= Len(log)
  BY <1>4, SlotsBoundedIff DEF IndInv, SlotsBounded
<1>7. index \subseteq DOMAIN txns
  <2>1. CASE SnapshotMatches(p, loc)
    BY <2>1 DEF LoadedIndex, SnapshotMatches, IndInv, SnapshotsInTxns
  <2>2. CASE ~SnapshotMatches(p, loc)
    <3>1. index = Decode(loc.index_mac)
      BY <2>2 DEF LoadedIndex
    <3>2. Parses(loc.index_mac)
      BY <1>1, <2>2 DEF Verifies
    <3> QED BY <3>1, <3>2 DEF Decode, Parses
  <2> QED BY <2>1, <2>2
<1>8. tail \in Nat /\ FRONT_MATTER_LEN <= tail
  <2> HIDE DEF index
  <2> QED BY <1>7, TailType
<1>9. move \in BOOLEAN
  BY DEF NeedsRelocate
<1> HIDE DEF loc, index, tail, move
<1>10. t \in Txn
  BY <1>3, <1>5, <1>8 DEF Txn
<1>11. t.off = tail /\ t.chunk_len = plan.chunk_len /\ t.start = loc.index_length
  OBVIOUS
<1> HIDE DEF t
<1>12. /\ txns' \in Seq(Txn) /\ Len(txns') = Len(txns) + 1 /\ Len(txns') <= MaxTxns
       /\ DOMAIN txns \subseteq DOMAIN txns' /\ txns'[Len(txns')] = t
       /\ \A i \in DOMAIN txns' : i \in DOMAIN txns \/ i = Len(txns')
       /\ \A i \in DOMAIN txns : txns'[i] = txns[i]
  BY <1>1, <1>2, <1>10, WriterAssumption
<1>13. wr' \in Locals
  <2>1. index \subseteq Nat
    BY <1>2, <1>7
  <2> QED BY <1>1, <1>4, <1>9, <2>1 DEF Locals
<1>14. TypeOK'
  <2>1. log' \in Seq(DOMAIN txns') /\ stream' \subseteq Nat \X DOMAIN txns'
    BY <1>1, <1>2, <1>12
  <2>2. pc' \in BodyWrites /\ pc' # "free" /\ lock' # NoProc
    BY <1>1, WriterAssumption DEF BodyWrites
  <2> QED BY <1>1, <1>12, <1>13, <2>1, <2>2 DEF IndInv, TypeOK
<1>15. LocatorsInBounds' /\ GenerationsInLog'
  BY <1>1 DEF IndInv, LocatorsInBounds, GenerationsInLog
<1>16. SnapshotsInTxns'
  BY <1>1, <1>12 DEF IndInv, SnapshotsInTxns
<1>17. FramesBounded'
  <2>1. PICK b \in Nat : \A i \in DOMAIN txns : ChunkEnd(i) <= b
    BY DEF IndInv, FramesBounded
  <2>2. \A i \in DOMAIN txns' : txns'[i].off + txns'[i].chunk_len <= b + tail + plan.chunk_len
    <3>1. ASSUME NEW i \in DOMAIN txns
          PROVE  txns'[i].off + txns'[i].chunk_len <= b + tail + plan.chunk_len
      <4>1. txns[i] \in Txn
        BY <1>2
      <4>2. txns[i].off \in Nat /\ txns[i].chunk_len \in Nat
        BY <4>1 DEF Txn
      <4>3. txns[i].off + txns[i].chunk_len <= b
        BY <2>1 DEF ChunkEnd
      <4> QED BY <4>2, <4>3, <1>3, <1>8, <1>12
    <3>2. t.off + t.chunk_len <= b + tail + plan.chunk_len
      BY <1>3, <1>8, <1>11
    <3> QED BY <3>1, <3>2, <1>12
  <2>3. b + tail + plan.chunk_len \in Nat
    BY <1>3, <1>8
  <2> QED BY <2>2, <2>3 DEF FramesBounded, ChunkEnd
<1>18. CallInBounds'
  <2>1. txns' # <<>> /\ txn' = t
    BY <1>2, <1>12 DEF txn, id
  <2>2. pc' \notin OnFile \cup OnDisk /\ pc' # "sync_slot"
        /\ (pc' \in InPlace => ~move) /\ (pc' \in Moving => move)
    BY <1>1, <1>9 DEF OnFile, OnDisk, InPlace, Moving
  <2>3. wr'.loc = loc /\ wr'.index = index /\ wr'.relocate = move
    BY <1>1
  <2>4. wr'.index \subseteq DOMAIN txns'
    BY <2>3, <1>7, <1>12
  <2>5. wr'.loc.generation + 0 <= Len(log')
    BY <2>3, <1>1, <1>5, <1>6
  <2> QED BY <1>1, <1>6, <1>8, <1>11, <2>1, <2>2, <2>3, <2>4, <2>5 DEF CallInBounds
<1> QED BY <1>14, <1>15, <1>16, <1>17, <1>18 DEF IndInv
-----------------------------------------------------------------------------
(* Faults. *)

LEMMA AbandonStep ==
  ASSUME IndInv, Abandon,
         opened' \subseteq Procs,
         committed' \in [DOMAIN committed' -> Snapshot], DOMAIN committed' \subseteq opened',
         \A q \in DOMAIN committed' : committed'[q].index \subseteq DOMAIN txns
  PROVE  IndInv'
<1>1. /\ faults < MaxFaults /\ faults' = faults + 1 /\ lock # NoProc
      /\ lock' = NoProc /\ pc' = "free" /\ wr' = NoLocals
      /\ <<disk, txns, log, acked>>' = <<disk, txns, log, acked>>
      /\ lost' = (lost \/ Overwriting \/ (pc = "copy" /\ Destructive))
  BY DEF Abandon
<1>2. pc # "free" /\ IsImage(disk)
  BY <1>1 DEF IndInv, TypeOK
<1>3. /\ IsImage(file') /\ LocatorsInBounds' /\ GenerationsInLog'
      /\ stream' \subseteq Nat \X DOMAIN txns' /\ exposed' \in BOOLEAN
  <2>1. CASE pc \in BodyWrites
    <3>1. PICK n \in 0 .. Len(Pending.cells) :
            /\ file' = Put(file, Pending, n)
            /\ stream' = stream \cup Encrypted(n)
            /\ exposed' = (exposed \/ HitsDurableIndex(n))
      BY <2>1 DEF Abandon
    <3>2. exposed' \in BOOLEAN
      BY <3>1
    <3> QED BY <2>1, <3>1, <3>2, <1>1, BodyWritten
  <2>2. CASE pc \notin BodyWrites
    <3>1. file' = file /\ stream' = stream /\ exposed' = exposed
      BY <2>2 DEF Abandon
    <3>2. LocatorsInBounds' /\ GenerationsInLog'
      BY <3>1, <1>1 DEF IndInv, LocatorsInBounds, GenerationsInLog
    <3> QED BY <3>1, <3>2, <1>1 DEF IndInv, TypeOK
  <2> QED BY <2>1, <2>2
<1>4. TypeOK'
  <2>1. faults' \in 0 .. MaxFaults
    BY <1>1, WriterAssumption DEF IndInv, TypeOK
  <2>2. wr' \in Locals
    BY <1>1 DEF NoLocals, Locals, NoLocator, Locator
  <2>3. lost' \in BOOLEAN
    BY <1>1
  <2> QED BY <1>1, <1>2, <1>3, <2>1, <2>2, <2>3 DEF IndInv, TypeOK
<1>5. SnapshotsInTxns' /\ FramesBounded' /\ CallInBounds'
  BY <1>1 DEF IndInv, SnapshotsInTxns, FramesBounded, ChunkEnd, CallInBounds
<1> QED BY <1>3, <1>4, <1>5 DEF IndInv

LEMMA FailStep == ASSUME IndInv, Fail PROVE IndInv'
<1>1. Abandon /\ opened' = opened /\ committed' = committed
  BY DEF Fail, procVars
<1>2. /\ opened' \subseteq Procs
      /\ committed' \in [DOMAIN committed' -> Snapshot] /\ DOMAIN committed' \subseteq opened'
      /\ \A q \in DOMAIN committed' : committed'[q].index \subseteq DOMAIN txns
  BY <1>1 DEF IndInv, TypeOK, SnapshotsInTxns
<1> QED BY <1>1, <1>2, AbandonStep

LEMMA KillStep == ASSUME IndInv, Kill PROVE IndInv'
<1>1. Abandon /\ Drop(lock)
  BY DEF Kill
<1>2. opened \subseteq Procs
  BY DEF IndInv, TypeOK
<1> QED BY <1>1, <1>2, DropType, AbandonStep

\* A crash image is an image, with the size and the slots of the durable
\* image or of the written one, or with broken slots.
LEMMA CrashImageType ==
  ASSUME IndInv, NEW img \in CrashImages
  PROVE  /\ IsImage(img)
         /\ disk.eof <= img.eof
         /\ SlotsBounded(img, disk.eof, Len(log))
<1>1. PICK c \in Crash : img = CrashImage(c)
  BY DEF CrashImages
<1>2. /\ file.slot \in [{0, 1} -> Slot] /\ disk.slot \in [{0, 1} -> Slot]
      /\ file.eof \in Nat /\ disk.eof \in Nat
      /\ file.body \in [FRONT_MATTER_LEN .. file.eof - 1 -> Cell]
      /\ disk.body \in [FRONT_MATTER_LEN .. disk.eof - 1 -> Cell]
  BY DEF IndInv, TypeOK, IsImage
<1>3. /\ FRONT_MATTER_LEN <= disk.eof /\ disk.eof <= file.eof
      /\ SlotsBounded(file, disk.eof, Len(log)) /\ SlotsBounded(disk, disk.eof, Len(log))
  BY SlotsBoundedIff DEF IndInv
<1>4. BrokenSlot \in Slot /\ ~BrokenSlot.valid
  BY DEF Slot, BrokenSlot
<1>5. ASSUME NEW i \in {0, 1}, NEW s \in SlotOutcomes(i)
      PROVE  /\ s \in Slot
             /\ s.valid => /\ FRONT_MATTER_LEN <= s.loc.index_offset
                           /\ IndexEnd(s.loc) <= disk.eof
                           /\ s.loc.generation <= Len(log)
  <2>1. CASE s = file.slot[i]
    BY <1>2, <1>3, <2>1 DEF SlotsBounded, ValidSlots
  <2>2. CASE s = disk.slot[i]
    BY <1>2, <1>3, <2>2 DEF SlotsBounded, ValidSlots
  <2>3. CASE s = BrokenSlot
    BY <1>4, <2>3
  <2> QED BY <1>5, <2>1, <2>2, <2>3 DEF SlotOutcomes
<1> DEFINE n == c.eof
           slots == [i \in {0, 1} |-> IF i = 0 THEN c.a ELSE c.b]
           body == [x \in FRONT_MATTER_LEN .. n - 1 |->
                      IF x \in c.kept THEN file.body[x] ELSE DurableCell(x)]
<1>6. img = [slot |-> slots, eof |-> n, body |-> body]
  BY <1>1 DEF CrashImage
<1>7. c.a \in SlotOutcomes(0) /\ c.b \in SlotOutcomes(1) /\ n \in {disk.eof, file.eof}
  BY DEF Crash
<1>8. slots \in [{0, 1} -> Slot] /\ slots[0] = c.a /\ slots[1] = c.b
  BY <1>5, <1>7
<1>9. body \in [FRONT_MATTER_LEN .. n - 1 -> Cell]
  <2>1. n \in Nat /\ n <= file.eof
    BY <1>2, <1>3, <1>7
  <2>2. ASSUME NEW x \in FRONT_MATTER_LEN .. n - 1
        PROVE  file.body[x] \in Cell
    <3>1. x \in FRONT_MATTER_LEN .. file.eof - 1
      BY <1>2, <2>1, LayoutAssumption
    <3> QED BY <1>2, <3>1
  <2>3. ASSUME NEW x \in FRONT_MATTER_LEN .. n - 1
        PROVE  DurableCell(x) \in Cell
    <3>1. ASSUME x < disk.eof PROVE disk.body[x] \in Cell
      <4>1. x \in FRONT_MATTER_LEN .. disk.eof - 1
        BY <1>2, <2>1, <3>1, LayoutAssumption
      <4> QED BY <1>2, <4>1
    <3>2. Junk \in Cell
      BY DEF Junk, Cell
    <3> QED BY <3>1, <3>2 DEF DurableCell
  <2> QED BY <2>2, <2>3
<1> HIDE DEF slots, body, n
<1>10. IsImage(img)
  BY <1>2, <1>6, <1>7, <1>8, <1>9 DEF IsImage
<1>11. disk.eof <= img.eof
  BY <1>2, <1>3, <1>6, <1>7
<1>12. SlotsBounded(img, disk.eof, Len(log))
  BY <1>5, <1>6, <1>7, <1>8 DEF SlotsBounded, ValidSlots
<1> QED BY <1>10, <1>11, <1>12

LEMMA HostCrashStep == ASSUME IndInv, HostCrash PROVE IndInv'
<1>1. /\ faults < MaxFaults /\ faults' = faults + 1
      /\ file' \in CrashImages /\ disk' = file'
      /\ opened' = {} /\ committed' = [p \in {} |-> {}]
      /\ lock' = NoProc /\ pc' = "free" /\ wr' = NoLocals
      /\ log' = SubSeq(log, 1, ActiveLocator(file').generation)
      /\ exposed' = FALSE /\ lost' = (lost \/ exposed \/ Overwriting)
      /\ <<txns, acked, stream>>' = <<txns, acked, stream>>
  BY DEF HostCrash
<1>2. IsImage(file') /\ disk.eof <= file'.eof /\ SlotsBounded(file', disk.eof, Len(log))
  BY <1>1, CrashImageType
<1>3. log \in Seq(DOMAIN txns) /\ Len(log) \in Nat /\ disk.eof \in Nat /\ file'.eof \in Nat
  BY <1>2 DEF IndInv, TypeOK, IsImage
<1> DEFINE g == ActiveLocator(file').generation
<1>4. g \in 0 .. Len(log) /\ SlotsBounded(file', disk.eof, g)
  <2>1. CASE ValidSlots(file') # {}
    <3>1. PICK i \in ValidSlots(file') : ActiveLocator(file') = file'.slot[i].loc
      BY <1>2, <2>1, ActiveIsValid
    <3>2. g \in Nat /\ g <= Len(log)
      BY <1>2, <3>1, ValidSlotType DEF SlotsBounded
    <3>3. \A j \in ValidSlots(file') : file'.slot[j].loc.generation <= g
      BY <1>2, <2>1, ActiveIsValid
    <3> QED BY <1>2, <1>3, <3>2, <3>3 DEF SlotsBounded
  <2>2. CASE ValidSlots(file') = {}
    <3>1. file'.slot[0] \in Slot /\ ~file'.slot[0].valid /\ ~file'.slot[1].valid
      BY <1>2, <2>2 DEF IsImage, ValidSlots
    <3>2. file'.slot[0] = BrokenSlot
      BY <3>1 DEF Slot
    <3>3. g = 0
      BY <3>1, <3>2 DEF ActiveLocator, BrokenSlot, NoLocator
    <3> QED BY <1>3, <2>2, <3>3 DEF SlotsBounded
  <2> QED BY <2>1, <2>2
<1> HIDE DEF g
<1>5. log' \in Seq(DOMAIN txns) /\ Len(log') = g
  <2>1. log' = SubSeq(log, 1, g)
    BY <1>1 DEF g
  <2> QED BY <2>1, <1>3, <1>4
<1>6. LocatorsInBounds' /\ GenerationsInLog'
  <2>1. FRONT_MATTER_LEN <= disk.eof
    BY SlotsBoundedIff DEF IndInv
  <2>2. FRONT_MATTER_LEN <= file'.eof /\ SlotsBounded(file', file'.eof, g)
    BY <1>2, <1>3, <1>4, <2>1, SlotsBoundedMonotone, LayoutAssumption
  <2> QED BY <1>1, <1>3, <1>5, <2>2 DEF LocatorsInBounds, GenerationsInLog, SlotsBounded
<1>7. TypeOK'
  <2>1. faults' \in 0 .. MaxFaults
    BY <1>1, WriterAssumption DEF IndInv, TypeOK
  <2>2. wr' \in Locals
    BY <1>1 DEF NoLocals, Locals, NoLocator, Locator
  <2>3. lost' \in BOOLEAN /\ exposed' \in BOOLEAN
    BY <1>1
  <2>4. committed' \in [DOMAIN committed' -> Snapshot] /\ DOMAIN committed' \subseteq opened'
    BY <1>1
  <2> QED BY <1>1, <1>2, <1>5, <2>1, <2>2, <2>3, <2>4 DEF IndInv, TypeOK
<1>8. SnapshotsInTxns' /\ FramesBounded' /\ CallInBounds'
  BY <1>1 DEF IndInv, SnapshotsInTxns, FramesBounded, ChunkEnd, CallInBounds
<1> QED BY <1>6, <1>7, <1>8 DEF IndInv

-----------------------------------------------------------------------------
LEMMA NextIndInv == IndInv /\ [Next]_vars => IndInv'
<1> SUFFICES ASSUME IndInv, [Next]_vars PROVE IndInv'
  OBVIOUS
<1>1. ASSUME NEW p \in Procs, Open(p) PROVE IndInv'
  BY <1>1, OpenStep
<1>2. ASSUME NEW p \in Procs, Close(p) PROVE IndInv'
  BY <1>2, CloseStep
<1>3. ASSUME NEW p \in Procs, NEW plan \in Plans, Begin(p, plan) PROVE IndInv'
  BY <1>3, BeginStep
<1>4. CASE AppendFrames
  BY <1>4, WriteBodyStep DEF AppendFrames, BodyWrites, Syncs, InPlace, Moving, OnFile
<1>5. CASE SyncFrames
  BY <1>5, SyncBodyStep DEF SyncFrames, Syncs, InPlace, OnFile
<1>6. CASE AppendEntries
  BY <1>6, WriteBodyStep DEF AppendEntries, BodyWrites, Syncs, InPlace, Moving, OnFile
<1>7. CASE SyncEntries
  BY <1>7, SyncBodyStep DEF SyncEntries, Syncs, InPlace, OnFile
<1>8. CASE Grow
  BY <1>8, WriteBodyStep DEF Grow, BodyWrites, Syncs, InPlace, Moving, OnFile
<1>9. CASE CopyIndex
  BY <1>9, WriteBodyStep DEF CopyIndex, BodyWrites, Syncs, InPlace, Moving, OnFile
<1>10. CASE MoveEntries
  BY <1>10, WriteBodyStep DEF MoveEntries, BodyWrites, Syncs, InPlace, Moving, OnFile
<1>11. CASE MoveFrames
  BY <1>11, WriteBodyStep DEF MoveFrames, BodyWrites, Syncs, InPlace, Moving, OnFile
<1>12. CASE SyncMoved
  BY <1>12, SyncBodyStep DEF SyncMoved, Syncs, InPlace, OnFile
<1>13. CASE Seal
  BY <1>13, SealStep
<1>14. CASE PublishSlot
  BY <1>14, PublishSlotStep
<1>15. CASE Commit
  BY <1>15, CommitStep
<1>16. CASE Fail
  BY <1>16, FailStep
<1>17. CASE Kill
  BY <1>17, KillStep
<1>18. CASE HostCrash
  BY <1>18, HostCrashStep
<1>19. CASE UNCHANGED vars
  BY <1>19 DEF vars, IndInv, TypeOK, LocatorsInBounds, GenerationsInLog, SnapshotsInTxns,
               CallInBounds, FramesBounded, ChunkEnd, id, txn, IndexOffset, IndexLength
<1> QED BY <1>1, <1>2, <1>3, <1>4, <1>5, <1>6, <1>7, <1>8, <1>9, <1>10, <1>11, <1>12,
           <1>13, <1>14, <1>15, <1>16, <1>17, <1>18, <1>19 DEF Next, WriteStep

LEMMA InductiveInvariant == Spec => []IndInv
BY InitIndInv, NextIndInv, PTL DEF Spec

(* Every variable stays in its type: among others, no image, in memory or  *)
(* left by a crash, is ever anything but slots and a body of cells.        *)
THEOREM TypesHold == Spec => []TypeOK
<1>1. IndInv => TypeOK
  BY DEF IndInv
<1> QED BY <1>1, InductiveInvariant, PTL

(* Whatever is concurrent, cut short or crashed, every locator of every    *)
(* slot describes a region of the file that is durable: write_chunks syncs *)
(* the region before it writes the slot, and the file never shrinks below  *)
(* it.                                                                     *)
THEOREM LocatorsStayInBounds == Spec => []LocatorsInBounds
<1>1. IndInv => LocatorsInBounds
  BY DEF IndInv
<1> QED BY <1>1, InductiveInvariant, PTL
=============================================================================

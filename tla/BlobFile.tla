------------------------------ MODULE BlobFile ------------------------------
(***************************************************************************)
(* One blob file as the operating system keeps it: the image every process *)
(* reads and writes (file, the page cache) and the image a crash of the    *)
(* host leaves (disk).  File::sync_all makes the second equal to the       *)
(* first; a host crash keeps any part of what was not synced.              *)
(*                                                                         *)
(* The body is kept as one cell per unit of length.  A cell is <<kind,     *)
(* id, k>>:                                                                *)
(*    <<"junk",  0,  0>>  random padding, or bytes nobody wrote            *)
(*    <<"chunk", id, k>>  k-th unit of the chunk frames of transaction id  *)
(*    <<"index", id, k>>  a unit of the index entries of transaction id,   *)
(*                        encrypted with the keystream of index position k *)
(* so an index cell decrypts to an entry exactly at its own position.      *)
(***************************************************************************)
EXTENDS BlobLayout, Sequences

VARIABLES
  file,     \* what reads return
  disk      \* what is durable

Cell == {"junk", "chunk", "index"} \X Nat \X Nat

Junk == <<"junk", 0, 0>>

Locator == [generation : Nat, index_offset : Nat, index_length : Nat,
            index_mac : Seq(Cell), slot_index : {0, 1}]

NoLocator == [generation |-> 0, index_offset |-> 0, index_length |-> 0,
              index_mac |-> <<>>, slot_index |-> 0]

\* A volatile slot whose AEAD tag does not verify.
BrokenSlot == [valid |-> FALSE, loc |-> NoLocator]

Slot == [valid : {TRUE}, loc : Locator] \cup {BrokenSlot}

IsImage(f) ==
  f \in [slot : [{0, 1} -> Slot], eof : Nat,
         body : [FRONT_MATTER_LEN .. f.eof - 1 -> Cell]]

(***************************************************************************)
(* Reads.  The keyed MAC is ideal: it is the ciphertext it covers.  (The   *)
(* generation and the length it also covers are fields of the same         *)
(* locator, and a slot is read whole or not at all.)                       *)
(***************************************************************************)
Ciphertext(f, off, n) == [i \in 1 .. n |-> f.body[off + i - 1]]

MacOk(f, loc) ==
  /\ IndexEnd(loc) <= f.eof
  /\ Ciphertext(f, loc.index_offset, loc.index_length) = loc.index_mac

ValidSlots(f) == {i \in {0, 1} : f.slot[i].valid}

\* locators[0] of read_sorted_locators: highest generation first, and the
\* sort is stable, so slot A comes first at equal generations.
ActiveLocator(f) ==
  IF \/ ~f.slot[1].valid
     \/ /\ f.slot[0].valid
        /\ f.slot[0].loc.generation >= f.slot[1].loc.generation
  THEN f.slot[0].loc
  ELSE f.slot[1].loc

(***************************************************************************)
(* Writes.  A write is [offset, cells]; a hole left before it reads as     *)
(* bytes nobody wrote.                                                     *)
(***************************************************************************)
Put(f, w, n) ==
  LET eof == IF w.offset + n > f.eof THEN w.offset + n ELSE f.eof
  IN  [slot |-> f.slot,
       eof  |-> eof,
       body |-> [x \in FRONT_MATTER_LEN .. eof - 1 |->
                   IF x \in Region(w.offset, n) THEN w.cells[x - w.offset + 1]
                   ELSE IF x < f.eof THEN f.body[x] ELSE Junk]]

PutSlot(f, i, slot) == [f EXCEPT !.slot[i] = slot]

(***************************************************************************)
(* What a host crash may leave: each unit of the body and each slot is the *)
(* durable one or the written one, a slot cut in the middle does not       *)
(* verify, and the size is either one.                                     *)
(***************************************************************************)
DurableCell(x) == IF x < disk.eof THEN disk.body[x] ELSE Junk

Dirty == {x \in DOMAIN file.body : DurableCell(x) # file.body[x]}

SlotOutcomes(i) == IF file.slot[i] = disk.slot[i] THEN {file.slot[i]}
                   ELSE {file.slot[i], disk.slot[i], BrokenSlot}

Crash == [a : SlotOutcomes(0), b : SlotOutcomes(1),
          eof : {disk.eof, file.eof}, kept : SUBSET Dirty]

CrashImage(c) ==
  [slot |-> [i \in {0, 1} |-> IF i = 0 THEN c.a ELSE c.b],
   eof  |-> c.eof,
   body |-> [x \in FRONT_MATTER_LEN .. c.eof - 1 |->
               IF x \in c.kept THEN file.body[x] ELSE DurableCell(x)]]

CrashImages == {CrashImage(c) : c \in Crash}
=============================================================================

----------------------------- MODULE BlobLayout -----------------------------
(***************************************************************************)
(* The geometry of one blob file (src/src/blob.rs): where a transaction    *)
(* puts its chunk frames, when the index has to move (Case 2) and where it *)
(* moves to.  Only lengths and offsets are here; the file itself and the   *)
(* order of the writes are in BlobFile and BlobWriter.                     *)
(*                                                                         *)
(* A transaction is one call of write_chunks.  Its chunks are laid out     *)
(* back to back from data_tail and its index entries back to back from     *)
(* the end of the index, so all the geometry needs of it is the total      *)
(* length of its frames (chunk_len) and of its entries (entry_len).        *)
(***************************************************************************)
EXTENDS Integers, FiniteSetsExt

CONSTANTS
  FRONT_MATTER_LEN,             \* first offset of the body
  initial_leading_gap,          \* BlobConfig: gaps of a new blob
  initial_trailing_gap,
  relocation_leading_padding,   \* BlobConfig: gaps left by a relocation
  relocation_trailing_padding

ASSUME LayoutAssumption ==
  /\ FRONT_MATTER_LEN \in Nat
  /\ initial_leading_gap \in Nat
  /\ initial_trailing_gap \in Nat
  /\ relocation_leading_padding \in Nat
  /\ relocation_trailing_padding \in Nat

\* What write_chunks is asked to append.
Plan == [chunk_len : Nat, entry_len : Nat \ {0}]

\* The n offsets from off on.
Region(off, n) == off .. off + n - 1

Overlap(off1, n1, off2, n2) ==
  n1 > 0 /\ n2 > 0 /\ off1 < off2 + n2 /\ off2 < off1 + n1

IndexEnd(loc) == loc.index_offset + loc.index_length

\* ends: the end offset of every chunk frame the index lists.
\* (A definition named after another one with its fault is a mutant of it,
\* here and below: PROJECT.json says which property it breaks.)
DataTailOneShort(ends) == Max({e - 1 : e \in ends} \cup {FRONT_MATTER_LEN})

DataTail(ends) == Max(ends \cup {FRONT_MATTER_LEN})

LeadingGap(loc, data_tail) ==
  IF loc.index_offset >= data_tail THEN loc.index_offset - data_tail ELSE 0

TrailingGap(loc, eof) == eof - IndexEnd(loc)

NeedsRelocateTrailingOnly(plan, loc, data_tail, eof) ==
  plan.entry_len > TrailingGap(loc, eof)

NeedsRelocate(plan, loc, data_tail, eof) ==
  \/ plan.chunk_len > LeadingGap(loc, data_tail)
  \/ plan.entry_len > TrailingGap(loc, eof)

RelocatedOffset(plan, data_tail) ==
  data_tail + plan.chunk_len + relocation_leading_padding

\* Offset and length of the index once the transaction is committed.
NewIndexOffset(plan, loc, data_tail, relocate) ==
  IF relocate THEN RelocatedOffset(plan, data_tail) ELSE loc.index_offset

NewIndexLengthOneShort(plan, loc) == loc.index_length + plan.entry_len - 1

NewIndexLength(plan, loc) == loc.index_length + plan.entry_len

RequiredEof(plan, loc, data_tail) ==
  RelocatedOffset(plan, data_tail) + NewIndexLength(plan, loc)
    + relocation_trailing_padding

(***************************************************************************)
(* Does a relocation write into the region of the index it is moving?      *)
(* Either the new frames run over its start, or the moved index with its   *)
(* new entries lands on it.  Nothing in the code asks this question: the   *)
(* properties do.                                                          *)
(***************************************************************************)
OverwritesLiveIndex(plan, loc, data_tail) ==
  \/ Overlap(data_tail, plan.chunk_len, loc.index_offset, loc.index_length)
  \/ /\ RelocatedOffset(plan, data_tail) # loc.index_offset
     /\ Overlap(RelocatedOffset(plan, data_tail), NewIndexLength(plan, loc),
                loc.index_offset, loc.index_length)
=============================================================================

------------------------------ MODULE BlobStats -----------------------------
(***************************************************************************)
(* Blob::layout_stats (src/src/blob.rs): how the bytes of a blob file are  *)
(* used, as a function of the file and of its active index.  The frames of *)
(* a transaction are contiguous and stand for one chunk entry; plaintext   *)
(* lengths and entry counts, which are sums of the same entries, are left  *)
(* out.                                                                    *)
(***************************************************************************)
EXTENDS BlobWriter

Chunks(index) == {i \in index : txns[i].chunk_len > 0}

chunk_frame_bytes(index) ==
  MapThenSumSet(LAMBDA i : txns[i].chunk_len, Chunks(index))

gap_before_first_chunk_bytes(index) ==
  IF Chunks(index) = {} THEN 0
  ELSE Min({txns[i].off : i \in Chunks(index)}) - FRONT_MATTER_LEN

\* Where the loop over the sorted chunks stands when it gets to chunk i: at
\* the end of the one before.  (Mutant: at its start.)
CursorAtStart(index, i) ==
  Max({txns[j].off : j \in {k \in Chunks(index) : txns[k].off < txns[i].off}}
        \cup {FRONT_MATTER_LEN})

Cursor(index, i) ==
  LET before == {j \in Chunks(index) : txns[j].off < txns[i].off}
      last   == CHOOSE j \in before : \A k \in before : txns[k].off <= txns[j].off
  IN  IF before = {} THEN FRONT_MATTER_LEN ELSE ChunkEnd(last)

inter_chunk_gap_bytes(index) ==
  MapThenSumSet(LAMBDA i : Max({0, txns[i].off - Cursor(index, i)}), Chunks(index))

layout_stats(f) ==
  LET loc   == ActiveLocator(f)
      index == Decode(loc.index_mac)
      tail  == DataTail({ChunkEnd(i) : i \in Chunks(index)})
  IN  [body         |-> f.eof - FRONT_MATTER_LEN,
       frames       |-> chunk_frame_bytes(index),
       before_first |-> gap_before_first_chunk_bytes(index),
       between      |-> inter_chunk_gap_bytes(index),
       leading      |-> LeadingGap(loc, tail),
       index        |-> loc.index_length,
       trailing     |-> Max({0, TrailingGap(loc, f.eof)})]

(* Whenever the active index can be read, in the middle of a call or after *)
(* any fault, the parts layout_stats reports are the body, with no byte    *)
(* counted twice (the gap before the first chunk and the ones between      *)
(* chunks overlap in the code) and none left over.                         *)
StatsPartitionBody ==
  (ValidSlots(file) # {} /\ Verifies(file, ActiveLocator(file))) =>
    LET s == layout_stats(file)
    IN  s.frames + s.before_first + s.between + s.leading + s.index + s.trailing = s.body
=============================================================================

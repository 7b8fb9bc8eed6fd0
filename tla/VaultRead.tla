----------------------------- MODULE VaultRead -----------------------------
(***************************************************************************)
(* The reads of a vault (src/src/vault.rs): read_file, read_file_range,    *)
(* file_size and read_from_file, on the merged index a vault has at the    *)
(* moment, and the range read of the C ABI (src/native/src/lib.rs). A byte *)
(* is <<put, place>>: where it comes from is all that matters. Offsets and *)
(* lengths are u64, of which MaxWord is the largest; read_chunk returns    *)
(* the plaintext that was stored (BlobReader), and only one put has the    *)
(* hash of a marker.                                                       *)
(***************************************************************************)
EXTENDS Vault

CONSTANTS
  Pieces,   \* the lengths of the chunks each vault cuts a file into
  MaxWord   \* the largest offset or length

ASSUME ReadAssumption ==
  /\ Pieces \in [Vaults -> Seq(Nat)]
  /\ \A v \in Vaults : Len(Pieces[v]) = Total[v]
  /\ MaxWord \in Nat

\* Ends[v][s]: the bytes of the first s chunks of a file together.
Ends == [v \in Vaults |->
  LET end[s \in 0 .. Total[v]] == IF s = 0 THEN 0 ELSE end[s - 1] + Pieces[v][s]
  IN  end]

\* What was put, and the plaintext of a chunk of it.
Content(n) == [i \in 1 .. Ends[puts[n].by][Total[puts[n].by]] |-> <<n, i>>]

Plaintext(c) ==
  LET end == Ends[puts[c[1]].by] IN SubSeq(Content(c[1]), end[c[2] - 1] + 1, end[c[2]])

\* The length of every file that is put is a u64.
ASSUME SizeAssumption == \A v \in Vaults : Ends[v][Total[v]] <= MaxWord

PlaintextLength(c) == Pieces[puts[c[1]].by][c[2]]

\* ordered_file_chunks: sorted, and each where its sequence number says, or
\* the file is not served.
OrderedFileChunks(view, f) ==
  LET chunks == ChunkEntries(view, f)
  IN  [s \in 1 .. Cardinality(chunks) |-> CHOOSE c \in chunks : c[2] = s]

\* chunk_end of each chunk; the last one is file_size.
ChunkEnds(chunks) ==
  LET end[s \in 0 .. Len(chunks)] ==
        IF s = 0 THEN 0 ELSE end[s - 1] + PlaintextLength(chunks[s])
  IN  end

FileSize(chunks) == ChunkEnds(chunks)[Len(chunks)]

\* The part of a chunk that lies between offset and end.  (Mutant: end is
\* counted from the start of the file.)
PartToEnd(c, start, offset, end) ==
  SubSeq(Plaintext(c), Max({offset - start, 0}) + 1, Min({end, PlaintextLength(c)}))

Part(c, start, offset, end) ==
  LET chunkEnd == start + PlaintextLength(c)
  IN  IF chunkEnd <= offset \/ start >= end THEN <<>>
      ELSE SubSeq(Plaintext(c), Max({offset - start, 0}) + 1, Min({end, chunkEnd}) - start)

\* checked_add of offset and length fails.
Overflows(chunks, offset, length) ==
  offset < FileSize(chunks) /\ length > 0 /\ offset + length > MaxWord

\* read_file_range of a file with these chunks, when nothing overflows.
ReadFileRange(chunks, offset, length) ==
  LET size == FileSize(chunks)
      ends == ChunkEnds(chunks)
      end  == Min({offset + length, size})
  IN  IF offset >= size \/ length = 0 THEN <<>>
      ELSE FlattenSeq([s \in DOMAIN chunks |-> Part(chunks[s], ends[s - 1], offset, end)])

\* latest_complete, any of those with the largest total.
LatestCompletes(view, f) ==
  {t \in Markers(view, f) : \A u \in Markers(view, f) : u.total <= t.total}

ReadWhole(chunks) == ReadFileRange(chunks, 0, FileSize(chunks))

\* What read_file asks of the bytes it got, or it returns FileHashMismatch.
\* (Mutant: nothing.)
HashIgnored(complete, bytes) == TRUE

HashMatches(complete, bytes) == bytes = Content(complete.put)

\* vaultblob_read_file_range without a buffer: what it would take.
\* (Mutant: the end of the file is forgotten.)
ProbeAsAsked(chunks, offset, length) ==
  LET available == Max({FileSize(chunks) - offset, 0})
  IN  IF length = 0 THEN available ELSE length

RangeProbe(chunks, offset, length) ==
  LET available == Max({FileSize(chunks) - offset, 0})
  IN  IF length = 0 THEN available ELSE Min({length, available})

\* And with a buffer of so many bytes.
ReadRangeInto(chunks, offset, length, buffer) ==
  LET data == ReadFileRange(chunks, offset, length)
  IN  SubSeq(data, 1, Min({Len(data), buffer}))

\* read_from_file advances the cursor by what it got.  (Mutant: by what was
\* asked for, so that it passes the end of the file.)
AdvancedByLength(position, bytes, length) == position + length

Advanced(position, bytes, length) == position + Len(bytes)

\* A cursor of open_file, and the bytes it has returned, after some reads of
\* length bytes, when none of them overflows.
CursorAfter(chunks, length, reads) ==
  LET cursor[k \in 0 .. reads] ==
        IF k = 0 THEN [position |-> 0, bytes |-> <<>>]
        ELSE LET c   == cursor[k - 1]
                 got == ReadFileRange(chunks, c.position, length)
             IN  [position |-> Advanced(c.position, got, length), bytes |-> c.bytes \o got]
  IN  cursor[reads]

-----------------------------------------------------------------------------
(* Properties. *)

\* The files a vault serves between calls, all of whose chunks are of put n.
OnePut(v, n) ==
  /\ call[v].op = "idle"
  /\ Served(cache[v], puts[n].file)
  /\ \A c \in ChunkEntries(cache[v], puts[n].file) : c[1] = n

(* read_file_range: whichever blobs the chunks lie on and however the      *)
(* range falls on them, the bytes returned are those of the put at these   *)
(* places, as many as there are; only a range whose end is no u64 fails.   *)
RangeReadIsSlice ==
  \A v \in Vaults, n \in DOMAIN puts : OnePut(v, n) =>
    LET chunks == OrderedFileChunks(cache[v], puts[n].file)
        bytes  == Content(n)
    IN  \A offset \in 0 .. Len(bytes) + 1, length \in 0 .. MaxWord :
          ~Overflows(chunks, offset, length) =>
            ReadFileRange(chunks, offset, length)
              = SubSeq(bytes, offset + 1, Min({offset + length, Len(bytes)}))

(* read_file: whatever a vault has in its index, of puts that failed or of *)
(* another vault, a whole read returns the bytes of one put of the file,   *)
(* and it only finds the hash wrong where two puts met.                    *)
WholeReadIsOnePut ==
  \A v \in Vaults, f \in Files : (call[v].op = "idle" /\ Served(cache[v], f)) =>
    LET bytes == ReadWhole(OrderedFileChunks(cache[v], f))
    IN  \A complete \in LatestCompletes(cache[v], f) :
          IF HashMatches(complete, bytes)
          THEN \E n \in OnFileOf(f) : bytes = Content(n)
          ELSE Cardinality(OnFileOf(f)) > 1

(* A host that asks how many bytes any range has, makes a buffer of them   *)
(* and reads so many can do so, and fills it to the last byte.  If it      *)
(* reads the range it asked about instead, it gets as many bytes, with two *)
(* exceptions where the probe does not report what the read does: a length *)
(* of 0 is the rest of the file to the probe, and nothing to the read; and *)
(* a range whose end is no u64 has bytes to the probe, and the read fails. *)
ProbedBufferIsFilled ==
  \A v \in Vaults, n \in DOMAIN puts : OnePut(v, n) =>
    LET chunks == OrderedFileChunks(cache[v], puts[n].file)
    IN  \A offset \in 0 .. FileSize(chunks) + 1, length \in 0 .. MaxWord :
          LET wanted == RangeProbe(chunks, offset, length)
          IN  /\ ~Overflows(chunks, offset, wanted)
              /\ Len(ReadRangeInto(chunks, offset, wanted, wanted)) = wanted
              /\ ~Overflows(chunks, offset, length) =>
                   Len(ReadFileRange(chunks, offset, length)) = IF length = 0 THEN 0 ELSE wanted

(* read_from_file: a cursor that is read to the end returns every byte     *)
(* once and in order, and stays at the end of the file, so that no later   *)
(* read can overflow.  This is for lengths with which no read on the way   *)
(* overflows: such a read would fail and leave the cursor where it is.     *)
CursorReadsAll ==
  \A v \in Vaults, n \in DOMAIN puts : OnePut(v, n) =>
    LET chunks == OrderedFileChunks(cache[v], puts[n].file)
        bytes  == Content(n)
    IN  \A length \in 1 .. Len(bytes) :
          (\A k \in 0 .. Len(bytes) : ~Overflows(chunks, k * length, length)) =>
            CursorAfter(chunks, length, Len(bytes) + 1) = [position |-> Len(bytes), bytes |-> bytes]
=============================================================================

------------------------------ MODULE VaultPut ------------------------------
(***************************************************************************)
(* Where a vault puts the chunks of a file: Vault::put_file with its       *)
(* planner (src/src/vault.rs) inside the loop of put_file_with_retry       *)
(* (src/native/src/vault_io.rs), which appends an empty blob and plans     *)
(* again each time the planner answers NoWritableBlob.                     *)
(*                                                                         *)
(* One process, with the index of every blob cached.  A blob is what its   *)
(* index lists; its size is the vault's estimate (frames and entries, not  *)
(* gaps), which is what max_blob_size is compared with.                    *)
(***************************************************************************)
EXTENDS Integers, Sequences, FiniteSetsExt

CONSTANTS
  Files,                \* the files that may be put
  Size,                 \* length of the contents of each
  max_chunk_size, max_blob_size,      \* VaultConfig
  Policies,             \* VaultConfig: how files may be spread
  CHUNK_COST,           \* frame overhead and index entry of a chunk
  COMPLETE_COST,        \* index entry of a file_complete
  MaxBlobs,             \* bound: blobs of the vault
  MaxFaults             \* bound: write_chunks calls that fail

ASSUME PutAssumption ==
  /\ Size \in [Files -> Nat]
  /\ max_chunk_size \in Nat \ {0} /\ max_blob_size \in Nat \ {0}
  /\ Policies \subseteq {"whole", "split", "stripe"}
  /\ CHUNK_COST \in Nat \ {0} /\ COMPLETE_COST \in Nat \ {0}
  /\ MaxBlobs \in Nat \ {0} /\ MaxFaults \in Nat
  /\ Policies # {"whole"} => max_blob_size > CHUNK_COST + COMPLETE_COST

VARIABLES
  policy,   \* set when the vault is opened
  blobs,    \* the chunks and the file_complete entries each blob lists
  next_blob_cursor,
  pc,       \* where the call is: idle, plan, finalize, append or write
  file,     \* the file being put
  where,    \* the blob chosen for each chunk planned so far
  result,   \* what the last call returned
  faults,
  appended  \* history: how many blobs the call appended

vars == <<policy, blobs, next_blob_cursor, pc, file, where, result, faults, appended>>

\* The two switches of VaultConfig.
split_files_across_blobs   == policy # "whole"
stripe_chunks_across_blobs == policy = "stripe"

-----------------------------------------------------------------------------
(* Chunks and estimates. *)

\* effective_chunk_size: with splitting, a chunk and the marker fit a blob.
ChunkSize ==
  IF split_files_across_blobs
  THEN Min({max_chunk_size, max_blob_size - CHUNK_COST - COMPLETE_COST})
  ELSE max_chunk_size

\* An empty file still has one chunk.
ChunkCount(f) == Max({1, (Size[f] + ChunkSize - 1) \div ChunkSize})

\* Plaintext length of the s-th chunk of f, counted from 1.
ChunkLength(f, s) ==
  IF s < ChunkCount(f) THEN ChunkSize ELSE Size[f] - (ChunkCount(f) - 1) * ChunkSize

\* estimated_chunk_write_size
ChunkCost(f, s) == ChunkLength(f, s) + CHUNK_COST

\* estimated_write_size of the whole file.
FileCost(f) == Size[f] + ChunkCount(f) * CHUNK_COST + COMPLETE_COST

\* What a set of chunks costs.
CostOf(chunks) == MapThenSumSet(LAMBDA c : ChunkCost(c[1], c[2]), chunks)

\* blob_estimated_size
EstimatedSize(b) == CostOf(blobs[b].chunks) + COMPLETE_COST * Cardinality(blobs[b].complete)

\* The chunks of the file planned for b, and what they add to it.
PlannedFor(b) == {s \in DOMAIN where : where[s] = b}

ToStore(b) == {<<file, s>> : s \in PlannedFor(b)}

Planned(b) == CostOf(ToStore(b))

\* choose_blob_inner: the first blob with room, from where the search starts.
\* (Variant for a mutant: every search starts at the first blob.)
StartAtFirst == 0

Start == IF split_files_across_blobs /\ ~stripe_chunks_across_blobs
         THEN 0 ELSE next_blob_cursor % Len(blobs)

At(k) == 1 + ((Start + k) % Len(blobs))

WithRoom(bytes) ==
  {k \in 0 .. Len(blobs) - 1 : EstimatedSize(At(k)) + Planned(At(k)) + bytes <= max_blob_size}

Chosen(bytes) == At(Min(WithRoom(bytes)))

\* The cursor after blob b is chosen.  (Mutant: not wrapped around.)
CursorUnwrapped(b) == b

CursorAfter(b) == b % Len(blobs)

EmptyBlob == [chunks |-> {}, complete |-> {}]

Stored == UNION {blobs[b].chunks : b \in DOMAIN blobs}

Chunks(f) == {<<f, s>> : s \in 1 .. ChunkCount(f)}

-----------------------------------------------------------------------------
\* Vault::open refuses a vault without a blob, so a new one has an empty blob.
Init ==
  /\ policy \in Policies
  /\ blobs = <<EmptyBlob>> /\ next_blob_cursor = 0
  /\ pc = "idle" /\ file \in Files /\ where = <<>>
  /\ result = "none" /\ faults = 0 /\ appended = 0

Return(r) ==
  /\ result' = r
  /\ pc' = "idle" /\ where' = <<>>

\* put_file begins.
Put(f) ==
  /\ pc = "idle"
  /\ file' = f /\ where' = <<>> /\ appended' = 0
  /\ IF Stored \cap Chunks(f) # {}
     THEN result' = "FileAlreadyExists" /\ UNCHANGED pc
     ELSE result' = "none" /\ pc' = "plan"
  /\ UNCHANGED <<policy, blobs, next_blob_cursor, faults>>

\* One blob for the whole file, with its file_complete.  (Mutant: the size
\* of the file is not looked at.)
PlanWholeAnySize ==
  LET cost == FileCost(file)
  IN  /\ pc = "plan" /\ ~split_files_across_blobs
      /\ IF WithRoom(cost) = {}
         THEN pc' = "append" /\ UNCHANGED <<next_blob_cursor, where, result>>
         ELSE /\ where' = [s \in 1 .. ChunkCount(file) |-> Chosen(cost)]
              /\ next_blob_cursor' = CursorAfter(Chosen(cost))
              /\ pc' = "write" /\ UNCHANGED result
      /\ UNCHANGED <<policy, blobs, file, faults, appended>>

PlanWhole ==
  LET cost == FileCost(file)
  IN  /\ pc = "plan" /\ ~split_files_across_blobs
      /\ IF cost > max_blob_size
         THEN Return("FileExceedsBlobCapacity") /\ UNCHANGED next_blob_cursor
         ELSE IF WithRoom(cost) = {}
         THEN pc' = "append" /\ UNCHANGED <<next_blob_cursor, where, result>>
         ELSE /\ where' = [s \in 1 .. ChunkCount(file) |-> Chosen(cost)]
              /\ next_blob_cursor' = CursorAfter(Chosen(cost))
              /\ pc' = "write" /\ UNCHANGED result
      /\ UNCHANGED <<policy, blobs, file, faults, appended>>

\* The next chunk, on its own: its cost does not count the file_complete.
PlanChunk ==
  LET s == Len(where) + 1
  IN  /\ pc = "plan" /\ split_files_across_blobs
      /\ IF WithRoom(ChunkCost(file, s)) = {}
         THEN pc' = "append" /\ where' = <<>> /\ UNCHANGED next_blob_cursor
         ELSE /\ where' = Append(where, Chosen(ChunkCost(file, s)))
              /\ next_blob_cursor' = CursorAfter(Chosen(ChunkCost(file, s)))
              /\ pc' = IF s = ChunkCount(file) THEN "finalize" ELSE "plan"
      /\ UNCHANGED <<policy, blobs, file, result, faults, appended>>

\* The blob that gets the file_complete: the last one used.  (Mutant: the
\* first one used.)
FirstMarkerBlob == Min({where[s] : s \in DOMAIN where})

MarkerBlob == Max({where[s] : s \in DOMAIN where})

\* finalize_planned_file_complete.  (Mutant: no check.)
FinalizeUnchecked ==
  /\ pc = "finalize" /\ pc' = "write"
  /\ UNCHANGED <<policy, blobs, next_blob_cursor, file, where, result, faults, appended>>

Finalize ==
  LET After(b) == EstimatedSize(b) + Planned(b)
                    + (IF b = MarkerBlob THEN COMPLETE_COST ELSE 0)
      fits == \A b \in DOMAIN blobs : PlannedFor(b) # {} => After(b) <= max_blob_size
  IN  /\ pc = "finalize"
      /\ IF fits THEN pc' = "write" /\ UNCHANGED where
                 ELSE pc' = "append" /\ where' = <<>>
      /\ UNCHANGED <<policy, blobs, next_blob_cursor, file, result, faults, appended>>

\* put_file_with_retry after NoWritableBlob.
AppendBlob ==
  /\ pc = "append"
  /\ Len(blobs) < MaxBlobs
  /\ blobs' = Append(blobs, EmptyBlob)
  /\ appended' = appended + 1
  /\ pc' = "plan"
  /\ UNCHANGED <<policy, next_blob_cursor, file, where, result, faults>>

\* The blobs of the plan that are not written yet, in index order.
Remaining == {b \in DOMAIN blobs : ~ ToStore(b) \subseteq blobs[b].chunks}

\* One write_chunks call: a blob takes its chunks, the last one the marker.
WriteBlob ==
  LET b == Min(Remaining)
  IN  /\ pc = "write"
      /\ blobs' = [blobs EXCEPT ![b] =
                     [chunks   |-> @.chunks \cup ToStore(b),
                      complete |-> @.complete \cup (IF b = MarkerBlob THEN {file} ELSE {})]]
      /\ IF b = MarkerBlob THEN Return("Ok")
         ELSE UNCHANGED <<pc, where, result>>
      /\ UNCHANGED <<policy, next_blob_cursor, file, faults, appended>>

\* write_chunks fails: the blobs before it keep their chunks.
WriteFails ==
  /\ pc = "write"
  /\ faults < MaxFaults
  /\ faults' = faults + 1
  /\ Return("Err")
  /\ UNCHANGED <<policy, blobs, next_blob_cursor, file, appended>>

Working == PlanWhole \/ PlanChunk \/ Finalize \/ AppendBlob \/ WriteBlob \/ WriteFails

Next == (\E f \in Files : Put(f)) \/ Working

\* The thread inside put_file keeps running; nothing makes a caller call it.
Spec == Init /\ [][Next]_vars /\ WF_vars(Working)

-----------------------------------------------------------------------------
(* Properties. *)

\* The call's state stays in its type, the cursor on a blob of the vault.
TypeOK ==
  /\ policy \in Policies
  /\ blobs \in Seq([chunks : SUBSET (Files \X Nat), complete : SUBSET Files])
  /\ Len(blobs) <= MaxBlobs
  /\ next_blob_cursor \in 0 .. Len(blobs) - 1
  /\ pc \in {"idle", "plan", "finalize", "append", "write"}
  /\ file \in Files
  /\ where \in Seq(DOMAIN blobs)
  /\ result \in {"none", "Ok", "Err", "FileAlreadyExists", "FileExceedsBlobCapacity"}
  /\ faults \in 0 .. MaxFaults
  /\ appended \in 0 .. Len(blobs) - 1

(* A file_complete is only ever in the index of a blob when every chunk of *)
(* its file is in some blob, exactly once: it is written last.             *)
MarkerMeansWhole ==
  \A b \in DOMAIN blobs : \A f \in blobs[b].complete : \A c \in Chunks(f) :
    Cardinality({d \in DOMAIN blobs : c \in blobs[d].chunks}) = 1

(* No put takes the estimate of a blob over max_blob_size, chunks planned  *)
(* but not written and the file_complete included.                         *)
WithinCapacity == \A b \in DOMAIN blobs : EstimatedSize(b) <= max_blob_size

(* A blob that is appended is used sooner or later: a put appends no more   *)
(* blobs than the vault had when it began and its file has chunks.          *)
AppendsAreBounded == appended <= (Len(blobs) - appended) + ChunkCount(file)

(* put_file_with_retry always returns.                                     *)
PutReturns == (pc # "idle") ~> (pc = "idle")
=============================================================================

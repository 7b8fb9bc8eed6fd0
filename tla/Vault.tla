------------------------------- MODULE Vault --------------------------------
(***************************************************************************)
(* Several vaults on one directory (src/src/vault.rs): each process keeps  *)
(* the blobs it has open and one merged index, which it consults for every *)
(* put and every read, updates after its own writes, and otherwise only    *)
(* refreshes when told to.  Calls of different vaults interleave between   *)
(* any two operations on a blob.                                           *)
(*                                                                         *)
(* A blob is what BlobLog and BlobReader say of it: a list of committed    *)
(* transactions, written by one vault at a time, of which a read returns a *)
(* prefix.  That is what padding large enough for safe relocations gives.  *)
(* Where chunks go is any choice: VaultPut is about the policy.            *)
(***************************************************************************)
EXTENDS Integers, SequencesExt

CONSTANTS
  Vaults,     \* processes with a Vault
  NoVault,    \* holder of a lock that is free
  Files,
  Total,      \* how many chunks each vault cuts a file into
  MaxBlobs,   \* bound: blobs of the directory
  MaxPuts,    \* bound: puts that are not refused
  MaxFaults   \* bound: I/O errors and kills

ASSUME VaultAssumption ==
  /\ NoVault \notin Vaults
  /\ Total \in [Vaults -> Nat \ {0}]
  /\ MaxBlobs \in Nat \ {0} /\ MaxPuts \in Nat /\ MaxFaults \in Nat

VARIABLES
  log,      \* log[b]: the transactions of blob b, in commit order
  dir,      \* the blobs in the order of their file names
  lock,     \* lock[b]: the vault inside write_chunks on b
  blobs,    \* Vault::blobs of each vault, empty while it is closed
  cache,    \* cache[v][b]: transactions of b in the merged index of v
  call,     \* what each vault is doing
  puts,     \* every put that was not refused: its vault and its file
  faults,
  acked,    \* history: puts that returned Ok
  forgot    \* history: vaults whose index lost something they had stored

vars == <<log, dir, lock, blobs, cache, call, puts, faults, acked, forgot>>

Blobs == 1 .. MaxBlobs

Nothing == [b \in Blobs |-> 0]

\* todo: the blobs left to read or to write, in order.  Reading, from is the
\* generation of the first when its read began, and busy whether a writer
\* was at work on it since.  Writing, where gives the blob of each chunk.
Doing(op, todo) == [op |-> op, todo |-> todo, put |-> 0, where |-> <<>>,
                    from |-> 0, busy |-> FALSE]

Idle   == Doing("idle", <<>>)
Closed == Doing("closed", <<>>)
Reads  == {"open", "refresh", "append", "changed"}

Reading(v, b) == call[v].op \in Reads /\ Head(call[v].todo) = b

\* A call that goes on to read the first of todo, or returns.
StartRead(op, todo) ==
  IF todo = <<>> THEN Idle
  ELSE [Doing(op, todo) EXCEPT !.from = Len(log[Head(todo)]),
                               !.busy = lock[Head(todo)] # NoVault]

-----------------------------------------------------------------------------
(* What an index lists.  A view is a number of transactions of each blob. *)

Everything == [b \in Blobs |-> Len(log[b])]

Listed(view) == UNION {{log[b][g] : g \in 1 .. view[b]} : b \in Blobs}

ChunkEntries(view, f) ==
  UNION {{<<t.put, s>> : s \in t.chunks} : t \in {t \in Listed(view) : t.file = f}}

Markers(view, f) == {t \in Listed(view) : t.file = f /\ t.total > 0}

\* ensure_file_complete, then ordered_file_chunks: as many chunks as the
\* largest marker says, with the sequence numbers from 1 on.
Served(view, f) ==
  LET chunks == ChunkEntries(view, f)
  IN  /\ Markers(view, f) # {}
      /\ Max({t.total : t \in Markers(view, f)}) = Cardinality(chunks)
      /\ {c[2] : c \in chunks} = 1 .. Cardinality(chunks)

-----------------------------------------------------------------------------
\* A directory with one empty blob, and no process yet.
Init ==
  /\ log = [b \in Blobs |-> <<>>] /\ dir = <<1>>
  /\ lock = [b \in Blobs |-> NoVault]
  /\ blobs = [v \in Vaults |-> <<>>] /\ cache = [v \in Vaults |-> Nothing]
  /\ call = [v \in Vaults |-> Closed]
  /\ puts = <<>> /\ faults = 0 /\ acked = {} /\ forgot = {}

\* Vault::open on all the blobs of the directory, with cached indexes.
Open(v) ==
  /\ call[v].op = "closed"
  /\ blobs' = [blobs EXCEPT ![v] = dir]
  /\ call' = [call EXCEPT ![v] = StartRead("open", dir)]
  /\ UNCHANGED <<log, dir, lock, cache, puts, faults, acked, forgot>>

\* refresh_indexes empties the index first.
RefreshIndexes(v) ==
  /\ call[v].op = "idle"
  /\ cache' = [cache EXCEPT ![v] = Nothing]
  /\ call' = [call EXCEPT ![v] = StartRead("refresh", blobs[v])]
  /\ UNCHANGED <<log, dir, lock, blobs, puts, faults, acked, forgot>>

\* handle_blob_changed
HandleBlobChanged(v) ==
  /\ call[v].op = "idle"
  /\ \E b \in Range(blobs[v]) : call' = [call EXCEPT ![v] = StartRead("changed", <<b>>)]
  /\ UNCHANGED <<log, dir, lock, blobs, cache, puts, faults, acked, forgot>>

\* A new blob, under a random name, then append_blob.
AppendBlob(v) ==
  LET new == Len(dir) + 1
  IN  /\ call[v].op = "idle" /\ new \in Blobs
      /\ \E i \in 1 .. new : dir' = InsertAt(dir, i, new)
      /\ blobs' = [blobs EXCEPT ![v] = Append(@, new)]
      /\ call' = [call EXCEPT ![v] = StartRead("append", <<new>>)]
      /\ UNCHANGED <<log, lock, cache, puts, faults, acked, forgot>>

\* replace_cached_blob_index with what the read found: at most one
\* generation behind, and only if a writer was at work meanwhile.
FinishRead(v) ==
  LET b    == Head(call[v].todo)
      busy == call[v].busy \/ lock[b] # NoVault \/ Len(log[b]) > call[v].from
  IN  /\ call[v].op \in Reads
      /\ \E g \in 0 .. Len(log[b]) :
           /\ g >= call[v].from \/ (busy /\ g + 1 = call[v].from)
           /\ cache' = [cache EXCEPT ![v][b] = g]
           /\ forgot' = IF g < call[v].from THEN forgot \cup {v} ELSE forgot
      /\ call' = [call EXCEPT ![v] = StartRead(@.op, Tail(@.todo))]
      /\ UNCHANGED <<log, dir, lock, blobs, puts, faults, acked>>

\* The read fails, beside a writer or by an I/O error.  An open gives up the
\* vault; the others leave the index as it is by now.
FailRead(v) ==
  LET b == Head(call[v].todo)
  IN  /\ call[v].op \in Reads
      /\ \/ (call[v].busy \/ lock[b] # NoVault) /\ UNCHANGED faults
         \/ faults < MaxFaults /\ faults' = faults + 1
      /\ IF call[v].op = "open"
         THEN /\ call' = [call EXCEPT ![v] = Closed]
              /\ blobs' = [blobs EXCEPT ![v] = <<>>]
              /\ cache' = [cache EXCEPT ![v] = Nothing]
         ELSE call' = [call EXCEPT ![v] = Idle] /\ UNCHANGED <<blobs, cache>>
      /\ forgot' = IF call[v].op = "refresh" THEN forgot \cup {v} ELSE forgot
      /\ UNCHANGED <<log, dir, lock, puts, acked>>

-----------------------------------------------------------------------------
(* put_file: the chunks go to blobs of the vault, which are written in the *)
(* order the vault has them.  With a chunk of the file in the index it     *)
(* returns FileAlreadyExists instead, and nothing changes.                 *)

\* The blobs of a placement, each once, in the order of the vault.
InOrder(v, where) ==
  {todo \in [1 .. Cardinality(Range(where)) -> Range(where)] :
     /\ Range(todo) = Range(where)
     /\ \A i, j \in DOMAIN todo : i < j =>
          \E k, l \in DOMAIN blobs[v] :
            k < l /\ blobs[v][k] = todo[i] /\ blobs[v][l] = todo[j]}

\* (Mutant: only a file with its marker counts.)
MarkerListed(v, f) == Markers(cache[v], f) # {}

AlreadyExists(v, f) == ChunkEntries(cache[v], f) # {}

PutFile(v, f) ==
  /\ call[v].op = "idle"
  /\ ~AlreadyExists(v, f)
  /\ Len(puts) < MaxPuts
  /\ puts' = Append(puts, [by |-> v, file |-> f])
  /\ \E where \in [1 .. Total[v] -> Range(blobs[v])] : \E todo \in InOrder(v, where) :
       call' = [call EXCEPT ![v] = [Doing("put", todo) EXCEPT
                                      !.put = Len(puts'), !.where = where]]
  /\ UNCHANGED <<log, dir, lock, blobs, cache, faults, acked, forgot>>

Writing(v) == call[v].op = "put" /\ lock[Head(call[v].todo)] = v

\* write_chunks takes the lock: a reader of the blob may be disturbed.
BeginWrite(v) ==
  LET b == Head(call[v].todo)
  IN  /\ call[v].op = "put" /\ lock[b] = NoVault
      /\ lock' = [lock EXCEPT ![b] = v]
      /\ call' = [w \in Vaults |-> IF Reading(w, b) THEN [call[w] EXCEPT !.busy = TRUE]
                                   ELSE call[w]]
      /\ UNCHANGED <<log, dir, blobs, cache, puts, faults, acked, forgot>>

\* The total of the marker, which goes to the last blob.  (Mutant: to the
\* first.)
MarkerTotalFirst(v) ==
  IF Len(call[v].todo) < Cardinality(Range(call[v].where)) THEN 0 ELSE Total[v]

MarkerTotal(v) == IF Len(call[v].todo) > 1 THEN 0 ELSE Total[v]

Logged(v) ==
  LET c == call[v]
  IN  [log EXCEPT ![Head(c.todo)] = Append(@,
         [put |-> c.put, file |-> puts[c.put].file, total |-> MarkerTotal(v),
          chunks |-> {s \in 1 .. Total[v] : c.where[s] = Head(c.todo)}])]

\* (Mutant: the lock stays when write_chunks fails.)
KeepLock(v) == lock

Unlock(v) == [b \in Blobs |-> IF lock[b] = v THEN NoVault ELSE lock[b]]

\* replace_cached_blob_index after a write: the index that write_chunks
\* returns is the one on file.  (Mutant: the cache is left alone.)
NotCached(v) == UNCHANGED cache

Cached(v) ==
  LET b == Head(call[v].todo)
  IN  cache' = [cache EXCEPT ![v][b] = Len(log'[b])]

\* write_chunks returns Ok; after the last blob, so does put_file.
CommitWrite(v) ==
  /\ Writing(v)
  /\ log' = Logged(v)
  /\ lock' = [lock EXCEPT ![Head(call[v].todo)] = NoVault]
  /\ Cached(v)
  /\ IF Len(call[v].todo) = 1
     THEN acked' = acked \cup {call[v].put} /\ call' = [call EXCEPT ![v] = Idle]
     ELSE call' = [call EXCEPT ![v].todo = Tail(@)] /\ UNCHANGED acked
  /\ UNCHANGED <<dir, blobs, puts, faults, forgot>>

\* write_chunks returns Err, and so does put_file.  The transaction may be
\* committed all the same, when only the last sync failed: the vault does
\* not know then.
FailWrite(v) ==
  /\ Writing(v)
  /\ faults < MaxFaults
  /\ faults' = faults + 1
  /\ \/ UNCHANGED <<log, forgot>>
     \/ log' = Logged(v) /\ forgot' = forgot \cup {v}
  /\ lock' = Unlock(v)
  /\ call' = [call EXCEPT ![v] = Idle]
  /\ UNCHANGED <<dir, blobs, cache, puts, acked>>

\* The process drops its vault, or is killed in the middle of a call.
Close(v) ==
  /\ call[v].op # "closed"
  /\ IF call[v].op = "idle" THEN UNCHANGED faults
     ELSE faults < MaxFaults /\ faults' = faults + 1
  /\ log' \in (IF Writing(v) THEN {log, Logged(v)} ELSE {log})
  /\ lock' = Unlock(v)
  /\ call' = [call EXCEPT ![v] = Closed]
  /\ blobs' = [blobs EXCEPT ![v] = <<>>]
  /\ cache' = [cache EXCEPT ![v] = Nothing]
  /\ UNCHANGED <<dir, puts, acked, forgot>>

\* What a put that is under way does next.
PutStep(v) == BeginWrite(v) \/ CommitWrite(v) \/ FailWrite(v)

Step(v) == FinishRead(v) \/ FailRead(v) \/ PutStep(v)

Next == \E v \in Vaults :
  \/ Open(v) \/ RefreshIndexes(v) \/ HandleBlobChanged(v) \/ AppendBlob(v)
  \/ \E f \in Files : PutFile(v, f)
  \/ Step(v) \/ Close(v)

\* A thread inside a put keeps running; nothing makes one call anything.
Spec == Init /\ [][Next]_vars /\ \A v \in Vaults : WF_vars(PutStep(v))

-----------------------------------------------------------------------------
(* Properties. *)

\* The calls stay in their types, a lock is held by a call that writes its
\* blob, and a cached index is a prefix of what the blob has.
TypeOK ==
  /\ dir \in Seq(Blobs) /\ IsInjective(dir)
  /\ \A v \in Vaults :
       /\ blobs[v] \in Seq(Blobs) /\ Range(blobs[v]) \subseteq Range(dir)
       /\ cache[v] \in [Blobs -> Nat] /\ \A b \in Blobs : cache[v][b] <= Len(log[b])
       /\ call[v].op \in Reads \cup {"put", "idle", "closed"}
       /\ Range(call[v].todo) \subseteq Range(blobs[v])
       /\ call[v].todo # <<>> <=> call[v].op \in Reads \cup {"put"}
       /\ blobs[v] = <<>> <=> call[v].op = "closed"
  /\ \A b \in Blobs : lock[b] # NoVault => Writing(lock[b]) /\ Head(call[lock[b]].todo) = b
  /\ faults \in 0 .. MaxFaults
  /\ acked \subseteq DOMAIN puts /\ forgot \subseteq Vaults

\* The puts that left something on file.
OnFile == {t.put : t \in Listed(Everything)}

OnFileOf(f) == {n \in OnFile : puts[n].file = f}

(* put_file recognises what it has stored: whatever other vaults do, and   *)
(* through kills and restarts in the middle of a put, a vault never stores *)
(* a file twice, unless its index once lost something (a refresh that      *)
(* failed or came out older, or a write that failed after it committed).   *)
StoresOnce ==
  \A m, n \in OnFile :
    (puts[m] = puts[n] /\ puts[m].by \notin forgot) => m = n

(* Whoever has a file_complete in its index will find every chunk of that  *)
(* put on the blobs: it is committed after all of them.                    *)
MarkerSeenMeansWhole ==
  \A v \in Vaults : \A t \in Listed(cache[v]) :
    t.total > 0 => {<<t.put, s>> : s \in 1 .. Total[puts[t.put].by]}
                     \subseteq ChunkEntries(Everything, t.file)

(* A vault that is between calls serves what it stored itself, when nobody *)
(* else put the same file and its index lost nothing.                      *)
ReadsItsWrites ==
  \A n \in acked :
    LET v == puts[n].by
    IN  (call[v].op = "idle" /\ v \notin forgot /\ OnFileOf(puts[n].file) = {n})
          => Served(cache[v], puts[n].file)

(* A put that returned Ok can be read by whoever opens the directory, when *)
(* no other vault put the same file.                                       *)
OkMeansServed ==
  \A n \in acked : (\A m \in OnFileOf(puts[n].file) : puts[m].by = puts[n].by)
                     => Served(Everything, puts[n].file)

(* Every put returns: no vault waits for ever for the lock of a blob.      *)
PutsReturn == \A v \in Vaults : (call[v].op = "put") ~> (call[v].op # "put")
=============================================================================

# vaultblob-core: a TLA+ model

vaultblob-core stores files, cut into encrypted chunks, in a few large *blob*
files. Several processes may open the same blobs: writers take a lock on the
file, readers take none, and any of them may stop at any instant. This
directory models what makes that work, or not: the order in which
`write_chunks` writes and syncs, what a reader may see meanwhile, how a blob
comes into being, how a vault spreads a file over its blobs, what several
vaults on the same blobs know of each other, how a directory of blobs is found
and opened, and what the threads of a host program do with the sessions of the
C ABI.

Paths below are those of `PROJECT.json`: the core is `src/src/blob.rs` and
`src/src/vault.rs`, the format is described in `src/docs/SPEC.md`.

## 1. The system

### 1.1 Components

| component | code | state | operations | modules |
|---|---|---|---|---|
| blob geometry | `blob.rs` `write_chunks`, `data_tail`, `relocate_and_append_index` | none (arithmetic) | data tail, gaps, Case 1 or 2, target of a relocation | `BlobLayout`, `BlobWriterProofs` |
| blob file and host | `blob.rs` `write_all_at`, `write_volatile_slot`, `read_sorted_locators`; the operating system | two volatile slots, body, end of file; what of it is on disk | write, sync, crash | `BlobFile` |
| blob writer | `blob.rs` `write_chunks`, `load_index_for_write` | the cached snapshot (`Blob::committed`), the lock, the locals of a call | open, write, fail, die | `BlobWriter`, `BlobLog`, `BlobWriterProofs`, `BlobWriterSafety` |
| blob readers | `blob.rs` `read_index`, `refresh_committed_snapshot` | the locals of a read, the snapshot | the two reads, step by step | `BlobReader`, `BlobReaderProofs` |
| blob creation and opening | `blob.rs` `open`, `open_existing`, `create_new`, `from_existing` | the path, the length of the file, which keys its slots are written with | check, open, create, cut short | `BlobCreate`, `BlobCreateProofs` |
| write planner | `vault.rs` `put_file`, `plan_file_chunks`, `choose_blob`; `native/src/vault_io.rs` `put_file_with_retry` | blobs, round-robin cursor, the plan | put, plan, finalize, append a blob and retry, write | `VaultPut`, `VaultPutProofs` |
| vault index cache and reads | `vault.rs` `refresh_indexes`, `append_blob`, `read_file`, `read_file_range`, `handle_blob_changed`; the buffers of `native/src/lib.rs` | the cached index of every blob, the cursor of an open file | open, refresh, append, put, whole and range read, probe, `handle_blob_changed` | `Vault`, `VaultRead`, `VaultProofs` |
| layout statistics | `blob.rs` `layout_stats` | none | partition of a blob into used bytes and padding | `BlobStats` |
| native sessions | `native/src/lib.rs` | registry of sessions, the next number, a mutex per vault | open, close, put; calls that only read | `Sessions`, `SessionsProofs` |
| vault directory | `native/src/vault_io.rs`, `blob.rs` `discover_vault_id` | the blobs of the directory, how far each is written, the locals of an open | list, discover, open, check, load, create a blob | `VaultDir` |
| command line tool | `src/bin/vaultblob.rs` | one vault for the life of the process | put, get, stat | `VaultDir`, `Sessions` |
| Python bindings | `python/src/*.rs` | meta file | open or create, the same calls | not modelled |
| index and locator encoding | `blob.rs` `parse_entries`, `Locator` encoding | none | encode, decode | the grammar only, inside `BlobWriter` |
| cryptography | `blob.rs` AEAD, stream cipher, MAC, key wrapping | none | | ideal, inside `BlobFile` and `BlobWriter` |
| Python command line, HTTP example, diagnostics | `python/vaultblob/cli.py`, `python/examples`, `diag.rs` | none of their own | | not modelled |

### 1.2 How they interact

A *blob* is one file: a stable slot with the keys, written once; two volatile
slots A and B, each a *locator* (generation, place, length and MAC of the
index); a body with the chunk frames, then a *leading gap* of random padding,
the index, and a *trailing gap*. A transaction (`write_chunks`) locks the file,
reads the slots, takes the index from its own snapshot or from the file, and

 - **Case 1**, when both gaps have room: writes the frames, syncs, writes the
   entries after the index, syncs;
 - **Case 2**, otherwise: grows the file with padding, copies the index
   further back, appends the entries, writes the frames, syncs;

and in both cases then reads back the index, computes its MAC, overwrites the
slot that is *not* active with the new locator, syncs, and keeps the new index
as its snapshot. Readers read slot A, then slot B, then the index, and check
its MAC against the locator: they share no lock with anyone, only the file.

A *vault* owns several open blobs and a merged copy of their indexes. A put
plans which blob gets which chunk from that copy, then calls `write_chunks` once
per blob, in increasing order of blob; the last one also gets the
`file_complete` entry, without which no reader accepts the file. When the
planner finds no room the binding creates a blob, appends it to the vault, and
plans again.

A *directory* holds the blobs of one vault under random names that only the
master key can tell from others. Whoever opens it lists the names, reads the
vault id from the first, opens all of them, and begins a new vault when there
is none. A *host program* does so through the C ABI: `vaultblob_open` enters the vault in a
registry under a number, the calls look the number up, leave the registry, and lock
the vault for as long as they last. Other processes, such as the command line
tool, share nothing with it but the files.

### 1.3 What is hard

 - The order of writes and syncs within a call, against a kill or an I/O error
   (a prefix of the writes is on file), and a host crash (any subset of what
   was written since the last sync is on disk).
 - A relocation writes *over* bytes the active slot still describes.
 - Snapshots kept from call to call while other processes write.
 - Readers between two units of reading, with two slots that change in turn.
 - `Blob::open` looks before it locks.
 - The planner's bookkeeping at the exact capacity of a blob.
 - The merged index of a vault: it is as old as the last time somebody asked,
   it changes blob by blob, and a put decides by it whether a file exists.
 - A directory nobody locks: blobs appear in it while somebody lists it, and a
   name is there before what it names is a blob.
 - Sessions closed and opened while other threads are between the lookup of a
   number and the vault it meant.

`PROJECT.json` lists each hazard at its line with the properties that cover it,
or the reason none does.

### 1.4 What makes each component correct

 - geometry: a Case 1 call writes padding only; a relocated index and the new
   frames do not meet; when a relocation runs over the live index.
 - writer: a committed index is always readable and complete; an acknowledged
   transaction survives a crash; committed frames never change; a snapshot is
   the index that was committed; the blob behaves as an append-only log.
 - readers: what is accepted was committed, whole, and not older than need be;
   a quiet blob is read at the first attempt.
 - creation: one set of keys; nothing committed is destroyed; a blob that
   opens can be written.
 - planner: no blob over its capacity, the marker last, blobs appended only
   when needed, every put returns.
 - vault index: a file is stored once, whatever other vaults do; a
   `file_complete` is never visible before the chunks; a vault reads what it
   wrote; a range read returns the slice that was asked for, a whole read one
   put and nothing mixed; a buffer of the size a probe told is filled.
 - directory: left alone it can be opened; what opens is one vault, with every blob
   that was complete.
 - sessions: a number never means another vault; calls on one vault exclude each
   other, so a file is accepted once; blob indexes stay; every call ends, and no
   call keeps the registry from others.
 - layout statistics: every byte of the body is counted once.

## 2. Modules

### 2.1 BlobLayout: where things go

Operators only. `Plan` is what `prepare_write` returns as far as layout is
concerned: bytes of frames, bytes of entries. `DataTail`, `LeadingGap`,
`TrailingGap`, `NeedsRelocate`, `RelocatedOffset`, `RequiredEof`,
`NewIndexOffset` and `NewIndexLength` are the local variables of `write_chunks`
and `relocate_and_append_index` with the same names. Lengths are naturals: the
overflow that `checked_add` answers with an error is out of the model.

`OverwritesLiveIndex` says when a relocation is destructive. It is not in the
code, which never asks.

### 2.2 BlobFile: a file, its cache and its disk

An image has an end, a body (a function of positions; a position holds
padding, one byte of a chunk frame of a transaction, or one byte of an index
entry of a transaction at its keystream position), and two slots. `file` is what every process sees through the page
cache; `disk` is what a crash of the host is sure to keep. After it each cell of
the body and each slot holds the old or the new value, and a slot may be torn,
independently of the others; a file that was growing ends where it ended on disk or
where it was growing to (`CrashImages`). An end in between is left out: whatever is past the
durable end is not described by a slot before it is synced. This is the external part of the project: POSIX as the code
uses it.

The cryptography is ideal. A MAC matches exactly the bytes it was computed from,
a slot authenticates or does not, and the stream cipher is represented by the
keystream position each byte was encrypted at (`stream` in `BlobWriter`).

### 2.3 BlobWriter: write_chunks

| variable | code |
|---|---|
| `file`, `disk` | the file, see above |
| `opened`, `committed` | the processes with a `Blob` on it, `Blob::committed` of each |
| `lock` | holder of the `flock` (`ExclusiveLock`) |
| `pc`, `wr` | the next statement of the call, its locals |
| `txns` | the transactions begun, in order: where their frames and entries go |
| `faults` | bound |
| `log`, `acked`, `stream`, `exposed`, `lost` | history: what was published, what was acknowledged, keystream use, and the two exposures below |

Each system call that changes the file is an action (`AppendFrames`,
`SyncFrames`, `AppendEntries`, `SyncEntries`; `Grow`, `CopyIndex`, `MoveEntries`,
`MoveFrames`, `SyncMoved`; `Seal` and `PublishSlot` for the two halves of the slot
write; `Commit` for the last sync and the assignments after it). Everything
between two of them runs under the lock and touches only locals, and is part of
the next. `Begin` is the part of the call from the lock to the choice of the
case. `Fail` and `Kill` stop a call at any action with any prefix of its pending
write on file; the first returns `Err` and keeps the snapshot, the second drops
the process. `HostCrash` stops everybody.

Two things are deliberately *named* in the state since the code does have
them, and the properties would hide them otherwise:

 - `lost`: a destructive relocation was cut, so the committed index is gone.
   The run `writer_reuse` is about exactly this; the other
   properties say what holds when it did not happen.
 - `exposed`: the slot is written but its sync failed or has not happened, and
   a later call has synced frames over an index that the *durable* slot still
   describes. A host crash in that window may leave nothing readable.

A call with neither chunks nor markers (`write_chunks(&[], &[])`) is left out:
`Plans` have at least one entry. So is a call that cannot load the index and
returns an error without changing anything.

### 2.4 BlobLog: what a blob promises

An append-only sequence with a synced prefix: `Publish` appends, `Acknowledge`
extends the prefix, `Crash` cuts the sequence, never below the prefix.
`BlobWriter!ImplementsLog` is the refinement: entries are what the MAC of the
active locator vouches for (`Listed`), the prefix is what was acknowledged.

### 2.5 BlobReader: reads without a lock

Composes with `BlobWriter`: the readers are processes of the same blob, each with
a read in progress (`rd`) and what the last read returned (`view`). One action
per unit of reading: slot A, slot B, then the cells of the index one after
another (`ReadUnit`), since the kernel gives no atomicity between a read and the
writes of another process. `read_index` tries the newest locator
`reader_retry_budget + 1` times and fails at once when no slot is valid;
`refresh_committed_snapshot` tries the newest, then the older one it read at the
same time, and stores the result as the snapshot. A call in a process and a
read in the same process exclude each other (`&mut self`).

### 2.6 BlobCreate: the life of a path before its first transaction

`Blob::open` in the order of the code: does the path exist (`Open`), open or
create it (`OpenFile`), is it long enough (`CheckLength`), then either read the
stable slot (`ReadStable`) or create: wait for the lock, truncate, stable slot,
slot A, slot B, random body in pieces, sync. `Openers` have no vault id and only
open what exists. The file is its length, the keys of its stable slot, the keys
and the generation of its volatile slots; a transaction (`Write`) only raises the
generation, its own steps being `BlobWriter`. `Cut` kills a process anywhere.

### 2.7 VaultPut: put_file and the retry loop

One vault with an up-to-date cache. `PlanWhole` and `PlanChunk` are the two
branches of `plan_file_chunks`, `Finalize` is `finalize_planned_file_complete`,
`AppendBlob` is the arm of the loop that creates a blob, `WriteBlob` and
`WriteFails` are one `write_chunks` of the loop in `put_file`. Sizes are the vault's own estimates, as in the
code; `CHUNK_COST` and `COMPLETE_COST` stand for frame overhead and index entries.
`WriteFails` leaves nothing behind; a call that fails after it committed is a
matter of `BlobWriter`, and `Vault` has it too.

### 2.8 BlobStats: layout_stats

The loop of `layout_stats` over the sorted frames as a recursive function
(`Cursor`), and the figures it returns. Extends `BlobWriter`, so that they are compared
with the body byte by byte in every state the writers can reach.

### 2.9 Vault: several vaults, one directory

| variable | code |
|---|---|
| `log` | the entries committed in each blob, one record for each transaction: a put, its file, the sequence numbers of its chunks, the total of its `file_complete` or 0 |
| `dir` | the blobs, by file name |
| `lock` | who is inside `write_chunks` on a blob |
| `blobs`, `cache` | `Vault::blobs` and `Vault::index` of each vault |
| `call` | the loop a vault is in, with what is left of it |
| `puts`, `acked`, `forgot` | history: the puts, those that returned `Ok`, the vaults whose index lost something |

Here a blob is what the modules above found it to be: a list of transactions
(`BlobLog`) of which a read returns a prefix, at most one transaction older
than the list was when it began, and only beside a writer (`BlobReader`). That
is the contract of a blob whose relocations are safe; for one whose
relocations are not, nothing can be promised.

`Open`, `RefreshIndexes`, `HandleBlobChanged` and `AppendBlob` begin a read of one
blob or several; `FinishRead` is one `refresh_blob_index`, `FailRead` an error of it,
which gives up an `open` and ends the loop of a `refresh` half way. `PutFile` checks the
index and chooses where the chunks go, any choice at all; a put that is refused
changes nothing and is no step. `BeginWrite`, `CommitWrite` and `FailWrite` are the
`write_chunks` of one blob; a call that fails may have committed. `Close` drops a
vault or kills its process in the middle of anything. The blobs of a put are
written in the order the vault has them, which is the order of file names when it opens and
the order of appending afterwards: two vaults may disagree (`InsertAt`).

`forgot` names the three ways an index loses what the vault stored: a refresh
that failed after it emptied the index, a read that came out older, a
write that failed after it committed. A put then stores the file again.

### 2.10 VaultRead: what reads return

`read_file_range`, `file_size` and `read_from_file` as operators on the index of a
vault of `Vault`, with bytes that remember where they come from. `MaxWord` is the
largest `u64`: `offset + length` beyond it is an error in the code (`Overflows`).
`read_file` compares the hash of what it got with the one in the latest
`file_complete` (`HashMatches`); two puts are taken to differ even when they are of
the same file, so a mixture of two always shows. Such an index does occur: a
vault puts a file, fails after it committed the first chunk, and puts the file
again the other way round, while another vault reads the blobs one by one.

`RangeProbe` and `ReadRangeInto` are `vaultblob_read_file_range` without and with a
buffer. The comment on the probe says "report what we would read". It does, with
two exceptions, and `ProbedBufferIsFilled` says all of it:

 - A host that then reads as many bytes as it was told fills its buffer to the last byte, and this
   read does not overflow, whatever range was probed.
 - A host that reads the range it probed gets as many bytes, except for a length of 0, which
   the probe takes for the rest of the file and the read for nothing
   (lib.rs:534, vault.rs:271), and except for a range whose end is no u64: the probe cuts it at the end of the file, the read
   fails.

`CursorReadsAll` is about lengths with which no read of the cursor overflows. `SizeAssumption`
says that the files that are put are no longer than a u64. A mixture of two puts is
read as if it were none longer either.

### 2.11 VaultDir: the directory

| variable | code |
|---|---|
| `blobs` | the blob files in the order of creation: the vault id in the stable slot, how far `create_new` has come, the holder of the lock |
| `dir` | the same, sorted by name |
| `call` | the locals of `open_vault_from_dir_discover`, `open_vault_from_dir` or `create_blob` |
| `cut`, `raced` | history: a creation was cut short, two callers each began a vault |

`CollectBlobPaths` is the first listing, `DiscoverVaultId` reads the first path.
A thread of a host then lists again (`CollectBlobs`), a command line process does
not (`OpenPaths`); `OpenVault` is the check of the vault ids with `Vault::open`, or `append_blob`.
`CreateBlob` makes the file, at any place in the order of names, `FillBlob` writes
stable slot, volatile slots and body, `FinishBlob` syncs it. A file only grows
until it is a blob, so the blobs of one list are opened in one step, and loaded
in another: what a loop could see of each at its turn, it could see of all at the
last. A kill or an error leaves the file as it is (`FillFails`, `KillDir`). The
module has no specification of its own: its steps are those of `Sessions`.

### 2.12 Sessions: threads, numbers and processes

| variable | code |
|---|---|
| `registry`, `registryLock`, `nextId` | `SESSIONS`, its mutex, `NEXT_SESSION_ID` |
| `vaults` | every `Arc<Mutex<SendVault>>`: vault id, blobs, files in the index, mutex; and what it should have seen and has accepted (history) |
| `work` | where each caller is, with the locals of its call |
| `stored` | the files committed in each blob |
| `hung`, `faults` | calls whose I/O never returns; the bound |
| `team` | the callers of this behaviour, chosen at the start |
| `issued` | history: the numbers that were returned |

Extends `VaultDir`. `Open`, `DirWork` and `Opened` are `vaultblob_open` up to the number,
`Insert` is the rest of it under the mutex. `PutFile` and `WithVault` are the lookup,
`LockVault` to `Return` the closure of `vaultblob_put_file` with `put_file_with_retry`; a number that
is closed by now ends the call. `ToolPut` and `Exit` are the command line tool, which has
no registry and no mutex but the same loop. `LockBlob`, `Commit`, `RefuseWrite` and
`FailWrite` are one `write_chunks`. A file is a single transaction here: `VaultPut` and
`Vault` are about files over several blobs. Where a put goes, and whether a blob has
room, is any choice. Calls that only read follow the same locks and change
nothing, so they are no steps. `KillHost` ends all threads at once and their
sessions with them, `KillTool` one process, `Hang` leaves a thread inside its I/O.

### 2.13 The proofs

| module | theorems about |
|---|---|
| `BlobWriterProofs` | `BlobLayout`, and the types and bounds of `BlobWriter` |
| `BlobWriterSafety` | the safety of `BlobWriter`, its refinement of `BlobLog`, and `BlobStats` |
| `BlobReaderProofs` | `BlobReader` |
| `BlobCreateProofs` | `BlobCreate` |
| `VaultPutProofs` | `VaultPut` |
| `VaultProofs` | `Vault` and `VaultRead` |
| `SessionsProofs` | `Sessions` with `VaultDir` |
| `DataLemmas` | sequences and their parts, least elements, sums; for the four above and `BlobWriterSafety` |

What they establish, and how, is section 5. The `MC*` modules only give constants
their values.

## 3. Runs

| run | question | answer |
|---|---|---|
| `writer_faults` | three transactions, two faults of any kind anywhere: is the committed index readable, is what was acknowledged on disk, are frames immutable, snapshots right, keystream positions used once if nobody failed, does `layout_stats` count every byte once? | yes, except for what `lost` and `exposed` name |
| `writer_log` | with padding that makes every relocation safe, do four transactions implement the log through a fault? | yes |
| `writer_reuse` | does every published index parse? | **no**: a destructive relocation that is cut leaves no readable index, and the snapshot of a process hides it from the next call |
| `writer_keystream` | is an index position encrypted once? | **no**: after an abandoned call |
| `reader` | readers beside writers that relocate and fail | what they accept is committed, whole, at most one generation behind; a quiet blob is read at once |
| `vault` | two vaults put the same file, refresh, append, restart, with one error or kill anywhere | a file is stored once by a vault that lost nothing, markers come last, a vault serves what it wrote, ranges, cursors and probed buffers get the right bytes, a whole read is one put, every put returns |
| `vault_retry` | can a put that returned `Ok` be read? | **no**: not if it repeats one that failed after it committed |
| `create` | two creators, an opener, two kills | keys agree, what opens can be written, nobody who saw a complete blob destroys it |
| `create_race` | is what was acknowledged kept? | **no**: a creator that looked before the file existed truncates it |
| `put` | whole files and striped chunks, one failing write | capacity, marker, appended blobs, termination |
| `sessions` | two threads of a host, or one and a command line process, in one directory that is empty at first, with one error, kill or hang anywhere | numbers do not mix, a vault accepts a file once, what opens is one vault and complete, blob indexes stay, every call ends or at least leaves the registry to others |
| `put_split` | are blobs appended only when needed, with splitting and no striping? | **no**: one after another, none used |

Each **no** is a finding, with the line of the documentation or the code that
says otherwise.

### 3.1 Bounds

 - Two processes (`Procs`): the lock allows one call at a time, so a third only
   adds another stale snapshot.
 - `MaxTxns` 2 to 4. Two or three are enough for the counterexamples; with three the
   snapshot of one process can be two generations behind and the first slot is
   reused; four allow two relocations in `writer_log`, and in `reader` two
   publications between any two steps of a reader that has a snapshot.
 - `MaxFaults` 1 or 2. Two is an abandoned call followed by a crash of the host
   in the next one, which is where syncs in the wrong order show.
 - Gaps of one cell and plans of one or two cells make every comparison of
   `NeedsRelocate` true and false, by one cell on either side; relocation padding
   of one cell makes destructive and safe relocations both happen. In
   `writer_log` the padding satisfies the hypothesis of the theorem
   `EnoughPaddingIsSafe`.
 - Frames and entries are one or two cells long so that a cut or a crash can
   leave half of one.
 - `reader_retry_budget` 1: the second attempt is the last.
 - `MaxKeys` 3 (creations) and `MaxTxns` 2 in `BlobCreate`: two creators and
   one creation after a cut.
 - `MaxBlobs` 8 in `put` is never reached (the states are the same with 10); in
   `put_split` it only ends the behaviour that is being exhibited. Blobs of 10
   and chunks of 3 let one, two or three chunks fit, with and without the marker.
 - `vault`: two vaults, one file, two blobs and two puts. One vault cuts the file of three
   bytes in two and the other not, so that puts that clash have different totals;
   two blobs are enough for chunks and marker to be committed apart, in both
   orders. Two puts are a put and its repetition, or one of each vault. `MaxFaults` 1 is
   one error or kill; with `MaxWord` 4 some ranges overflow and some do not.
 - `sessions`: two callers at a time (`Teams`), two threads or a thread and a process: locks
   are held by one and waited for by one. Two opens (`MaxVaults`) are two sessions, or
   one closed and another opened; two blobs (`MaxBlobs`, the room on the disk) are the blob a
   vault begins with and one that is appended, or two vaults that were begun
   at once. One file is put by both.

Processes are symmetric in the runs of `BlobWriter` and `BlobCreate` without
temporal properties. `CHECK_DEADLOCK FALSE` is set where the bounds stop
the system: the transactions, blobs or files are used up, or nobody calls.

### 3.2 Fairness

Three modules have some, all of them for the thread that is inside a call.
`VaultPut`: weak fairness of the steps of a put (`Working`). They run in one thread without
waiting for anybody, and the loop has no exit but its returns, so a put that
is under way takes its next step. `Vault`: weak fairness of `PutStep(v)` for each vault, the
steps inside its puts; `BeginWrite` waits for the lock of a blob, whose holder is in a
put of its own and so moves on. Since a lock can be taken again while somebody waits, it
matters that puts are bounded: the property is that no lock stays, not that the queue
for it is fair. `Sessions`: weak fairness of `Step(c)` for each
caller, what a call under way does next; a thread in `hung` has no step. New calls,
closes, kills and faults are nobody's duty. `CallsEnd` says that a thread leaves the
registry and its vault again; it excludes a creation that was cut, since the
blob it leaves refuses puts without end, each of which takes the lock of the blob, and a
lock that is free again and again may pass by the one who waits. Nothing makes
a process call anything, and the other modules state no liveness.

## 4. Findings

They are in `PROJECT.json` with the lines; in short:

1. A relocation forced by the leading gap always overwrites the index the active slot
   describes (also a theorem, `LeadingGapRelocationIsDestructive`), against the
   promise that the active slot stays canonical. Cut there, the blob has no
   readable index.
2. After that, a process with a matching snapshot writes on, without reading
   the index, and publishes a locator over garbage.
3. The call after an abandoned one encrypts other plaintext at the same
   keystream positions.
4. A put that failed in its last sync is on file but not in the index of the vault.
   Repeated, it returns `Ok`, and the file has more chunks than its `file_complete` says:
   nobody can read it any more.
5. `Blob::open` decides to create before it holds the lock.
6. Splitting without striping appends blobs for ever when the last chunk fills
   its blob and leaves no room for the marker.

## 5. Proofs

Each theorem is proved for every value of the constants: any processes, plans,
configurations and number of faults. A proof goes one way: an inductive invariant,
one lemma for each action that says the action preserves it, the induction step that
collects them, and the theorems that follow from the invariant.

### 5.1 The writer

`BlobWriterProofs` proves `TypesHold` and `LocatorsStayInBounds`: every slot, on
file or on disk, whatever was cut or lost, describes a part of the body that is
durable, so that a reader that finds a valid slot never reads past the end of the
file. It rests on the sync before the slot: with that step skipped TLC finds a
counterexample. Its invariant

    IndInv == TypeOK /\ LocatorsInBounds /\ GenerationsInLog
              /\ SnapshotsInTxns /\ CallInBounds /\ FramesBounded

adds that no slot is ahead of the log, that snapshots list transactions that
exist, where the call in progress is (the index that it builds lies within the file
once written, within the disk once synced), and that frames lie where transactions
may be. The image that a host crash leaves has a lemma of its own: any choice of old and
new cells between `disk` and `file` has its slots within the old end of the
disk. The same module has the geometry of `BlobLayout`, for all lengths:
`InPlaceWritesPadding`, `RelocationKeepsApart`, `LeadingGapRelocationIsDestructive`,
`EnoughPaddingIsSafe`.

`BlobWriterSafety` strengthens that to `Safe`, from which follow

| theorem | what it says |
|---|---|
| `IndexStaysReadable` | `CommittedIndexReadable`: until a destructive relocation is cut, and outside one, file and disk serve the index of the active slot |
| `AcknowledgedSurvives` | `AckedSurvivesCrash`: whichever unsynced writes a host crash keeps |
| `ChunksAreImmutable` | `CommittedChunksIntact`: without a condition, also on a blob whose index is destroyed |
| `SnapshotsAreSound` | `SnapshotSound`: without a condition, whatever other processes write |
| `KeystreamUsedOnce` | `KeystreamOnceUncut`: no position takes two plaintexts while nothing was cut |
| `IdleBlobIsReadable` | `RecoversWhenIdle` until `lost` |
| `StatsAddUp` | `StatsPartitionBody`: every byte of the body is counted once |
| `BlobIsALog` | `Spec /\ []~lost => ImplementsLog`: the writer implements `BlobLog` |

`Safe` has these parts beside `IndInv`.

 - `LogOrdered`: entries lie in the index in the order of the log, `SlotsSound`: a
   slot of generation n lists the first n transactions, whose frames end before its
   index begins.
 - `SlotOrder`: one slot is on disk as it is on file, and either it is the active one,
   or the active one was written beside it and is not synced yet. So the slot a call
   writes is never the one it would need after a crash.
 - `CallPlaced`, `CallSlots`, `CallIndex`, `NewIndex`, `OwnFrames`: what the call under
   way has put where, for each step at which it may be cut.
 - `IdleIndex`, `ActiveIndexKept`, `DurableIndexKept`: when the active index is
   exactly its transactions, and when that holds on disk.
 - `FramesInBody`, `NothingWasted`, `StreamInPlace`: for chunks and the keystream.

The invariants hold after the damage of finding 1 too, and that takes one more idea. A
destructive relocation that is cut leaves an index in which some position is held by no
unit of an index at all (`Holed`: the copy went over it, or frames did). No later
call closes that hole, since a copy copies what is there and new entries go behind
it. So such an index never parses as a shorter or another one. `Sound` says of an index that
it is exact or, if damage was possible, has a hole; `SnapshotSound` and
`CommittedChunksIntact` then need no condition on `lost`.

The refinement maps the log to `Listed`, what a new process would read from the file. Under `~lost` it
is equal to `log`, because the ids in the active index are `Upto(log, n)`
and lie in order; each step is then an append, a crash that drops what was not
acknowledged, or a stutter. The hypothesis `[]~lost` is what finding 1 denies: without it
the refinement is false, and a run shows that.

`StatsAddUp` needs one more invariant, `Packed`: each transaction begins where the last
committed one ended. So the lengths of the frames add up to the data tail less the front matter, there is
no gap between chunks, and the cursor of `layout_stats` ends at the data tail.

### 5.2 The readers

`BlobReaderProofs` proves the five invariants of `BlobReader`'s run: `ReadTypesHold`,
`ViewsAreCommitted`, `ViewsAreRecent`, `QuietReadsSucceed`, and
`RefreshedSnapshotsAreSound` (the writer's two unconditional invariants with the reader's
refresh beside them). `Safe` is inductive for the readers' steps as well. `ReadSafe` adds
what a reader knows between its reads: its locator is one that was committed (`ReadersKnow`);
the slots of a file are of two successive generations (`SlotsNear`); what it has read is
an index that was exact, or was read while the call that replaced it ran, so that the
comparison of the locators at the end catches it (`ReadsFresh`, `ReadersUpToDate`); and a read no
writer disturbs has met nothing else (`QuietReads`).

### 5.3 Creation

`BlobCreateProofs`: `TypesHold`, `SlotsAgree` (`KeysAgree`), `WritableOnceOpen`
(`OpenedIsWritable`), `AcknowledgedStays` (`AckedKeptUnraced`). The invariant adds
which stage of `create_new` means what on file (`StageOnFile`), that a file long enough
for its volatile slots has them of the creation of its stable slot (`SlotsOnFile`), that with no
cut and no race a blob at rest is empty or complete and every handle has its keys
(`Undisturbed`), and that acknowledged transactions are on a blob at rest (`AckedAtRest`).

### 5.4 One put

`VaultPutProofs`: `TypesHold`, `MarkerIsLast` (`MarkerMeansWhole`), `CapacityIsKept`
(`WithinCapacity`), `AppendsStayBounded` (`AppendsAreBounded`). For the marker: what the planner has placed grows and is never moved (`PlanGrows`), a
file that is being put is not in an index (`FileIsNew`), and writes follow the plan
(`WrittenAsPlanned`, `StoredInOneBlob`, `CompleteIsWhole`). For the capacity (`Fits`): what
is stored, what is planned and what a marker still needs fit each blob.

Estimates are sums over sets (`MapThenSumSet`). The library has no theorem about it
that could be used here, as those take an operator. `DataLemmas` proves what is needed for
sums of functions instead, `SumOver(w, S)`: a sum is an integer, one element more adds its
weight, disjoint sets add up. Each is a claim about all subsets of a finite set, and
fails first for a smallest one.

`AppendsStayBounded` says `policy # "split" => AppendsAreBounded`: with that policy the
bound is false (finding 6, run `put_split`). It has an invariant of its own, `AppendInv`, on top of `IndInv`:

 - `whole`: an append follows a plan for which no blob had room, and an empty blob has room for
   any file that is not refused (`EmptyBlobHasRoom`). So a put appends one blob at most.
 - `stripe`: say the call has appended at least as many blobs as its file has chunks. Then the
   search from the cursor always ends at a blob the vault had, or at the appended blob that is next
   in the circle, which the plan has not used yet (`Round`, `NextIsNew`). So `PlanChunk` always
   finds room. `Finalize` gives up only when the marker does not fit; an appended blob has one
   chunk of the plan at most, and a chunk and the marker fit an empty blob
   (`ChunkFitsABlob`). So the plan has met only blobs the vault had, one further for each chunk, and
   as the cursor is kept between the attempts this can happen only as often as there are such
   blobs (`Striped`, `NoRoomFound`).

### 5.5 Vaults and sessions

`VaultProofs`: `TypesHold`, `StoredOnce` (`StoresOnce`), `MarkerComesLast`
(`MarkerSeenMeansWhole`), `OwnPutsAreServed` (`ReadsItsWrites`). An index of a
vault never claims a transaction its blob does not have (`Types`, `Directory`); transactions
belong to puts (`TxnsOfPuts`, `PutsUnderWay`); every chunk of a put is on file or still ahead of it, and all are when its marker is
(`ChunksAhead`, `MarkerLast`); a put that was told Ok has its marker on file (`AckedMarked`);
the vault that put a file has it in its index (`KnowsItsOwn`), so that it refuses the next put of it
(`PutOnce`).

It also proves the four properties of `VaultRead`: `RangeReadsAreSlices`
(`RangeReadIsSlice`), `CursorsReadAll` (`CursorReadsAll`), `WholeReadsAreOnePut`
(`WholeReadIsOnePut`) and `ProbedBuffersAreFilled` (`ProbedBufferIsFilled`), for chunks of
every length and reads of every offset and length. All rest on one lemma,
`RangeIsASlice`: the bytes of a put are a sequence, a chunk and the part of it that a range
takes are slices of it (`Slice(n, a, b)`), the parts lie side by side because each begins
where `chunk_end` says the last one ended, and `FlattenSeq` joins them. The invariant gives the rest: a marker that is
listed has the total of its put (`TxnsOfPuts`), so a file that is served from one put has all
of its chunks. Where a hash does not match, some chunk is of another put than the marker.

The three recursive functions here (`ChunkEnds`, `FlattenSeq`, `CursorAfter`) are choices of a solution of an equation.
For each the proof gives a solution in closed form and shows by the least
counterexample that the chosen one agrees with it.

`SessionsProofs`, over `Sessions` with `VaultDir`: `TypesHold`, `DirectoryStaysWhole`
(`QuietOpens`), `NumbersNeverMix` (`NumbersStayApart`), `OneWinnerPerFile`
(`AcceptedOnce`), `OpensAreComplete` (`OpenSeesAll`), and the action property
`IndexesNeverMove` (`IndexesStay`). The invariant says for each caller what its call and
its walk over the directory have found so far (`CallOK`, `WorkOK`), for two callers that they are not
both inside a mutex or a flock (`Apart`), that the registry has each
vault under one number that was given out once (`Registered`, `Counted`), and what each vault and blob
holds (`VaultOK`, `DirOK`). A mutex is held from the lookup of a file to its
commit, which is why one of several threads wins.

### 5.6 What they assume

 - `LayoutAssumption`: lengths are naturals, as u64 values are.
 - `WriterAssumption`: plans have at least one byte of entries, bounds are naturals,
   `NoProc` is no process. `ReaderAssumption`: readers are processes, the retry budget is a natural.
 - `CreateAssumption`: creators and openers are different processes (a process that is
   both is two of them), `DirAssumption` the same for threads and tools.
 - `PutAssumption`: sizes are naturals, the limits and the cost of an index entry
   are positive (`VaultConfig` refuses others), the policies are the three the code has.
 - `VaultAssumption`: a file has at least one chunk, there is room for a blob. `ReadAssumption`:
   the lengths of its chunks are naturals; `SizeAssumption`: together they are a u64, as
   the length of a slice in memory is.
 - `SessionAssumption`: finitely many callers, in teams of them.

### 5.7 What only TLC checks

 - `PutReturns`, `PutsReturn`, `CallsEnd`: liveness under fairness, out of this
   prover's reach, as is anything about `ENABLED`.
 - That the vaults of `vault` are never all stuck: TLC's deadlock check.

## 6. Not modelled

 - The byte layout of slots, frames and entries, UUID formats and file names; key
   derivation and wrapping.
 - u64 overflow (errors by `checked_add`), and configurations that the
   constructors refuse.
 - The Python bindings: their Rust passes a `VaultId` where `Blob::open` takes an
   `Option`, so they do not build with this core.
 - `cache_indexes_on_open = false`, which no caller in the repository uses.
 - In `VaultDir` and `Sessions`: a crash of the host (whether a new name is on disk is up to
   the file system), poisoned mutexes (a panic inside a call), and sessions of several
   directories, which share only the registry.
 - Command line parsing, log lines, the HTTP example (it calls methods the
   bindings do not have).
 - Windows: the lock is `flock`, the code refuses other platforms.

## 7. Plan

Every invariant and action property that a passing run checks is a theorem, and so is the
refinement. What would say more:

 - The safety half of the liveness properties: a measure that each step of a put decreases. With
   `AppendsStayBounded` for the attempts and `PlanGrows` for the steps of one, what remains for
   `PutReturns` is fairness. The same for a call of `Vault` and of `Sessions`.
 - That with files split from the first blob on, `AppendsAreBounded` fails only for
   files whose last chunk leaves no room for the marker: the exact condition of finding 6.
 - What the findings leave true: for instance that a publication which is cut loses the index only
   when it relocates over the index it replaces.

----------------------------- MODULE BlobWriter -----------------------------
(***************************************************************************)
(* Blob::write_chunks (src/src/blob.rs) run by several processes on one    *)
(* blob file: lock, read the volatile slots, load the index, append the    *)
(* chunk frames and the index entries in place (Case 1) or move the index  *)
(* (Case 2), read the new index back, and publish it in the other slot.    *)
(* Any call can be cut short: an I/O error makes it return Err and drop    *)
(* the lock, a kill loses the process, a host crash loses what was not     *)
(* synced.                                                                 *)
(*                                                                         *)
(* Every call that got as far as planning its write is one transaction,    *)
(* numbered by its position in txns.  Only the holder of the exclusive     *)
(* lock is inside write_chunks, so its locals are one record (wr) and its  *)
(* program counter one variable (pc).                                      *)
(***************************************************************************)
EXTENDS BlobFile

CONSTANTS
  Procs,      \* processes that may open the blob
  NoProc,     \* holder of the lock when it is free
  Plans,      \* what write_chunks may be asked to append
  MaxTxns,    \* bound: transactions of a behaviour
  MaxFaults   \* bound: I/O errors, kills and host crashes of a behaviour

ASSUME WriterAssumption ==
  /\ NoProc \notin Procs
  /\ Plans \subseteq Plan
  /\ MaxTxns \in Nat
  /\ MaxFaults \in Nat

VARIABLES
  opened,     \* processes that hold the blob open
  committed,  \* Blob::committed of those that have one
  lock,       \* holder of the flock
  pc,         \* where the holder is in write_chunks
  wr,         \* its locals
  txns,       \* every transaction planned so far: where it goes
  faults      \* faults so far

\* History, for the properties only.
VARIABLES
  log,        \* log[g]: the transaction that generation g added
  acked,      \* highest generation a call returned Ok for
  stream,     \* <<p, id>>: transaction id was encrypted at index position p
  exposed,    \* the durable slot may describe a destroyed index
  lost        \* a relocation that destroys its index was cut short

procVars == <<opened, committed>>
history  == <<log, acked, stream, exposed, lost>>
vars     == <<file, disk, opened, committed, lock, pc, wr, txns, faults,
              log, acked, stream, exposed, lost>>

Txn == [off : Nat, chunk_len : Nat, start : Nat, entry_len : Nat \ {0}]

\* A CommittedSnapshot: a locator and the transactions of its index.
Snapshot == [locator : Locator, index : SUBSET Nat]

Locals == [loc : Locator, index : SUBSET Nat, relocate : BOOLEAN,
           mac : Seq(Cell)]

NoLocals == [loc |-> NoLocator, index |-> {}, relocate |-> FALSE,
             mac |-> <<>>]

BodyWrites == {"append", "extend", "grow", "copy", "entries", "frames"}
Syncs      == {"sync_append", "sync_extend", "sync_moved", "sync_slot"}

-----------------------------------------------------------------------------
(* The transaction under way. *)

id  == Len(txns)
txn == txns[id]

ChunkEnd(i) == txns[i].off + txns[i].chunk_len

IndexOffset == NewIndexOffset(txn, wr.loc, txn.off, wr.relocate)
IndexLength == NewIndexLength(txn, wr.loc)

\* The slot that is not active.
SameSlot   == wr.loc.slot_index
SecondSlot == 1
OtherSlot  == 1 - wr.loc.slot_index

NewLocator ==
  [generation |-> wr.loc.generation + 1, index_offset |-> IndexOffset,
   index_length |-> IndexLength, index_mac |-> wr.mac,
   slot_index |-> OtherSlot]

Destructive == wr.relocate /\ OverwritesLiveIndex(txn, wr.loc, txn.off)

\* The live index may already be overwritten, and no slot says so yet.
Overwriting ==
  Destructive /\ pc \in {"entries", "frames", "sync_moved", "seal", "slot"}

-----------------------------------------------------------------------------
(* Parsing the decrypted index: every unit must be an entry's unit at its  *)
(* own keystream position, and no entry may be cut.                        *)

Parses(ciphertext) ==
  \A i \in DOMAIN ciphertext :
    /\ ciphertext[i][1] = "index"
    /\ ciphertext[i][3] = i - 1
    /\ ciphertext[i][2] \in DOMAIN txns
    /\ LET t == txns[ciphertext[i][2]]
       IN  \A q \in Region(t.start, t.entry_len) :
             q + 1 \in DOMAIN ciphertext /\ ciphertext[q + 1][2] = ciphertext[i][2]

\* The transactions whose entries the index lists.
Decode(ciphertext) == {ciphertext[i][2] : i \in DOMAIN ciphertext}

\* read_index_with_locator succeeds.
Verifies(f, loc) == MacOk(f, loc) /\ Parses(loc.index_mac)

-----------------------------------------------------------------------------
Init ==
  LET eof == FRONT_MATTER_LEN + initial_leading_gap + initial_trailing_gap
      first == [NoLocator EXCEPT
                  !.index_offset = FRONT_MATTER_LEN + initial_leading_gap]
      blob == [slot |-> [i \in {0, 1} |-> IF i = 0 THEN [valid |-> TRUE, loc |-> first]
                                          ELSE BrokenSlot],
               eof  |-> eof,
               body |-> [x \in FRONT_MATTER_LEN .. eof - 1 |-> Junk]]
  IN  /\ file = blob /\ disk = blob
      /\ opened = {} /\ committed = [p \in {} |-> {}]
      /\ lock = NoProc /\ pc = "free" /\ wr = NoLocals
      /\ txns = <<>> /\ faults = 0
      /\ log = <<>> /\ acked = 0 /\ stream = {}
      /\ exposed = FALSE /\ lost = FALSE

\* Blob::open on an existing file: no snapshot yet.
Open(p) ==
  /\ p \notin opened
  /\ opened' = opened \cup {p}
  /\ UNCHANGED <<file, disk, committed, lock, pc, wr, txns, faults, history>>

SnapshotPresent(p, loc) == p \in DOMAIN committed

SnapshotMatches(p, loc) == p \in DOMAIN committed /\ committed[p].locator = loc

\* load_index_for_write: the snapshot if its locator is the one on file,
\* else the index on file, which must verify.
LoadedIndex(p, loc) ==
  IF SnapshotMatches(p, loc) THEN committed[p].index ELSE Decode(loc.index_mac)

\* write_chunks up to the choice of the case.  A call that cannot load the
\* index returns before any change, and is left out.
Begin(p, plan) ==
  LET loc   == ActiveLocator(file)
      index == LoadedIndex(p, loc)
      tail  == DataTail({ChunkEnd(i) : i \in index})
      move  == NeedsRelocate(plan, loc, tail, file.eof)
  IN  /\ p \in opened /\ lock = NoProc
      /\ Len(txns) < MaxTxns
      /\ ValidSlots(file) # {}
      /\ SnapshotMatches(p, loc) \/ Verifies(file, loc)
      /\ IndexEnd(loc) <= file.eof
      /\ lock' = p
      /\ txns' = Append(txns, [off |-> tail, chunk_len |-> plan.chunk_len,
                               start |-> loc.index_length,
                               entry_len |-> plan.entry_len])
      /\ wr' = [loc |-> loc, index |-> index, relocate |-> move, mac |-> <<>>]
      /\ pc' = IF move THEN "grow" ELSE "append"
      /\ UNCHANGED <<file, disk, procVars, faults, history>>

-----------------------------------------------------------------------------
(* The writes to the body, in the order of each case. *)

FrameWrite ==
  [offset |-> txn.off,
   cells  |-> [k \in 1 .. txn.chunk_len |-> <<"chunk", id, k>>]]

EntryWrite ==
  [offset |-> IndexOffset + wr.loc.index_length,
   cells  |-> [k \in 1 .. txn.entry_len |-> <<"index", id, txn.start + k - 1>>]]

GrowWrite ==
  [offset |-> file.eof,
   cells  |-> [k \in 1 .. RequiredEof(txn, wr.loc, txn.off) - file.eof |-> Junk]]

CopyWrite ==
  [offset |-> IndexOffset,
   cells  |-> Ciphertext(file, wr.loc.index_offset, wr.loc.index_length)]

\* What a body write puts on the file, by the step that does it.
Pending ==
  IF pc \in {"append", "frames"} THEN FrameWrite
  ELSE IF pc \in {"extend", "entries"} THEN EntryWrite
  ELSE IF pc = "grow" THEN GrowWrite
  ELSE CopyWrite

\* The keystream positions the first n units of the pending write use.
Encrypted(n) ==
  IF pc \in {"extend", "entries"}
  THEN {<<txn.start + k - 1, id>> : k \in 1 .. n}
  ELSE {}

\* Does the pending write change the index the durable slot describes?
\* (An index copied onto its own place does not.)
HitsDurableIndex(n) ==
  LET durable == ActiveLocator(disk)
  IN  /\ Overlap(Pending.offset, n, durable.index_offset, durable.index_length)
      /\ pc # "copy" \/ IndexOffset # wr.loc.index_offset

WriteBody(from, to) ==
  /\ pc = from
  /\ pc' = to
  /\ LET n == Len(Pending.cells)
     IN  /\ file' = Put(file, Pending, n)
         /\ stream' = stream \cup Encrypted(n)
         /\ exposed' = (exposed \/ HitsDurableIndex(n))
  /\ UNCHANGED <<disk, procVars, lock, wr, txns, faults, log, acked, lost>>

SyncBodySkipped(from, to) ==
  /\ pc = from /\ pc' = to
  /\ UNCHANGED <<file, disk, procVars, lock, wr, txns, faults, history>>

\* sync_all: an earlier slot becomes durable with everything else.
SyncBody(from, to) ==
  /\ pc = from
  /\ pc' = to
  /\ disk' = file
  /\ exposed' = Destructive
  /\ UNCHANGED <<file, procVars, lock, wr, txns, faults, log, acked, stream, lost>>

\* Case 1: the frames fill the leading gap, the entries the trailing gap.
AppendFrames  == WriteBody("append", "sync_append")
SyncFrames    == SyncBody("sync_append", "extend")
AppendEntries == WriteBody("extend", "sync_extend")
SyncEntries   == SyncBody("sync_extend", "seal")

\* Case 2 (relocate_and_append_index): one sync for all of it.
Grow        == WriteBody("grow", "copy")
CopyIndex   == WriteBody("copy", "entries")
MoveEntries == WriteBody("entries", "frames")
MoveFrames  == WriteBody("frames", "sync_moved")
SyncMovedSkipped == SyncBodySkipped("sync_moved", "seal")
SyncMoved   == SyncBody("sync_moved", "seal")

-----------------------------------------------------------------------------
(* Publication: read the new index back, compute its MAC, and write the    *)
(* locator into the slot that is not active.  A reader, or a crash, can    *)
(* find that slot half written.                                            *)

Seal ==
  /\ pc = "seal"
  /\ pc' = "slot"
  /\ wr' = [wr EXCEPT !.mac = Ciphertext(file, IndexOffset, IndexLength)]
  /\ file' = PutSlot(file, OtherSlot, BrokenSlot)
  /\ UNCHANGED <<disk, procVars, lock, txns, faults, history>>

PublishSlot ==
  /\ pc = "slot"
  /\ pc' = "sync_slot"
  /\ file' = PutSlot(file, OtherSlot, [valid |-> TRUE, loc |-> NewLocator])
  /\ log' = Append(log, id)
  /\ UNCHANGED <<disk, procVars, lock, wr, txns, faults, acked, stream, exposed, lost>>

\* The last sync, the new snapshot, and the return that drops the lock.
NewSnapshots ==
  [p \in DOMAIN committed \cup {lock} |->
     IF p = lock THEN [locator |-> NewLocator, index |-> wr.index \cup {id}]
     ELSE committed[p]]

CommitUnsynced ==
  /\ pc = "sync_slot"
  /\ committed' = NewSnapshots
  /\ lock' = NoProc /\ pc' = "free" /\ wr' = NoLocals
  /\ acked' = NewLocator.generation
  /\ UNCHANGED <<file, disk, opened, txns, faults, log, stream, exposed, lost>>

Commit ==
  /\ pc = "sync_slot"
  /\ disk' = file
  /\ committed' = NewSnapshots
  /\ lock' = NoProc /\ pc' = "free" /\ wr' = NoLocals
  /\ acked' = NewLocator.generation
  /\ exposed' = FALSE
  /\ UNCHANGED <<file, opened, txns, faults, log, stream, lost>>

-----------------------------------------------------------------------------
(* Faults. *)

\* The call stops where it is, with any part of its current write done, and
\* the lock goes.
Abandon ==
  /\ faults < MaxFaults
  /\ faults' = faults + 1
  /\ lock # NoProc
  /\ IF pc \in BodyWrites
     THEN \E n \in 0 .. Len(Pending.cells) :
            /\ file' = Put(file, Pending, n)
            /\ stream' = stream \cup Encrypted(n)
            /\ exposed' = (exposed \/ HitsDurableIndex(n))
     ELSE UNCHANGED <<file, stream, exposed>>
  /\ lost' = (lost \/ Overwriting \/ (pc = "copy" /\ Destructive))
  /\ lock' = NoProc /\ pc' = "free" /\ wr' = NoLocals
  /\ UNCHANGED <<disk, txns, log, acked>>

\* An I/O error: Err is returned, and the process keeps its blob.
Fail == Abandon /\ UNCHANGED procVars

DropHandleOnly(p) ==
  opened' = opened \ {p} /\ UNCHANGED committed

Drop(p) ==
  /\ opened' = opened \ {p}
  /\ committed' = Restrict(committed, DOMAIN committed \ {p})

\* The process inside write_chunks is killed.
Kill == Abandon /\ Drop(lock)

\* A process closes the blob, or dies, outside write_chunks.
Close(p) ==
  /\ p \in opened /\ p # lock
  /\ Drop(p)
  /\ UNCHANGED <<file, disk, lock, pc, wr, txns, faults, history>>

HostCrash ==
  /\ faults < MaxFaults
  /\ faults' = faults + 1
  /\ file' \in CrashImages
  /\ disk' = file'
  /\ opened' = {} /\ committed' = [p \in {} |-> {}]
  /\ lock' = NoProc /\ pc' = "free" /\ wr' = NoLocals
  /\ log' = SubSeq(log, 1, ActiveLocator(file').generation)
  /\ exposed' = FALSE
  /\ lost' = (lost \/ exposed \/ Overwriting)
  /\ UNCHANGED <<txns, acked, stream>>

-----------------------------------------------------------------------------
WriteStep ==
  \/ AppendFrames \/ SyncFrames \/ AppendEntries \/ SyncEntries
  \/ Grow \/ CopyIndex \/ MoveEntries \/ MoveFrames \/ SyncMoved
  \/ Seal \/ PublishSlot \/ Commit

Next ==
  \/ \E p \in Procs : Open(p) \/ Close(p)
  \/ \E p \in Procs, plan \in Plans : Begin(p, plan)
  \/ WriteStep
  \/ Fail \/ Kill \/ HostCrash

Spec == Init /\ [][Next]_vars

-----------------------------------------------------------------------------
(* Properties. *)

\* Every variable stays in its type, and the locals are idle without a call.
TypeOK ==
  /\ IsImage(file) /\ IsImage(disk)
  /\ opened \subseteq Procs
  /\ committed \in [DOMAIN committed -> Snapshot] /\ DOMAIN committed \subseteq opened
  /\ lock \in opened \cup {NoProc}
  /\ pc \in BodyWrites \cup Syncs \cup {"free", "seal", "slot"}
  /\ (pc = "free") = (lock = NoProc)
  /\ wr \in Locals
  /\ txns \in Seq(Txn) /\ Len(txns) <= MaxTxns
  /\ faults \in 0 .. MaxFaults
  /\ log \in Seq(DOMAIN txns)
  /\ acked \in Nat
  /\ stream \subseteq Nat \X DOMAIN txns
  /\ exposed \in BOOLEAN /\ lost \in BOOLEAN

\* The image holds a committed index, complete, of at least generation n:
\* what a process that opens the blob on it finds.
Recovers(f, n) ==
  /\ ValidSlots(f) # {}
  /\ LET loc == ActiveLocator(f)
     IN  /\ loc.generation >= n
         /\ loc.generation <= Len(log)
         /\ Verifies(f, loc)
         /\ Decode(loc.index_mac) = {log[g] : g \in 1 .. loc.generation}

(* Whatever is cut short, the file always serves every transaction that    *)
(* was ever published, and the disk one that was acknowledged at least, as *)
(* long as no relocation that runs over its own index is involved.         *)
CommittedIndexReadable ==
  ~lost => /\ Overwriting \/ Recovers(file, Len(log))
           /\ exposed \/ Recovers(disk, acked)

(* A host crash at any instant leaves an index with every acknowledged     *)
(* transaction, whatever part of the unsynced writes reached the disk.     *)
AckedSurvivesCrash ==
  (~lost /\ ~exposed /\ ~Overwriting) =>
    \A img \in CrashImages : Recovers(img, acked)

(* Committed chunk frames are immutable: no later transaction, finished or *)
(* abandoned, writes over them, and they were durable before the index     *)
(* named them.                                                             *)
CommittedChunksIntact ==
  \A g \in DOMAIN log : \A x \in Region(txns[log[g]].off, txns[log[g]].chunk_len) :
    LET frame == <<"chunk", log[g], x - txns[log[g]].off + 1>>
    IN  /\ x < disk.eof /\ disk.body[x] = frame
        /\ x < file.eof /\ file.body[x] = frame

(* A snapshot a process keeps between calls is a generation of the blob as *)
(* it was committed: when its locator is the active one, using it instead  *)
(* of the index on file gives the same chunks.                             *)
SnapshotSound ==
  \A p \in DOMAIN committed :
    LET s == committed[p]
    IN  /\ s.locator.generation <= Len(log)
        /\ s.index = {log[g] : g \in 1 .. s.locator.generation}

(* No index position is ever encrypted with two different transactions.    *)
KeystreamOnce == \A a, b \in stream : a[1] = b[1] => a = b

(* As long as every call ran to its end, whatever relocated meanwhile and   *)
(* whoever wrote, none is.                                                  *)
KeystreamOnceUncut == faults = 0 => KeystreamOnce

(* No locator is published over an index that does not parse.              *)
PublishedIndexParses ==
  \A i \in ValidSlots(file) : Parses(file.slot[i].loc.index_mac)

(* With nobody inside write_chunks, the file serves a committed index.     *)
RecoversWhenIdle == lock = NoProc => Recovers(file, 0)

-----------------------------------------------------------------------------
(* No slot on file or on disk, so none that a crash leaves, points outside *)
(* the part of the body that is durable: what a locator describes can      *)
(* always be read.                                                         *)
LocatorsInBounds ==
  /\ FRONT_MATTER_LEN <= disk.eof /\ disk.eof <= file.eof
  /\ \A f \in {file, disk} : \A i \in ValidSlots(f) :
       /\ FRONT_MATTER_LEN <= f.slot[i].loc.index_offset
       /\ IndexEnd(f.slot[i].loc) <= disk.eof

\* What makes it inductive: no slot is ahead of the log,
GenerationsInLog ==
  \A f \in {file, disk} : \A i \in ValidSlots(f) :
    f.slot[i].loc.generation <= Len(log)

\* a snapshot lists transactions,
SnapshotsInTxns == \A p \in DOMAIN committed : committed[p].index \subseteq DOMAIN txns

\* and a call knows where its index is, and how much of it is on file and
\* on disk by now.
InPlace  == {"append", "sync_append", "extend", "sync_extend"}
Moving   == {"grow", "copy", "entries", "frames", "sync_moved"}
OnFile   == {"sync_extend", "copy", "entries", "frames", "sync_moved"}
OnDisk   == {"seal", "slot", "sync_slot"}

CallInBounds ==
  pc # "free" =>
    /\ txns # <<>>
    /\ FRONT_MATTER_LEN <= wr.loc.index_offset /\ IndexEnd(wr.loc) <= disk.eof
    /\ wr.loc.generation + (IF pc = "sync_slot" THEN 1 ELSE 0) <= Len(log)
    /\ wr.index \subseteq DOMAIN txns
    /\ FRONT_MATTER_LEN <= txn.off /\ txn.start = wr.loc.index_length
    /\ pc \in InPlace => ~wr.relocate
    /\ pc \in Moving => wr.relocate
    /\ pc \in OnFile => IndexOffset + IndexLength <= file.eof
    /\ pc \in OnDisk => IndexOffset + IndexLength <= disk.eof

-----------------------------------------------------------------------------
(* The blob implements an append-only log: its entries are what the active *)
(* locator vouches for, in index order.                                    *)

Listed ==
  LET ids == Decode(ActiveLocator(file).index_mac)
      Before(i) == {j \in ids : txns[j].start < txns[i].start}
  IN  [g \in 1 .. Cardinality(ids) |-> CHOOSE i \in ids : Cardinality(Before(i)) = g - 1]

AbstractLog == INSTANCE BlobLog WITH entries <- Listed, synced <- acked

(* Every step of the writers, of a fault and of a recovery is a step of    *)
(* the log or none: a transaction appears whole and at the end, it never   *)
(* changes, and an acknowledged one is not lost.                           *)
ImplementsLog == AbstractLog!LogSpec
=============================================================================

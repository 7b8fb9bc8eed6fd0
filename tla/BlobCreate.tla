----------------------------- MODULE BlobCreate -----------------------------
(***************************************************************************)
(* Blob::open and Blob::open_existing (src/src/blob.rs) called on one path *)
(* by several processes, from a path that does not exist.  Whether to      *)
(* create is decided before the lock is taken (exists, then the length),   *)
(* and create_new truncates and writes under it.                           *)
(*                                                                         *)
(* The file is as long as the parts written so far: stable slot, volatile  *)
(* slot A, volatile slot B, then the body in pieces.  A part cut in the    *)
(* middle is as good as missing: every read of it fails.  Each create_new  *)
(* draws its own keys, so a slot is known by the creation that wrote it.   *)
(* A transaction of write_chunks is one step here (BlobWriter has them).   *)
(***************************************************************************)
EXTENDS Naturals

CONSTANTS
  Creators,     \* processes that call Blob::open with a vault id
  Openers,      \* processes that open a blob they found in the directory
  NoProc,
  LEADING, TRAILING,    \* pieces of the two initial gaps
  MaxKeys,      \* bound: create_new calls that draw keys
  MaxTxns,      \* bound: transactions
  MaxFaults     \* bound: calls cut short

ASSUME CreateAssumption ==
  /\ Creators \cap Openers = {} /\ NoProc \notin Creators \cup Openers
  /\ LEADING \in Nat /\ TRAILING \in Nat
  /\ MaxKeys \in Nat /\ MaxTxns \in Nat /\ MaxFaults \in Nat

Procs == Creators \cup Openers

VARIABLES
  file,     \* the path: does it exist, its length, who wrote its slots
  lock,     \* holder of the flock
  call,     \* what each process is doing: pc, existed, whether it saw a
            \* complete front matter (history), and the keys it drew
  handle,   \* keys of the Blob each process has open, 0 without one
  keys,     \* keys drawn so far
  faults

\* History, for the properties only.
VARIABLES
  acked,    \* <<keys, generation>> of every transaction that returned Ok
  cut,      \* a create_new was cut short
  raced     \* a create_new truncated a blob that was not there when it looked

vars == <<file, lock, call, handle, keys, faults, acked, cut, raced>>

FRONT_MATTER == 3       \* parts: the stable slot and both volatile slots
FULL         == FRONT_MATTER + LEADING + TRAILING

NoFile == [exists |-> FALSE, len |-> 0, stable |-> 0, slot |-> 0, generation |-> 0]

Idle == [pc |-> "idle", existed |-> FALSE, seen |-> FALSE, keys |-> 0]

Creating == {"truncate", "stable", "slot_a", "slot_b", "body"}

Step(p, from, to) ==
  /\ call[p].pc = from
  /\ call' = [call EXCEPT ![p].pc = to]

-----------------------------------------------------------------------------
Init ==
  /\ file = NoFile /\ lock = NoProc
  /\ call = [p \in Procs |-> Idle] /\ handle = [p \in Procs |-> 0]
  /\ keys = 0 /\ faults = 0
  /\ acked = {} /\ cut = FALSE /\ raced = FALSE

\* path.exists()
Open(p) ==
  /\ p \in Creators /\ handle[p] = 0 /\ call[p].pc = "idle"
  /\ call' = [call EXCEPT ![p] = [Idle EXCEPT !.pc = "open", !.existed = file.exists]]
  /\ UNCHANGED <<file, lock, handle, keys, faults, acked, cut, raced>>

\* OpenOptions with create.
OpenFile(p) ==
  /\ Step(p, "open", "length")
  /\ file' = [file EXCEPT !.exists = TRUE]
  /\ UNCHANGED <<lock, handle, keys, faults, acked, cut, raced>>

\* A blob found in the directory: Blob::open without a vault id looks at
\* the length, open_existing does not.
OpenFound(p) ==
  /\ p \in Openers /\ handle[p] = 0 /\ call[p].pc = "idle" /\ file.exists
  /\ \E pc \in {"length", "read"} :
       call' = [call EXCEPT ![p] = [Idle EXCEPT !.pc = pc, !.existed = file.exists]]
  /\ UNCHANGED <<file, lock, handle, keys, faults, acked, cut, raced>>

\* (Mutant: a blob as created is not long enough.)
LongEnoughStrict == file.len > FULL

LongEnough == file.len >= FRONT_MATTER

\* Too short to be a blob: create it, or InvalidConfig without a vault id.
CheckLength(p) ==
  /\ call[p].pc = "length"
  /\ call' = [call EXCEPT
       ![p] = IF call[p].existed /\ LongEnough THEN [@ EXCEPT !.pc = "read"]
              ELSE IF p \in Creators
              THEN [@ EXCEPT !.pc = "lock",
                             !.seen = call[p].existed /\ file.len >= FRONT_MATTER]
              ELSE Idle]
  /\ UNCHANGED <<file, lock, handle, keys, faults, acked, cut, raced>>

\* from_existing: the stable slot, whoever wrote it.  A file without one
\* is an error.
ReadStable(p) ==
  /\ Step(p, "read", "idle")
  /\ handle' = [handle EXCEPT ![p] = file.stable]
  /\ UNCHANGED <<file, lock, keys, faults, acked, cut, raced>>

-----------------------------------------------------------------------------
(* create_new *)

\* (Mutant: without the lock.)
LockNotTaken(p) ==
  /\ keys < MaxKeys
  /\ keys' = keys + 1
  /\ call[p].pc = "lock"
  /\ call' = [call EXCEPT ![p].pc = "truncate", ![p].keys = keys + 1]
  /\ UNCHANGED <<file, lock, handle, faults, acked, cut, raced>>

Lock(p) ==
  /\ lock = NoProc /\ keys < MaxKeys
  /\ lock' = p
  /\ keys' = keys + 1
  /\ call[p].pc = "lock"
  /\ call' = [call EXCEPT ![p].pc = "truncate", ![p].keys = keys + 1]
  /\ UNCHANGED <<file, handle, faults, acked, cut, raced>>

\* file.set_len(0).  (Mutant: what is there is written over.)
TruncateSkipped(p) ==
  /\ Step(p, "truncate", "stable")
  /\ raced' = (raced \/ (file.len >= FRONT_MATTER /\ ~call[p].seen))
  /\ UNCHANGED <<file, lock, handle, keys, faults, acked, cut>>

Truncate(p) ==
  /\ Step(p, "truncate", "stable")
  /\ file' = [NoFile EXCEPT !.exists = TRUE]
  /\ raced' = (raced \/ (file.len >= FRONT_MATTER /\ ~call[p].seen))
  /\ UNCHANGED <<lock, handle, keys, faults, acked, cut>>

Longer(n) == IF file.len > n THEN file.len ELSE n

WriteStable(p) ==
  /\ Step(p, "stable", "slot_a")
  /\ file' = [file EXCEPT !.stable = call[p].keys, !.len = Longer(1)]
  /\ UNCHANGED <<lock, handle, keys, faults, acked, cut, raced>>

WriteSlotA(p) ==
  /\ Step(p, "slot_a", "slot_b")
  /\ file' = [file EXCEPT !.slot = call[p].keys, !.len = Longer(2), !.generation = 0]
  /\ UNCHANGED <<lock, handle, keys, faults, acked, cut, raced>>

WriteSlotB(p) ==
  /\ Step(p, "slot_b", "body")
  /\ file' = [file EXCEPT !.len = Longer(FRONT_MATTER)]
  /\ UNCHANGED <<lock, handle, keys, faults, acked, cut, raced>>

FillBody(p) ==
  /\ call[p].pc = "body" /\ file.len < FULL
  /\ file' = [file EXCEPT !.len = @ + 1]
  /\ UNCHANGED <<lock, call, handle, keys, faults, acked, cut, raced>>

\* sync_all, and the return that drops the lock.  (Mutant: it stays.)
FinishLocked(p) ==
  /\ file.len >= FULL
  /\ Step(p, "body", "idle")
  /\ handle' = [handle EXCEPT ![p] = call[p].keys]
  /\ UNCHANGED <<file, lock, keys, faults, acked, cut, raced>>

Finish(p) ==
  /\ file.len >= FULL
  /\ Step(p, "body", "idle")
  /\ handle' = [handle EXCEPT ![p] = call[p].keys]
  /\ lock' = NoProc
  /\ UNCHANGED <<file, keys, faults, acked, cut, raced>>

-----------------------------------------------------------------------------
\* write_chunks gets as far as a commit: a slot verifies under the keys of
\* the handle, and the index is inside the file.
Writable(p) ==
  /\ file.slot = handle[p]
  /\ file.len >= FRONT_MATTER + LEADING

\* A transaction; one that relocates the index makes the file longer.
Write(p) ==
  /\ handle[p] # 0 /\ lock = NoProc /\ Writable(p)
  /\ file.generation < MaxTxns
  /\ file' = [file EXCEPT !.generation = @ + 1, !.len = Longer(FULL)]
  /\ acked' = acked \cup {<<handle[p], file.generation + 1>>}
  /\ UNCHANGED <<lock, call, handle, keys, faults, cut, raced>>

Close(p) ==
  /\ handle[p] # 0
  /\ handle' = [handle EXCEPT ![p] = 0]
  /\ UNCHANGED <<file, lock, call, keys, faults, acked, cut, raced>>

\* A process stops in the middle of a call, by an error or a kill.
Cut(p) ==
  /\ faults < MaxFaults
  /\ faults' = faults + 1
  /\ call[p].pc # "idle"
  /\ call' = [call EXCEPT ![p] = Idle]
  /\ cut' = (cut \/ call[p].pc \in Creating)
  /\ lock' = IF lock = p THEN NoProc ELSE lock
  /\ UNCHANGED <<file, handle, keys, acked, raced>>

Next == \E p \in Procs :
  \/ Open(p) \/ OpenFile(p) \/ OpenFound(p) \/ CheckLength(p) \/ ReadStable(p)
  \/ Lock(p) \/ Truncate(p) \/ WriteStable(p) \/ WriteSlotA(p) \/ WriteSlotB(p)
  \/ FillBody(p) \/ Finish(p) \/ Write(p) \/ Close(p) \/ Cut(p)

Spec == Init /\ [][Next]_vars

-----------------------------------------------------------------------------
(* Properties. *)

\* The state stays in its type, and the lock is held exactly while creating.
TypeOK ==
  /\ file \in [exists : BOOLEAN, len : 0 .. FULL, stable : 0 .. keys,
               slot : 0 .. keys, generation : 0 .. MaxTxns]
  /\ call \in [Procs -> [pc : Creating \cup {"idle", "open", "length", "read", "lock"},
                         existed : BOOLEAN, seen : BOOLEAN, keys : 0 .. keys]]
  /\ handle \in [Procs -> 0 .. keys]
  /\ keys \in 0 .. MaxKeys /\ faults \in 0 .. MaxFaults
  /\ acked \subseteq (1 .. keys) \X (1 .. MaxTxns)
  /\ cut \in BOOLEAN /\ raced \in BOOLEAN
  /\ \A p \in Procs : lock = p <=> call[p].pc \in Creating

(* Nothing of the blob of one creation is ever read with the keys of       *)
(* another: the slots on file belong to the stable slot, races and cut     *)
(* creations included.                                                     *)
KeysAgree ==
  lock = NoProc /\ file.len >= FRONT_MATTER => file.slot = file.stable

(* However early a process opens a blob under creation, it can write to it *)
(* by the time it gets the lock, unless the creation was cut short or      *)
(* another process created the blob again.                                 *)
OpenedIsWritable ==
  (lock = NoProc /\ ~cut /\ ~raced) =>
    \A p \in Procs : handle[p] # 0 => Writable(p)

\* The file still has every transaction that returned Ok.
AckedKept == \A t \in acked : t[1] = file.slot /\ t[2] <= file.generation

(* No process truncates a blob that it saw complete: without a race of two *)
(* creators what was acknowledged stays.                                   *)
AckedKeptUnraced == ~raced => AckedKept
=============================================================================

------------------------------ MODULE VaultDir ------------------------------
(***************************************************************************)
(* The directory of a vault: how a caller finds its blobs and its vault id *)
(* (open_vault_from_dir_discover in src/native/src/vault_io.rs for the     *)
(* threads of a host program, open_vault_from_dir in                       *)
(* src/src/bin/vaultblob.rs for the command line), and how it adds one     *)
(* (create_blob).  Nothing locks a directory: other callers add blobs      *)
(* between any two steps, and a blob shows up under its random name before *)
(* anything is written to it.                                              *)
(*                                                                         *)
(* A file only grows until it is a blob (BlobCreate), so the blobs of one  *)
(* list may be opened, verified or loaded in one step: what can be read of *)
(* each of them at its turn can be read of all of them at the last.        *)
(***************************************************************************)
EXTENDS Integers, SequencesExt

CONSTANTS
  Threads,    \* of one host program, with the C ABI
  Tools,      \* command line processes
  NoCaller,   \* holder of a lock that is free
  MaxBlobs    \* bound: the blobs the disk has room for

ASSUME DirAssumption ==
  /\ Threads \cap Tools = {} /\ NoCaller \notin Threads \cup Tools
  /\ MaxBlobs \in Nat \ {0}

Callers == Threads \cup Tools

VARIABLES
  blobs,    \* every blob, in the order of creation: its vault id, how far it
            \* is written, and the caller inside create_new or write_chunks
  dir,      \* the same blobs, in the order of their file names
  call      \* where each caller is in an open or a create_blob

\* History, for the properties only.
VARIABLES
  cut,      \* the creation of a blob was cut short
  raced     \* a vault was begun where there was no blob, and is one by now

dirvars == <<blobs, dir, call, cut, raced>>

\* How much of a blob is on file: the path, the stable slot, all of the
\* front matter, the body as far as its index; and the next of them.
Stages == {"empty", "stable", "front", "whole"}

Written == [empty |-> "stable", stable |-> "front", front |-> "whole"]

\* vault: the id drawn or discovered, 0 before; paths and found: the blobs
\* of the first list and those opened; new: the blob being created;
\* whole: the blobs that were complete when the open began (history).
NoCall == [op |-> "none", vault |-> 0, paths |-> <<>>, found |-> <<>>, new |-> 0, whole |-> {}]

At(c, op) == call[c].op = op

Enter(c, op) == [call EXCEPT ![c].op = op]

Fails(c) == Enter(c, "failed")

HasStable(b) == blobs[b].stage # "empty"

HasFront(b) == blobs[b].stage \in {"front", "whole"}

Whole == {b \in DOMAIN blobs : blobs[b].stage = "whole"}

-----------------------------------------------------------------------------
DirInit ==
  /\ blobs = <<>> /\ dir = <<>>
  /\ call = [c \in Callers |-> NoCall]
  /\ cut = FALSE /\ raced = FALSE

\* collect_blob_paths: without a blob, start a new vault.
CollectBlobPaths(c) ==
  /\ At(c, "none")
  /\ call' = [call EXCEPT ![c] =
       [NoCall EXCEPT !.op = IF dir = <<>> THEN "create" ELSE "discover",
                      !.paths = dir, !.whole = Whole]]
  /\ UNCHANGED <<blobs, dir, cut, raced>>

\* discover_vault_id of the first path: its stable slot.  (Mutant: a path
\* without one is no blob, so the directory has no vault.)
DiscoverOrCreate(c) ==
  /\ At(c, "discover")
  /\ LET b == Head(call[c].paths)
     IN  call' = IF HasStable(b)
                 THEN [call EXCEPT ![c].op = IF c \in Tools THEN "open" ELSE "collect",
                                   ![c].vault = blobs[b].vault]
                 ELSE Enter(c, "create")
  /\ UNCHANGED <<blobs, dir, cut, raced>>

DiscoverVaultId(c) ==
  /\ At(c, "discover")
  /\ LET b == Head(call[c].paths)
     IN  call' = IF HasStable(b)
                 THEN [call EXCEPT ![c].op = IF c \in Tools THEN "open" ELSE "collect",
                                   ![c].vault = blobs[b].vault]
                 ELSE Fails(c)
  /\ UNCHANGED <<blobs, dir, cut, raced>>

\* Blob::open without a vault id asks for the whole front matter,
\* open_existing for a stable slot with the vault id that it is given.
CanOpen(c, b) ==
  IF c \in Tools THEN HasStable(b) /\ blobs[b].vault = call[c].vault ELSE HasFront(b)

\* Every one, or none.  (Mutant: those that cannot be opened are left out.)
OpenThoseThatDo(c, paths) ==
  call' = [call EXCEPT ![c].op = "load",
                       ![c].found = SelectSeq(paths, LAMBDA b : CanOpen(c, b))]

OpenAll(c, paths) ==
  call' = IF \A b \in Range(paths) : CanOpen(c, b)
          THEN [call EXCEPT ![c].op = "load", ![c].found = paths] ELSE Fails(c)

\* collect_blobs lists the directory again.
CollectBlobs(c) ==
  /\ At(c, "collect")
  /\ OpenAll(c, dir)
  /\ UNCHANGED <<blobs, dir, cut, raced>>

\* The command line opens the blobs of the one list it has.
OpenPaths(c) ==
  /\ At(c, "open")
  /\ OpenAll(c, call[c].paths)
  /\ UNCHANGED <<blobs, dir, cut, raced>>

\* A thread compares the vault id of every path of its first list, too.
Verified(c) ==
  c \in Threads => \A b \in Range(call[c].paths) : blobs[b].vault = call[c].vault

\* Vault::open, and append_blob: one vault id, and an index in every blob,
\* which the two volatile slots are enough for while it is empty.
Loadable(c) ==
  \A b \in Range(call[c].found) : HasFront(b) /\ blobs[b].vault = call[c].vault

\* The vault that was opened is the caller's.
OpenVault(c) ==
  /\ At(c, "load") /\ Verified(c) /\ Loadable(c)
  /\ call' = [call EXCEPT ![c] = NoCall]
  /\ UNCHANGED <<blobs, dir, cut, raced>>

OpenVaultFails(c) ==
  /\ At(c, "load") /\ ~(Verified(c) /\ Loadable(c))
  /\ call' = Fails(c)
  /\ UNCHANGED <<blobs, dir, cut, raced>>

-----------------------------------------------------------------------------
(* create_blob: a file under a random name, for a new vault or for one     *)
(* that is open, then create_new under the lock of the file.               *)

\* The vault id the blob gets: a new one, or that of the vault.
VaultIdFor(c) == IF call[c].vault = 0 THEN Len(blobs) + 1 ELSE call[c].vault

CreateBlob(c) ==
  LET b == Len(blobs) + 1
      v == VaultIdFor(c)
  IN  /\ At(c, "create") /\ b <= MaxBlobs
      /\ blobs' = Append(blobs, [vault |-> v, stage |-> "empty", lock |-> c])
      /\ \E i \in 1 .. b : dir' = InsertAt(dir, i, b)
      /\ call' = [call EXCEPT ![c].op = "fill", ![c].vault = v, ![c].new = b]
      /\ raced' = (raced \/ (call[c].vault = 0 /\ call[c].paths = <<>> /\ blobs # <<>>))
      /\ UNCHANGED cut

\* The disk is full: the file cannot be created.
CreateFails(c) ==
  /\ At(c, "create") /\ Len(blobs) = MaxBlobs
  /\ call' = Fails(c)
  /\ UNCHANGED <<blobs, dir, cut, raced>>

\* The stable slot, the volatile slots, the body.
FillBlob(c) ==
  LET b == call[c].new
  IN  /\ At(c, "fill") /\ b \notin Whole
      /\ blobs' = [blobs EXCEPT ![b].stage = Written[@]]
      /\ UNCHANGED <<dir, call, cut, raced>>

\* The last sync and the end of create_new: a vault opens with the new
\* blob, or appends it.
FinishBlob(c) ==
  LET b == call[c].new
  IN  /\ At(c, "fill") /\ b \in Whole
      /\ blobs' = [blobs EXCEPT ![b].lock = NoCaller]
      /\ call' = [call EXCEPT ![c].op = "load", ![c].found = <<b>>, ![c].new = 0]
      /\ UNCHANGED <<dir, cut, raced>>

\* Locks of callers cs are released, whatever is on file.
Released(cs) ==
  [b \in DOMAIN blobs |-> IF blobs[b].lock \in cs THEN [blobs[b] EXCEPT !.lock = NoCaller]
                          ELSE blobs[b]]

\* A write or the sync of create_new fails.
FillFails(c) ==
  /\ At(c, "fill")
  /\ blobs' = Released({c})
  /\ call' = [call EXCEPT ![c].op = "failed", ![c].new = 0]
  /\ cut' = TRUE
  /\ UNCHANGED <<dir, raced>>

\* The callers cs are killed.
KillDir(cs) ==
  /\ blobs' = Released(cs)
  /\ call' = [c \in Callers |-> IF c \in cs THEN NoCall ELSE call[c]]
  /\ cut' = (cut \/ \E c \in cs : At(c, "fill"))
  /\ UNCHANGED <<dir, raced>>

DirStep(c) ==
  \/ DiscoverVaultId(c) \/ CollectBlobs(c) \/ OpenPaths(c) \/ OpenVaultFails(c)
  \/ CreateBlob(c) \/ CreateFails(c) \/ FillBlob(c) \/ FinishBlob(c)

-----------------------------------------------------------------------------
(* Properties. *)

DirTypeOK ==
  /\ blobs \in Seq([vault : 1 .. MaxBlobs, stage : Stages, lock : Callers \cup {NoCaller}])
  /\ Len(blobs) <= MaxBlobs
  /\ IsInjective(dir) /\ Range(dir) = DOMAIN blobs
  /\ \A c \in Callers :
       /\ call[c].op \in {"none", "discover", "collect", "open", "load", "create", "fill", "failed"}
       /\ Range(call[c].paths) \cup Range(call[c].found) \subseteq DOMAIN blobs
       /\ At(c, "fill") <=> call[c].new # 0
       /\ At(c, "fill") => blobs[call[c].new].lock = c
  /\ cut \in BOOLEAN /\ raced \in BOOLEAN

(* Left alone, a directory can be opened: with no creation under way, none *)
(* cut short, and no two callers that each began a vault, every blob is    *)
(* complete and all are of one vault, whoever added them.                  *)
QuietOpens ==
  (~cut /\ ~raced /\ \A c \in Callers : ~At(c, "fill")) =>
    /\ Whole = DOMAIN blobs
    /\ \A b \in DOMAIN blobs : blobs[b].vault = blobs[1].vault
=============================================================================

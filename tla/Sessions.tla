------------------------------ MODULE Sessions ------------------------------
(***************************************************************************)
(* The C ABI (src/native/src/lib.rs): threads of one host program open     *)
(* sessions on a directory, call them by number and close them, while      *)
(* command line processes (src/src/bin/vaultblob.rs) put files into the    *)
(* same directory.  Opening is VaultDir.                                   *)
(*                                                                         *)
(* A call locks the registry, takes its own reference to the vault of the  *)
(* session, unlocks the registry, then locks the vault and works on it.    *)
(* The calls that only read go the same way and change nothing here, so    *)
(* they are no step: VaultRead has what they return.                       *)
(*                                                                         *)
(* A file is one transaction in one blob here, chosen at will; VaultPut    *)
(* and Vault are about the choice, about files over several blobs, and     *)
(* about indexes that come out older than the file.                        *)
(***************************************************************************)
EXTENDS VaultDir

CONSTANTS
  Files,
  Teams,      \* bound: the sets of callers that ever run together
  MaxVaults,  \* bound: opens
  MaxFaults   \* bound: I/O errors, kills, and I/O that never returns

ASSUME SessionAssumption ==
  /\ Teams \subseteq SUBSET Callers /\ IsFiniteSet(Callers)
  /\ MaxVaults \in Nat /\ MaxFaults \in Nat

VARIABLES
  team,           \* the callers of this run
  registry,       \* SESSIONS: the vault of each session that is open
  registryLock,   \* its mutex
  nextId,         \* NEXT_SESSION_ID
  vaults,         \* every vault that was opened: its id, blobs, the files its
                  \* index lists and its mutex; the blobs that were complete
                  \* when the open began, and how many puts of each file were
                  \* told Ok (history)
  work,           \* where each caller is, and the locals of its call
  stored,         \* the files committed in each blob
  hung,           \* callers inside an I/O that does not return
  faults

\* History, for the properties only.
VARIABLE issued   \* the vault of every session number this host was given

hostvars == <<registry, registryLock, nextId>>
diskvars == <<stored, faults>>
vars     == <<dirvars, hostvars, diskvars, vaults, work, hung, issued, team>>

Blobs == 1 .. MaxBlobs

Idle == [pc |-> "idle", id |-> 0, vault |-> 0, file |-> 0, blob |-> 0]

In(c, pc) == work[c].pc = pc

Goto(c, pc) == [work EXCEPT ![c].pc = pc]

Mine(c) == vaults[work[c].vault]

InVault == {"body", "append", "lock", "write"}

\* A call that may take a step.
Runs(c) == c \notin hung

-----------------------------------------------------------------------------
Init ==
  /\ DirInit /\ team \in Teams
  /\ registry = <<>> /\ registryLock = NoCaller /\ nextId = 1
  /\ vaults = <<>> /\ work = [c \in Callers |-> Idle]
  /\ stored = [b \in Blobs |-> {}] /\ hung = {} /\ faults = 0
  /\ issued = <<>>

(* vaultblob_open, and the start of every command. *)

Open(c) ==
  /\ In(c, "idle")
  /\ Len(vaults) + Cardinality({d \in Callers : In(d, "open")}) < MaxVaults
  /\ CollectBlobPaths(c)
  /\ work' = Goto(c, "open")
  /\ UNCHANGED <<hostvars, diskvars, vaults, hung, issued>>

\* Opening or creating a blob, for an open or for a put.
DirWork(c) ==
  /\ work[c].pc \in {"open", "append"}
  /\ DirStep(c)
  /\ UNCHANGED <<hostvars, diskvars, vaults, work, hung, issued>>

\* The number of a session.  (Mutant: one more than are open.)
CountedId == Cardinality(DOMAIN registry) + 1

FetchedId == nextId

\* The directory is open: the vault lists what its blobs have, and a thread
\* draws the number of its session.
Opened(c) ==
  LET found == call[c].found
  IN  /\ In(c, "open") /\ OpenVault(c)
      /\ vaults' = Append(vaults,
           [id |-> call[c].vault, blobs |-> found, files |-> UNION {stored[b] : b \in Range(found)},
            mutex |-> NoCaller, whole |-> call[c].whole, acked |-> [f \in Files |-> 0]])
      /\ work' = [work EXCEPT ![c] =
           [Idle EXCEPT !.pc = IF c \in Tools THEN "ready" ELSE "insert",
                        !.id = IF c \in Tools THEN 0 ELSE FetchedId,
                        !.vault = Len(vaults) + 1]]
      /\ nextId' = IF c \in Tools THEN nextId ELSE nextId + 1
      /\ UNCHANGED <<registry, registryLock, diskvars, hung, issued>>

OpenFails(c) ==
  /\ In(c, "open") /\ At(c, "failed")
  /\ work' = [work EXCEPT ![c] = Idle]
  /\ call' = [call EXCEPT ![c] = NoCall]
  /\ UNCHANGED <<blobs, dir, cut, raced, hostvars, diskvars, vaults, hung, issued>>

-----------------------------------------------------------------------------
(* The registry. *)

WithSession(t, sessions) ==
  [i \in DOMAIN sessions \cup {work[t].id} |->
     IF i = work[t].id THEN work[t].vault ELSE sessions[i]]

\* vaultblob_open returns the number.
Insert(t) ==
  /\ In(t, "insert") /\ registryLock = NoCaller
  /\ registry' = WithSession(t, registry)
  /\ issued' = WithSession(t, issued)
  /\ work' = [work EXCEPT ![t] = Idle]
  /\ UNCHANGED <<dirvars, registryLock, nextId, diskvars, vaults, hung>>

\* vaultblob_close, of a session that is open or not.
CloseSession(t) ==
  /\ In(t, "idle") /\ registryLock = NoCaller
  /\ \E id \in DOMAIN issued :
       registry' = [i \in DOMAIN registry \ {id} |-> registry[i]]
  /\ UNCHANGED <<dirvars, registryLock, nextId, diskvars, vaults, work, hung, issued>>

\* vaultblob_put_file by a number, which may be closed by now, from the
\* moment it has the registry.
PutFile(t) ==
  /\ In(t, "idle") /\ registryLock = NoCaller
  /\ registryLock' = t
  /\ \E id \in DOMAIN issued, f \in Files :
       work' = [work EXCEPT ![t] = [Idle EXCEPT !.pc = "lookup", !.id = id, !.file = f]]
  /\ UNCHANGED <<dirvars, registry, nextId, diskvars, vaults, hung, issued>>

\* (Mutant: the registry stays locked during the call.)
LookedUpLocked(t) == registryLock

LookedUp(t) == NoCaller

\* with_vault: InvalidSession, or a reference to the vault, which outlives
\* the session.
WithVault(t) ==
  /\ In(t, "lookup") /\ registryLock = t
  /\ IF work[t].id \in DOMAIN registry
     THEN /\ work' = [work EXCEPT ![t].pc = "mutex", ![t].vault = registry[work[t].id]]
          /\ registryLock' = LookedUp(t)
     ELSE /\ work' = [work EXCEPT ![t] = Idle]
          /\ registryLock' = NoCaller
  /\ UNCHANGED <<dirvars, registry, nextId, diskvars, vaults, hung, issued>>

-----------------------------------------------------------------------------
(* Calls on a vault. *)

\* FileAlreadyExists
Refused(c) == work[c].file \in Mine(c).files

RefusePut(t) ==
  /\ In(t, "mutex") /\ Mine(t).mutex = NoCaller /\ Refused(t)
  /\ work' = [work EXCEPT ![t] = Idle]
  /\ UNCHANGED <<dirvars, hostvars, diskvars, vaults, hung, issued>>

\* (Mutant: the vault is not locked.)
VaultNotLocked(t) ==
  /\ In(t, "mutex") /\ ~Refused(t)
  /\ work' = Goto(t, "body")
  /\ UNCHANGED <<dirvars, hostvars, diskvars, vaults, hung, issued>>

LockVault(t) ==
  /\ In(t, "mutex") /\ Mine(t).mutex = NoCaller /\ ~Refused(t)
  /\ vaults' = [vaults EXCEPT ![work[t].vault].mutex = t]
  /\ work' = Goto(t, "body")
  /\ UNCHANGED <<dirvars, hostvars, diskvars, hung, issued>>

\* The vaults after a call of c.  (Mutant: its vault stays locked.)
StillLocked(c) == vaults

Unlocked(c) ==
  IF Mine(c).mutex = c THEN [vaults EXCEPT ![work[c].vault].mutex = NoCaller] ELSE vaults

\* The call returns.  A command line process puts more files after Ok, and
\* exits after an error.
Return(c, ok) ==
  work' = [work EXCEPT ![c] =
    IF c \in Tools /\ ok THEN [Idle EXCEPT !.pc = "ready", !.vault = work[c].vault] ELSE Idle]

\* A command line process puts a file under a random id.
ToolPut(c) ==
  /\ In(c, "ready")
  /\ \E f \in Files \ UNION {stored[b] : b \in Blobs} :
       work' = [work EXCEPT ![c].pc = "body", ![c].file = f]
  /\ UNCHANGED <<dirvars, hostvars, diskvars, vaults, hung, issued>>

\* The last file is put; cmd_get and cmd_stat have read what they wanted.
Exit(c) ==
  /\ In(c, "ready")
  /\ work' = [work EXCEPT ![c] = Idle]
  /\ UNCHANGED <<dirvars, hostvars, diskvars, vaults, hung, issued>>

\* put_file_with_retry: the planner finds a blob with room, or none.
PlanPut(c) ==
  /\ In(c, "body")
  /\ \/ /\ \E b \in Range(Mine(c).blobs) :
             work' = [work EXCEPT ![c].pc = "lock", ![c].blob = b]
        /\ UNCHANGED call
     \/ /\ work' = Goto(c, "append")
        /\ call' = [call EXCEPT ![c] = [NoCall EXCEPT !.op = "create", !.vault = Mine(c).id]]
  /\ UNCHANGED <<blobs, dir, cut, raced, hostvars, diskvars, vaults, hung, issued>>

\* append_blob, then the planner again.  (Mutant: where its name sorts.)
AppendedByName(c, b) ==
  SelectSeq(dir, LAMBDA d : d = b \/ d \in Range(Mine(c).blobs))

Appended(c, b) == Append(Mine(c).blobs, b)

AppendBlob(c) ==
  /\ In(c, "append") /\ OpenVault(c)
  /\ vaults' = [vaults EXCEPT ![work[c].vault].blobs = Appended(c, call[c].found[1])]
  /\ work' = Goto(c, "body")
  /\ UNCHANGED <<hostvars, diskvars, hung, issued>>

AppendFails(c) ==
  /\ In(c, "append") /\ At(c, "failed")
  /\ vaults' = Unlocked(c) /\ Return(c, FALSE)
  /\ call' = [call EXCEPT ![c] = NoCall]
  /\ UNCHANGED <<blobs, dir, cut, raced, hostvars, diskvars, hung, issued>>

\* write_chunks waits for the lock of the blob, whoever has it.
LockBlob(c) ==
  /\ In(c, "lock") /\ blobs[work[c].blob].lock = NoCaller
  /\ blobs' = [blobs EXCEPT ![work[c].blob].lock = c]
  /\ work' = Goto(c, "write")
  /\ UNCHANGED <<dir, call, cut, raced, hostvars, diskvars, vaults, hung, issued>>

\* The index of the blob becomes the one of the file.
Listed(vault, files, f) == [vault EXCEPT !.files = @ \cup files, !.acked[f] = @ + 1]

Listing(c, files) == [Unlocked(c) EXCEPT ![work[c].vault] = Listed(@, files, work[c].file)]

Commit(c) ==
  LET b == work[c].blob
  IN  /\ In(c, "write") /\ blobs[b].stage = "whole"
      /\ stored' = [stored EXCEPT ![b] = @ \cup {work[c].file}]
      /\ vaults' = Listing(c, stored'[b])
      /\ blobs' = Released({c}) /\ Return(c, TRUE)
      /\ UNCHANGED <<dir, call, cut, raced, hostvars, faults, hung, issued>>

\* A blob that ends before its index refuses, with IndexChainBroken.
RefuseWrite(c) ==
  /\ In(c, "write") /\ blobs[work[c].blob].stage # "whole"
  /\ vaults' = Unlocked(c)
  /\ blobs' = Released({c}) /\ Return(c, FALSE)
  /\ UNCHANGED <<dir, call, cut, raced, hostvars, diskvars, hung, issued>>

-----------------------------------------------------------------------------
(* Faults. *)

Fault == faults < MaxFaults /\ faults' = faults + 1

\* A write of cs that is cut short may have committed.
MaybeStored(cs) ==
  \E done \in SUBSET {c \in cs : In(c, "write") /\ work[c].blob \in Whole} :
    stored' = [b \in Blobs |->
      stored[b] \cup {work[c].file : c \in {d \in done : work[d].blob = b}}]

\* write_chunks returns an error.
FailWrite(c) ==
  /\ In(c, "write") /\ Fault
  /\ MaybeStored({c})
  /\ vaults' = Unlocked(c)
  /\ blobs' = Released({c}) /\ Return(c, FALSE)
  /\ UNCHANGED <<dir, call, cut, raced, hostvars, hung, issued>>

FailCreate(c) ==
  /\ Fault /\ FillFails(c)
  /\ UNCHANGED <<hostvars, stored, vaults, work, hung, issued>>

\* The file system does not answer a thread that is inside a vault.
Hang(t) ==
  /\ Fault /\ work[t].pc \in {"append", "write"}
  /\ hung' = hung \cup {t}
  /\ UNCHANGED <<dirvars, hostvars, stored, vaults, work, issued>>

Dropped(v) == [vaults[v] EXCEPT !.blobs = <<>>, !.files = {}, !.whole = {}, !.mutex = NoCaller]

\* The host program dies with all its threads and sessions.
KillHost ==
  /\ Fault
  /\ MaybeStored(Threads) /\ KillDir(Threads)
  /\ registry' = <<>> /\ registryLock' = NoCaller /\ nextId' = 1 /\ issued' = <<>>
  /\ work' = [c \in Callers |-> IF c \in Threads THEN Idle ELSE work[c]]
  /\ vaults' = [v \in DOMAIN vaults |->
                  IF \E c \in Tools : work[c].vault = v THEN vaults[v] ELSE Dropped(v)]
  /\ hung' = {}

KillTool(c) ==
  /\ Fault /\ ~In(c, "idle")
  /\ MaybeStored({c}) /\ KillDir({c})
  /\ work' = [work EXCEPT ![c] = Idle]
  /\ UNCHANGED <<hostvars, vaults, hung, issued>>

\* What a call that is under way does next.
Step(c) ==
  /\ Runs(c)
  /\ \/ DirWork(c) \/ Opened(c) \/ OpenFails(c)
     \/ Insert(c) \/ WithVault(c) \/ RefusePut(c) \/ LockVault(c)
     \/ PlanPut(c) \/ AppendBlob(c) \/ AppendFails(c)
     \/ LockBlob(c) \/ Commit(c) \/ RefuseWrite(c)

Next ==
  /\ UNCHANGED team
  /\ \/ \E c \in team : Runs(c) /\ (Open(c) \/ Step(c) \/ FailWrite(c) \/ FailCreate(c))
     \/ \E t \in team \cap Threads : Runs(t) /\ (CloseSession(t) \/ PutFile(t) \/ Hang(t))
     \/ \E c \in team \cap Tools : ToolPut(c) \/ Exit(c) \/ KillTool(c)
     \/ KillHost

\* A thread inside a call keeps running, unless it hangs.
Spec == Init /\ [][Next]_vars /\ \A c \in Callers : WF_vars(Step(c) /\ UNCHANGED team)

-----------------------------------------------------------------------------
(* Properties. *)

Ids == 1 .. MaxVaults

\* The state stays in its type; a mutex is held by the thread that is inside.
TypeOK ==
  /\ DirTypeOK
  /\ DOMAIN registry \subseteq Ids /\ nextId \in 1 .. MaxVaults + 1
  /\ \A t \in Threads : registryLock = t <=> In(t, "lookup")
  /\ \A v \in DOMAIN vaults :
       /\ vaults[v].id \in DOMAIN blobs /\ vaults[v].files \subseteq Files
       /\ \A t \in Threads :
            vaults[v].mutex = t <=> (work[t].vault = v /\ work[t].pc \in InVault)
  /\ \A c \in Callers :
       /\ work[c].pc \in InVault \cup {"idle", "open", "insert", "lookup", "mutex", "ready"}
       /\ In(c, "write") => blobs[work[c].blob].lock = c
  /\ stored \in [Blobs -> SUBSET Files]
  /\ hung \subseteq Threads /\ faults \in 0 .. MaxFaults

(* A number stays with its vault: a call works on the vault whose open     *)
(* returned the number, however many sessions were closed and opened       *)
(* meanwhile, and after a close that raced the call.                       *)
NumbersStayApart ==
  \A t \in Threads : work[t].pc \in InVault \cup {"mutex"} => issued[work[t].id] = work[t].vault

(* Calls on one vault are one after another: of two threads that put the   *)
(* same file into it, across creations of blobs and a close in between,    *)
(* only one is told Ok.                                                    *)
AcceptedOnce == \A v \in DOMAIN vaults, f \in Files : vaults[v].acked[f] <= 1

(* A vault that opens has every blob that was complete when the open       *)
(* began, whatever was being created or had been left half created, and    *)
(* none of another vault that was begun in the directory meanwhile.        *)
OpenSeesAll ==
  \A v \in DOMAIN vaults :
    /\ vaults[v].whole \subseteq Range(vaults[v].blobs)
    /\ \A b \in Range(vaults[v].blobs) : blobs[b].vault = vaults[v].id

\* vaultblob_blob_count, vaultblob_blob_id
BlobCount(v)  == Len(vaults[v].blobs)
BlobId(v, i)  == vaults[v].blobs[i + 1]

(* A host that asks for the count and then for blob 0, 1, ... gets each    *)
(* blob once, although other threads put files in between: no index of     *)
(* the vault ever means another blob while the host lives.                 *)
IndexesStay ==
  [][nextId' >= nextId =>
       \A v \in Range(issued) : \A i \in 0 .. BlobCount(v) - 1 : BlobId(v, i)' = BlobId(v, i)]_vars

\* A thread that others may be waiting for.
Holds(t) == registryLock = t \/ work[t].pc \in InVault

(* Every call ends, and with it its hold on the registry or on a vault,    *)
(* whether it succeeds or not; and while the I/O of one vault hangs, the   *)
(* registry is still released, so that nobody else is held up who opens,   *)
(* closes or looks up a session.  (A blob whose creation was cut refuses   *)
(* every put, and so lets others take its lock for ever.)                  *)
CallsEnd ==
  \A t \in Threads :
    Holds(t) ~> (~Holds(t) \/ cut \/ (hung # {} /\ registryLock # t))
=============================================================================

---------------------------- MODULE SessionsProofs ---------------------------
(***************************************************************************)
(* Proofs about Sessions and VaultDir, for any threads and command line    *)
(* processes, files, blobs, opens and faults.                              *)
(***************************************************************************)
EXTENDS Sessions, DataLemmas

BlobType == [vault : Blobs, stage : Stages, lock : Callers \cup {NoCaller}]

CallType ==
  [op : {"none", "discover", "collect", "open", "load", "create", "fill", "failed"},
   vault : Nat, paths : Seq(Blobs), found : Seq(Blobs), new : Nat, whole : SUBSET Blobs]

\* The places of a caller that has a vault.
HasVault == InVault \cup {"insert", "mutex", "ready"}

WorkType ==
  [pc : HasVault \cup {"idle", "open", "lookup"}, id : Nat, vault : Nat,
   file : Files \cup {0}, blob : Nat]

VaultType ==
  [id : Nat, blobs : Seq(Blobs), files : SUBSET Files, mutex : Threads \cup {NoCaller},
   whole : SUBSET Blobs, acked : [Files -> Nat]]

Types ==
  /\ blobs \in Seq(BlobType) /\ Len(blobs) <= MaxBlobs
  /\ dir \in Seq(Blobs) /\ IsInjective(dir) /\ Range(dir) = DOMAIN blobs /\ Len(dir) = Len(blobs)
  /\ call \in [Callers -> CallType] /\ work \in [Callers -> WorkType]
  /\ vaults \in Seq(VaultType) /\ stored \in [Blobs -> SUBSET Files]
  /\ cut \in BOOLEAN /\ raced \in BOOLEAN
  /\ hung \subseteq Threads /\ faults \in 0 .. MaxFaults /\ team \subseteq Callers
  /\ registryLock \in Threads \cup {NoCaller} /\ nextId \in Nat \ {0}

\* Where a caller is in an open or a create_blob.
CallOK(c) ==
  /\ Range(call[c].paths) \cup Range(call[c].found) \subseteq DOMAIN blobs
  /\ At(c, "fill") <=> call[c].new # 0
  /\ At(c, "fill") => call[c].new \in DOMAIN blobs /\ blobs[call[c].new].lock = c
  /\ call[c].whole \subseteq Range(call[c].paths)
  /\ call[c].op \in {"discover", "collect", "open"} => call[c].paths # <<>>
  /\ call[c].op \in {"create", "fill"} => call[c].paths = <<>>
  /\ At(c, "load") => call[c].found # <<>> /\ call[c].whole \subseteq Range(call[c].found)
  /\ At(c, "none") <=> work[c].pc \notin {"open", "append"}
  /\ In(c, "open") /\ At(c, "create") => call[c].vault = 0
  /\ In(c, "append") =>
       /\ call[c].op \in {"create", "fill", "load", "failed"}
       /\ call[c].op # "failed" => call[c].vault = vaults[work[c].vault].id

\* Where a caller is otherwise, and what its locals are.
WorkOK(c) ==
  /\ work[c].pc \in HasVault => work[c].vault \in DOMAIN vaults
  /\ work[c].pc \in {"insert", "lookup", "mutex"} => c \in Threads
  /\ In(c, "ready") => c \in Tools
  /\ In(c, "idle") \/ In(c, "open") => work[c].vault = 0
  /\ work[c].pc \in InVault \cup {"lookup", "mutex"} => work[c].file \in Files
  /\ work[c].pc \in InVault => work[c].file \notin vaults[work[c].vault].files
  /\ work[c].pc \in {"lock", "write"} => work[c].blob \in DOMAIN blobs
  /\ In(c, "write") => blobs[work[c].blob].lock = c
  /\ (c \in Threads /\ work[c].pc \in InVault \cup {"mutex"}) =>
       work[c].id \in DOMAIN issued /\ issued[work[c].id] = work[c].vault
  /\ In(c, "insert") => work[c].id \in 1 .. nextId - 1 /\ work[c].id \notin DOMAIN issued

\* Two callers: no two threads draw one number, and a process has its vault
\* for itself.
Apart(c, d) ==
  /\ In(c, "insert") /\ In(d, "insert") => work[c].id # work[d].id
  /\ (c \in Tools /\ work[c].pc \in HasVault /\ work[d].pc \in HasVault) =>
       work[c].vault # work[d].vault

ToolsOwn ==
  \A c \in Tools : work[c].pc \in HasVault =>
    \A i \in DOMAIN issued : issued[i] # work[c].vault

\* A call of a vault that is still there.
Live(v) ==
  \/ \E i \in DOMAIN issued : issued[i] = v
  \/ \E c \in Callers : work[c].pc \in HasVault /\ work[c].vault = v

VaultOK(v) ==
  /\ \E b \in DOMAIN blobs : blobs[b].vault = vaults[v].id
  /\ Range(vaults[v].blobs) \subseteq DOMAIN blobs
  /\ \A b \in Range(vaults[v].blobs) : blobs[b].vault = vaults[v].id
  /\ vaults[v].whole \subseteq Range(vaults[v].blobs)
  /\ \A f \in vaults[v].files : \E b \in Blobs : f \in stored[b]
  /\ \A t \in Threads :
       vaults[v].mutex = t <=> (work[t].vault = v /\ work[t].pc \in InVault)
  /\ \A f \in Files : vaults[v].acked[f] <= 1
  /\ Live(v) => \A f \in Files : vaults[v].acked[f] > 0 => f \in vaults[v].files

Registered ==
  /\ \A i \in DOMAIN issued : i \in 1 .. nextId - 1 /\ issued[i] \in DOMAIN vaults
  /\ \A i \in DOMAIN registry : i \in DOMAIN issued /\ registry[i] = issued[i]
  /\ \A t \in Threads : registryLock = t <=> In(t, "lookup")

\* Bounds: every open makes one vault, and a thread draws one number for it.
Opening == {d \in Callers : In(d, "open")}

Counted == nextId <= Len(vaults) + 1 /\ Len(vaults) + Cardinality(Opening) <= MaxVaults

\* What the directory consists of, if no creation was cut short, and if no
\* two vaults were begun.
DirOK ==
  /\ \A b \in DOMAIN blobs : blobs[b].vault \in DOMAIN blobs
  /\ ~cut => \A b \in DOMAIN blobs :
       b \in Whole \/ \E c \in Callers : At(c, "fill") /\ call[c].new = b
  /\ ~raced => \A b \in DOMAIN blobs : blobs[b].vault = blobs[1].vault

IndInv ==
  /\ Types
  /\ \A c \in Callers : CallOK(c) /\ WorkOK(c)
  /\ \A c, d \in Callers : c # d => Apart(c, d)
  /\ ToolsOwn
  /\ \A v \in DOMAIN vaults : VaultOK(v)
  /\ Registered
  /\ Counted
  /\ DirOK

LEMMA ElementTypes ==
  ASSUME IndInv
  PROVE  /\ \A b \in DOMAIN blobs : blobs[b] \in BlobType /\ b \in Blobs /\ b \in Nat
         /\ \A v \in DOMAIN vaults : vaults[v] \in VaultType /\ v \in 1 .. Len(vaults)
         /\ \A c \in Callers : call[c] \in CallType /\ work[c] \in WorkType
         /\ Len(blobs) \in Nat /\ Len(vaults) \in Nat
<1>1. \A b \in DOMAIN blobs : blobs[b] \in BlobType
  BY DEF IndInv, Types
<1>2. \A v \in DOMAIN vaults : vaults[v] \in VaultType
  BY DEF IndInv, Types
<1>3. /\ DOMAIN blobs = 1 .. Len(blobs) /\ DOMAIN vaults = 1 .. Len(vaults)
      /\ Len(blobs) \in Nat /\ Len(vaults) \in Nat
  BY LenProperties DEF IndInv, Types
<1>4. \A b \in DOMAIN blobs : b \in Blobs /\ b \in Nat
  BY <1>3, DirAssumption DEF IndInv, Types, Blobs
<1>5. \A c \in Callers : call[c] \in CallType /\ work[c] \in WorkType
  BY DEF IndInv, Types
<1> QED
  BY <1>1, <1>2, <1>3, <1>4, <1>5

-----------------------------------------------------------------------------
(* Callers that an action does not concern. *)

\* Blobs and vaults are added; none changes its vault id.
Grows ==
  /\ DOMAIN blobs \subseteq DOMAIN blobs' /\ DOMAIN vaults \subseteq DOMAIN vaults'
  /\ \A b \in DOMAIN blobs : blobs'[b].vault = blobs[b].vault
  /\ \A v \in DOMAIN vaults : vaults'[v].id = vaults[v].id

\* The numbers that were given out stay.
NumbersStay ==
  /\ nextId <= nextId' /\ DOMAIN issued \subseteq DOMAIN issued'
  /\ \A i \in DOMAIN issued : issued'[i] = issued[i]

\* What caller d holds, where it is and what its vault lists.
Untouched(d) ==
  /\ call'[d] = call[d] /\ work'[d] = work[d]
  /\ \A b \in DOMAIN blobs : blobs[b].lock = d => blobs'[b].lock = d
  /\ work[d].pc \in InVault => vaults'[work[d].vault].files = vaults[work[d].vault].files

LEMMA OtherCall ==
  ASSUME NEW d \in Callers, CallOK(d), WorkOK(d), Grows, Untouched(d)
  PROVE  CallOK(d)'
<1>1. In(d, "append") => vaults'[work[d].vault].id = vaults[work[d].vault].id
  BY DEF In, HasVault, InVault, WorkOK, Grows
<1>2. /\ call'[d] = call[d] /\ work'[d] = work[d] /\ DOMAIN blobs \subseteq DOMAIN blobs'
      /\ \A b \in DOMAIN blobs : blobs[b].lock = d => blobs'[b].lock = d
  BY DEF Untouched, Grows
<1> QED
  BY <1>1, <1>2 DEF CallOK, At, In

LEMMA OtherWork ==
  ASSUME NEW d \in Callers, WorkOK(d), Grows, NumbersStay, nextId \in Nat, nextId' \in Nat,
         work'[d] = work[d],
         In(d, "write") => blobs'[work[d].blob].lock = d,
         work[d].pc \in InVault => vaults'[work[d].vault].files = vaults[work[d].vault].files,
         In(d, "insert") => work[d].id \notin DOMAIN issued'
  PROVE  WorkOK(d)'
<1>1. DOMAIN blobs \subseteq DOMAIN blobs' /\ DOMAIN vaults \subseteq DOMAIN vaults'
  BY DEF Grows
<1>2. In(d, "insert") => work[d].id \in 1 .. nextId' - 1
  BY DEF WorkOK, NumbersStay
<1>3. (d \in Threads /\ work[d].pc \in InVault \cup {"mutex"}) =>
        work[d].id \in DOMAIN issued' /\ issued'[work[d].id] = work[d].vault
  BY DEF WorkOK, NumbersStay
<1> QED
  BY <1>1, <1>2, <1>3 DEF WorkOK, In

\* A step of c leaves the others where they are.
LEMMA CallersKept ==
  ASSUME IndInv, NEW c \in Callers, Types', Grows, NumbersStay,
         \A d \in Callers \ {c} :
           Untouched(d) /\ (In(d, "insert") => work[d].id \notin DOMAIN issued'),
         CallOK(c)', WorkOK(c)'
  PROVE  \A d \in Callers : CallOK(d)' /\ WorkOK(d)'
<1> SUFFICES ASSUME NEW d \in Callers \ {c}
             PROVE  CallOK(d)' /\ WorkOK(d)'
  OBVIOUS
<1>1. CallOK(d) /\ WorkOK(d) /\ nextId \in Nat /\ nextId' \in Nat
  BY DEF IndInv, Types
<1>2. Untouched(d) /\ (In(d, "insert") => work[d].id \notin DOMAIN issued')
  OBVIOUS
<1>3. CallOK(d)'
  BY <1>1, <1>2, OtherCall
<1>4. In(d, "write") => blobs'[work[d].blob].lock = d
  BY <1>1, <1>2 DEF WorkOK, Untouched, In
<1>5. WorkOK(d)'
  BY <1>1, <1>2, <1>4, OtherWork DEF Untouched
<1> QED
  BY <1>3, <1>5

\* Nobody takes a vault or a number that was not its own before.
LEMMA ApartKept ==
  ASSUME IndInv,
         \A d \in Callers : work'[d].pc \in HasVault =>
           work[d].pc \in HasVault /\ work'[d].vault = work[d].vault,
         \A d \in Callers : work'[d].pc = "insert" =>
           work[d].pc = "insert" /\ work'[d].id = work[d].id,
         \A i \in DOMAIN issued' : i \in DOMAIN issued /\ issued'[i] = issued[i]
  PROVE  (\A c, d \in Callers : c # d => Apart(c, d)') /\ ToolsOwn'
<1>1. ASSUME NEW c \in Callers, NEW d \in Callers, c # d
      PROVE  Apart(c, d)'
  <2>1. Apart(c, d)
    BY <1>1 DEF IndInv
  <2> QED
    BY <2>1 DEF Apart, In
<1>2. ToolsOwn'
  <2>1. Tools \subseteq Callers /\ ToolsOwn
    BY DEF Callers, IndInv
  <2> QED
    BY <2>1 DEF ToolsOwn
<1> QED
  BY <1>1, <1>2

LEMMA VaultKept ==
  ASSUME IndInv, Grows, NEW v \in DOMAIN vaults,
         vaults'[v].blobs = vaults[v].blobs, vaults'[v].whole = vaults[v].whole,
         vaults'[v].files = vaults[v].files, vaults'[v].acked = vaults[v].acked,
         \A b \in Blobs : stored[b] \subseteq stored'[b],
         Live(v)' => Live(v),
         \A t \in Threads :
           vaults'[v].mutex = t <=> (work'[t].vault = v /\ work'[t].pc \in InVault)
  PROVE  VaultOK(v)'
<1>1. VaultOK(v) /\ vaults'[v].id = vaults[v].id
  BY DEF IndInv, Grows
<1>2. \E b \in DOMAIN blobs' : blobs'[b].vault = vaults'[v].id
  BY <1>1 DEF VaultOK, Grows
<1>3. /\ Range(vaults[v].blobs) \subseteq DOMAIN blobs'
      /\ \A b \in Range(vaults[v].blobs) : blobs'[b].vault = vaults'[v].id
  BY <1>1 DEF VaultOK, Grows
<1>4. \A f \in vaults[v].files : \E b \in Blobs : f \in stored'[b]
  BY <1>1 DEF VaultOK
<1> QED
  BY <1>1, <1>2, <1>3, <1>4 DEF VaultOK

\* The vaults, when a step changes none of them.
LEMMA VaultsKept ==
  ASSUME IndInv, Grows, UNCHANGED vaults, \A b \in Blobs : stored[b] \subseteq stored'[b],
         \A d \in Callers : work'[d].pc \in HasVault => Live(work'[d].vault),
         \A i \in DOMAIN issued' : Live(issued'[i]),
         \A t \in Threads :
           \/ work'[t].pc \notin InVault /\ work[t].pc \notin InVault
           \/ work'[t].pc \in InVault /\ work[t].pc \in InVault /\ work'[t].vault = work[t].vault
  PROVE  \A v \in DOMAIN vaults' : VaultOK(v)'
<1> SUFFICES ASSUME NEW v \in DOMAIN vaults
             PROVE  VaultOK(v)'
  OBVIOUS
<1>1. Live(v)' => Live(v)
  BY DEF Live
<1>2. \A t \in Threads :
        vaults'[v].mutex = t <=> (work'[t].vault = v /\ work'[t].pc \in InVault)
  BY DEF IndInv, VaultOK
<1> QED
  BY <1>1, <1>2, VaultKept

LEMMA CountedKept ==
  ASSUME Counted, Types, nextId' = nextId, Len(vaults') = Len(vaults),
         \A d \in Callers : In(d, "open")' => In(d, "open")
  PROVE  Counted'
<1>1. Opening' \in SUBSET Opening /\ IsFiniteSet(Opening)
  <2>1. Opening \in SUBSET Callers
    BY DEF Opening
  <2>2. IsFiniteSet(Opening)
    BY <2>1, SessionAssumption, FS_Subset
  <2> QED
    BY <2>2 DEF Opening
<1>2. /\ Cardinality(Opening') <= Cardinality(Opening)
      /\ Cardinality(Opening') \in Nat /\ Cardinality(Opening) \in Nat
  BY <1>1, FS_Subset, FS_CardinalityType
<1>3. Len(vaults) \in Nat
  BY LenProperties DEF Types
<1> QED
  BY <1>2, <1>3, SessionAssumption DEF Counted, Types

LEMMA DirKept ==
  ASSUME DirOK, DOMAIN blobs' = DOMAIN blobs, UNCHANGED <<cut, raced>>,
         \A b \in DOMAIN blobs : blobs'[b].vault = blobs[b].vault /\ blobs'[b].stage = blobs[b].stage,
         \A c \in Callers : At(c, "fill") => At(c, "fill")' /\ call'[c].new = call[c].new,
         Types
  PROVE  DirOK'
<1>1. Whole' = Whole
  BY DEF Whole
<1>2. ~cut => \A b \in DOMAIN blobs :
        b \in Whole \/ \E c \in Callers : At(c, "fill")' /\ call'[c].new = b
  BY DEF DirOK
<1>3. DOMAIN blobs # {} => 1 \in DOMAIN blobs
  BY LenProperties DEF Types
<1>4. ~raced => \A b \in DOMAIN blobs : blobs'[b].vault = blobs'[1].vault
  BY <1>3 DEF DirOK
<1> QED
  BY <1>1, <1>2, <1>4 DEF DirOK, At

-----------------------------------------------------------------------------
(* The registry. *)

\* What a step of c shows that leaves the directory and the vaults alone.
LEMMA WorkStep ==
  ASSUME IndInv, NEW c \in Callers, NEW w \in WorkType, work' = [work EXCEPT ![c] = w],
         UNCHANGED <<blobs, dir, call, cut, raced, vaults, stored, nextId, team>>,
         hung' \subseteq Threads, faults' \in 0 .. MaxFaults,
         registryLock' \in Threads \cup {NoCaller}, NumbersStay,
         work[c].pc \notin {"open", "append"}, w.pc \notin {"open", "append"},
         WorkOK(c)', Registered', (\A d, e \in Callers : d # e => Apart(d, e)'), ToolsOwn',
         w.pc \in HasVault => Live(w.vault),
         \A i \in DOMAIN issued' : Live(issued'[i]),
         \A d \in Callers \ {c} : In(d, "insert") => work[d].id \notin DOMAIN issued',
         c \in Threads =>
           \/ work[c].pc \notin InVault /\ w.pc \notin InVault
           \/ work[c].pc \in InVault /\ w.pc \in InVault /\ w.vault = work[c].vault
  PROVE  IndInv'
<1>1. Types'
  BY DEF IndInv, Types
<1>2. work'[c] = w /\ \A d \in Callers \ {c} : work'[d] = work[d]
  BY DEF IndInv, Types
<1>3. Grows
  BY DEF Grows
<1>4. CallOK(c)'
  <2>1. CallOK(c)
    BY DEF IndInv
  <2> QED
    BY <1>2, <2>1 DEF CallOK, At, In
<1>5. \A d \in Callers : CallOK(d)' /\ WorkOK(d)'
  <2>1. \A d \in Callers \ {c} :
          Untouched(d) /\ (In(d, "insert") => work[d].id \notin DOMAIN issued')
    BY <1>2 DEF Untouched
  <2> QED
    BY <1>1, <1>3, <1>4, <2>1, CallersKept
<1>6. \A v \in DOMAIN vaults' : VaultOK(v)'
  <2>1. ASSUME NEW d \in Callers, work'[d].pc \in HasVault
        PROVE  Live(work'[d].vault)
    <3>1. CASE d = c
      BY <1>2, <2>1, <3>1
    <3>2. CASE d # c
      BY <1>2, <2>1, <3>2 DEF Live
    <3> QED
      BY <3>1, <3>2
  <2>2. Threads \subseteq Callers
    BY DEF Callers
  <2>3. \A t \in Threads :
          \/ work'[t].pc \notin InVault /\ work[t].pc \notin InVault
          \/ work'[t].pc \in InVault /\ work[t].pc \in InVault /\ work'[t].vault = work[t].vault
    BY <1>2, <2>2
  <2> QED
    BY <1>3, <2>1, <2>3, VaultsKept
<1>7. Counted'
  <2>1. \A d \in Callers : In(d, "open")' => In(d, "open")
    BY <1>2 DEF In
  <2> QED
    BY <2>1, CountedKept DEF IndInv
<1>8. DirOK'
  BY DirKept DEF IndInv, At
<1> QED
  BY <1>1, <1>5, <1>6, <1>7, <1>8 DEF IndInv

\* Between calls.
LEMMA IdleFacts ==
  Idle \in WorkType /\ Idle.pc = "idle" /\ Idle.vault = 0 /\ "idle" \notin HasVault /\ "idle" \notin InVault
BY DEF Idle, WorkType, HasVault, InVault

LEMMA InsertStep ==
  ASSUME IndInv, NEW t \in Callers, Insert(t), UNCHANGED team
  PROVE  IndInv'
<1> USE DEF IndInv
<1> DEFINE k == work[t].id
<1>1. /\ In(t, "insert") /\ registryLock = NoCaller
      /\ registry' = WithSession(t, registry) /\ issued' = WithSession(t, issued)
      /\ work' = [work EXCEPT ![t] = Idle]
      /\ UNCHANGED <<blobs, dir, call, cut, raced, vaults, stored, nextId, registryLock, hung, faults>>
  BY DEF Insert, dirvars, diskvars
<1>2. /\ WorkOK(t) /\ t \in Threads /\ k \in 1 .. nextId - 1 /\ k \notin DOMAIN issued
      /\ work[t].vault \in DOMAIN vaults /\ work[t].pc \in HasVault
  BY <1>1 DEF WorkOK, In, HasVault
<1>3. /\ DOMAIN issued' = DOMAIN issued \cup {k} /\ issued'[k] = work[t].vault
      /\ \A i \in DOMAIN issued : issued'[i] = issued[i]
  BY <1>1, <1>2 DEF WithSession
<1>4. /\ DOMAIN registry' = DOMAIN registry \cup {k} /\ registry'[k] = work[t].vault
      /\ \A i \in DOMAIN registry : registry'[i] = registry[i]
  <2>1. k \notin DOMAIN registry
    BY <1>2 DEF Registered
  <2> QED
    BY <1>1, <2>1 DEF WithSession
<1> HIDE DEF k
<1>5. work'[t] = Idle /\ (\A d \in Callers \ {t} : work'[d] = work[d]) /\ t \notin Tools
  BY <1>1, <1>2, DirAssumption DEF Types
<1>6. NumbersStay
  BY <1>1, <1>3 DEF NumbersStay, Types
<1>7. WorkOK(t)'
  BY <1>5 DEF WorkOK, Idle, In, HasVault, InVault
<1>8. Registered'
  <2>1. \A i \in DOMAIN issued' : i \in 1 .. nextId - 1 /\ issued'[i] \in DOMAIN vaults
    BY <1>2, <1>3 DEF Registered
  <2>2. \A i \in DOMAIN registry' : i \in DOMAIN issued' /\ registry'[i] = issued'[i]
    BY <1>3, <1>4 DEF Registered
  <2>3. \A u \in Threads : registryLock = u <=> In(u, "lookup")'
    <3>1. Threads \subseteq Callers
      BY DEF Callers
    <3> QED
      BY <1>1, <1>5, <3>1 DEF Registered, In, Idle
  <2> QED
    BY <1>1, <2>1, <2>2, <2>3 DEF Registered
<1>9. \A d, e \in Callers : d # e => Apart(d, e)'
  BY <1>5 DEF Apart, In, Idle, HasVault, InVault
<1>10. ToolsOwn'
  <2> SUFFICES ASSUME NEW c \in Tools, work'[c].pc \in HasVault, NEW i \in DOMAIN issued'
               PROVE  issued'[i] # work'[c].vault
    BY DEF ToolsOwn
  <2>1. c \in Callers /\ c # t /\ work'[c] = work[c]
    BY <1>5 DEF Callers
  <2>2. CASE i = k
    BY <1>2, <1>3, <2>1, <2>2 DEF Apart
  <2>3. CASE i # k
    BY <1>3, <2>1, <2>3 DEF ToolsOwn
  <2> QED
    BY <2>2, <2>3
<1>11. \A i \in DOMAIN issued' : Live(issued'[i])
  BY <1>2, <1>3 DEF Live
<1>12. \A d \in Callers \ {t} : In(d, "insert") => work[d].id \notin DOMAIN issued'
  BY <1>1, <1>3 DEF WorkOK, Apart, In, k
<1>13. work[t].pc \notin {"open", "append"} /\ work[t].pc \notin InVault
  BY <1>1 DEF In, InVault
<1>14. /\ hung' \subseteq Threads /\ faults' \in 0 .. MaxFaults
       /\ registryLock' \in Threads \cup {NoCaller}
  BY <1>1 DEF Types
<1> QED
  BY <1>1, <1>6, <1>7, <1>8, <1>9, <1>10, <1>11, <1>12, <1>13, <1>14, IdleFacts, WorkStep

\* The same for a step that gives out no number: w has the vault that c has,
\* if it has one.
LEMMA LocalStep ==
  ASSUME IndInv, NEW c \in Callers, NEW w \in WorkType, work' = [work EXCEPT ![c] = w],
         UNCHANGED <<blobs, dir, call, cut, raced, vaults, stored, nextId, issued, team>>,
         hung' \subseteq Threads, faults' \in 0 .. MaxFaults,
         registryLock' \in Threads \cup {NoCaller},
         work[c].pc \notin {"open", "append"}, w.pc \notin {"open", "append", "insert"},
         WorkOK(c)', Registered',
         w.pc \in HasVault => work[c].pc \in HasVault /\ w.vault = work[c].vault,
         c \in Threads => work[c].pc \notin InVault /\ w.pc \notin InVault
  PROVE  IndInv'
<1>1. work'[c] = w /\ \A d \in Callers \ {c} : work'[d] = work[d]
  BY DEF IndInv, Types
<1>2. NumbersStay
  BY DEF NumbersStay, IndInv, Types
<1>3. (\A d, e \in Callers : d # e => Apart(d, e)') /\ ToolsOwn'
  BY <1>1, ApartKept
<1>4. w.pc \in HasVault => Live(w.vault)
  BY DEF Live
<1>5. \A i \in DOMAIN issued' : Live(issued'[i])
  BY DEF Live
<1>6. \A d \in Callers \ {c} : In(d, "insert") => work[d].id \notin DOMAIN issued'
  BY DEF IndInv, WorkOK
<1> QED
  BY <1>2, <1>3, <1>4, <1>5, <1>6, WorkStep

LEMMA CloseSessionStep ==
  ASSUME IndInv, NEW t \in Threads, CloseSession(t), UNCHANGED team
  PROVE  IndInv'
<1> USE DEF IndInv
<1>1. PICK id \in DOMAIN issued : registry' = [i \in DOMAIN registry \ {id} |-> registry[i]]
  BY DEF CloseSession
<1>2. /\ In(t, "idle") /\ t \in Callers
      /\ UNCHANGED <<blobs, dir, call, cut, raced, vaults, stored, nextId, issued, registryLock,
                     hung, faults, work>>
  BY DEF CloseSession, dirvars, diskvars, Callers
<1>3. work' = [work EXCEPT ![t] = work[t]] /\ work[t] \in WorkType
  BY <1>2 DEF Types
<1>4. work[t].pc = "idle" /\ "idle" \notin HasVault /\ "idle" \notin InVault
  BY <1>2 DEF In, HasVault, InVault
<1>5. Registered'
  BY <1>1, <1>2 DEF Registered, In
<1>6. WorkOK(t)'
  BY <1>2 DEF WorkOK, In
<1>7. /\ hung' \subseteq Threads /\ faults' \in 0 .. MaxFaults
      /\ registryLock' \in Threads \cup {NoCaller}
  BY <1>2 DEF Types
<1> QED
  BY <1>2, <1>3, <1>4, <1>5, <1>6, <1>7, LocalStep

LEMMA LookupFacts ==
  ASSUME NEW k \in Nat, NEW f \in Files
  PROVE  LET w == [Idle EXCEPT !.pc = "lookup", !.id = k, !.file = f]
         IN  w \in WorkType /\ w.pc = "lookup" /\ w.file = f
BY DEF Idle, WorkType

LEMMA PutFileStep ==
  ASSUME IndInv, NEW t \in Threads, PutFile(t), UNCHANGED team
  PROVE  IndInv'
<1> USE DEF IndInv
<1>1. PICK id \in DOMAIN issued : \E f \in Files :
        work' = [work EXCEPT ![t] = [Idle EXCEPT !.pc = "lookup", !.id = id, !.file = f]]
  BY DEF PutFile
<1>2. PICK f \in Files :
        work' = [work EXCEPT ![t] = [Idle EXCEPT !.pc = "lookup", !.id = id, !.file = f]]
  BY <1>1
<1>3. /\ In(t, "idle") /\ t \in Callers /\ registryLock = NoCaller /\ registryLock' = t
      /\ UNCHANGED <<blobs, dir, call, cut, raced, vaults, stored, registry, nextId, issued, hung,
                     faults>>
  BY DEF PutFile, dirvars, diskvars, Callers
<1> DEFINE w == [Idle EXCEPT !.pc = "lookup", !.id = id, !.file = f]
<1>4. id \in Nat
  BY DEF Registered, Types
<1>6. w \in WorkType /\ w.pc = "lookup" /\ w.file = f
  BY <1>4, LookupFacts
<1> HIDE DEF w
<1>7. work' = [work EXCEPT ![t] = w]
  BY <1>2 DEF w
<1>8. work'[t] = w /\ \A d \in Callers \ {t} : work'[d] = work[d]
  BY <1>3, <1>7 DEF Types
<1>9. "lookup" \notin HasVault /\ "idle" \notin HasVault /\ InVault \subseteq HasVault
  BY DEF HasVault, InVault
<1>10. WorkOK(t)'
  BY <1>6, <1>8, <1>9 DEF WorkOK, In
<1>11. Registered'
  <2>1. \A u \in Threads : registryLock' = u <=> In(u, "lookup")'
    <3>1. Threads \subseteq Callers /\ NoCaller \notin Threads
      BY DirAssumption DEF Callers
    <3>2. \A u \in Threads : ~In(u, "lookup")
      BY <1>3, <3>1 DEF Registered
    <3> QED
      BY <1>3, <1>6, <1>8, <3>1, <3>2 DEF In
  <2> QED
    BY <1>3, <2>1 DEF Registered
<1>12. /\ hung' \subseteq Threads /\ faults' \in 0 .. MaxFaults
       /\ registryLock' \in Threads \cup {NoCaller}
       /\ work[t].pc = "idle"
  BY <1>3 DEF Types, In
<1> QED
  BY <1>3, <1>6, <1>7, <1>9, <1>10, <1>11, <1>12, LocalStep

LEMMA WithVaultStep ==
  ASSUME IndInv, NEW t \in Callers, WithVault(t), UNCHANGED team
  PROVE  IndInv'
<1> USE DEF IndInv
<1>1. /\ In(t, "lookup") /\ registryLock = t /\ t \in Threads /\ t \notin Tools
      /\ UNCHANGED <<blobs, dir, call, cut, raced, vaults, stored, registry, nextId, issued, hung,
                     faults>>
  <2>1. In(t, "lookup") /\ registryLock = t
    BY DEF WithVault
  <2>2. t \in Threads
    BY <2>1 DEF WorkOK, In
  <2> QED
    BY <2>1, <2>2, DirAssumption DEF WithVault, dirvars, diskvars
<1>2. /\ hung' \subseteq Threads /\ faults' \in 0 .. MaxFaults
      /\ work[t].pc = "lookup" /\ "lookup" \notin HasVault /\ "lookup" \notin InVault
      /\ InVault \subseteq HasVault /\ Threads \subseteq Callers /\ Tools \subseteq Callers
  BY <1>1 DEF Types, In, HasVault, InVault, Callers
<1>3. registryLock' = NoCaller
  BY DEF WithVault, LookedUp
<1>4. ASSUME NEW w \in WorkType, work' = [work EXCEPT ![t] = w], w.pc \in {"mutex", "idle"}
      PROVE  Registered'
  <2>1. work'[t] = w /\ \A d \in Callers \ {t} : work'[d] = work[d]
    BY <1>4 DEF Types
  <2>2. \A u \in Threads : registryLock' = u <=> In(u, "lookup")'
    <3>1. NoCaller \notin Threads
      BY DirAssumption
    <3>2. \A u \in Threads : u # t => ~In(u, "lookup")
      BY <1>1, <1>2 DEF Registered
    <3> QED
      BY <1>2, <1>3, <1>4, <2>1, <3>1, <3>2 DEF In
  <2> QED
    BY <1>1, <2>2 DEF Registered
<1>5. CASE work[t].id \notin DOMAIN registry
  <2>1. work' = [work EXCEPT ![t] = Idle]
    BY <1>5 DEF WithVault
  <2>2. Registered'
    BY <1>4, <2>1, IdleFacts
  <2>3. WorkOK(t)'
    BY <2>1, IdleFacts DEF WorkOK, In, HasVault, InVault, Idle, Types
  <2> QED
    BY <1>1, <1>2, <1>3, <2>1, <2>2, <2>3, IdleFacts, LocalStep
<1>6. CASE work[t].id \in DOMAIN registry
  <2> DEFINE v == registry[work[t].id]
             w == [work[t] EXCEPT !.pc = "mutex", !.vault = v]
  <2>1. work' = [work EXCEPT ![t] = w]
    BY <1>6 DEF WithVault, Types
  <2>2. work[t].id \in DOMAIN issued /\ issued[work[t].id] = v /\ v \in DOMAIN vaults
    BY <1>6 DEF Registered
  <2>3. v \in Nat
    BY <2>2, LenProperties DEF Types
  <2>4. /\ w \in WorkType /\ w.pc = "mutex" /\ w.vault = v /\ w.id = work[t].id
        /\ w.file = work[t].file
    <3>1. work[t] \in WorkType
      BY DEF Types
    <3> HIDE DEF v
    <3> QED
      BY <2>3, <3>1 DEF WorkType, HasVault
  <2> HIDE DEF v, w
  <2>5. work'[t] = w /\ \A d \in Callers \ {t} : work'[d] = work[d]
    BY <2>1 DEF Types
  <2>6. Registered'
    BY <1>4, <2>1, <2>4
  <2>7. "mutex" \in HasVault /\ "mutex" \notin InVault
    BY DEF HasVault, InVault
  <2>8. WorkOK(t)'
    <3>1. work[t].file \in Files
      BY <1>1 DEF WorkOK, In
    <3> QED
      BY <1>1, <2>2, <2>4, <2>5, <2>7, <3>1 DEF WorkOK, In
  <2>9. NumbersStay
    BY <1>1 DEF NumbersStay, Types
  <2>10. \A d, e \in Callers : d # e => Apart(d, e)'
    <3> SUFFICES ASSUME NEW d \in Callers, NEW e \in Callers, d # e
                 PROVE  Apart(d, e)'
      OBVIOUS
    <3>1. Apart(d, e)
      OBVIOUS
    <3>2. CASE d = t
      BY <1>1, <2>4, <2>5, <3>2 DEF Apart, In
    <3>3. CASE e = t
      BY <2>2, <2>4, <2>5, <3>1, <3>3 DEF Apart, In, ToolsOwn
    <3>4. CASE d # t /\ e # t
      BY <2>5, <3>1, <3>4 DEF Apart, In
    <3> QED
      BY <3>2, <3>3, <3>4
  <2>11. ToolsOwn'
    BY <1>1, <1>2, <2>5 DEF ToolsOwn
  <2>12. Live(w.vault) /\ \A i \in DOMAIN issued' : Live(issued'[i])
    BY <1>1, <2>2, <2>4 DEF Live
  <2>13. \A d \in Callers \ {t} : In(d, "insert") => work[d].id \notin DOMAIN issued'
    BY <1>1 DEF WorkOK
  <2> QED
    BY <1>1, <1>2, <1>3, <2>1, <2>4, <2>6, <2>7, <2>8, <2>9, <2>10, <2>11, <2>12, <2>13, WorkStep
<1> QED
  BY <1>5, <1>6

-----------------------------------------------------------------------------
(* Calls on a vault. *)

\* A call returns without having done anything.
LEMMA BackToIdle ==
  ASSUME IndInv, NEW c \in Callers, work' = [work EXCEPT ![c] = Idle],
         work[c].pc \in {"mutex", "ready"},
         UNCHANGED <<blobs, dir, call, cut, raced, vaults, stored, registry, registryLock, nextId,
                     issued, team, hung, faults>>
  PROVE  IndInv'
<1> USE DEF IndInv
<1>1. work'[c] = Idle /\ \A d \in Callers \ {c} : work'[d] = work[d]
  BY DEF Types
<1>2. Registered'
  BY <1>1, IdleFacts DEF Registered, In, Callers
<1>3. WorkOK(c)'
  BY <1>1, IdleFacts DEF WorkOK, In
<1>4. work[c].pc \notin InVault
  BY DEF InVault
<1>5. /\ hung' \subseteq Threads /\ faults' \in 0 .. MaxFaults
      /\ registryLock' \in Threads \cup {NoCaller}
  BY DEF Types
<1> QED
  BY <1>2, <1>3, <1>4, <1>5, IdleFacts, LocalStep

LEMMA ToolPutStep ==
  ASSUME IndInv, NEW c \in Tools, ToolPut(c), UNCHANGED team
  PROVE  IndInv'
<1> USE DEF IndInv
<1>1. PICK f \in Files \ UNION {stored[b] : b \in Blobs} :
        work' = [work EXCEPT ![c].pc = "body", ![c].file = f]
  BY DEF ToolPut
<1>2. /\ In(c, "ready") /\ c \in Callers /\ c \notin Threads
      /\ UNCHANGED <<blobs, dir, call, cut, raced, vaults, stored, registry, registryLock, nextId,
                     issued, hung, faults>>
  BY DirAssumption DEF ToolPut, dirvars, diskvars, hostvars, Callers
<1> DEFINE w == [work[c] EXCEPT !.pc = "body", !.file = f]
<1>3. work[c] \in WorkType
  BY <1>2 DEF Types
<1>4. /\ w \in WorkType /\ w.pc = "body" /\ w.file = f /\ w.vault = work[c].vault
      /\ work' = [work EXCEPT ![c] = w]
  BY <1>1, <1>2, <1>3 DEF WorkType, HasVault, InVault, Types
<1> HIDE DEF w
<1>5. work'[c] = w /\ \A d \in Callers \ {c} : work'[d] = work[d]
  BY <1>2, <1>4 DEF Types
<1>6. Registered'
  BY <1>2, <1>5 DEF Registered, In, Callers
<1>7. work[c].pc = "ready" /\ "ready" \in HasVault /\ "body" \in HasVault /\ "body" \in InVault
  BY <1>2 DEF In, HasVault, InVault
<1>8. WorkOK(c)'
  <2>1. work[c].vault \in DOMAIN vaults
    BY <1>2, <1>7 DEF WorkOK
  <2>2. f \notin vaults[work[c].vault].files
    <3>1. \A b \in Blobs : f \notin stored[b]
      OBVIOUS
    <3> QED
      BY <2>1, <3>1 DEF VaultOK
  <2> QED
    BY <1>2, <1>4, <1>5, <2>1, <2>2 DEF WorkOK, In
<1>9. /\ hung' \subseteq Threads /\ faults' \in 0 .. MaxFaults
      /\ registryLock' \in Threads \cup {NoCaller}
  BY <1>2 DEF Types
<1> QED
  BY <1>2, <1>4, <1>6, <1>7, <1>8, <1>9, LocalStep

-----------------------------------------------------------------------------
(* The directory. *)

\* What a step of c shows that is about the directory alone.
LEMMA DirOnly ==
  ASSUME IndInv, NEW c \in Callers, Types',
         UNCHANGED <<vaults, stored, registry, registryLock, nextId, issued, team, work>>,
         DOMAIN blobs \subseteq DOMAIN blobs',
         \A b \in DOMAIN blobs : blobs'[b].vault = blobs[b].vault,
         \A d \in Callers \ {c} :
           call'[d] = call[d] /\ \A b \in DOMAIN blobs : blobs[b].lock = d => blobs'[b].lock = d,
         work[c].pc \in {"open", "append"}, CallOK(c)', DirOK'
  PROVE  IndInv'
<1>1. Grows
  BY DEF Grows
<1>2. NumbersStay
  BY DEF NumbersStay, IndInv, Types
<1>3. WorkOK(c)'
  <2>1. WorkOK(c) /\ nextId \in Nat /\ ~In(c, "write")
    BY DEF IndInv, Types, In
  <2>2. In(c, "insert") => work[c].id \notin DOMAIN issued'
    BY <2>1 DEF WorkOK
  <2> QED
    BY <1>1, <1>2, <2>1, <2>2, OtherWork
<1>4. \A d \in Callers : CallOK(d)' /\ WorkOK(d)'
  <2>1. \A d \in Callers \ {c} :
          Untouched(d) /\ (In(d, "insert") => work[d].id \notin DOMAIN issued')
    BY DEF IndInv, WorkOK, Untouched
  <2> QED
    BY <1>1, <1>2, <1>3, <2>1, CallersKept
<1>5. (\A d, e \in Callers : d # e => Apart(d, e)') /\ ToolsOwn'
  BY ApartKept
<1>6. \A v \in DOMAIN vaults' : VaultOK(v)'
  <2>1. \A d \in Callers : work'[d].pc \in HasVault => Live(work'[d].vault)
    BY DEF Live
  <2>2. \A i \in DOMAIN issued' : Live(issued'[i])
    BY DEF Live
  <2> QED
    BY <1>1, <2>1, <2>2, VaultsKept
<1>7. Registered' /\ Counted'
  BY DEF IndInv, Registered, Counted, Opening, In
<1> QED
  BY <1>4, <1>5, <1>6, <1>7 DEF IndInv

\* The same for a step that changes nothing but the call of c.
LEMMA CallOnly ==
  ASSUME IndInv, NEW c \in Callers, NEW k \in CallType, call' = [call EXCEPT ![c] = k],
         UNCHANGED <<blobs, dir, cut, raced, vaults, stored, registry, registryLock, nextId, issued,
                     team, work, hung, faults>>,
         work[c].pc \in {"open", "append"}, ~At(c, "fill"), CallOK(c)'
  PROVE  IndInv'
<1>1. Types'
  BY DEF IndInv, Types
<1>2. call'[c] = k /\ \A d \in Callers \ {c} : call'[d] = call[d]
  BY DEF IndInv, Types
<1>3. DirOK'
  BY <1>2, DirKept DEF IndInv, At
<1> QED
  BY <1>1, <1>2, <1>3, DirOnly

\* A caller that opens a vault or creates a blob.
LEMMA BusyCaller ==
  ASSUME IndInv, NEW c \in Callers, ~At(c, "none")
  PROVE  /\ work[c].pc \in {"open", "append"} /\ call[c] \in CallType /\ CallOK(c)
         /\ call[c].op \in {"discover", "collect", "open"} => In(c, "open")
BY DEF IndInv, CallOK, Types, In, At

LEMMA FailsStep ==
  ASSUME IndInv, NEW c \in Callers, ~At(c, "none"), ~At(c, "fill"), call' = Fails(c),
         UNCHANGED <<blobs, dir, cut, raced, vaults, stored, registry, registryLock, nextId, issued,
                     team, work, hung, faults>>
  PROVE  IndInv'
<1> DEFINE k == [call[c] EXCEPT !.op = "failed"]
<1>1. /\ call[c] \in CallType /\ CallOK(c) /\ work[c].pc \in {"open", "append"}
  BY BusyCaller
<1>2. /\ k \in CallType /\ k.op = "failed" /\ k.paths = call[c].paths /\ k.found = call[c].found
      /\ k.new = call[c].new /\ k.whole = call[c].whole /\ k.vault = call[c].vault
  BY <1>1 DEF CallType
<1>3. call' = [call EXCEPT ![c] = k]
  BY DEF Fails, Enter, IndInv, Types
<1> HIDE DEF k
<1>4. call'[c] = k
  BY <1>3 DEF IndInv, Types
<1>5. CallOK(c)'
  BY <1>1, <1>2, <1>4 DEF CallOK, At, In
<1> QED
  BY <1>1, <1>2, <1>3, <1>5, CallOnly

LEMMA DiscoverStep ==
  ASSUME IndInv, NEW c \in Callers, DiscoverVaultId(c),
         UNCHANGED <<vaults, stored, registry, registryLock, nextId, issued, team, work, hung, faults>>
  PROVE  IndInv'
<1> DEFINE b  == Head(call[c].paths)
           op == IF c \in Tools THEN "open" ELSE "collect"
           k  == [call[c] EXCEPT !.op = op, !.vault = blobs[b].vault]
<1>1. At(c, "discover") /\ UNCHANGED <<blobs, dir, cut, raced>>
  BY DEF DiscoverVaultId
<1>2. /\ call[c] \in CallType /\ CallOK(c) /\ work[c].pc \in {"open", "append"}
      /\ In(c, "open")
  BY <1>1, BusyCaller DEF At
<1>3. CASE ~HasStable(b)
  <2>1. call' = Fails(c)
    BY <1>3 DEF DiscoverVaultId
  <2> QED
    BY <1>1, <2>1, FailsStep DEF At
<1>4. CASE HasStable(b)
  <2>1. blobs[b].vault \in Nat
    <3>1. call[c].paths \in Seq(Blobs) /\ call[c].paths # <<>>
      BY <1>1, <1>2 DEF CallType, CallOK, At
    <3>2. b \in DOMAIN blobs
      BY <1>2, <3>1, HeadTailRange DEF CallOK
    <3>3. blobs[b] \in BlobType
      BY <3>2, LenProperties DEF IndInv, Types
    <3> QED
      BY <3>3 DEF BlobType, Blobs
  <2>2. call' = [call EXCEPT ![c] = k]
    BY <1>4 DEF DiscoverVaultId, IndInv, Types
  <2>3. /\ k \in CallType /\ k.op = op /\ k.paths = call[c].paths /\ k.found = call[c].found
        /\ k.new = call[c].new /\ k.whole = call[c].whole
    <3> HIDE DEF b
    <3> QED
      BY <1>2, <2>1 DEF CallType
  <2> HIDE DEF k
  <2>4. call'[c] = k
    BY <2>2 DEF IndInv, Types
  <2>5. CallOK(c)'
    BY <1>1, <1>2, <2>3, <2>4 DEF CallOK, At, In
  <2> QED
    BY <1>1, <1>2, <2>2, <2>3, <2>5, CallOnly DEF At
<1> QED
  BY <1>3, <1>4

\* All blobs of a list are opened, or none.
LEMMA OpenAllStep ==
  ASSUME IndInv, NEW c \in Callers, NEW paths \in Seq(Blobs), OpenAll(c, paths),
         call[c].op \in {"collect", "open"}, paths # <<>>, Range(paths) \subseteq DOMAIN blobs,
         Range(call[c].paths) \subseteq Range(paths),
         UNCHANGED <<blobs, dir, cut, raced, vaults, stored, registry, registryLock, nextId, issued,
                     team, work, hung, faults>>
  PROVE  IndInv'
<1> DEFINE k == [call[c] EXCEPT !.op = "load", !.found = paths]
<1>1. call' = Fails(c) \/ call' = [call EXCEPT ![c] = k]
  BY DEF OpenAll, IndInv, Types
<1>2. /\ call[c] \in CallType /\ CallOK(c) /\ work[c].pc \in {"open", "append"}
      /\ In(c, "open")
  BY BusyCaller DEF At
<1>3. CASE call' = Fails(c)
  BY <1>3, FailsStep DEF At
<1>4. CASE call' = [call EXCEPT ![c] = k]
  <2>1. /\ k \in CallType /\ k.op = "load" /\ k.paths = call[c].paths /\ k.found = paths
        /\ k.new = call[c].new /\ k.whole = call[c].whole
    BY <1>2 DEF CallType
  <2> HIDE DEF k
  <2>2. call'[c] = k
    BY <1>4 DEF IndInv, Types
  <2>3. CallOK(c)'
    BY <1>2, <2>1, <2>2 DEF CallOK, At, In
  <2> QED
    BY <1>2, <1>4, <2>1, <2>3, CallOnly DEF At
<1> QED
  BY <1>1, <1>3, <1>4

LEMMA CollectStep ==
  ASSUME IndInv, NEW c \in Callers, CollectBlobs(c),
         UNCHANGED <<vaults, stored, registry, registryLock, nextId, issued, team, work, hung, faults>>
  PROVE  IndInv'
<1>1. At(c, "collect") /\ OpenAll(c, dir) /\ UNCHANGED <<blobs, dir, cut, raced>>
  BY DEF CollectBlobs
<1>2. CallOK(c) /\ dir \in Seq(Blobs) /\ Range(dir) = DOMAIN blobs /\ call[c].paths \in Seq(Blobs)
  BY DEF IndInv, Types, CallType
<1>3. call[c].paths # <<>> /\ Range(call[c].paths) \subseteq Range(dir)
  BY <1>1, <1>2 DEF CallOK, At
<1>4. dir # <<>>
  <2>1. Range(call[c].paths) # {}
    BY <1>2, <1>3, NonEmptyDomain DEF Range
  <2>2. Range(dir) # {}
    BY <1>3, <2>1
  <2> QED
    BY <1>2, <2>2, RangeFacts
<1> QED
  BY <1>1, <1>2, <1>3, <1>4, OpenAllStep DEF At

LEMMA OpenPathsStep ==
  ASSUME IndInv, NEW c \in Callers, OpenPaths(c),
         UNCHANGED <<vaults, stored, registry, registryLock, nextId, issued, team, work, hung, faults>>
  PROVE  IndInv'
<1>1. At(c, "open") /\ OpenAll(c, call[c].paths) /\ UNCHANGED <<blobs, dir, cut, raced>>
  BY DEF OpenPaths
<1>2. CallOK(c) /\ call[c].paths \in Seq(Blobs)
  BY DEF IndInv, Types, CallType
<1>3. call[c].paths # <<>> /\ Range(call[c].paths) \subseteq DOMAIN blobs
  BY <1>1, <1>2 DEF CallOK, At
<1> QED
  BY <1>1, <1>2, <1>3, OpenAllStep DEF At

LEMMA CreateBlobStep ==
  ASSUME IndInv, NEW c \in Callers, CreateBlob(c),
         UNCHANGED <<vaults, stored, registry, registryLock, nextId, issued, team, work, hung, faults>>
  PROVE  IndInv'
<1> DEFINE n == Len(blobs) + 1
           v == VaultIdFor(c)
           r == [vault |-> v, stage |-> "empty", lock |-> c]
           k == [call[c] EXCEPT !.op = "fill", !.vault = v, !.new = n]
<1>1. /\ At(c, "create") /\ n <= MaxBlobs /\ blobs' = Append(blobs, r)
      /\ call' = [call EXCEPT ![c] = k]
      /\ raced' = (raced \/ (call[c].vault = 0 /\ call[c].paths = <<>> /\ blobs # <<>>))
      /\ UNCHANGED cut
  BY DEF CreateBlob, IndInv, Types
<1>2. PICK i \in 1 .. n : dir' = InsertAt(dir, i, n)
  BY DEF CreateBlob
<1>3. /\ blobs \in Seq(BlobType) /\ Len(blobs) \in Nat /\ DOMAIN blobs = 1 .. Len(blobs)
      /\ dir \in Seq(Blobs) /\ IsInjective(dir) /\ Range(dir) = DOMAIN blobs /\ n = Len(dir) + 1
      /\ n \in Blobs /\ n \notin DOMAIN blobs /\ n # 0 /\ n \in Nat
  BY <1>1, LenProperties, DirAssumption DEF IndInv, Types, Blobs
<1>4. /\ call[c] \in CallType /\ CallOK(c) /\ work[c].pc \in {"open", "append"}
      /\ call[c].paths = <<>>
  BY <1>1, BusyCaller DEF At, CallOK
<1>5. \/ call[c].vault = 0 /\ v = n
      \/ call[c].vault # 0 /\ v = call[c].vault /\ v \in DOMAIN blobs
         /\ \E b \in DOMAIN blobs : blobs[b].vault = v
  <2>1. CASE call[c].vault = 0
    BY <2>1 DEF VaultIdFor
  <2>2. CASE call[c].vault # 0
    <3>1. In(c, "append") /\ v = call[c].vault
      BY <1>1, <1>4, <2>2 DEF CallOK, In, VaultIdFor
    <3>2. work[c].vault \in DOMAIN vaults /\ v = vaults[work[c].vault].id
      BY <1>1, <1>4, <3>1 DEF IndInv, WorkOK, In, HasVault, InVault, CallOK, At
    <3>3. \E b \in DOMAIN blobs : blobs[b].vault = v
      BY <3>2 DEF IndInv, VaultOK
    <3> QED
      BY <2>2, <3>1, <3>3 DEF IndInv, DirOK
  <2> QED
    BY <2>1, <2>2
<1>6. v \in Blobs /\ v \in 1 .. n
  BY <1>1, <1>3, <1>5, DirAssumption DEF Blobs
<1>7. r \in BlobType
  BY <1>6 DEF BlobType, Stages
<1>8. /\ k \in CallType /\ k.op = "fill" /\ k.vault = v /\ k.new = n /\ k.paths = call[c].paths
      /\ k.found = call[c].found /\ k.whole = call[c].whole
  <2>1. v \in Nat
    BY <1>6 DEF Blobs
  <2> HIDE DEF v, n
  <2> QED
    BY <1>3, <1>4, <2>1 DEF CallType
<1>9. r.vault = v /\ r.stage = "empty" /\ r.lock = c
  OBVIOUS
<1> HIDE DEF r, k, v
<1>10. /\ blobs' \in Seq(BlobType) /\ Len(blobs') = n /\ DOMAIN blobs' = DOMAIN blobs \cup {n}
       /\ blobs'[n] = r /\ \A b \in DOMAIN blobs : blobs'[b] = blobs[b]
  BY <1>1, <1>3, <1>7, AppendProperties
<1>11. /\ dir' \in Seq(Blobs) /\ IsInjective(dir') /\ Range(dir') = DOMAIN blobs'
       /\ Len(dir') = n
  <2>1. i \in 1 .. Len(dir) + 1 /\ n \notin Range(dir)
    BY <1>3
  <2> HIDE DEF n
  <2>2. /\ dir' \in Seq(Blobs) /\ IsInjective(dir') /\ Range(dir') = Range(dir) \cup {n}
        /\ Len(dir') = Len(dir) + 1
    BY <1>2, <1>3, <2>1, InsertAtInjective
  <2> QED
    BY <1>3, <1>10, <2>2
<1> HIDE DEF n
<1>12. call'[c] = k /\ (\A d \in Callers \ {c} : call'[d] = call[d]) /\ call' \in [Callers -> CallType]
  BY <1>1, <1>8 DEF IndInv, Types
<1>13. Types'
  BY <1>1, <1>10, <1>11, <1>12 DEF IndInv, Types
<1>14. CallOK(c)'
  <2>1. /\ call'[c].new = n /\ n \in DOMAIN blobs' /\ blobs'[n].lock = c /\ n # 0
        /\ At(c, "fill")' /\ call'[c].paths = <<>> /\ work[c].pc \in {"open", "append"}
    BY <1>3, <1>4, <1>8, <1>9, <1>10, <1>12 DEF At
  <2>2. /\ Range(call'[c].paths) \cup Range(call'[c].found) \subseteq DOMAIN blobs'
        /\ call'[c].whole \subseteq Range(call'[c].paths)
    BY <1>4, <1>8, <1>10, <1>12 DEF CallOK
  <2>3. In(c, "append") => call'[c].vault = vaults[work[c].vault].id
    <3>1. In(c, "append") => call[c].vault = vaults[work[c].vault].id /\ work[c].vault \in DOMAIN vaults
      BY <1>1, <1>4 DEF CallOK, At, IndInv, WorkOK, In, HasVault, InVault
    <3>2. \A w \in DOMAIN vaults : vaults[w].id # 0
      <4>1. \A b \in DOMAIN blobs : blobs[b].vault \in Blobs
        BY ElementTypes DEF BlobType
      <4>2. \A w \in DOMAIN vaults : \E b \in DOMAIN blobs : blobs[b].vault = vaults[w].id
        BY DEF IndInv, VaultOK
      <4> QED
        BY <4>1, <4>2 DEF Blobs
    <3> QED
      BY <1>5, <1>8, <1>12, <3>1, <3>2
  <2> QED
    BY <2>1, <2>2, <2>3 DEF CallOK, At, In
<1>15. DirOK'
  <2>1. \A b \in DOMAIN blobs' : blobs'[b].vault \in DOMAIN blobs'
    BY <1>3, <1>5, <1>9, <1>10 DEF IndInv, DirOK
  <2>2. ASSUME ~cut, NEW b \in DOMAIN blobs'
        PROVE  b \in Whole' \/ \E d \in Callers : At(d, "fill")' /\ call'[d].new = b
    <3>1. CASE b = n
      BY <1>8, <1>12, <3>1 DEF At
    <3>2. CASE b \in DOMAIN blobs
      <4>1. b \in Whole \/ \E d \in Callers : At(d, "fill") /\ call[d].new = b
        BY <2>2, <3>2 DEF IndInv, DirOK
      <4>2. ASSUME b \in Whole
            PROVE  b \in Whole'
        BY <1>10, <4>2 DEF Whole
      <4>3. ASSUME NEW d \in Callers, At(d, "fill"), call[d].new = b
            PROVE  At(d, "fill")' /\ call'[d].new = b
        BY <1>1, <1>12, <4>3 DEF At
      <4> QED
        BY <4>1, <4>2, <4>3
    <3> QED
      BY <1>10, <3>1, <3>2
  <2>3. ASSUME ~raced', NEW b \in DOMAIN blobs'
        PROVE  blobs'[b].vault = blobs'[1].vault
    <3>1. CASE call[c].vault = 0
      <4>1. blobs = <<>>
        BY <1>1, <1>4, <2>3, <3>1
      <4>2. DOMAIN blobs = {} /\ n = 1
        BY <4>1 DEF n
      <4> QED
        BY <1>10, <4>2
    <3>2. CASE call[c].vault # 0
      <4>1. \A d \in DOMAIN blobs : blobs[d].vault = blobs[1].vault
        BY <1>1, <2>3 DEF IndInv, DirOK
      <4>2. v = blobs[1].vault /\ 1 \in DOMAIN blobs
        BY <1>3, <1>5, <3>2, <4>1
      <4> QED
        BY <1>9, <1>10, <4>1, <4>2
    <3> QED
      BY <3>1, <3>2
  <2> QED
    BY <1>1, <2>1, <2>2, <2>3 DEF DirOK
<1> QED
  BY <1>4, <1>10, <1>12, <1>13, <1>14, <1>15, DirOnly

\* One blob of c is written to or unlocked.
LEMMA OneBlob ==
  ASSUME IndInv, NEW c \in Callers, NEW b \in DOMAIN blobs, blobs[b].lock = c, NEW r \in BlobType,
         blobs' = [blobs EXCEPT ![b] = r], r.vault = blobs[b].vault
  PROVE  /\ blobs' \in Seq(BlobType) /\ Len(blobs') = Len(blobs) /\ DOMAIN blobs' = DOMAIN blobs
         /\ blobs'[b] = r /\ \A d \in DOMAIN blobs \ {b} : blobs'[d] = blobs[d]
         /\ \A d \in DOMAIN blobs : blobs'[d].vault = blobs[d].vault
         /\ \A e \in Callers \ {c} : \A d \in DOMAIN blobs : blobs[d].lock = e => blobs'[d].lock = e
<1>1. blobs \in Seq(BlobType) /\ b \in 1 .. Len(blobs)
  BY LenProperties DEF IndInv, Types
<1>2. blobs' \in Seq(BlobType) /\ Len(blobs') = Len(blobs)
  BY <1>1, ExceptSeq
<1>3. DOMAIN blobs' = DOMAIN blobs /\ blobs'[b] = r /\ \A d \in DOMAIN blobs \ {b} : blobs'[d] = blobs[d]
  OBVIOUS
<1> QED
  BY <1>2, <1>3

LEMMA FillStep ==
  ASSUME IndInv, NEW c \in Callers, FillBlob(c),
         UNCHANGED <<vaults, stored, registry, registryLock, nextId, issued, team, work, hung, faults>>
  PROVE  IndInv'
<1> DEFINE b == call[c].new
           r == [blobs[b] EXCEPT !.stage = Written[blobs[b].stage]]
<1>1. /\ At(c, "fill") /\ b \notin Whole /\ blobs' = [blobs EXCEPT ![b] = r]
      /\ UNCHANGED <<dir, call, cut, raced>>
  BY DEF FillBlob
<1>2. CallOK(c) /\ b \in DOMAIN blobs /\ blobs[b].lock = c /\ work[c].pc \in {"open", "append"}
  BY <1>1, BusyCaller DEF CallOK, At
<1>3. blobs[b] \in BlobType
  BY <1>2, ElementTypes
<1>4. r \in BlobType /\ r.vault = blobs[b].vault /\ r.lock = c
  <2>1. blobs[b].stage \in {"empty", "stable", "front"}
    BY <1>1, <1>2, <1>3 DEF Whole, BlobType, Stages
  <2>2. Written[blobs[b].stage] \in Stages
    BY <2>1 DEF Written, Stages
  <2>3. ASSUME NEW s \in Stages, NEW x \in BlobType
        PROVE  [x EXCEPT !.stage = s] \in BlobType /\ [x EXCEPT !.stage = s].vault = x.vault
               /\ [x EXCEPT !.stage = s].lock = x.lock
    BY DEF BlobType
  <2> QED
    BY <1>2, <1>3, <2>2, <2>3
<1> HIDE DEF r, b
<1>5. /\ blobs' \in Seq(BlobType) /\ Len(blobs') = Len(blobs) /\ DOMAIN blobs' = DOMAIN blobs
      /\ blobs'[b] = r /\ \A d \in DOMAIN blobs \ {b} : blobs'[d] = blobs[d]
      /\ \A d \in DOMAIN blobs : blobs'[d].vault = blobs[d].vault
      /\ \A e \in Callers \ {c} : \A d \in DOMAIN blobs : blobs[d].lock = e => blobs'[d].lock = e
  BY <1>1, <1>2, <1>4, OneBlob
<1>6. Types'
  BY <1>1, <1>5 DEF IndInv, Types
<1>7. CallOK(c)'
  BY <1>1, <1>2, <1>4, <1>5 DEF CallOK, At, In, b
<1>8. DirOK'
  <2>1. Whole \subseteq Whole'
    BY <1>1, <1>5 DEF Whole
  <2>2. DOMAIN blobs # {} => 1 \in DOMAIN blobs
    BY LenProperties DEF IndInv, Types
  <2> QED
    BY <1>1, <1>5, <2>1, <2>2 DEF IndInv, DirOK, At
<1> QED
  BY <1>1, <1>2, <1>5, <1>6, <1>7, <1>8, DirOnly

LEMMA FinishStep ==
  ASSUME IndInv, NEW c \in Callers, FinishBlob(c),
         UNCHANGED <<vaults, stored, registry, registryLock, nextId, issued, team, work, hung, faults>>
  PROVE  IndInv'
<1> DEFINE b   == call[c].new
           r   == [blobs[b] EXCEPT !.lock = NoCaller]
           one == <<b>>
           k   == [call[c] EXCEPT !.op = "load", !.found = one, !.new = 0]
<1>1. /\ At(c, "fill") /\ b \in Whole /\ blobs' = [blobs EXCEPT ![b] = r]
      /\ call' = [call EXCEPT ![c] = k] /\ UNCHANGED <<dir, cut, raced>>
  BY DEF FinishBlob, IndInv, Types
<1>2. /\ CallOK(c) /\ b \in DOMAIN blobs /\ blobs[b].lock = c /\ work[c].pc \in {"open", "append"}
      /\ call[c] \in CallType /\ call[c].whole = {}
  <2>1. CallOK(c) /\ call[c] \in CallType /\ work[c].pc \in {"open", "append"}
    BY <1>1, BusyCaller DEF At
  <2>2. call[c].paths = <<>> /\ call[c].whole \subseteq Range(call[c].paths)
    BY <1>1, <2>1 DEF CallOK, At
  <2>3. Range(call[c].paths) = {}
    BY <2>2 DEF Range
  <2> QED
    BY <1>1, <2>1, <2>2, <2>3 DEF CallOK
<1>3. blobs[b] \in BlobType /\ b \in Blobs
  BY <1>2, ElementTypes
<1>4. r \in BlobType /\ r.vault = blobs[b].vault /\ r.stage = blobs[b].stage
  BY <1>3 DEF BlobType
<1>5. one \in Seq(Blobs) /\ Range(one) = {b} /\ one # <<>>
  BY <1>3 DEF Range
<1>6. /\ k \in CallType /\ k.op = "load" /\ k.found = one /\ k.new = 0 /\ k.vault = call[c].vault
      /\ k.paths = call[c].paths /\ k.whole = call[c].whole
  <2> HIDE DEF one
  <2> QED
    BY <1>2, <1>5 DEF CallType
<1> HIDE DEF r, one, k
<1>7. /\ blobs' \in Seq(BlobType) /\ Len(blobs') = Len(blobs) /\ DOMAIN blobs' = DOMAIN blobs
      /\ blobs'[b] = r /\ \A d \in DOMAIN blobs \ {b} : blobs'[d] = blobs[d]
      /\ \A d \in DOMAIN blobs : blobs'[d].vault = blobs[d].vault
      /\ \A e \in Callers \ {c} : \A d \in DOMAIN blobs : blobs[d].lock = e => blobs'[d].lock = e
  <2> HIDE DEF b
  <2> QED
    BY <1>1, <1>2, <1>4, OneBlob
<1>8. call'[c] = k /\ (\A d \in Callers \ {c} : call'[d] = call[d]) /\ call' \in [Callers -> CallType]
  BY <1>1, <1>6 DEF IndInv, Types
<1>9. Types'
  BY <1>1, <1>7, <1>8 DEF IndInv, Types
<1>10. CallOK(c)'
  BY <1>1, <1>2, <1>5, <1>6, <1>7, <1>8 DEF CallOK, At, In
<1>11. DirOK'
  <2>1. Whole' = Whole
    <3> HIDE DEF b
    <3> QED
      BY <1>4, <1>7 DEF Whole
  <2>2. DOMAIN blobs # {} => 1 \in DOMAIN blobs
    BY LenProperties DEF IndInv, Types
  <2>3. ASSUME ~cut, NEW d \in DOMAIN blobs, d \notin Whole
        PROVE  \E e \in Callers : At(e, "fill")' /\ call'[e].new = d
    <3>1. PICK e \in Callers : At(e, "fill") /\ call[e].new = d
      BY <2>3 DEF IndInv, DirOK
    <3>2. e # c
      BY <1>1, <2>3, <3>1
    <3> QED
      BY <1>8, <3>1, <3>2 DEF At
  <2>4. \A d \in DOMAIN blobs' : blobs'[d].vault \in DOMAIN blobs'
    BY <1>7 DEF IndInv, DirOK
  <2>5. ~raced' => \A d \in DOMAIN blobs' : blobs'[d].vault = blobs'[1].vault
    BY <1>1, <1>7, <2>2 DEF IndInv, DirOK
  <2> QED
    BY <1>1, <1>7, <2>1, <2>3, <2>4, <2>5 DEF DirOK
<1> QED
  BY <1>1, <1>2, <1>7, <1>8, <1>9, <1>10, <1>11, DirOnly

\* Locks of some callers are released.
LEMMA ReleasedFacts ==
  ASSUME IndInv, NEW cs, blobs' = Released(cs)
  PROVE  /\ blobs' \in Seq(BlobType) /\ Len(blobs') = Len(blobs) /\ DOMAIN blobs' = DOMAIN blobs
         /\ \A b \in DOMAIN blobs :
              /\ blobs'[b].vault = blobs[b].vault /\ blobs'[b].stage = blobs[b].stage
              /\ blobs[b].lock \notin cs => blobs'[b].lock = blobs[b].lock
<1>1. DOMAIN blobs = 1 .. Len(blobs) /\ Len(blobs) \in Nat
  BY LenProperties DEF IndInv, Types
<1>2. ASSUME NEW x \in BlobType
      PROVE  /\ [x EXCEPT !.lock = NoCaller] \in BlobType
             /\ [x EXCEPT !.lock = NoCaller].vault = x.vault
             /\ [x EXCEPT !.lock = NoCaller].stage = x.stage
  BY DEF BlobType
<1>3. DOMAIN blobs' = DOMAIN blobs
  BY DEF Released
<1>4. ASSUME NEW b \in DOMAIN blobs
      PROVE  /\ blobs'[b] \in BlobType
             /\ blobs'[b].vault = blobs[b].vault /\ blobs'[b].stage = blobs[b].stage
             /\ blobs[b].lock \notin cs => blobs'[b].lock = blobs[b].lock
  <2>1. blobs[b] \in BlobType
    BY ElementTypes
  <2>2. blobs'[b] = IF blobs[b].lock \in cs THEN [blobs[b] EXCEPT !.lock = NoCaller] ELSE blobs[b]
    BY DEF Released
  <2> QED
    BY <1>2, <2>1, <2>2
<1>5. blobs' = [b \in 1 .. Len(blobs) |-> blobs'[b]]
  BY <1>1 DEF Released
<1>6. blobs' \in Seq(BlobType) /\ Len(blobs') = Len(blobs)
  BY <1>1, <1>4, <1>5
<1> QED
  BY <1>3, <1>4, <1>6

LEMMA FillFailsStep ==
  ASSUME IndInv, NEW c \in Callers, FillFails(c), hung' = hung, faults' \in 0 .. MaxFaults,
         UNCHANGED <<vaults, stored, registry, registryLock, nextId, issued, team, work>>
  PROVE  IndInv'
<1> DEFINE k == [call[c] EXCEPT !.op = "failed", !.new = 0]
<1>1. /\ At(c, "fill") /\ blobs' = Released({c}) /\ call' = [call EXCEPT ![c] = k]
      /\ cut' = TRUE /\ UNCHANGED <<dir, raced>>
  BY DEF FillFails, IndInv, Types
<1>2. CallOK(c) /\ work[c].pc \in {"open", "append"} /\ call[c] \in CallType
  BY <1>1, BusyCaller DEF At
<1>3. /\ k \in CallType /\ k.op = "failed" /\ k.found = call[c].found /\ k.new = 0
      /\ k.vault = call[c].vault /\ k.paths = call[c].paths /\ k.whole = call[c].whole
  BY <1>2 DEF CallType
<1> HIDE DEF k
<1>4. /\ blobs' \in Seq(BlobType) /\ Len(blobs') = Len(blobs) /\ DOMAIN blobs' = DOMAIN blobs
      /\ \A b \in DOMAIN blobs :
           /\ blobs'[b].vault = blobs[b].vault
           /\ blobs[b].lock # c => blobs'[b].lock = blobs[b].lock
  <2>1. /\ blobs' \in Seq(BlobType) /\ Len(blobs') = Len(blobs) /\ DOMAIN blobs' = DOMAIN blobs
        /\ \A b \in DOMAIN blobs :
             /\ blobs'[b].vault = blobs[b].vault /\ blobs'[b].stage = blobs[b].stage
             /\ blobs[b].lock \notin {c} => blobs'[b].lock = blobs[b].lock
    <3>1. blobs' = Released({c})
      BY <1>1
    <3> HIDE <1>1
    <3> QED
      BY <3>1, ReleasedFacts, Zenon
  <2> QED
    BY <2>1
<1>5. call'[c] = k /\ (\A d \in Callers \ {c} : call'[d] = call[d]) /\ call' \in [Callers -> CallType]
  BY <1>1, <1>3 DEF IndInv, Types
<1>6. Types'
  <2>1. cut' \in BOOLEAN
    BY <1>1
  <2> QED
    BY <1>1, <1>4, <1>5, <2>1 DEF IndInv, Types
<1>7. CallOK(c)'
  BY <1>1, <1>2, <1>3, <1>4, <1>5 DEF CallOK, At, In
<1>8. DirOK'
  <2>1. DOMAIN blobs # {} => 1 \in DOMAIN blobs
    BY LenProperties DEF IndInv, Types
  <2> QED
    BY <1>1, <1>4, <2>1 DEF IndInv, DirOK
<1> QED
  BY <1>1, <1>2, <1>4, <1>5, <1>6, <1>7, <1>8, DirOnly

\* Every step of an open or a create_blob, but the last.
LEMMA DirWorkStep ==
  ASSUME IndInv, NEW c \in Callers, DirWork(c), UNCHANGED team
  PROVE  IndInv'
<1>1. /\ DirStep(c)
      /\ UNCHANGED <<vaults, stored, registry, registryLock, nextId, issued, team, work, hung, faults>>
  BY DEF DirWork, hostvars, diskvars
<1>2. CASE OpenVaultFails(c) \/ CreateFails(c)
  BY <1>1, <1>2, FailsStep DEF OpenVaultFails, CreateFails, At
<1> QED
  BY <1>1, <1>2, DiscoverStep, CollectStep, OpenPathsStep, CreateBlobStep, FillStep, FinishStep
     DEF DirStep

-----------------------------------------------------------------------------
(* The begin and the end of an open. *)

\* What a step of c shows that enters or leaves an open without a vault.
LEMMA OpenFrame ==
  ASSUME IndInv, NEW c \in Callers, NEW k \in CallType, NEW w \in WorkType,
         call' = [call EXCEPT ![c] = k], work' = [work EXCEPT ![c] = w],
         UNCHANGED <<blobs, dir, cut, raced, vaults, stored, registry, registryLock, nextId, issued,
                     team, hung, faults>>,
         work[c].pc \in {"idle", "open"}, w.pc \in {"idle", "open"}, w.vault = 0,
         ~At(c, "fill"), CallOK(c)', Counted'
  PROVE  IndInv'
<1> USE DEF IndInv
<1>1. Types'
  BY DEF Types
<1>2. /\ work'[c] = w /\ call'[c] = k
      /\ \A d \in Callers \ {c} : work'[d] = work[d] /\ call'[d] = call[d]
  BY DEF Types
<1>3. Grows /\ NumbersStay
  BY DEF Grows, NumbersStay, Types
<1>4. {"idle", "open"} \cap HasVault = {} /\ InVault \subseteq HasVault
  BY DEF HasVault, InVault
<1>5. WorkOK(c)'
  BY <1>2, <1>4 DEF WorkOK, In
<1>6. \A d \in Callers : CallOK(d)' /\ WorkOK(d)'
  <2>1. \A d \in Callers \ {c} :
          Untouched(d) /\ (In(d, "insert") => work[d].id \notin DOMAIN issued')
    BY <1>2 DEF WorkOK, Untouched
  <2> QED
    BY <1>1, <1>3, <1>5, <2>1, CallersKept
<1>7. (\A d, e \in Callers : d # e => Apart(d, e)') /\ ToolsOwn'
  BY <1>2, <1>4, ApartKept
<1>8. \A v \in DOMAIN vaults' : VaultOK(v)'
  <2>1. \A d \in Callers : work'[d].pc \in HasVault => Live(work'[d].vault)
    BY <1>2, <1>4 DEF Live
  <2>2. \A i \in DOMAIN issued' : Live(issued'[i])
    BY DEF Live
  <2>3. \A t \in Threads :
          \/ work'[t].pc \notin InVault /\ work[t].pc \notin InVault
          \/ work'[t].pc \in InVault /\ work[t].pc \in InVault /\ work'[t].vault = work[t].vault
    BY <1>2, <1>4 DEF Callers
  <2> QED
    BY <1>3, <2>1, <2>2, <2>3, VaultsKept
<1>9. Registered'
  BY <1>2 DEF Registered, In, Callers
<1>10. DirOK'
  BY <1>2, DirKept DEF At
<1> QED
  BY <1>1, <1>6, <1>7, <1>8, <1>9, <1>10

LEMMA OpeningFinite ==
  IsFiniteSet(Opening) /\ Cardinality(Opening) \in Nat
<1>1. Opening \in SUBSET Callers
  BY DEF Opening
<1>2. IsFiniteSet(Opening)
  BY <1>1, SessionAssumption, FS_Subset
<1> QED
  BY <1>2, FS_CardinalityType

LEMMA NoCallFacts ==
  /\ NoCall \in CallType /\ NoCall.op = "none" /\ NoCall.found = <<>> /\ NoCall.new = 0
  /\ NoCall.vault = 0 /\ NoCall.paths = <<>> /\ NoCall.whole = {}
BY DEF NoCall, CallType

LEMMA OpenStep ==
  ASSUME IndInv, NEW c \in Callers, Open(c), UNCHANGED team
  PROVE  IndInv'
<1> DEFINE op == IF dir = <<>> THEN "create" ELSE "discover"
           k  == [NoCall EXCEPT !.op = op, !.paths = dir, !.whole = Whole]
           w  == [work[c] EXCEPT !.pc = "open"]
<1>1. /\ In(c, "idle") /\ Len(vaults) + Cardinality(Opening) < MaxVaults /\ At(c, "none")
      /\ call' = [call EXCEPT ![c] = k]
      /\ UNCHANGED <<blobs, dir, cut, raced, vaults, stored, registry, registryLock, nextId, issued,
                     team, hung, faults>>
  BY DEF Open, CollectBlobPaths, Opening, hostvars, diskvars
<1>2. work' = [work EXCEPT ![c] = w]
  BY DEF Open, Goto
<1>3. WorkOK(c) /\ work[c] \in WorkType /\ CallOK(c)
  BY ElementTypes DEF IndInv
<1>4. w \in WorkType /\ w.pc = "open" /\ w.vault = 0
  <2>1. work[c].vault = 0
    BY <1>1, <1>3 DEF WorkOK
  <2> QED
    BY <1>3, <2>1 DEF WorkType
<1>5. Whole \subseteq DOMAIN blobs /\ Whole \subseteq Blobs
  BY ElementTypes DEF Whole
<1>6. /\ k \in CallType /\ k.op = op /\ k.paths = dir /\ k.found = <<>> /\ k.new = 0
      /\ k.whole = Whole /\ k.vault = 0
  <2>1. dir \in Seq(Blobs) /\ op \in {"create", "discover"}
    BY DEF IndInv, Types
  <2>2. Whole \in SUBSET Blobs
    BY <1>5
  <2> HIDE DEF op
  <2>3. k \in CallType /\ k.op = op /\ k.paths = dir /\ k.whole = Whole
    BY <2>1, <2>2, NoCallFacts DEF CallType
  <2>4. k.found = NoCall.found /\ k.new = NoCall.new /\ k.vault = NoCall.vault
    BY NoCallFacts DEF CallType
  <2> QED
    BY <2>3, <2>4, NoCallFacts
<1> HIDE DEF k, w
<1>7. work'[c] = w /\ call'[c] = k /\ \A d \in Callers \ {c} : work'[d] = work[d]
  BY <1>1, <1>2 DEF IndInv, Types
<1>8. CallOK(c)'
  <2>1. Range(dir) = DOMAIN blobs /\ Range(<<>>) = {}
    BY DEF IndInv, Types, Range
  <2> QED
    BY <1>1, <1>4, <1>5, <1>6, <1>7, <2>1 DEF CallOK, At, In
<1>9. Counted'
  <2>1. Opening' = Opening \cup {c} /\ c \notin Opening
    BY <1>1, <1>4, <1>7 DEF Opening, In
  <2>2. Cardinality(Opening') = Cardinality(Opening) + 1
    BY <2>1, OpeningFinite, FS_AddElement
  <2> QED
    BY <1>1, <2>2, OpeningFinite, ElementTypes, SessionAssumption DEF IndInv, Counted
<1> QED
  BY <1>1, <1>2, <1>4, <1>6, <1>8, <1>9, OpenFrame DEF In, At

LEMMA OpenFailsStep ==
  ASSUME IndInv, NEW c \in Callers, OpenFails(c), UNCHANGED team
  PROVE  IndInv'
<1>1. /\ In(c, "open") /\ At(c, "failed")
      /\ call' = [call EXCEPT ![c] = NoCall] /\ work' = [work EXCEPT ![c] = Idle]
      /\ UNCHANGED <<blobs, dir, cut, raced, vaults, stored, registry, registryLock, nextId, issued,
                     team, hung, faults>>
  BY DEF OpenFails, hostvars, diskvars
<1>2. NoCall \in CallType
  BY NoCallFacts
<1>3. work'[c] = Idle /\ call'[c] = NoCall /\ \A d \in Callers \ {c} : work'[d] = work[d]
  BY <1>1 DEF IndInv, Types
<1>4. CallOK(c)'
  BY <1>3, IdleFacts DEF CallOK, At, In, NoCall, Range
<1>5. Counted'
  <2>1. \A d \in Callers : In(d, "open")' => In(d, "open")
    BY <1>3, IdleFacts DEF In
  <2> QED
    BY <1>1, <2>1, CountedKept DEF IndInv
<1> QED
  BY <1>1, <1>2, <1>4, <1>5, IdleFacts, OpenFrame DEF In, At

\* A vault whose open ends lists blobs of its own id alone, and all of
\* those that were complete.
LEMMA LoadedFacts ==
  ASSUME IndInv, NEW c \in Callers, OpenVault(c)
  PROVE  LET found == call[c].found
         IN  /\ found \in Seq(Blobs) /\ found # <<>> /\ Range(found) \subseteq DOMAIN blobs
             /\ \A b \in Range(found) : blobs[b].vault = call[c].vault
             /\ \E b \in DOMAIN blobs : blobs[b].vault = call[c].vault
             /\ call[c].whole \subseteq Range(found) /\ call[c].vault \in Nat
             /\ found[1] \in Range(found)
<1> DEFINE found == call[c].found
<1>1. At(c, "load") /\ Loadable(c)
  BY DEF OpenVault
<1>2. call[c] \in CallType /\ CallOK(c)
  BY DEF IndInv, Types
<1>3. /\ found \in Seq(Blobs) /\ found # <<>> /\ Range(found) \subseteq DOMAIN blobs
      /\ call[c].whole \subseteq Range(found) /\ call[c].vault \in Nat
  BY <1>1, <1>2 DEF CallOK, At, CallType
<1>4. \A b \in Range(found) : blobs[b].vault = call[c].vault
  BY <1>1 DEF Loadable
<1>5. found[1] \in Range(found)
  BY <1>3, NonEmptyDomain DEF Range
<1> QED
  BY <1>3, <1>4, <1>5

LEMMA OpenedStep ==
  ASSUME IndInv, NEW c \in Callers, Opened(c), UNCHANGED team
  PROVE  IndInv'
<1> DEFINE n     == Len(vaults) + 1
           found == call[c].found
           held  == UNION {stored[b] : b \in Range(found)}
           none  == [f \in Files |-> 0]
           r     == [id |-> call[c].vault, blobs |-> found, files |-> held, mutex |-> NoCaller,
                     whole |-> call[c].whole, acked |-> none]
           pc    == IF c \in Tools THEN "ready" ELSE "insert"
           id    == IF c \in Tools THEN 0 ELSE nextId
           w     == [Idle EXCEPT !.pc = pc, !.id = id, !.vault = n]
<1>1. /\ In(c, "open") /\ OpenVault(c) /\ At(c, "load") /\ call' = [call EXCEPT ![c] = NoCall]
      /\ vaults' = Append(vaults, r)
      /\ UNCHANGED <<blobs, dir, cut, raced, stored, registry, registryLock, issued, team, hung,
                     faults>>
  BY DEF Opened, OpenVault, diskvars
<1>2. work' = [work EXCEPT ![c] = w] /\ nextId' = IF c \in Tools THEN nextId ELSE nextId + 1
  BY DEF Opened, FetchedId
<1>3. /\ found \in Seq(Blobs) /\ Range(found) \subseteq DOMAIN blobs
      /\ \A b \in Range(found) : blobs[b].vault = call[c].vault
      /\ \E b \in DOMAIN blobs : blobs[b].vault = call[c].vault
      /\ call[c].whole \subseteq Range(found) /\ call[c].vault \in Nat
  BY <1>1, LoadedFacts
<1>4. /\ Len(vaults) \in Nat /\ n \in Nat /\ n # 0 /\ nextId \in Nat \ {0} /\ n \notin DOMAIN vaults
      /\ \A v \in DOMAIN vaults : v # n
  BY ElementTypes DEF IndInv, Types
<1>5. held \subseteq Files /\ \A f \in held : \E b \in Blobs : f \in stored[b]
  <2>1. Range(found) \subseteq Blobs /\ stored \in [Blobs -> SUBSET Files]
    BY <1>3, ElementTypes DEF IndInv, Types
  <2> QED
    BY <2>1
<1>6. none \in [Files -> Nat] /\ \A f \in Files : none[f] = 0
  OBVIOUS
<1>7. call[c].whole \subseteq Blobs
  BY ElementTypes DEF CallType
<1>8. /\ r \in VaultType /\ r.id = call[c].vault /\ r.blobs = found /\ r.files = held
      /\ r.mutex = NoCaller /\ r.whole = call[c].whole /\ r.acked = none
  <2> HIDE DEF found, held, none
  <2> QED
    BY <1>3, <1>5, <1>6, <1>7 DEF VaultType
<1>9. id \in Nat /\ pc \in {"ready", "insert"}
  BY <1>4
<1>10. w \in WorkType /\ w.pc = pc /\ w.id = id /\ w.vault = n
  <2>1. Idle \in WorkType
    BY IdleFacts
  <2> HIDE DEF id, pc, n
  <2> QED
    BY <1>4, <1>9, <2>1 DEF WorkType, HasVault
<1> HIDE DEF r, w, n, none, held
<1>11. /\ vaults' \in Seq(VaultType) /\ Len(vaults') = n /\ DOMAIN vaults' = DOMAIN vaults \cup {n}
       /\ vaults'[n] = r /\ \A v \in DOMAIN vaults : vaults'[v] = vaults[v]
  <2>1. vaults \in Seq(VaultType) /\ DOMAIN vaults = 1 .. Len(vaults)
    BY LenProperties DEF IndInv, Types
  <2> QED
    BY <1>1, <1>8, <2>1, AppendProperties DEF n
<1>12. /\ work'[c] = w /\ call'[c] = NoCall
       /\ \A d \in Callers \ {c} : work'[d] = work[d] /\ call'[d] = call[d]
  BY <1>1, <1>2 DEF IndInv, Types
<1>13. Types'
  <2>1. nextId' \in Nat \ {0}
    BY <1>2, <1>4
  <2>2. work' \in [Callers -> WorkType] /\ call' \in [Callers -> CallType]
    BY <1>1, <1>2, <1>10, NoCallFacts DEF IndInv, Types
  <2> QED
    BY <1>1, <1>11, <2>1, <2>2 DEF IndInv, Types
<1>14. Grows /\ NumbersStay
  BY <1>1, <1>2, <1>4, <1>11 DEF Grows, NumbersStay
<1>15. pc \in HasVault /\ pc \notin InVault /\ pc \notin {"open", "append", "idle", "lookup", "mutex"}
  BY DEF HasVault, InVault
<1>16. CallOK(c)'
  <2>1. Range(<<>>) = {}
    BY DEF Range
  <2> QED
    BY <1>10, <1>12, <1>15, <2>1, NoCallFacts DEF CallOK, At, In, InVault
<1>17. \A i \in DOMAIN issued : i \in 1 .. nextId - 1 /\ issued[i] \in DOMAIN vaults
  BY DEF IndInv, Registered
<1>18. WorkOK(c)'
  <2>1. pc = "insert" => id \in 1 .. nextId' - 1 /\ id \notin DOMAIN issued
    BY <1>2, <1>4, <1>17
  <2>2. pc = "insert" => c \in Threads
    BY DEF Callers
  <2> QED
    BY <1>1, <1>10, <1>11, <1>12, <1>15, <2>1, <2>2 DEF WorkOK, In, InVault
<1> HIDE DEF pc, id
<1>19. \A d \in Callers : CallOK(d)' /\ WorkOK(d)'
  <2>1. \A d \in Callers : WorkOK(d)
    BY DEF IndInv
  <2>2. ASSUME NEW d \in Callers, work[d].pc \in InVault
        PROVE  work[d].vault \in DOMAIN vaults
    BY <2>1, <2>2 DEF WorkOK, HasVault
  <2>3. \A d \in Callers \ {c} :
          Untouched(d) /\ (In(d, "insert") => work[d].id \notin DOMAIN issued')
    BY <1>1, <1>11, <1>12, <2>1, <2>2 DEF WorkOK, Untouched
  <2> QED
    BY <1>13, <1>14, <1>16, <1>18, <2>3, CallersKept
<1>20. \A d \in Callers \ {c} : work[d].pc \in HasVault => work[d].vault \in DOMAIN vaults
  BY DEF IndInv, WorkOK
<1>21. \A d, e \in Callers : d # e => Apart(d, e)'
  <2> SUFFICES ASSUME NEW d \in Callers, NEW e \in Callers, d # e
               PROVE  Apart(d, e)'
    OBVIOUS
  <2>1. Apart(d, e)
    BY DEF IndInv
  <2>2. \A b \in Callers : In(b, "insert") => work[b].id # nextId
    BY <1>4 DEF IndInv, WorkOK
  <2>3. pc = "insert" => id = nextId
    BY DEF pc, id
  <2>4. CASE d = c
    BY <1>4, <1>10, <1>12, <1>20, <2>2, <2>3, <2>4 DEF Apart, In
  <2>5. CASE e = c
    BY <1>4, <1>10, <1>12, <1>20, <2>2, <2>3, <2>5 DEF Apart, In
  <2>6. CASE d # c /\ e # c
    BY <1>12, <2>1, <2>6 DEF Apart, In
  <2> QED
    BY <2>4, <2>5, <2>6
<1>22. ToolsOwn'
  <2>1. Tools \subseteq Callers
    BY DEF Callers
  <2> QED
    BY <1>1, <1>4, <1>10, <1>12, <1>17, <2>1 DEF IndInv, ToolsOwn
<1>23. \A v \in DOMAIN vaults' : VaultOK(v)'
  <2>1. \A t \in Threads : t \in Callers /\ NoCaller # t
    BY DirAssumption DEF Callers
  <2>2. ASSUME NEW v, v = n
        PROVE  VaultOK(v)'
    <3>1. \A t \in Threads : ~(work'[t].vault = v /\ work'[t].pc \in InVault)
      BY <1>4, <1>10, <1>12, <1>15, <1>20, <2>1, <2>2 DEF HasVault
    <3>2. vaults'[v] = r
      BY <1>11, <2>2
    <3> QED
      BY <1>1, <1>3, <1>5, <1>6, <1>8, <2>1, <3>1, <3>2 DEF VaultOK
  <2>3. ASSUME NEW v \in DOMAIN vaults
        PROVE  VaultOK(v)'
    <3>1. Live(v)' => Live(v)
      BY <1>1, <1>4, <1>10, <1>12 DEF Live
    <3>2. \A t \in Threads :
            vaults'[v].mutex = t <=> (work'[t].vault = v /\ work'[t].pc \in InVault)
      <4>1. \A t \in Threads : vaults[v].mutex = t <=> (work[t].vault = v /\ work[t].pc \in InVault)
        BY DEF IndInv, VaultOK
      <4>2. work[c].pc \notin InVault
        BY <1>1 DEF In, InVault
      <4> QED
        BY <1>10, <1>11, <1>12, <1>15, <2>1, <4>1, <4>2
    <3>3. vaults'[v] = vaults[v]
      BY <1>11
    <3> QED
      BY <1>1, <1>14, <3>1, <3>2, <3>3, VaultKept
  <2> QED
    BY <1>11, <2>2, <2>3
<1>24. Registered'
  <2>1. Registered /\ \A t \in Threads : t \in Callers
    BY DEF IndInv, Callers
  <2>2. \A t \in Threads : In(t, "lookup")' <=> In(t, "lookup")
    BY <1>1, <1>10, <1>12, <1>15, <2>1 DEF In
  <2>3. \A i \in DOMAIN issued : i \in 1 .. nextId' - 1 /\ issued[i] \in DOMAIN vaults'
    BY <1>2, <1>4, <1>11, <1>17
  <2> QED
    BY <1>1, <2>1, <2>2, <2>3 DEF Registered
<1>25. Counted'
  <2>1. Opening' = Opening \ {c} /\ c \in Opening
    BY <1>1, <1>10, <1>12, <1>15 DEF Opening, In
  <2>2. Cardinality(Opening') = Cardinality(Opening) - 1
    BY <2>1, OpeningFinite, FS_RemoveElement
  <2>3. nextId' <= n + 1
    BY <1>2, <1>4 DEF IndInv, Counted, n
  <2> QED
    BY <1>4, <1>11, <2>2, <2>3, OpeningFinite, SessionAssumption DEF IndInv, Counted, n
<1>26. DirOK'
  BY <1>1, <1>12, DirKept DEF IndInv, At
<1> QED
  BY <1>13, <1>19, <1>21, <1>22, <1>23, <1>24, <1>25, <1>26 DEF IndInv

-----------------------------------------------------------------------------
(* Calls that change their vault. *)

\* Nobody else is inside the vault of a call.
LEMMA Exclusive ==
  ASSUME IndInv, NEW c \in Callers, work[c].pc \in InVault,
         NEW d \in Callers, d # c, work[d].pc \in InVault
  PROVE  work[d].vault # work[c].vault
<1>1. work[c].pc \in HasVault /\ work[d].pc \in HasVault
  BY DEF HasVault
<1>2. Apart(c, d) /\ Apart(d, c)
  BY DEF IndInv
<1>3. CASE c \in Tools
  BY <1>1, <1>2, <1>3 DEF Apart
<1>4. CASE d \in Tools
  BY <1>1, <1>2, <1>4 DEF Apart
<1>5. CASE c \in Threads /\ d \in Threads
  <2> SUFFICES ASSUME work[d].vault = work[c].vault
               PROVE  FALSE
    OBVIOUS
  <2>1. work[c].vault \in DOMAIN vaults
    BY <1>1 DEF IndInv, WorkOK
  <2>2. VaultOK(work[c].vault)
    BY <2>1 DEF IndInv
  <2>3. vaults[work[c].vault].mutex = c /\ vaults[work[c].vault].mutex = d
    BY <1>5, <2>2 DEF VaultOK
  <2> QED
    BY <2>3
<1> QED
  BY <1>3, <1>4, <1>5 DEF Callers

\* What the vault of c becomes: r, while c gets to w.
Updates(c, w, r) ==
  LET v == work[c].vault
  IN  /\ r.id = vaults[v].id /\ r.whole = vaults[v].whole
      /\ r.files = vaults[v].files \/ work[c].pc \in InVault
      /\ Range(vaults[v].blobs) \subseteq Range(r.blobs) /\ Range(r.blobs) \subseteq DOMAIN blobs
      /\ \A b \in Range(r.blobs) : blobs[b].vault = r.id
      /\ \A f \in r.files : \E b \in Blobs : f \in stored'[b]
      /\ \A f \in Files : r.acked[f] <= 1 /\ (r.acked[f] > 0 => f \in r.files)
      /\ c \in Tools => r.mutex = vaults[v].mutex
      /\ c \in Threads =>
           /\ vaults[v].mutex \in {c, NoCaller}
           /\ r.mutex = IF w.pc \in InVault THEN c ELSE NoCaller

LEMMA VaultUpdated ==
  ASSUME IndInv, NEW c \in Callers, NEW v, v = work[c].vault, v \in DOMAIN vaults,
         NEW w \in WorkType, work' = [work EXCEPT ![c] = w], w.pc \in InVault => w.vault = v,
         NEW r \in VaultType, vaults' = [vaults EXCEPT ![v] = r], Updates(c, w, r), Grows
  PROVE  VaultOK(v)'
<1>1. work'[c] = w /\ \A d \in Callers \ {c} : work'[d] = work[d]
  BY DEF IndInv, Types
<1>2. VaultOK(v) /\ vaults'[v] = r
  BY DEF IndInv
<1>3. /\ \E b \in DOMAIN blobs' : blobs'[b].vault = r.id
      /\ Range(r.blobs) \subseteq DOMAIN blobs'
      /\ \A b \in Range(r.blobs) : blobs'[b].vault = r.id
      /\ r.whole \subseteq Range(r.blobs)
  BY <1>2 DEF VaultOK, Updates, Grows
<1>4. \A t \in Threads : r.mutex = t <=> (work'[t].vault = v /\ work'[t].pc \in InVault)
  <2> SUFFICES ASSUME NEW t \in Threads
               PROVE  r.mutex = t <=> (work'[t].vault = v /\ work'[t].pc \in InVault)
    OBVIOUS
  <2>1. /\ vaults[v].mutex = t <=> (work[t].vault = v /\ work[t].pc \in InVault)
        /\ t \in Callers /\ t # NoCaller /\ t \notin Tools
    BY <1>2, DirAssumption DEF VaultOK, Callers
  <2>2. CASE c \in Tools
    BY <1>1, <2>1, <2>2 DEF Updates
  <2>3. CASE c \in Threads
    <3>1. vaults[v].mutex \in {c, NoCaller} /\ r.mutex = IF w.pc \in InVault THEN c ELSE NoCaller
      BY <2>3 DEF Updates
    <3> QED
      BY <1>1, <2>1, <3>1
  <2> QED
    BY <2>2, <2>3 DEF Callers
<1> QED
  BY <1>2, <1>3, <1>4 DEF VaultOK, Updates

\* What a step of c shows that is about its vault.
LEMMA VaultStep ==
  ASSUME IndInv, NEW c \in Callers, NEW v, v = work[c].vault,
         work[c].pc \in InVault \cup {"mutex"},
         NEW k \in CallType, call' = [call EXCEPT ![c] = k],
         NEW w \in WorkType, work' = [work EXCEPT ![c] = w], w.pc \in InVault \cup {"idle", "ready"},
         w.pc \in HasVault => w.vault = v,
         NEW r \in VaultType, vaults' = [vaults EXCEPT ![v] = r], Updates(c, w, r),
         blobs' \in Seq(BlobType), Len(blobs') = Len(blobs), DOMAIN blobs' = DOMAIN blobs,
         \A b \in DOMAIN blobs :
           /\ blobs'[b].vault = blobs[b].vault /\ blobs'[b].stage = blobs[b].stage
           /\ blobs[b].lock \notin {c, NoCaller} => blobs'[b].lock = blobs[b].lock,
         UNCHANGED <<dir, cut, raced, registry, registryLock, nextId, issued, team>>,
         stored' \in [Blobs -> SUBSET Files], \A b \in Blobs : stored[b] \subseteq stored'[b],
         hung' \subseteq Threads, faults' \in 0 .. MaxFaults,
         ~At(c, "fill"), CallOK(c)', WorkOK(c)'
  PROVE  IndInv'
<1>1. /\ work[c].pc \in HasVault /\ v \in DOMAIN vaults /\ v \in Nat
      /\ work[c].pc \notin {"open", "insert", "lookup", "idle"}
      /\ w.pc \notin {"open", "insert", "lookup", "mutex"}
      /\ "idle" \notin HasVault /\ "ready" \in HasVault /\ InVault \subseteq HasVault
  <2>1. work[c].pc \in HasVault
    BY DEF HasVault
  <2>2. v \in DOMAIN vaults
    BY <2>1 DEF IndInv, WorkOK
  <2> QED
    BY <2>1, <2>2, ElementTypes DEF HasVault, InVault
<1>2. /\ work'[c] = w /\ call'[c] = k
      /\ \A d \in Callers \ {c} : work'[d] = work[d] /\ call'[d] = call[d]
  BY DEF IndInv, Types
<1>3. /\ vaults' \in Seq(VaultType) /\ Len(vaults') = Len(vaults) /\ DOMAIN vaults' = DOMAIN vaults
      /\ vaults'[v] = r /\ \A u \in DOMAIN vaults \ {v} : vaults'[u] = vaults[u]
  <2>1. vaults \in Seq(VaultType) /\ v \in 1 .. Len(vaults)
    BY <1>1, LenProperties DEF IndInv, Types
  <2>2. vaults' \in Seq(VaultType) /\ Len(vaults') = Len(vaults)
    BY <2>1, ExceptSeq
  <2> QED
    BY <1>1, <2>2
<1>4. Grows /\ NumbersStay
  BY <1>3 DEF Grows, NumbersStay, Updates, IndInv, Types
<1>5. Types'
  <2>1. work' \in [Callers -> WorkType] /\ call' \in [Callers -> CallType]
    BY DEF IndInv, Types
  <2> QED
    BY <1>3, <2>1 DEF IndInv, Types
<1>6. \A d \in Callers : CallOK(d)' /\ WorkOK(d)'
  <2> SUFFICES ASSUME NEW d \in Callers \ {c}
               PROVE  Untouched(d) /\ (In(d, "insert") => work[d].id \notin DOMAIN issued')
    BY <1>4, <1>5, CallersKept
  <2>1. d # NoCaller
    BY DirAssumption DEF Callers
  <2>2. ASSUME work[d].pc \in InVault
        PROVE  vaults'[work[d].vault].files = vaults[work[d].vault].files
    <3>1. work[d].vault \in DOMAIN vaults
      BY <1>1, <2>2 DEF IndInv, WorkOK
    <3>2. CASE work[d].vault # v
      BY <1>3, <3>1, <3>2
    <3>3. CASE work[d].vault = v
      BY <1>3, <2>2, <3>3, Exclusive DEF Updates
    <3> QED
      BY <3>2, <3>3
  <2> QED
    BY <1>2, <2>1, <2>2 DEF Untouched, IndInv, WorkOK
<1>7. (\A d, e \in Callers : d # e => Apart(d, e)') /\ ToolsOwn'
  BY <1>1, <1>2, ApartKept
<1>8. \A u \in DOMAIN vaults' : VaultOK(u)'
  <2> SUFFICES ASSUME NEW u \in DOMAIN vaults
               PROVE  VaultOK(u)'
    BY <1>3
  <2>1. CASE u = v
    BY <1>1, <1>4, <2>1, VaultUpdated
  <2>2. CASE u # v
    <3>1. Live(u)' => Live(u)
      BY <1>1, <1>2, <2>2 DEF Live
    <3>2. \A t \in Threads :
            vaults'[u].mutex = t <=> (work'[t].vault = u /\ work'[t].pc \in InVault)
      <4>1. VaultOK(u) /\ vaults'[u] = vaults[u] /\ \A t \in Threads : t \in Callers
        BY <1>3, <2>2 DEF IndInv, Callers
      <4> QED
        BY <1>1, <1>2, <2>2, <4>1 DEF VaultOK
    <3>3. vaults'[u] = vaults[u]
      BY <1>3, <2>2
    <3> QED
      BY <1>4, <3>1, <3>2, <3>3, VaultKept
  <2> QED
    BY <2>1, <2>2
<1>9. Registered'
  BY <1>1, <1>2, <1>3 DEF IndInv, Registered, In, Callers
<1>10. Counted'
  <2>1. \A d \in Callers : In(d, "open")' => In(d, "open")
    BY <1>1, <1>2 DEF In
  <2> QED
    BY <1>3, <2>1, CountedKept DEF IndInv
<1>11. DirOK'
  BY <1>2, DirKept DEF IndInv, At
<1> QED
  BY <1>5, <1>6, <1>7, <1>8, <1>9, <1>10, <1>11 DEF IndInv

\* A call that has its vault.
LEMMA Inside ==
  ASSUME IndInv, NEW c \in Callers, NEW v, v = work[c].vault, work[c].pc \in InVault \cup {"mutex"}
  PROVE  /\ v \in DOMAIN vaults /\ v \in Nat /\ vaults[v] \in VaultType /\ VaultOK(v) /\ Live(v)
         /\ work[c] \in WorkType /\ work[c].file \in Files /\ work[c].pc \in HasVault
         /\ work[c].pc \in InVault => work[c].file \notin vaults[v].files
         /\ c \in Threads /\ work[c].pc \in InVault => vaults[v].mutex = c
         /\ c \in Tools => vaults[v].mutex # c
         /\ c # NoCaller /\ (c \in Tools <=> c \notin Threads)
<1>1. work[c].pc \in HasVault /\ work[c] \in WorkType
  BY ElementTypes DEF HasVault
<1>2. v \in DOMAIN vaults /\ VaultOK(v) /\ v \in Nat /\ vaults[v] \in VaultType
  BY <1>1, ElementTypes DEF IndInv, WorkOK
<1>3. work[c].file \in Files /\ (work[c].pc \in InVault => work[c].file \notin vaults[v].files)
  BY DEF IndInv, WorkOK
<1>4. Live(v)
  BY <1>1 DEF Live
<1>5. c # NoCaller /\ (c \in Tools <=> c \notin Threads)
  BY DirAssumption DEF Callers
<1>6. c \in Threads /\ work[c].pc \in InVault => vaults[v].mutex = c
  BY <1>2 DEF VaultOK
<1>7. c \in Tools => vaults[v].mutex # c
  BY <1>2, <1>5 DEF VaultType
<1> QED
  BY <1>1, <1>2, <1>3, <1>4, <1>5, <1>6, <1>7

\* What the vault of a call is, once the call has let go of it.
LetGo(c) ==
  IF Mine(c).mutex = c THEN [Mine(c) EXCEPT !.mutex = NoCaller] ELSE Mine(c)

LEMMA LetGoFacts ==
  ASSUME IndInv, NEW c \in Callers, work[c].pc \in InVault, NEW w, w.pc \notin InVault,
         \A b \in Blobs : stored[b] \subseteq stored'[b]
  PROVE  /\ LetGo(c) \in VaultType /\ Updates(c, w, LetGo(c))
         /\ Unlocked(c) = [vaults EXCEPT ![work[c].vault] = LetGo(c)]
         /\ LetGo(c).files = Mine(c).files /\ LetGo(c).acked = Mine(c).acked
         /\ LetGo(c).blobs = Mine(c).blobs
         /\ c \in Threads => LetGo(c).mutex = NoCaller
         /\ c \in Tools => LetGo(c).mutex = Mine(c).mutex
<1> DEFINE v == work[c].vault
           r == LetGo(c)
<1>1. /\ v \in DOMAIN vaults /\ vaults[v] \in VaultType /\ VaultOK(v) /\ Live(v)
      /\ c \in Threads => vaults[v].mutex = c
      /\ c \in Tools => vaults[v].mutex # c
      /\ c \in Tools <=> c \notin Threads
  BY Inside
<1>2. r \in VaultType /\ r.id = vaults[v].id /\ r.whole = vaults[v].whole /\ r.files = vaults[v].files
      /\ r.acked = vaults[v].acked /\ r.blobs = vaults[v].blobs
  BY <1>1 DEF LetGo, VaultType, Mine
<1>3. /\ c \in Threads => r.mutex = NoCaller
      /\ c \in Tools => r.mutex = vaults[v].mutex
  BY <1>1 DEF LetGo, Mine, VaultType
<1>4. Unlocked(c) = [vaults EXCEPT ![v] = r]
  <2>1. CASE Mine(c).mutex = c
    BY <2>1 DEF Unlocked, LetGo, Mine
  <2>2. CASE Mine(c).mutex # c
    <3>1. vaults = [vaults EXCEPT ![v] = vaults[v]]
      BY <1>1 DEF IndInv, Types
    <3>2. Unlocked(c) = vaults /\ r = vaults[v]
      BY <2>2 DEF Unlocked, LetGo, Mine
    <3> QED
      BY <3>1, <3>2
  <2> QED
    BY <2>1, <2>2
<1> HIDE DEF r
<1>5. Updates(c, w, r)
  BY <1>1, <1>2, <1>3 DEF Updates, VaultOK
<1> QED
  BY <1>2, <1>3, <1>4, <1>5 DEF Mine, r

\* A call that stays inside, with its vault as it was.
LEMMA SameVault ==
  ASSUME IndInv, NEW c \in Callers, work[c].pc \in InVault, NEW w, w.pc \in InVault,
         \A b \in Blobs : stored[b] \subseteq stored'[b]
  PROVE  /\ Mine(c) \in VaultType /\ Updates(c, w, Mine(c))
         /\ vaults = [vaults EXCEPT ![work[c].vault] = Mine(c)]
<1> DEFINE v == work[c].vault
<1>1. /\ v \in DOMAIN vaults /\ vaults[v] \in VaultType /\ VaultOK(v) /\ Live(v)
      /\ c \in Threads => vaults[v].mutex = c
      /\ c \in Tools <=> c \notin Threads
  BY Inside
<1>2. vaults = [vaults EXCEPT ![v] = vaults[v]]
  BY <1>1 DEF IndInv, Types
<1> QED
  BY <1>1, <1>2 DEF Updates, VaultOK, Mine

LEMMA ReturnFacts ==
  ASSUME IndInv, NEW c \in Callers, NEW ok \in BOOLEAN, work[c].pc \in InVault, Return(c, ok),
         DOMAIN vaults' = DOMAIN vaults
  PROVE  \E w \in WorkType :
           /\ work' = [work EXCEPT ![c] = w] /\ w.pc \in {"idle", "ready"}
           /\ w.pc \in HasVault => w.vault = work[c].vault
           /\ WorkOK(c)'
<1>1. work[c].vault \in DOMAIN vaults /\ work[c].vault \in Nat
  BY Inside
<1>2. {"idle", "open", "insert", "lookup", "mutex"} \cap InVault = {}
  BY DEF InVault
<1>3. CASE c \in Tools /\ ok
  <2> DEFINE w == [Idle EXCEPT !.pc = "ready", !.vault = work[c].vault]
  <2>1. work' = [work EXCEPT ![c] = w]
    BY <1>3 DEF Return
  <2>2. w \in WorkType /\ w.pc = "ready" /\ w.vault = work[c].vault
    BY <1>1, IdleFacts DEF WorkType, HasVault
  <2> HIDE DEF w
  <2>3. work'[c] = w
    BY <2>1 DEF IndInv, Types
  <2>4. WorkOK(c)'
    BY <1>1, <1>3, <2>2, <2>3 DEF WorkOK, In, InVault, HasVault
  <2> QED
    BY <2>1, <2>2, <2>4
<1>4. CASE ~(c \in Tools /\ ok)
  <2>1. work' = [work EXCEPT ![c] = Idle]
    BY <1>4 DEF Return
  <2>2. work'[c] = Idle
    BY <2>1 DEF IndInv, Types
  <2>3. WorkOK(c)'
    BY <2>2, IdleFacts DEF WorkOK, In
  <2> QED
    BY <2>1, <2>3, IdleFacts
<1> QED
  BY <1>3, <1>4

\* A call that returns an error from inside its vault.
LEMMA EndCall ==
  ASSUME IndInv, NEW c \in Callers, work[c].pc \in InVault,
         NEW k \in CallType, call' = [call EXCEPT ![c] = k],
         vaults' = Unlocked(c), Return(c, FALSE),
         blobs' \in Seq(BlobType), Len(blobs') = Len(blobs), DOMAIN blobs' = DOMAIN blobs,
         \A b \in DOMAIN blobs :
           /\ blobs'[b].vault = blobs[b].vault /\ blobs'[b].stage = blobs[b].stage
           /\ blobs[b].lock \notin {c, NoCaller} => blobs'[b].lock = blobs[b].lock,
         UNCHANGED <<dir, cut, raced, registry, registryLock, nextId, issued, team>>,
         stored' \in [Blobs -> SUBSET Files], \A b \in Blobs : stored[b] \subseteq stored'[b],
         hung' \subseteq Threads, faults' \in 0 .. MaxFaults,
         ~At(c, "fill"), k = NoCall \/ (k = call[c] /\ At(c, "none"))
  PROVE  IndInv'
<1>1. Unlocked(c) = [vaults EXCEPT ![work[c].vault] = LetGo(c)] /\ DOMAIN vaults' = DOMAIN vaults
  <2>1. Idle.pc \notin InVault
    BY IdleFacts
  <2>2. Unlocked(c) = [vaults EXCEPT ![work[c].vault] = LetGo(c)]
    BY <2>1, LetGoFacts
  <2> QED
    BY <2>2
<1>2. PICK w \in WorkType :
        /\ work' = [work EXCEPT ![c] = w] /\ w.pc \in {"idle", "ready"}
        /\ w.pc \in HasVault => w.vault = work[c].vault
        /\ WorkOK(c)'
  BY <1>1, ReturnFacts
<1>3. w.pc \notin InVault
  BY <1>2 DEF InVault
<1>4. LetGo(c) \in VaultType /\ Updates(c, w, LetGo(c))
  BY <1>3, LetGoFacts
<1>5. CallOK(c)'
  <2>1. work'[c] = w /\ call'[c] = k
    BY <1>2 DEF IndInv, Types
  <2>2. Range(<<>>) = {} /\ CallOK(c)
    BY DEF Range, IndInv
  <2> QED
    BY <1>2, <2>1, <2>2, NoCallFacts DEF CallOK, At, In
<1> QED
  BY <1>1, <1>2, <1>4, <1>5, VaultStep

LEMMA LockVaultStep ==
  ASSUME IndInv, NEW c \in Callers, LockVault(c), UNCHANGED team
  PROVE  IndInv'
<1> DEFINE v == work[c].vault
           w == [work[c] EXCEPT !.pc = "body"]
           r == [vaults[v] EXCEPT !.mutex = c]
<1>1. /\ In(c, "mutex") /\ vaults[v].mutex = NoCaller /\ work[c].file \notin vaults[v].files
      /\ vaults' = [vaults EXCEPT ![v] = r] /\ work' = [work EXCEPT ![c] = w]
      /\ UNCHANGED <<blobs, dir, call, cut, raced, stored, registry, registryLock, nextId, issued,
                     hung, faults>>
  BY DEF LockVault, Refused, Mine, Goto, dirvars, hostvars, diskvars
<1>2. /\ v \in DOMAIN vaults /\ v \in Nat /\ vaults[v] \in VaultType /\ VaultOK(v) /\ Live(v)
      /\ work[c] \in WorkType /\ work[c].file \in Files /\ work[c].pc \in HasVault
      /\ c # NoCaller /\ (c \in Tools <=> c \notin Threads)
  BY <1>1, Inside DEF In
<1>3. c \in Threads /\ c \notin Tools
  BY <1>1, <1>2 DEF IndInv, WorkOK, In
<1>4. /\ w \in WorkType /\ w.pc = "body" /\ w.vault = v /\ w.file = work[c].file /\ w.id = work[c].id
  BY <1>2 DEF WorkType, HasVault, InVault
<1>5. /\ r \in VaultType /\ r.id = vaults[v].id /\ r.blobs = vaults[v].blobs /\ r.mutex = c
      /\ r.files = vaults[v].files /\ r.whole = vaults[v].whole /\ r.acked = vaults[v].acked
  BY <1>2, <1>3 DEF VaultType
<1>6. "body" \in InVault /\ "mutex" \notin InVault /\ "body" \in HasVault
  BY DEF InVault, HasVault
<1> HIDE DEF w, r
<1>7. Updates(c, w, r)
  BY <1>1, <1>2, <1>3, <1>4, <1>5, <1>6 DEF Updates, VaultOK
<1>8. work'[c] = w /\ vaults'[v] = r /\ DOMAIN vaults' = DOMAIN vaults
  BY <1>1, <1>2 DEF IndInv, Types
<1>9. CallOK(c)'
  <2>1. CallOK(c) /\ ~In(c, "append") /\ ~In(c, "open")
    BY <1>1 DEF IndInv, In
  <2> QED
    BY <1>1, <1>4, <1>8, <2>1 DEF CallOK, At, In
<1>10. WorkOK(c)'
  <2>1. work[c].id \in DOMAIN issued /\ issued[work[c].id] = v
    BY <1>1, <1>3 DEF IndInv, WorkOK, In
  <2> QED
    BY <1>1, <1>2, <1>3, <1>4, <1>5, <1>6, <1>8, <2>1 DEF WorkOK, In
<1>11. call' = [call EXCEPT ![c] = call[c]] /\ call[c] \in CallType /\ ~At(c, "fill")
  BY <1>1, ElementTypes DEF IndInv, Types, CallOK, In, At
<1>12. /\ blobs' \in Seq(BlobType) /\ stored' \in [Blobs -> SUBSET Files]
       /\ hung' \subseteq Threads /\ faults' \in 0 .. MaxFaults
  BY <1>1 DEF IndInv, Types
<1>13. work[c].pc \in InVault \cup {"mutex"} /\ w.pc \in InVault \cup {"idle", "ready"}
  BY <1>1, <1>4, <1>6 DEF In
<1> QED
  BY <1>1, <1>4, <1>5, <1>7, <1>9, <1>10, <1>11, <1>12, <1>13, VaultStep

LEMMA AppendFailsStep ==
  ASSUME IndInv, NEW c \in Callers, AppendFails(c), UNCHANGED team
  PROVE  IndInv'
<1>1. /\ In(c, "append") /\ At(c, "failed") /\ vaults' = Unlocked(c) /\ Return(c, FALSE)
      /\ call' = [call EXCEPT ![c] = NoCall]
      /\ UNCHANGED <<blobs, dir, cut, raced, stored, registry, registryLock, nextId, issued,
                     hung, faults>>
  BY DEF AppendFails, hostvars, diskvars
<1>2. /\ blobs' \in Seq(BlobType) /\ stored' \in [Blobs -> SUBSET Files]
      /\ hung' \subseteq Threads /\ faults' \in 0 .. MaxFaults
  BY <1>1 DEF IndInv, Types
<1>3. work[c].pc \in InVault /\ ~At(c, "fill")
  BY <1>1 DEF In, InVault, At
<1> QED
  BY <1>1, <1>2, <1>3, NoCallFacts, EndCall

LEMMA RefuseWriteStep ==
  ASSUME IndInv, NEW c \in Callers, RefuseWrite(c), UNCHANGED team
  PROVE  IndInv'
<1>1. /\ In(c, "write") /\ vaults' = Unlocked(c) /\ Return(c, FALSE) /\ blobs' = Released({c})
      /\ UNCHANGED <<call, dir, cut, raced, stored, registry, registryLock, nextId, issued, hung,
                     faults>>
  BY DEF RefuseWrite, hostvars, diskvars
<1>2. /\ stored' \in [Blobs -> SUBSET Files]
      /\ hung' \subseteq Threads /\ faults' \in 0 .. MaxFaults
  BY <1>1 DEF IndInv, Types
<1>3. work[c].pc \in InVault /\ At(c, "none") /\ ~At(c, "fill")
  BY <1>1 DEF IndInv, CallOK, In, InVault, At
<1>4. call' = [call EXCEPT ![c] = call[c]] /\ call[c] \in CallType
  BY <1>1, ElementTypes DEF IndInv, Types
<1>5. /\ blobs' \in Seq(BlobType) /\ Len(blobs') = Len(blobs) /\ DOMAIN blobs' = DOMAIN blobs
      /\ \A b \in DOMAIN blobs :
           /\ blobs'[b].vault = blobs[b].vault /\ blobs'[b].stage = blobs[b].stage
           /\ blobs[b].lock \notin {c} => blobs'[b].lock = blobs[b].lock
  <2>1. blobs' = Released({c})
    BY <1>1
  <2> HIDE <1>1
  <2> QED
    BY <2>1, ReleasedFacts, Zenon
<1>6. \A b \in DOMAIN blobs :
        /\ blobs'[b].vault = blobs[b].vault /\ blobs'[b].stage = blobs[b].stage
        /\ blobs[b].lock \notin {c, NoCaller} => blobs'[b].lock = blobs[b].lock
  BY <1>5
<1> QED
  BY <1>1, <1>2, <1>3, <1>4, <1>5, <1>6, EndCall

\* A write that is cut short.
LEMMA MaybeStoredFacts ==
  ASSUME IndInv, NEW cs \in SUBSET Callers, MaybeStored(cs)
  PROVE  /\ stored' \in [Blobs -> SUBSET Files] /\ \A b \in Blobs : stored[b] \subseteq stored'[b]
<1>1. PICK done \in SUBSET {c \in cs : In(c, "write") /\ work[c].blob \in Whole} :
        stored' = [b \in Blobs |-> stored[b] \cup {work[c].file : c \in {d \in done : work[d].blob = b}}]
  BY DEF MaybeStored
<1>2. \A c \in done : work[c].file \in Files
  BY DEF IndInv, WorkOK, In, InVault
<1>3. ASSUME NEW b \in Blobs
      PROVE  stored[b] \subseteq stored'[b] /\ stored'[b] \subseteq Files
  <2>1. stored'[b] = stored[b] \cup {work[c].file : c \in {d \in done : work[d].blob = b}}
    BY <1>1
  <2>2. stored[b] \subseteq Files
    BY DEF IndInv, Types
  <2> QED
    BY <1>2, <2>1, <2>2
<1>4. stored' = [b \in Blobs |-> stored'[b]]
  BY <1>1
<1> QED
  BY <1>3, <1>4

LEMMA FaultFacts ==
  ASSUME IndInv, Fault
  PROVE  faults' \in 0 .. MaxFaults
BY SessionAssumption DEF Fault, IndInv, Types

LEMMA FailWriteStep ==
  ASSUME IndInv, NEW c \in Callers, FailWrite(c), UNCHANGED team
  PROVE  IndInv'
<1>1. /\ In(c, "write") /\ vaults' = Unlocked(c) /\ Return(c, FALSE) /\ blobs' = Released({c})
      /\ MaybeStored({c}) /\ Fault
      /\ UNCHANGED <<call, dir, cut, raced, registry, registryLock, nextId, issued, hung>>
  BY DEF FailWrite, hostvars
<1>2. /\ stored' \in [Blobs -> SUBSET Files] /\ \A b \in Blobs : stored[b] \subseteq stored'[b]
      /\ hung' \subseteq Threads /\ faults' \in 0 .. MaxFaults
  <2>1. {c} \in SUBSET Callers
    OBVIOUS
  <2>2. stored' \in [Blobs -> SUBSET Files] /\ \A b \in Blobs : stored[b] \subseteq stored'[b]
    BY <1>1, <2>1, MaybeStoredFacts
  <2> QED
    BY <1>1, <2>2, FaultFacts DEF IndInv, Types
<1>3. work[c].pc \in InVault /\ At(c, "none") /\ ~At(c, "fill")
  BY <1>1 DEF IndInv, CallOK, In, InVault, At
<1>4. call' = [call EXCEPT ![c] = call[c]] /\ call[c] \in CallType
  BY <1>1, ElementTypes DEF IndInv, Types
<1>5. /\ blobs' \in Seq(BlobType) /\ Len(blobs') = Len(blobs) /\ DOMAIN blobs' = DOMAIN blobs
      /\ \A b \in DOMAIN blobs :
           /\ blobs'[b].vault = blobs[b].vault /\ blobs'[b].stage = blobs[b].stage
           /\ blobs[b].lock \notin {c} => blobs'[b].lock = blobs[b].lock
  <2>1. blobs' = Released({c})
    BY <1>1
  <2> HIDE <1>1
  <2> QED
    BY <2>1, ReleasedFacts, Zenon
<1>6. \A b \in DOMAIN blobs :
        /\ blobs'[b].vault = blobs[b].vault /\ blobs'[b].stage = blobs[b].stage
        /\ blobs[b].lock \notin {c, NoCaller} => blobs'[b].lock = blobs[b].lock
  BY <1>5
<1> QED
  BY <1>1, <1>2, <1>3, <1>4, <1>5, <1>6, EndCall

\* A call that moves on inside its vault, and changes nothing of it.
LEMMA InsideStep ==
  ASSUME IndInv, NEW c \in Callers, work[c].pc \in InVault, UNCHANGED vaults,
         NEW k \in CallType, call' = [call EXCEPT ![c] = k],
         NEW w \in WorkType, work' = [work EXCEPT ![c] = w], w.pc \in InVault,
         w.vault = work[c].vault, w.file = work[c].file, w.id = work[c].id,
         blobs' \in Seq(BlobType), Len(blobs') = Len(blobs), DOMAIN blobs' = DOMAIN blobs,
         \A b \in DOMAIN blobs :
           /\ blobs'[b].vault = blobs[b].vault /\ blobs'[b].stage = blobs[b].stage
           /\ blobs[b].lock \notin {c, NoCaller} => blobs'[b].lock = blobs[b].lock,
         UNCHANGED <<dir, cut, raced, stored, registry, registryLock, nextId, issued, team, hung,
                     faults>>,
         w.pc \in {"lock", "write"} => w.blob \in DOMAIN blobs,
         w.pc = "write" => blobs'[w.blob].lock = c,
         ~At(c, "fill"), CallOK(c)'
  PROVE  IndInv'
<1>1. /\ Mine(c) \in VaultType /\ Updates(c, w, Mine(c))
      /\ vaults' = [vaults EXCEPT ![work[c].vault] = Mine(c)]
  BY SameVault DEF IndInv, Types
<1>2. work'[c] = w
  BY DEF IndInv, Types
<1>3. /\ w.pc \in HasVault /\ work[c].pc \in HasVault
      /\ w.pc \notin {"idle", "open", "insert", "lookup", "mutex", "ready"}
  BY DEF HasVault, InVault
<1>4. WorkOK(c)'
  <2>1. /\ work[c].vault \in DOMAIN vaults /\ work[c].file \in Files
        /\ work[c].file \notin vaults[work[c].vault].files
        /\ c \in Threads => work[c].id \in DOMAIN issued /\ issued[work[c].id] = work[c].vault
    BY <1>3 DEF IndInv, WorkOK
  <2> QED
    BY <1>2, <1>3, <2>1 DEF WorkOK, In
<1>5. /\ stored' \in [Blobs -> SUBSET Files]
      /\ hung' \subseteq Threads /\ faults' \in 0 .. MaxFaults
      /\ \A b \in Blobs : stored[b] \subseteq stored'[b]
  BY DEF IndInv, Types
<1> QED
  BY <1>1, <1>3, <1>4, <1>5, VaultStep

LEMMA PlanPutStep ==
  ASSUME IndInv, NEW c \in Callers, PlanPut(c), UNCHANGED team
  PROVE  IndInv'
<1>1. /\ In(c, "body") /\ work[c].pc \in InVault
      /\ UNCHANGED <<blobs, dir, cut, raced, stored, registry, registryLock, nextId, issued, vaults,
                     hung, faults>>
  BY DEF PlanPut, hostvars, diskvars, In, InVault
<1>2. /\ CallOK(c) /\ At(c, "none") /\ ~At(c, "fill") /\ work[c] \in WorkType
      /\ call[c] \in CallType
  BY <1>1, ElementTypes DEF IndInv, CallOK, In, At
<1>3. work[c].vault \in DOMAIN vaults /\ Mine(c) \in VaultType /\ VaultOK(work[c].vault)
  BY <1>1, Inside DEF Mine
<1>4. blobs' \in Seq(BlobType)
  BY <1>1 DEF IndInv, Types
<1>5. ASSUME NEW b \in Range(Mine(c).blobs), work' = [work EXCEPT ![c].pc = "lock", ![c].blob = b],
             UNCHANGED call
      PROVE  IndInv'
  <2> DEFINE w == [work[c] EXCEPT !.pc = "lock", !.blob = b]
  <2>1. work' = [work EXCEPT ![c] = w]
    BY <1>5 DEF IndInv, Types
  <2>2. b \in DOMAIN blobs /\ b \in Nat
    BY <1>3, ElementTypes DEF VaultOK, Mine
  <2>3. /\ w \in WorkType /\ w.pc = "lock" /\ w.blob = b /\ w.vault = work[c].vault
        /\ w.file = work[c].file /\ w.id = work[c].id
    BY <1>2, <2>2 DEF WorkType, HasVault, InVault
  <2> HIDE DEF w
  <2>4. work'[c] = w /\ call' = [call EXCEPT ![c] = call[c]]
    BY <1>5, <2>1 DEF IndInv, Types
  <2>5. CallOK(c)'
    BY <1>1, <1>2, <1>5, <2>3, <2>4 DEF CallOK, At, In
  <2>6. w.pc \in InVault
    BY <2>3 DEF InVault
  <2> QED
    BY <1>1, <1>2, <1>4, <2>1, <2>2, <2>3, <2>4, <2>5, <2>6, InsideStep
<1>6. ASSUME work' = Goto(c, "append"),
             call' = [call EXCEPT ![c] = [NoCall EXCEPT !.op = "create", !.vault = Mine(c).id]]
      PROVE  IndInv'
  <2> DEFINE w == [work[c] EXCEPT !.pc = "append"]
             m == Mine(c).id
             k == [NoCall EXCEPT !.op = "create", !.vault = m]
  <2>1. work' = [work EXCEPT ![c] = w] /\ call' = [call EXCEPT ![c] = k]
    BY <1>6 DEF Goto
  <2>2. m \in Nat
    BY <1>3 DEF VaultType
  <2>3. k \in CallType /\ k.op = "create" /\ k.vault = m
    <3> HIDE DEF m
    <3> QED
      BY <2>2, NoCallFacts DEF CallType
  <2>4. k.new = 0 /\ k.paths = <<>> /\ k.found = <<>> /\ k.whole = {}
    BY NoCallFacts DEF CallType
  <2>5. /\ w \in WorkType /\ w.pc = "append" /\ w.vault = work[c].vault
        /\ w.file = work[c].file /\ w.id = work[c].id
    BY <1>2 DEF WorkType, HasVault, InVault
  <2> HIDE DEF w, k
  <2>6. work'[c] = w /\ call'[c] = k
    BY <2>1 DEF IndInv, Types
  <2>7. CallOK(c)'
    <3>1. Range(<<>>) = {}
      BY DEF Range
    <3> QED
      BY <1>1, <2>3, <2>4, <2>5, <2>6, <3>1 DEF CallOK, At, In, Mine
  <2>8. w.pc \in InVault
    BY <2>5 DEF InVault
  <2> QED
    BY <1>1, <1>2, <1>4, <2>1, <2>3, <2>5, <2>7, <2>8, InsideStep
<1> QED
  BY <1>5, <1>6 DEF PlanPut

LEMMA LockBlobStep ==
  ASSUME IndInv, NEW c \in Callers, LockBlob(c), UNCHANGED team
  PROVE  IndInv'
<1> DEFINE b == work[c].blob
           q == [blobs[b] EXCEPT !.lock = c]
           w == [work[c] EXCEPT !.pc = "write"]
<1>1. /\ In(c, "lock") /\ work[c].pc \in InVault /\ blobs[b].lock = NoCaller
      /\ blobs' = [blobs EXCEPT ![b] = q] /\ work' = [work EXCEPT ![c] = w]
      /\ UNCHANGED <<call, dir, cut, raced, stored, registry, registryLock, nextId, issued, vaults,
                     hung, faults>>
  BY DEF LockBlob, Goto, hostvars, diskvars, In, InVault
<1>2. /\ CallOK(c) /\ At(c, "none") /\ ~At(c, "fill") /\ work[c] \in WorkType
      /\ call[c] \in CallType
  BY <1>1, ElementTypes DEF IndInv, CallOK, In, At
<1>3. b \in DOMAIN blobs /\ blobs[b] \in BlobType
  BY <1>1, ElementTypes DEF IndInv, WorkOK, In
<1>4. q \in BlobType /\ q.vault = blobs[b].vault /\ q.stage = blobs[b].stage /\ q.lock = c
  BY <1>3 DEF BlobType
<1>5. /\ w \in WorkType /\ w.pc = "write" /\ w.blob = b /\ w.vault = work[c].vault
      /\ w.file = work[c].file /\ w.id = work[c].id
  BY <1>2 DEF WorkType, HasVault, InVault
<1> HIDE DEF w, q
<1>6. /\ blobs' \in Seq(BlobType) /\ Len(blobs') = Len(blobs) /\ DOMAIN blobs' = DOMAIN blobs
      /\ blobs'[b] = q /\ \A d \in DOMAIN blobs \ {b} : blobs'[d] = blobs[d]
  <2>1. blobs \in Seq(BlobType) /\ b \in 1 .. Len(blobs)
    BY <1>3, LenProperties DEF IndInv, Types
  <2>2. blobs' \in Seq(BlobType) /\ Len(blobs') = Len(blobs)
    BY <1>1, <1>4, <2>1, ExceptSeq
  <2> QED
    BY <1>1, <1>3, <2>2
<1>7. \A d \in DOMAIN blobs :
        /\ blobs'[d].vault = blobs[d].vault /\ blobs'[d].stage = blobs[d].stage
        /\ blobs[d].lock \notin {c, NoCaller} => blobs'[d].lock = blobs[d].lock
  <2> HIDE DEF b
  <2> QED
    BY <1>1, <1>4, <1>6
<1>8. work'[c] = w /\ call' = [call EXCEPT ![c] = call[c]]
  BY <1>1 DEF IndInv, Types
<1>9. CallOK(c)'
  BY <1>1, <1>2, <1>5, <1>6, <1>8 DEF CallOK, At, In
<1>10. w.pc \in InVault
  BY <1>5 DEF InVault
<1> QED
  BY <1>1, <1>2, <1>3, <1>4, <1>5, <1>6, <1>7, <1>8, <1>9, <1>10, InsideStep, ZenonT(60)

LEMMA AppendBlobStep ==
  ASSUME IndInv, NEW c \in Callers, AppendBlob(c), UNCHANGED team
  PROVE  IndInv'
<1> DEFINE v == work[c].vault
           e == call[c].found[1]
           s == vaults[v].blobs
           r == [vaults[v] EXCEPT !.blobs = Append(s, e)]
           w == [work[c] EXCEPT !.pc = "body"]
<1>1. /\ In(c, "append") /\ work[c].pc \in InVault /\ OpenVault(c) /\ At(c, "load")
      /\ vaults' = [vaults EXCEPT ![v] = r] /\ work' = [work EXCEPT ![c] = w]
      /\ call' = [call EXCEPT ![c] = NoCall]
      /\ UNCHANGED <<blobs, dir, cut, raced, stored, registry, registryLock, nextId, issued, hung,
                     faults>>
  BY DEF AppendBlob, OpenVault, Appended, Mine, Goto, hostvars, diskvars, In, InVault
<1>2. /\ v \in DOMAIN vaults /\ v \in Nat /\ vaults[v] \in VaultType /\ VaultOK(v) /\ Live(v)
      /\ work[c] \in WorkType /\ work[c].file \in Files /\ work[c].pc \in HasVault
      /\ work[c].file \notin vaults[v].files
      /\ c \in Threads => vaults[v].mutex = c
      /\ c # NoCaller /\ (c \in Tools <=> c \notin Threads)
  BY <1>1, Inside
<1>3. e \in DOMAIN blobs /\ blobs[e].vault = vaults[v].id /\ e \in Blobs
  <2>1. e \in Range(call[c].found) /\ Range(call[c].found) \subseteq DOMAIN blobs
        /\ \A b \in Range(call[c].found) : blobs[b].vault = call[c].vault
    BY <1>1, LoadedFacts
  <2>2. call[c].vault = vaults[v].id
    BY <1>1 DEF IndInv, CallOK, At, In
  <2> QED
    BY <2>1, <2>2, ElementTypes
<1>4. s \in Seq(Blobs)
  BY <1>2 DEF VaultType
<1>5. Append(s, e) \in Seq(Blobs) /\ Range(Append(s, e)) = Range(s) \cup {e}
  <2> HIDE DEF s, e
  <2> QED
    BY <1>3, <1>4, AppendProperties, AppendRange
<1>6. /\ r \in VaultType /\ r.id = vaults[v].id /\ r.blobs = Append(s, e)
      /\ r.mutex = vaults[v].mutex
      /\ r.files = vaults[v].files /\ r.whole = vaults[v].whole /\ r.acked = vaults[v].acked
  <2> HIDE DEF s, e
  <2> QED
    BY <1>2, <1>5 DEF VaultType
<1>7. /\ w \in WorkType /\ w.pc = "body" /\ w.vault = v /\ w.file = work[c].file /\ w.id = work[c].id
  BY <1>2 DEF WorkType, HasVault, InVault
<1>8. "body" \in InVault /\ "body" \in HasVault
  BY DEF InVault, HasVault
<1> HIDE DEF w, r, e
<1>9. Updates(c, w, r)
  BY <1>1, <1>2, <1>3, <1>5, <1>6, <1>7, <1>8 DEF Updates, VaultOK
<1>10. work'[c] = w /\ vaults'[v] = r /\ DOMAIN vaults' = DOMAIN vaults /\ call'[c] = NoCall
  BY <1>1, <1>2 DEF IndInv, Types
<1>11. CallOK(c)'
  <2>1. Range(<<>>) = {}
    BY DEF Range
  <2> QED
    BY <1>7, <1>10, <2>1, NoCallFacts DEF CallOK, At, In
<1>12. WorkOK(c)'
  <2>1. c \in Threads => work[c].id \in DOMAIN issued /\ issued[work[c].id] = v
    BY <1>1, <1>2 DEF IndInv, WorkOK, In
  <2> QED
    BY <1>1, <1>2, <1>6, <1>7, <1>8, <1>10, <2>1 DEF WorkOK, In
<1>13. /\ blobs' \in Seq(BlobType) /\ stored' \in [Blobs -> SUBSET Files]
       /\ hung' \subseteq Threads /\ faults' \in 0 .. MaxFaults
  BY <1>1 DEF IndInv, Types
<1> QED
  BY <1>1, <1>6, <1>7, <1>8, <1>9, <1>11, <1>12, <1>13, NoCallFacts, VaultStep DEF At

LEMMA CommitStep ==
  ASSUME IndInv, NEW c \in Callers, Commit(c), UNCHANGED team
  PROVE  IndInv'
<1> DEFINE v == work[c].vault
           b == work[c].blob
           f == work[c].file
           q == LetGo(c)
           new == stored'[b]
           r == [q EXCEPT !.files = @ \cup new, !.acked[f] = @ + 1]
<1>1. /\ In(c, "write") /\ work[c].pc \in InVault
      /\ stored' = [stored EXCEPT ![b] = @ \cup {f}]
      /\ vaults' = Listing(c, stored'[b]) /\ blobs' = Released({c}) /\ Return(c, TRUE)
      /\ UNCHANGED <<call, dir, cut, raced, registry, registryLock, nextId, issued, hung, faults>>
  BY DEF Commit, hostvars, In, InVault
<1>2. /\ v \in DOMAIN vaults /\ vaults[v] \in VaultType /\ VaultOK(v) /\ Live(v)
      /\ f \in Files /\ f \notin vaults[v].files
      /\ c \in Threads => vaults[v].mutex = c
      /\ c # NoCaller /\ (c \in Tools <=> c \notin Threads)
  BY <1>1, Inside
<1>3. b \in DOMAIN blobs /\ b \in Blobs
  BY <1>1, ElementTypes DEF IndInv, WorkOK, In
<1>4. /\ stored' \in [Blobs -> SUBSET Files] /\ new \subseteq Files /\ f \in new
      /\ \A d \in Blobs : stored[d] \subseteq stored'[d]
  <2>1. stored \in [Blobs -> SUBSET Files]
    BY DEF IndInv, Types
  <2> QED
    BY <1>1, <1>2, <1>3, <2>1
<1>5. Idle.pc \notin InVault
  BY IdleFacts
<1>6. /\ q \in VaultType /\ Updates(c, Idle, q) /\ Unlocked(c) = [vaults EXCEPT ![v] = q]
      /\ q.files = vaults[v].files /\ q.acked = vaults[v].acked /\ q.blobs = vaults[v].blobs
  BY <1>1, <1>4, <1>5, LetGoFacts DEF Mine
<1>7. vaults' = [vaults EXCEPT ![v] = r]
  <2>1. Unlocked(c)[v] = q
    BY <1>2, <1>6
  <2>2. Listing(c, new) = [Unlocked(c) EXCEPT ![v] = r]
    BY <2>1 DEF Listing, Listed
  <2> HIDE DEF q, new, r
  <2> QED
    BY <1>1, <1>6, <2>2 DEF new
<1>8. q.acked \in [Files -> Nat] /\ q.acked[f] = 0
  <2>1. q.acked \in [Files -> Nat]
    BY <1>6 DEF VaultType
  <2>2. ~(vaults[v].acked[f] > 0)
    BY <1>2 DEF VaultOK
  <2> QED
    BY <1>2, <1>6, <2>1, <2>2
<1>9. /\ r \in VaultType /\ r.id = q.id /\ r.whole = q.whole /\ r.blobs = q.blobs /\ r.mutex = q.mutex
      /\ r.files = q.files \cup new /\ r.acked = [q.acked EXCEPT ![f] = @ + 1]
  <2>1. [q.acked EXCEPT ![f] = @ + 1] \in [Files -> Nat]
    BY <1>2, <1>8
  <2>2. q.files \cup new \in SUBSET Files
    BY <1>4, <1>6 DEF VaultType
  <2> HIDE DEF q, new, f
  <2> QED
    BY <1>6, <2>1, <2>2 DEF VaultType
<1> HIDE DEF r
<1>10. r.acked[f] = 1 /\ \A g \in Files \ {f} : r.acked[g] = q.acked[g]
  BY <1>2, <1>8, <1>9
<1>11. ASSUME NEW w, w.pc \in {"idle", "ready"}
       PROVE  Updates(c, w, r)
  <2>1. w.pc \notin InVault
    BY <1>11 DEF InVault
  <2>2. \A g \in r.files : \E d \in Blobs : g \in stored'[d]
    BY <1>3, <1>6, <1>9 DEF Updates
  <2>3. \A g \in Files : r.acked[g] <= 1 /\ (r.acked[g] > 0 => g \in r.files)
    BY <1>4, <1>6, <1>9, <1>10 DEF Updates
  <2>4. /\ c \in Tools => r.mutex = vaults[v].mutex
        /\ c \in Threads => vaults[v].mutex \in {c, NoCaller} /\ r.mutex = NoCaller
    BY <1>5, <1>6, <1>9 DEF Updates
  <2>5. /\ r.id = vaults[v].id /\ r.whole = vaults[v].whole
        /\ Range(vaults[v].blobs) \subseteq Range(r.blobs) /\ Range(r.blobs) \subseteq DOMAIN blobs
        /\ \A d \in Range(r.blobs) : blobs[d].vault = r.id
    BY <1>6, <1>9 DEF Updates
  <2> QED
    BY <1>1, <2>1, <2>2, <2>3, <2>4, <2>5 DEF Updates
<1>12. PICK w \in WorkType :
         /\ work' = [work EXCEPT ![c] = w] /\ w.pc \in {"idle", "ready"}
         /\ w.pc \in HasVault => w.vault = work[c].vault
         /\ WorkOK(c)'
  <2>1. DOMAIN vaults' = DOMAIN vaults
    BY <1>7
  <2> QED
    BY <1>1, <2>1, ReturnFacts
<1>13. Updates(c, w, r)
  BY <1>11, <1>12
<1>14. At(c, "none") /\ ~At(c, "fill") /\ CallOK(c)
  BY <1>1 DEF IndInv, CallOK, In, At
<1>15. /\ blobs' \in Seq(BlobType) /\ Len(blobs') = Len(blobs) /\ DOMAIN blobs' = DOMAIN blobs
       /\ \A d \in DOMAIN blobs :
            /\ blobs'[d].vault = blobs[d].vault /\ blobs'[d].stage = blobs[d].stage
            /\ blobs[d].lock \notin {c} => blobs'[d].lock = blobs[d].lock
  <2>1. blobs' = Released({c})
    BY <1>1
  <2> HIDE <1>1
  <2> QED
    BY <2>1, ReleasedFacts, Zenon
<1>16. \A d \in DOMAIN blobs :
         /\ blobs'[d].vault = blobs[d].vault /\ blobs'[d].stage = blobs[d].stage
         /\ blobs[d].lock \notin {c, NoCaller} => blobs'[d].lock = blobs[d].lock
  BY <1>15
<1>17. call' = [call EXCEPT ![c] = call[c]] /\ call[c] \in CallType
  BY <1>1, ElementTypes DEF IndInv, Types
<1>18. CallOK(c)'
  <2>1. work'[c] = w
    BY <1>12 DEF IndInv, Types
  <2> QED
    BY <1>1, <1>12, <1>14, <1>15, <2>1 DEF CallOK, At, In
<1>19. hung' \subseteq Threads /\ faults' \in 0 .. MaxFaults
  BY <1>1 DEF IndInv, Types
<1>20. work[c].pc \in InVault \cup {"mutex"} /\ w.pc \in InVault \cup {"idle", "ready"}
  BY <1>1, <1>12
<1>21. UNCHANGED <<dir, cut, raced, registry, registryLock, nextId, issued, team>>
  BY <1>1
<1> HIDE DEF q, new, f, b
<1> QED
  BY <1>4, <1>7, <1>9, <1>12, <1>13, <1>14, <1>15, <1>16, <1>17, <1>18, <1>19, <1>20, <1>21, VaultStep

-----------------------------------------------------------------------------
(* I/O that hangs, and kills. *)

LEMMA HangStep ==
  ASSUME IndInv, NEW t \in Threads, Hang(t), UNCHANGED team
  PROVE  IndInv'
<1>1. /\ hung' = hung \cup {t} /\ Fault
      /\ UNCHANGED <<blobs, dir, call, cut, raced, vaults, stored, registry, registryLock, nextId,
                     issued, work>>
  BY DEF Hang, dirvars, hostvars
<1>2. faults' \in 0 .. MaxFaults
  BY <1>1, FaultFacts
<1>3. Types'
  BY <1>1, <1>2 DEF IndInv, Types
<1>4. \A c \in Callers : CallOK(c)' /\ WorkOK(c)'
  BY <1>1 DEF IndInv, CallOK, WorkOK, At, In
<1>5. (\A c, d \in Callers : c # d => Apart(c, d)') /\ ToolsOwn'
  BY <1>1, ApartKept
<1>6. \A v \in DOMAIN vaults' : VaultOK(v)'
  BY <1>1 DEF IndInv, VaultOK, Live
<1>7. Registered' /\ Counted' /\ DirOK'
  BY <1>1 DEF IndInv, Registered, Counted, Opening, DirOK, Whole, In, At
<1> QED
  BY <1>3, <1>4, <1>5, <1>6, <1>7 DEF IndInv

\* The directory, after callers cs were killed.
LEMMA KillDirFacts ==
  ASSUME IndInv, NEW cs \in SUBSET Callers, KillDir(cs)
  PROVE  /\ blobs' \in Seq(BlobType) /\ Len(blobs') = Len(blobs) /\ DOMAIN blobs' = DOMAIN blobs
         /\ \A b \in DOMAIN blobs :
              /\ blobs'[b].vault = blobs[b].vault /\ blobs'[b].stage = blobs[b].stage
              /\ blobs[b].lock \notin cs => blobs'[b].lock = blobs[b].lock
         /\ call' \in [Callers -> CallType] /\ cut' \in BOOLEAN /\ UNCHANGED <<dir, raced>>
         /\ \A c \in cs : call'[c] = NoCall
         /\ \A c \in Callers \ cs : call'[c] = call[c]
         /\ DirOK'
<1>1. /\ blobs' = Released(cs) /\ call' = [c \in Callers |-> IF c \in cs THEN NoCall ELSE call[c]]
      /\ cut' = (cut \/ \E c \in cs : At(c, "fill")) /\ UNCHANGED <<dir, raced>>
  BY DEF KillDir
<1>2. /\ blobs' \in Seq(BlobType) /\ Len(blobs') = Len(blobs) /\ DOMAIN blobs' = DOMAIN blobs
      /\ \A b \in DOMAIN blobs :
           /\ blobs'[b].vault = blobs[b].vault /\ blobs'[b].stage = blobs[b].stage
           /\ blobs[b].lock \notin cs => blobs'[b].lock = blobs[b].lock
  <2>1. blobs' = Released(cs)
    BY <1>1
  <2> HIDE <1>1
  <2> QED
    BY <2>1, ReleasedFacts, Zenon
<1>3. /\ call' \in [Callers -> CallType]
      /\ \A c \in cs : call'[c] = NoCall
      /\ \A c \in Callers \ cs : call'[c] = call[c]
  BY <1>1, NoCallFacts DEF IndInv, Types
<1>4. cut' \in BOOLEAN /\ (~cut' => ~cut /\ \A c \in cs : ~At(c, "fill"))
  BY <1>1, Zenon
<1>5. DirOK'
  <2>1. Whole' = Whole
    BY <1>2 DEF Whole
  <2>2. ASSUME ~cut', NEW b \in DOMAIN blobs, b \notin Whole
        PROVE  \E c \in Callers : At(c, "fill")' /\ call'[c].new = b
    <3>1. PICK c \in Callers : At(c, "fill") /\ call[c].new = b
      BY <1>4, <2>2 DEF IndInv, DirOK
    <3>2. c \notin cs
      BY <1>4, <2>2, <3>1
    <3> QED
      BY <1>3, <3>1, <3>2 DEF At
  <2>3. \A b \in DOMAIN blobs' : blobs'[b].vault \in DOMAIN blobs'
    BY <1>2 DEF IndInv, DirOK
  <2>4. DOMAIN blobs # {} => 1 \in DOMAIN blobs
    BY LenProperties DEF IndInv, Types
  <2>5. ~raced' => \A b \in DOMAIN blobs' : blobs'[b].vault = blobs'[1].vault
    BY <1>1, <1>2, <2>4 DEF IndInv, DirOK
  <2> QED
    BY <1>2, <2>1, <2>2, <2>3, <2>5 DEF DirOK
<1> QED
  BY <1>1, <1>2, <1>3, <1>4, <1>5

\* A caller that is gone.
LEMMA GoneCaller ==
  ASSUME NEW c \in Callers, call'[c] = NoCall, work'[c] = Idle
  PROVE  CallOK(c)' /\ WorkOK(c)'
<1>1. Range(<<>>) = {}
  BY DEF Range
<1>2. CallOK(c)'
  BY <1>1, IdleFacts, NoCallFacts DEF CallOK, At, In
<1>3. WorkOK(c)'
  BY IdleFacts DEF WorkOK, In
<1> QED
  BY <1>2, <1>3

LEMMA KillToolStep ==
  ASSUME IndInv, NEW c \in Tools, KillTool(c), UNCHANGED team
  PROVE  IndInv'
<1>1. /\ c \in Callers /\ c \notin Threads /\ c # NoCaller /\ {c} \in SUBSET Callers
      /\ Fault /\ MaybeStored({c}) /\ KillDir({c})
      /\ work' = [work EXCEPT ![c] = Idle]
      /\ UNCHANGED <<registry, registryLock, nextId, vaults, hung, issued>>
  BY DirAssumption DEF KillTool, hostvars, Callers
<1>2. /\ blobs' \in Seq(BlobType) /\ Len(blobs') = Len(blobs) /\ DOMAIN blobs' = DOMAIN blobs
      /\ \A b \in DOMAIN blobs :
           /\ blobs'[b].vault = blobs[b].vault /\ blobs'[b].stage = blobs[b].stage
           /\ blobs[b].lock \notin {c} => blobs'[b].lock = blobs[b].lock
      /\ call' \in [Callers -> CallType] /\ cut' \in BOOLEAN /\ UNCHANGED <<dir, raced>>
      /\ \A d \in {c} : call'[d] = NoCall
      /\ \A d \in Callers \ {c} : call'[d] = call[d]
      /\ DirOK'
  BY <1>1, KillDirFacts, Zenon
<1>3. stored' \in [Blobs -> SUBSET Files] /\ \A b \in Blobs : stored[b] \subseteq stored'[b]
  BY <1>1, MaybeStoredFacts
<1>4. /\ work'[c] = Idle /\ (\A d \in Callers \ {c} : work'[d] = work[d])
      /\ work' \in [Callers -> WorkType]
  BY <1>1, IdleFacts DEF IndInv, Types
<1>5. Types'
  BY <1>1, <1>2, <1>3, <1>4, FaultFacts DEF IndInv, Types
<1>6. Grows /\ NumbersStay
  BY <1>1, <1>2 DEF Grows, NumbersStay, IndInv, Types
<1>7. \A d \in Callers : CallOK(d)' /\ WorkOK(d)'
  <2>1. CallOK(c)' /\ WorkOK(c)'
    BY <1>1, <1>2, <1>4, GoneCaller
  <2>2. ASSUME NEW d \in Callers \ {c}
        PROVE  Untouched(d) /\ (In(d, "insert") => work[d].id \notin DOMAIN issued')
    BY <1>1, <1>2, <1>4 DEF Untouched, IndInv, WorkOK
  <2> QED
    BY <1>1, <1>5, <1>6, <2>1, <2>2, CallersKept
<1>8. (\A d, e \in Callers : d # e => Apart(d, e)') /\ ToolsOwn'
  BY <1>1, <1>4, IdleFacts, ApartKept
<1>9. \A v \in DOMAIN vaults' : VaultOK(v)'
  <2>1. \A d \in Callers : work'[d].pc \in HasVault => Live(work'[d].vault)
    BY <1>4, IdleFacts DEF Live
  <2>2. \A i \in DOMAIN issued' : Live(issued'[i])
    BY <1>1 DEF Live
  <2>3. \A t \in Threads :
          \/ work'[t].pc \notin InVault /\ work[t].pc \notin InVault
          \/ work'[t].pc \in InVault /\ work[t].pc \in InVault /\ work'[t].vault = work[t].vault
    BY <1>1, <1>4 DEF Callers
  <2> QED
    BY <1>1, <1>3, <1>6, <2>1, <2>2, <2>3, VaultsKept
<1>10. Registered'
  BY <1>1, <1>4 DEF IndInv, Registered, In, Callers
<1>11. Counted'
  <2>1. \A d \in Callers : In(d, "open")' => In(d, "open")
    BY <1>4, IdleFacts DEF In
  <2> QED
    BY <1>1, <2>1, CountedKept DEF IndInv
<1> QED
  BY <1>2, <1>5, <1>7, <1>8, <1>9, <1>10, <1>11 DEF IndInv

\* The vaults, after the host program died: the command line processes keep
\* theirs.
LEMMA DroppedFacts ==
  ASSUME IndInv, KillHost
  PROVE  /\ vaults' \in Seq(VaultType) /\ Len(vaults') = Len(vaults) /\ DOMAIN vaults' = DOMAIN vaults
         /\ \A v \in DOMAIN vaults : vaults'[v].id = vaults[v].id
         /\ \A c \in Tools : work[c].pc \in HasVault => vaults'[work[c].vault] = vaults[work[c].vault]
         /\ \A v \in DOMAIN vaults :
              \/ vaults'[v] = vaults[v]
                 /\ \E c \in Tools : work[c].pc \in HasVault /\ work[c].vault = v
              \/ /\ vaults'[v].blobs = <<>> /\ vaults'[v].files = {} /\ vaults'[v].whole = {}
                 /\ vaults'[v].mutex = NoCaller /\ vaults'[v].acked = vaults[v].acked
                 /\ \A c \in Tools : work[c].vault # v
<1>1. \A v \in DOMAIN vaults : vaults[v] \in VaultType /\ v # 0
  BY ElementTypes
<1>2. DOMAIN vaults = 1 .. Len(vaults) /\ Len(vaults) \in Nat
  BY LenProperties DEF IndInv, Types
<1>3. vaults' = [v \in DOMAIN vaults |->
                   IF \E c \in Tools : work[c].vault = v THEN vaults[v] ELSE Dropped(v)]
  BY DEF KillHost
<1>4. ASSUME NEW v \in DOMAIN vaults
      PROVE  /\ Dropped(v) \in VaultType /\ Dropped(v).id = vaults[v].id
             /\ Dropped(v).blobs = <<>> /\ Dropped(v).files = {} /\ Dropped(v).whole = {}
             /\ Dropped(v).mutex = NoCaller /\ Dropped(v).acked = vaults[v].acked
  <2> DEFINE none == <<>>
             x == vaults[v]
             y == [x EXCEPT !.blobs = none, !.files = {}, !.whole = {}, !.mutex = NoCaller]
  <2>1. x \in VaultType /\ none \in Seq(Blobs) /\ y = Dropped(v)
    BY <1>1 DEF Dropped
  <2> HIDE DEF x, none
  <2>2. /\ y \in VaultType /\ y.id = x.id /\ y.blobs = none /\ y.files = {} /\ y.whole = {}
        /\ y.mutex = NoCaller /\ y.acked = x.acked
    BY <2>1 DEF VaultType
  <2> HIDE DEF y
  <2> QED
    BY <2>1, <2>2 DEF x, none
<1>5. ASSUME NEW c \in Tools, NEW v \in DOMAIN vaults, work[c].vault = v
      PROVE  work[c].pc \in HasVault
  <2>1. WorkOK(c) /\ work[c] \in WorkType /\ c \notin Threads
    BY ElementTypes, DirAssumption DEF IndInv, Callers
  <2>2. work[c].pc \notin {"idle", "open", "lookup"}
    BY <1>1, <1>5, <2>1 DEF WorkOK, In
  <2> QED
    BY <2>1, <2>2 DEF WorkType
<1>6. \A v \in DOMAIN vaults : vaults'[v] \in VaultType
  BY <1>1, <1>3, <1>4
<1>7. vaults' \in Seq(VaultType) /\ Len(vaults') = Len(vaults)
  <2>1. vaults' = [v \in 1 .. Len(vaults) |-> vaults'[v]]
    BY <1>2, <1>3
  <2> QED
    BY <1>2, <1>6, <2>1
<1>8. \A c \in Tools : work[c].pc \in HasVault => work[c].vault \in DOMAIN vaults
  BY DEF IndInv, WorkOK, Callers
<1>9. \A v \in DOMAIN vaults :
        vaults'[v] = IF \E c \in Tools : work[c].vault = v THEN vaults[v] ELSE Dropped(v)
  BY <1>3
<1>10. \A v \in DOMAIN vaults : vaults'[v].id = vaults[v].id
  BY <1>4, <1>9
<1>11. \A c \in Tools : work[c].pc \in HasVault => vaults'[work[c].vault] = vaults[work[c].vault]
  BY <1>8, <1>9
<1>12. ASSUME NEW v \in DOMAIN vaults
       PROVE  \/ vaults'[v] = vaults[v]
                 /\ \E c \in Tools : work[c].pc \in HasVault /\ work[c].vault = v
              \/ /\ vaults'[v].blobs = <<>> /\ vaults'[v].files = {} /\ vaults'[v].whole = {}
                 /\ vaults'[v].mutex = NoCaller /\ vaults'[v].acked = vaults[v].acked
                 /\ \A c \in Tools : work[c].vault # v
  <2>1. CASE \E c \in Tools : work[c].vault = v
    BY <1>5, <1>9, <2>1
  <2>2. CASE ~ \E c \in Tools : work[c].vault = v
    BY <1>4, <1>9, <2>2
  <2> QED
    BY <2>1, <2>2
<1> QED
  BY <1>3, <1>7, <1>10, <1>11, <1>12

LEMMA KillHostStep ==
  ASSUME IndInv, KillHost, UNCHANGED team
  PROVE  IndInv'
<1>1. /\ Threads \in SUBSET Callers /\ Tools \subseteq Callers /\ Threads \cap Tools = {}
      /\ Callers = Threads \cup Tools /\ NoCaller \notin Callers
  BY DirAssumption DEF Callers
<1>2. /\ Fault /\ MaybeStored(Threads) /\ KillDir(Threads)
      /\ registry' = <<>> /\ registryLock' = NoCaller /\ nextId' = 1 /\ issued' = <<>> /\ hung' = {}
      /\ work' = [c \in Callers |-> IF c \in Threads THEN Idle ELSE work[c]]
  BY DEF KillHost
<1>3. /\ blobs' \in Seq(BlobType) /\ Len(blobs') = Len(blobs) /\ DOMAIN blobs' = DOMAIN blobs
      /\ \A b \in DOMAIN blobs :
           /\ blobs'[b].vault = blobs[b].vault /\ blobs'[b].stage = blobs[b].stage
           /\ blobs[b].lock \notin Threads => blobs'[b].lock = blobs[b].lock
      /\ call' \in [Callers -> CallType] /\ cut' \in BOOLEAN /\ UNCHANGED <<dir, raced>>
      /\ \A c \in Threads : call'[c] = NoCall
      /\ \A c \in Callers \ Threads : call'[c] = call[c]
      /\ DirOK'
  BY <1>1, <1>2, KillDirFacts, Zenon
<1>4. stored' \in [Blobs -> SUBSET Files] /\ \A b \in Blobs : stored[b] \subseteq stored'[b]
  BY <1>1, <1>2, MaybeStoredFacts
<1>5. /\ \A t \in Threads : work'[t] = Idle
      /\ \A c \in Tools : work'[c] = work[c] /\ call'[c] = call[c]
      /\ work' \in [Callers -> WorkType]
  BY <1>1, <1>2, <1>3, IdleFacts DEF IndInv, Types
<1>6. /\ vaults' \in Seq(VaultType) /\ Len(vaults') = Len(vaults) /\ DOMAIN vaults' = DOMAIN vaults
      /\ \A v \in DOMAIN vaults : vaults'[v].id = vaults[v].id
      /\ \A c \in Tools : work[c].pc \in HasVault => vaults'[work[c].vault] = vaults[work[c].vault]
  BY DroppedFacts
<1>7. DOMAIN issued' = {} /\ DOMAIN registry' = {}
  BY <1>2
<1>8. Types'
  BY <1>2, <1>3, <1>4, <1>5, <1>6, FaultFacts DEF IndInv, Types
<1>9. Grows
  BY <1>3, <1>6 DEF Grows
<1>10. \A d \in Callers : CallOK(d)' /\ WorkOK(d)'
  <2>1. ASSUME NEW t \in Threads
        PROVE  CallOK(t)' /\ WorkOK(t)'
    BY <1>1, <1>3, <1>5, GoneCaller
  <2>2. ASSUME NEW d \in Tools
        PROVE  CallOK(d)' /\ WorkOK(d)'
    <3>1. d \in Callers /\ d \notin Threads /\ CallOK(d) /\ WorkOK(d)
      BY <1>1 DEF IndInv
    <3>2. work[d].pc \in InVault => vaults'[work[d].vault] = vaults[work[d].vault]
      BY <1>6 DEF HasVault
    <3>3. Untouched(d)
      BY <1>3, <1>5, <3>1, <3>2 DEF Untouched
    <3>4. CallOK(d)'
      BY <1>9, <3>1, <3>3, OtherCall
    <3>5. work[d].pc \notin {"insert", "lookup", "mutex"} /\ work'[d] = work[d]
      BY <1>5, <3>1 DEF WorkOK
    <3>6. In(d, "write") => blobs'[work[d].blob].lock = d
      BY <1>3, <3>1 DEF WorkOK, In
    <3>7. WorkOK(d)'
      BY <1>3, <1>6, <3>1, <3>2, <3>5, <3>6 DEF WorkOK, In
    <3> QED
      BY <3>4, <3>7
  <2> QED
    BY <1>1, <2>1, <2>2
<1>11. (\A c, d \in Callers : c # d => Apart(c, d)') /\ ToolsOwn'
  BY <1>1, <1>5, <1>7, IdleFacts, ApartKept
<1>12. \A v \in DOMAIN vaults' : VaultOK(v)'
  <2> SUFFICES ASSUME NEW v \in DOMAIN vaults
               PROVE  VaultOK(v)'
    BY <1>6
  <2>1. \A t \in Threads : t # NoCaller /\ work'[t].pc \notin InVault /\ work'[t].pc \notin HasVault
    BY <1>1, <1>5, IdleFacts
  <2>2. VaultOK(v) /\ vaults[v] \in VaultType
    BY ElementTypes DEF IndInv
  <2>3. ASSUME vaults'[v] = vaults[v], NEW c \in Tools, work[c].pc \in HasVault, work[c].vault = v
        PROVE  VaultOK(v)'
    <3>1. vaults[v].mutex = NoCaller
      <4>1. ASSUME NEW t \in Threads, work[t].pc \in InVault
            PROVE  work[t].vault # v
        <5>1. work[t].pc \in HasVault /\ c \in Callers /\ t \in Callers /\ c # t
          BY <1>1, <4>1 DEF HasVault
        <5>2. Apart(c, t)
          BY <5>1 DEF IndInv
        <5> QED
          BY <2>3, <5>1, <5>2 DEF Apart
      <4> QED
        BY <2>2, <4>1 DEF VaultOK, VaultType
    <3>2. Live(v)
      BY <1>1, <2>3 DEF Live
    <3>3. \A t \in Threads :
            vaults'[v].mutex = t <=> (work'[t].vault = v /\ work'[t].pc \in InVault)
      BY <2>1, <2>3, <3>1
    <3> QED
      BY <1>4, <1>9, <2>3, <3>2, <3>3, VaultKept
  <2>4. ASSUME vaults'[v].blobs = <<>>, vaults'[v].files = {}, vaults'[v].whole = {},
               vaults'[v].mutex = NoCaller, vaults'[v].acked = vaults[v].acked,
               \A c \in Tools : work[c].vault # v
        PROVE  VaultOK(v)'
    <3>1. ~Live(v)'
      BY <1>1, <1>5, <1>7, <2>1, <2>4 DEF Live
    <3>2. Range(<<>>) = {}
      BY DEF Range
    <3>3. \E b \in DOMAIN blobs' : blobs'[b].vault = vaults'[v].id
      BY <1>3, <1>6, <2>2 DEF VaultOK
    <3> QED
      BY <2>1, <2>2, <2>4, <3>1, <3>2, <3>3 DEF VaultOK
  <2> QED
    BY <2>3, <2>4, DroppedFacts
<1>13. Registered'
  <2>1. \A t \in Threads : ~In(t, "lookup")' /\ t # NoCaller
    BY <1>1, <1>5, IdleFacts DEF In
  <2> QED
    BY <1>2, <1>7, <2>1 DEF Registered
<1>14. Counted'
  <2>1. Opening' \in SUBSET Opening
    <3>1. \A d \in Callers : In(d, "open")' => In(d, "open")
      BY <1>1, <1>5, IdleFacts DEF In
    <3> QED
      BY <3>1 DEF Opening
  <2>2. Cardinality(Opening') <= Cardinality(Opening) /\ Cardinality(Opening') \in Nat
    BY <2>1, OpeningFinite, FS_Subset, FS_CardinalityType
  <2> QED
    BY <1>2, <1>6, <2>2, OpeningFinite, ElementTypes, SessionAssumption DEF IndInv, Counted
<1> QED
  BY <1>3, <1>8, <1>10, <1>11, <1>12, <1>13, <1>14 DEF IndInv

-----------------------------------------------------------------------------
(* The invariant. *)

LEMMA InitInv ==
  ASSUME Init
  PROVE  IndInv
<1>1. /\ blobs = <<>> /\ dir = <<>> /\ call = [c \in Callers |-> NoCall] /\ cut = FALSE /\ raced = FALSE
      /\ team \in Teams /\ registry = <<>> /\ registryLock = NoCaller /\ nextId = 1 /\ vaults = <<>>
      /\ work = [c \in Callers |-> Idle] /\ stored = [b \in Blobs |-> {}] /\ hung = {} /\ faults = 0
      /\ issued = <<>>
  BY DEF Init, DirInit
<1>2. Range(<<>>) = {} /\ IsInjective(<<>>)
  BY DEF Range, IsInjective
<1>3. Types
  <2>1. /\ call \in [Callers -> CallType] /\ work \in [Callers -> WorkType]
        /\ stored \in [Blobs -> SUBSET Files]
    BY <1>1, IdleFacts, NoCallFacts
  <2>2. blobs \in Seq(BlobType) /\ dir \in Seq(Blobs) /\ vaults \in Seq(VaultType)
    BY <1>1
  <2>3. Len(blobs) = 0 /\ Len(dir) = 0 /\ DOMAIN blobs = {}
    BY <1>1
  <2>4. team \subseteq Callers /\ faults \in 0 .. MaxFaults /\ 0 <= MaxBlobs
    BY <1>1, SessionAssumption, DirAssumption
  <2>5. cut \in BOOLEAN /\ raced \in BOOLEAN
    BY <1>1
  <2> QED
    BY <1>1, <1>2, <2>1, <2>2, <2>3, <2>4, <2>5 DEF Types
<1>4. ASSUME NEW c \in Callers
      PROVE  call[c] = NoCall /\ work[c] = Idle
  BY <1>1
<1>5. \A c \in Callers : CallOK(c) /\ WorkOK(c)
  <2> SUFFICES ASSUME NEW c \in Callers
               PROVE  CallOK(c) /\ WorkOK(c)
    OBVIOUS
  <2>1. CallOK(c)
    BY <1>2, <1>4, IdleFacts, NoCallFacts DEF CallOK, At, In
  <2>2. WorkOK(c)
    BY <1>4, IdleFacts DEF WorkOK, In
  <2> QED
    BY <2>1, <2>2
<1>6. (\A c, d \in Callers : c # d => Apart(c, d)) /\ ToolsOwn
  BY <1>4, IdleFacts DEF Apart, ToolsOwn, In, Callers
<1>7. \A v \in DOMAIN vaults : VaultOK(v)
  BY <1>1
<1>8. Registered
  BY <1>1, <1>4, IdleFacts, DirAssumption DEF Registered, In, Callers
<1>9. Counted
  <2>1. Opening = {}
    BY <1>4, IdleFacts DEF Opening, In
  <2>2. Cardinality(Opening) = 0 /\ Len(vaults) = 0
    BY <1>1, <2>1, FS_EmptySet
  <2> QED
    BY <1>1, <2>2, SessionAssumption DEF Counted
<1>10. DirOK
  BY <1>1 DEF DirOK
<1> QED
  BY <1>3, <1>5, <1>6, <1>7, <1>8, <1>9, <1>10 DEF IndInv

LEMMA ExitsStep ==
  ASSUME IndInv, NEW c \in Callers, RefusePut(c) \/ Exit(c), UNCHANGED team
  PROVE  IndInv'
<1>1. /\ work' = [work EXCEPT ![c] = Idle] /\ work[c].pc \in {"mutex", "ready"}
      /\ UNCHANGED <<blobs, dir, call, cut, raced, vaults, stored, registry, registryLock, nextId,
                     issued, hung, faults>>
  BY DEF RefusePut, Exit, In, dirvars, hostvars, diskvars
<1> QED
  BY <1>1, BackToIdle

LEMMA FailCreateStep ==
  ASSUME IndInv, NEW c \in Callers, FailCreate(c), UNCHANGED team
  PROVE  IndInv'
<1>1. /\ Fault /\ FillFails(c)
      /\ UNCHANGED <<registry, registryLock, nextId, stored, vaults, work, hung, issued>>
  BY DEF FailCreate, hostvars
<1> QED
  BY <1>1, FaultFacts, FillFailsStep

LEMMA NextInv ==
  ASSUME IndInv, [Next]_vars
  PROVE  IndInv'
<1>1. CASE UNCHANGED vars
  <2>1. /\ UNCHANGED <<blobs, dir, call, cut, raced, registry, registryLock, nextId, stored, faults>>
        /\ UNCHANGED <<vaults, work, hung, issued, team>>
    BY <1>1 DEF vars, dirvars, hostvars, diskvars
  <2>2. Types'
    BY <2>1 DEF IndInv, Types
  <2>3. \A c \in Callers : CallOK(c)' /\ WorkOK(c)'
    BY <2>1 DEF IndInv, CallOK, WorkOK, At, In
  <2>4. (\A c, d \in Callers : c # d => Apart(c, d)') /\ ToolsOwn'
    BY <2>1, ApartKept
  <2>5. \A v \in DOMAIN vaults' : VaultOK(v)'
    BY <2>1 DEF IndInv, VaultOK, Live
  <2>6. Registered' /\ Counted' /\ DirOK'
    BY <2>1 DEF IndInv, Registered, Counted, Opening, DirOK, Whole, In, At
  <2> QED
    BY <2>2, <2>3, <2>4, <2>5, <2>6 DEF IndInv
<1>2. ASSUME NEW c \in Callers, UNCHANGED team, Open(c) \/ Step(c) \/ FailWrite(c) \/ FailCreate(c)
      PROVE  IndInv'
  BY <1>2, OpenStep, FailWriteStep, FailCreateStep, DirWorkStep, OpenedStep, OpenFailsStep, InsertStep,
     WithVaultStep, ExitsStep, LockVaultStep, PlanPutStep, AppendBlobStep, AppendFailsStep,
     LockBlobStep, CommitStep, RefuseWriteStep DEF Step
<1>3. ASSUME NEW t \in Threads, UNCHANGED team, CloseSession(t) \/ PutFile(t) \/ Hang(t)
      PROVE  IndInv'
  BY <1>3, CloseSessionStep, PutFileStep, HangStep
<1>4. ASSUME NEW c \in Tools, UNCHANGED team, ToolPut(c) \/ Exit(c) \/ KillTool(c)
      PROVE  IndInv'
  <2>1. c \in Callers
    BY DEF Callers
  <2> QED
    BY <1>4, <2>1, ToolPutStep, ExitsStep, KillToolStep
<1>5. ASSUME KillHost, UNCHANGED team
      PROVE  IndInv'
  BY <1>5, KillHostStep
<1>6. team \subseteq Callers
  BY DEF IndInv, Types
<1> QED
  BY <1>1, <1>2, <1>3, <1>4, <1>5, <1>6 DEF Next

LEMMA AlwaysInv ==
  Spec => []IndInv
<1>1. Init => IndInv
  BY InitInv
<1>2. IndInv /\ [Next]_vars => IndInv'
  BY NextInv
<1> QED
  BY <1>1, <1>2, PTL DEF Spec

-----------------------------------------------------------------------------
(* Theorems. *)

(* The registry, the vaults, the calls and the directory stay in their     *)
(* types; the mutex of a vault is held by the thread that is inside it,    *)
(* that of the registry by the one that looks a session up, and a blob     *)
(* that is created or written is locked by the caller that does it.        *)
THEOREM TypesHold == Spec => []TypeOK
<1>1. ASSUME IndInv
      PROVE  TypeOK
  <2> USE <1>1
  <2>1. DirTypeOK
    <3>1. /\ blobs \in Seq([vault : 1 .. MaxBlobs, stage : Stages, lock : Callers \cup {NoCaller}])
          /\ Len(blobs) <= MaxBlobs /\ IsInjective(dir) /\ Range(dir) = DOMAIN blobs
      BY DEF IndInv, Types, BlobType, Blobs
    <3>2. cut \in BOOLEAN /\ raced \in BOOLEAN
      BY DEF IndInv, Types
    <3>3. \A c \in Callers :
            call[c].op \in {"none", "discover", "collect", "open", "load", "create", "fill", "failed"}
      BY ElementTypes DEF CallType
    <3>4. ASSUME NEW c \in Callers
          PROVE  /\ Range(call[c].paths) \cup Range(call[c].found) \subseteq DOMAIN blobs
                 /\ At(c, "fill") <=> call[c].new # 0
                 /\ At(c, "fill") => blobs[call[c].new].lock = c
      BY DEF IndInv, CallOK
    <3> QED
      BY <3>1, <3>2, <3>3, <3>4 DEF DirTypeOK
  <2>2. nextId \in 1 .. MaxVaults + 1
    BY OpeningFinite, ElementTypes, SessionAssumption DEF IndInv, Types, Counted
  <2>3. DOMAIN registry \subseteq Ids
    <3>1. \A i \in DOMAIN registry : i \in 1 .. nextId - 1
      BY DEF IndInv, Registered
    <3> QED
      BY <2>2, <3>1, SessionAssumption DEF Ids
  <2>4. \A t \in Threads : registryLock = t <=> In(t, "lookup")
    BY DEF IndInv, Registered
  <2>5. ASSUME NEW v \in DOMAIN vaults
        PROVE  /\ vaults[v].id \in DOMAIN blobs /\ vaults[v].files \subseteq Files
               /\ \A t \in Threads :
                    vaults[v].mutex = t <=> (work[t].vault = v /\ work[t].pc \in InVault)
    BY ElementTypes DEF IndInv, VaultOK, DirOK, VaultType
  <2>6. ASSUME NEW c \in Callers
        PROVE  /\ work[c].pc \in InVault \cup {"idle", "open", "insert", "lookup", "mutex", "ready"}
               /\ In(c, "write") => blobs[work[c].blob].lock = c
    <3>1. work[c] \in WorkType /\ WorkOK(c)
      BY ElementTypes DEF IndInv
    <3> QED
      BY <3>1 DEF WorkType, HasVault, WorkOK
  <2>7. stored \in [Blobs -> SUBSET Files] /\ hung \subseteq Threads /\ faults \in 0 .. MaxFaults
    BY DEF IndInv, Types
  <2> QED
    BY <2>1, <2>2, <2>3, <2>4, <2>5, <2>6, <2>7 DEF TypeOK
<1> QED
  BY <1>1, AlwaysInv, PTL

(* With no creation under way, none cut short, and no two callers that     *)
(* each began a vault, every blob of the directory is complete and all are *)
(* of one vault, whoever added them.                                       *)
THEOREM DirectoryStaysWhole == Spec => []QuietOpens
<1>1. ASSUME IndInv
      PROVE  QuietOpens
  <2>1. \A b \in DOMAIN blobs : ~cut => b \in Whole \/ \E c \in Callers : At(c, "fill")
    BY <1>1 DEF IndInv, DirOK
  <2>2. Whole \subseteq DOMAIN blobs
    BY DEF Whole
  <2> QED
    BY <1>1, <2>1, <2>2 DEF QuietOpens, IndInv, DirOK
<1> QED
  BY <1>1, AlwaysInv, PTL

(* A call works on the vault whose open returned the number it was made    *)
(* with, however many sessions other threads close and open meanwhile.     *)
THEOREM NumbersNeverMix == Spec => []NumbersStayApart
<1>1. ASSUME IndInv
      PROVE  NumbersStayApart
  BY <1>1 DEF IndInv, WorkOK, NumbersStayApart, Callers
<1> QED
  BY <1>1, AlwaysInv, PTL

(* Of any number of threads that put one file into one vault, across       *)
(* creations of blobs, errors and closes of the session in between, at     *)
(* most one is told Ok.                                                    *)
THEOREM OneWinnerPerFile == Spec => []AcceptedOnce
<1>1. ASSUME IndInv
      PROVE  AcceptedOnce
  BY <1>1 DEF IndInv, VaultOK, AcceptedOnce
<1> QED
  BY <1>1, AlwaysInv, PTL

(* A vault that opens has every blob that was complete when the open       *)
(* began, and none of another vault.                                       *)
THEOREM OpensAreComplete == Spec => []OpenSeesAll
<1>1. ASSUME IndInv
      PROVE  OpenSeesAll
  BY <1>1 DEF IndInv, VaultOK, OpenSeesAll
<1> QED
  BY <1>1, AlwaysInv, PTL

\* Blobs are only appended to the list of a vault.
BlobsStay ==
  \A v \in DOMAIN vaults : \A i \in 1 .. Len(vaults[v].blobs) :
    vaults'[v].blobs[i] = vaults[v].blobs[i]

LEMMA UnlockedBlobs ==
  ASSUME IndInv, NEW c \in Callers, NEW v \in DOMAIN vaults
  PROVE  Unlocked(c)[v].blobs = vaults[v].blobs /\ Unlocked(c)[v] \in VaultType
<1>1. vaults[v] \in VaultType
  BY ElementTypes
<1>2. CASE Unlocked(c)[v] = vaults[v]
  BY <1>1, <1>2
<1>3. CASE Unlocked(c)[v] = [vaults[v] EXCEPT !.mutex = NoCaller]
  BY <1>1, <1>3 DEF VaultType
<1>4. \/ Unlocked(c)[v] = vaults[v]
      \/ Unlocked(c)[v] = [vaults[v] EXCEPT !.mutex = NoCaller]
  BY DEF Unlocked
<1> QED
  BY <1>2, <1>3, <1>4

LEMMA BlobsStayInStep ==
  ASSUME IndInv, [Next]_vars, ~KillHost
  PROVE  BlobsStay
<1>1. CASE UNCHANGED vaults
  BY <1>1 DEF BlobsStay
<1>2. ASSUME NEW c \in Callers, Opened(c)
      PROVE  BlobsStay
  <2>1. \E r : vaults' = Append(vaults, r)
    BY <1>2 DEF Opened
  <2>2. vaults \in Seq(VaultType) /\ DOMAIN vaults = 1 .. Len(vaults) /\ Len(vaults) \in Nat
    BY LenProperties DEF IndInv, Types
  <2>3. \A v \in DOMAIN vaults : vaults'[v] = vaults[v]
    BY <2>1, <2>2
  <2> QED
    BY <2>3 DEF BlobsStay
<1>3. ASSUME NEW c \in Callers, LockVault(c)
      PROVE  BlobsStay
  <2>1. vaults' = [vaults EXCEPT ![work[c].vault].mutex = c]
    BY <1>3 DEF LockVault
  <2>2. \A v \in DOMAIN vaults : vaults'[v].blobs = vaults[v].blobs
    BY <2>1, ElementTypes DEF VaultType
  <2> QED
    BY <2>2 DEF BlobsStay
<1>4. ASSUME NEW c \in Callers, AppendFails(c) \/ RefuseWrite(c) \/ FailWrite(c)
      PROVE  BlobsStay
  <2>1. vaults' = Unlocked(c)
    BY <1>4 DEF AppendFails, RefuseWrite, FailWrite
  <2>2. \A v \in DOMAIN vaults : vaults'[v].blobs = vaults[v].blobs
    BY <2>1, UnlockedBlobs
  <2> QED
    BY <2>2 DEF BlobsStay
<1>5. ASSUME NEW c \in Callers, Commit(c)
      PROVE  BlobsStay
  <2> SUFFICES ASSUME NEW v \in DOMAIN vaults
               PROVE  vaults'[v].blobs = vaults[v].blobs
    BY DEF BlobsStay
  <2>1. PICK F : vaults' = Listing(c, F)
    BY <1>5 DEF Commit
  <2>2. Unlocked(c)[v].blobs = vaults[v].blobs /\ Unlocked(c)[v] \in VaultType
    BY UnlockedBlobs
  <2>3. ASSUME NEW x \in VaultType, NEW G, NEW f
        PROVE  Listed(x, G, f).blobs = x.blobs
    BY DEF Listed, VaultType
  <2>4. v \in DOMAIN Unlocked(c)
    BY DEF Unlocked
  <2>5. \/ vaults'[v] = Unlocked(c)[v]
        \/ vaults'[v] = Listed(Unlocked(c)[v], F, work[c].file)
    BY <2>1, <2>4 DEF Listing
  <2> QED
    BY <2>2, <2>3, <2>5
<1>6. ASSUME NEW c \in Callers, AppendBlob(c)
      PROVE  BlobsStay
  <2> SUFFICES ASSUME NEW v \in DOMAIN vaults, NEW i \in 1 .. Len(vaults[v].blobs)
               PROVE  vaults'[v].blobs[i] = vaults[v].blobs[i]
    BY DEF BlobsStay
  <2>1. PICK e : vaults' = [vaults EXCEPT ![work[c].vault].blobs = Append(vaults[work[c].vault].blobs, e)]
    BY <1>6 DEF AppendBlob, Appended, Mine
  <2>2. vaults[v] \in VaultType /\ vaults[v].blobs \in Seq(Blobs)
    BY ElementTypes DEF VaultType
  <2>3. CASE v # work[c].vault
    BY <2>1, <2>3
  <2>4. CASE v = work[c].vault
    <3>1. vaults'[v].blobs = Append(vaults[v].blobs, e)
      BY <2>1, <2>2, <2>4 DEF VaultType
    <3>2. Append(vaults[v].blobs, e)[i] = vaults[v].blobs[i]
      BY <2>2
    <3> QED
      BY <3>1, <3>2
  <2> QED
    BY <2>3, <2>4
<1>7. ASSUME NEW c \in Callers, Open(c) \/ Step(c) \/ FailWrite(c) \/ FailCreate(c)
      PROVE  BlobsStay
  BY <1>1, <1>2, <1>3, <1>4, <1>5, <1>6, <1>7
     DEF Step, Open, DirWork, OpenFails, Insert, WithVault, RefusePut, PlanPut, LockBlob, FailCreate
<1>8. ASSUME NEW t, CloseSession(t) \/ PutFile(t) \/ Hang(t) \/ ToolPut(t) \/ Exit(t) \/ KillTool(t)
      PROVE  BlobsStay
  BY <1>1, <1>8 DEF CloseSession, PutFile, Hang, ToolPut, Exit, KillTool
<1>9. team \subseteq Callers
  BY DEF IndInv, Types
<1>10. CASE UNCHANGED vars
  BY <1>1, <1>10 DEF vars
<1> QED
  BY <1>7, <1>8, <1>9, <1>10 DEF Next

(* No index of a vault ever means another blob while the host lives: a     *)
(* host that asks for the count and then for blob 0, 1, ... gets each once,*)
(* whatever other threads put, close or fail to put in between.            *)
THEOREM IndexesNeverMove == Spec => IndexesStay
<1>1. ASSUME IndInv, [Next]_vars, nextId' >= nextId, NEW v \in Range(issued),
             NEW i \in 0 .. BlobCount(v) - 1
      PROVE  vaults'[v].blobs[i + 1] = vaults[v].blobs[i + 1]
  <2>1. Registered /\ nextId \in Nat \ {0}
    BY <1>1 DEF IndInv, Types
  <2>2. PICK k \in DOMAIN issued : issued[k] = v
    BY DEF Range
  <2>3. v \in DOMAIN vaults /\ k \in 1 .. nextId - 1
    BY <2>1, <2>2 DEF Registered
  <2>4. ~KillHost
    BY <1>1, <2>1, <2>3 DEF KillHost
  <2>5. vaults[v].blobs \in Seq(Blobs)
    BY <1>1, <2>3, ElementTypes DEF VaultType
  <2>6. i + 1 \in 1 .. Len(vaults[v].blobs)
    BY <2>5, LenProperties DEF BlobCount
  <2> QED
    BY <1>1, <2>3, <2>4, <2>6, BlobsStayInStep DEF BlobsStay
<1>2. ASSUME IndInv, [Next]_vars
      PROVE  [nextId' >= nextId =>
                \A v \in Range(issued) : \A i \in 0 .. BlobCount(v) - 1 : BlobId(v, i)' = BlobId(v, i)]_vars
  BY <1>1, <1>2 DEF BlobId
<1> QED
  BY <1>2, AlwaysInv, PTL DEF Spec, IndexesStay
=============================================================================

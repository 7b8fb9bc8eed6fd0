----------------------------- MODULE VaultProofs ----------------------------
(***************************************************************************)
(* Proofs about Vault and VaultRead, for any number of vaults, files,      *)
(* blobs and puts, and any way to cut files into chunks.                   *)
(***************************************************************************)
EXTENDS VaultRead, DataLemmas

Put == [by : Vaults, file : Files]

Txn == [put : Nat, file : Files, total : Nat, chunks : SUBSET Nat]

Call == [op : Reads \cup {"put", "idle", "closed"}, todo : Seq(Blobs), put : Nat,
         where : Seq(Blobs), from : Nat, busy : BOOLEAN]

Types ==
  /\ log \in [Blobs -> Seq(Txn)]
  /\ lock \in [Blobs -> Vaults \cup {NoVault}]
  /\ blobs \in [Vaults -> Seq(Blobs)]
  /\ cache \in [Vaults -> [Blobs -> Nat]]
  /\ call \in [Vaults -> Call]
  /\ puts \in Seq(Put)

\* The blobs of the directory are numbered as they come, and only they have
\* transactions.
Directory ==
  /\ dir # <<>> /\ Range(dir) = 1 .. Len(dir) /\ Len(dir) <= MaxBlobs
  /\ \A b \in Blobs : log[b] # <<>> => b \in Range(dir)

\* A transaction carries chunks of the put that wrote it, and the total in
\* its marker is that of the vault.
TxnsOfPuts ==
  \A b \in Blobs : \A g \in DOMAIN log[b] :
    LET t == log[b][g]
    IN  /\ t.put \in DOMAIN puts /\ t.file = puts[t.put].file
        /\ t.chunks # {} /\ t.chunks \subseteq 1 .. Total[puts[t.put].by]
        /\ t.total \in {0, Total[puts[t.put].by]}

\* What a put that is under way has left to do.
PutsUnderWay ==
  \A v \in Vaults : call[v].op = "put" =>
    /\ call[v].put \in DOMAIN puts /\ puts[call[v].put].by = v
    /\ call[v].where \in [1 .. Total[v] -> Blobs]
    /\ Range(call[v].todo) \subseteq Range(call[v].where)

\* A chunk of put n is on file.
ChunkOnFile(n, s) ==
  \E b \in Blobs : \E g \in DOMAIN log[b] : log[b][g].put = n /\ s \in log[b][g].chunks

MarkerOnFile(n) ==
  \E b \in Blobs : \E g \in DOMAIN log[b] : log[b][g].put = n /\ log[b][g].total > 0

\* Every chunk of a put is written, or goes to a blob that is still to come.
ChunksAhead ==
  \A v \in Vaults : call[v].op = "put" =>
    \A s \in 1 .. Total[v] :
      call[v].where[s] \in Range(call[v].todo) \/ ChunkOnFile(call[v].put, s)

WholePut(n) == \A s \in 1 .. Total[puts[n].by] : ChunkOnFile(n, s)

MarkerLast == \A n \in DOMAIN puts : MarkerOnFile(n) => WholePut(n)

AckedMarked == \A n \in acked : MarkerOnFile(n)

\* A vault that lost nothing has every transaction of its own puts in its
\* index, or is about to read the blob that has it.
KnowsItsOwn ==
  \A v \in Vaults \ forgot : call[v].op # "closed" =>
    \A b \in Blobs : \A g \in DOMAIN log[b] :
      puts[log[b][g].put].by = v =>
        /\ b \in Range(blobs[v])
        /\ \/ g <= cache[v][b]
           \/ call[v].op \in {"open", "refresh"} /\ b \in Range(call[v].todo)
        /\ Reading(v, b) => g <= call[v].from

\* A vault that lost nothing has put on file at most one put of a file, which
\* is the one it is doing, if it is doing that.
PutOnce ==
  /\ StoresOnce
  /\ \A v \in Vaults \ forgot : call[v].op = "put" =>
       \A m \in OnFile : puts[m] = puts[call[v].put] => m = call[v].put

IndInv ==
  /\ TypeOK
  /\ Types
  /\ Directory
  /\ TxnsOfPuts
  /\ PutsUnderWay
  /\ ChunksAhead
  /\ MarkerLast
  /\ AckedMarked
  /\ KnowsItsOwn
  /\ PutOnce

-----------------------------------------------------------------------------
(* Calls. *)

LEMMA StartReadFacts ==
  ASSUME Types, NEW op \in Reads, NEW todo \in Seq(Blobs)
  PROVE  /\ StartRead(op, todo) \in Call
         /\ StartRead(op, todo).todo = todo
         /\ StartRead(op, todo).op = IF todo = <<>> THEN "idle" ELSE op
         /\ todo # <<>> => StartRead(op, todo).from = Len(log[Head(todo)])
<1>1. CASE todo = <<>>
  <2>1. Idle = [op |-> "idle", todo |-> <<>>, put |-> 0, where |-> <<>>, from |-> 0,
                busy |-> FALSE]
    BY DEF Idle, Doing
  <2>2. <<>> \in Seq(Blobs)
    BY EmptySeq
  <2> QED
    BY <1>1, <2>1, <2>2 DEF StartRead, Call
<1>2. CASE todo # <<>>
  <2>1. Head(todo) \in Blobs
    BY <1>2, HeadTailProperties
  <2>2. Len(log[Head(todo)]) \in Nat
    BY <2>1, LenProperties DEF Types
  <2> DEFINE from == Len(log[Head(todo)])
             busy == lock[Head(todo)] # NoVault
  <2>3. StartRead(op, todo) = [op |-> op, todo |-> todo, put |-> 0, where |-> <<>>,
                               from |-> from, busy |-> busy]
    BY <1>2 DEF StartRead, Doing
  <2>4. busy \in BOOLEAN /\ from \in Nat /\ <<>> \in Seq(Blobs)
    BY <2>2, EmptySeq
  <2> HIDE DEF from, busy
  <2>5. StartRead(op, todo) \in Call
    BY <2>3, <2>4 DEF Call
  <2> QED
    BY <1>2, <2>3, <2>5 DEF from
<1> QED
  BY <1>1, <1>2

LEMMA ClosedFacts ==
  /\ Closed \in Call /\ Closed.op = "closed" /\ Closed.todo = <<>>
  /\ Idle \in Call /\ Idle.op = "idle" /\ Idle.todo = <<>>
<1>1. <<>> \in Seq(Blobs)
  BY EmptySeq
<1>2. /\ Closed = [op |-> "closed", todo |-> <<>>, put |-> 0, where |-> <<>>, from |-> 0,
                   busy |-> FALSE]
      /\ Idle = [op |-> "idle", todo |-> <<>>, put |-> 0, where |-> <<>>, from |-> 0,
                   busy |-> FALSE]
  BY DEF Idle, Closed, Doing
<1> QED
  BY <1>1, <1>2 DEF Call

\* A vault that reads or puts is open, and its next blob is one of its own.
LEMMA BusyFacts ==
  ASSUME TypeOK, Types, NEW v \in Vaults, call[v].op \in Reads \cup {"put"}
  PROVE  /\ call[v].todo \in Seq(Blobs) /\ call[v].todo # <<>>
         /\ Head(call[v].todo) \in Blobs /\ Head(call[v].todo) \in Range(call[v].todo)
         /\ Tail(call[v].todo) \in Seq(Blobs)
         /\ Range(call[v].todo) = {Head(call[v].todo)} \cup Range(Tail(call[v].todo))
         /\ blobs[v] # <<>> /\ Range(call[v].todo) \subseteq Range(blobs[v])
<1>1. call[v].todo \in Seq(Blobs) /\ call[v].todo # <<>>
  BY DEF TypeOK, Types, Call
<1>2. /\ Head(call[v].todo) \in Range(call[v].todo) /\ Tail(call[v].todo) \in Seq(Blobs)
      /\ Range(call[v].todo) = {Head(call[v].todo)} \cup Range(Tail(call[v].todo))
      /\ Range(call[v].todo) \subseteq Blobs
  BY <1>1, HeadTailRange, RangeFacts
<1>3. blobs[v] # <<>> /\ Range(call[v].todo) \subseteq Range(blobs[v])
  BY DEF TypeOK, Reads
<1> QED
  BY <1>1, <1>2, <1>3

\* What a vault keeps between and during its calls.
VaultTyped(v) ==
  /\ blobs[v] \in Seq(Blobs) /\ Range(blobs[v]) \subseteq Range(dir)
  /\ cache[v] \in [Blobs -> Nat] /\ \A b \in Blobs : cache[v][b] <= Len(log[b])
  /\ call[v] \in Call
  /\ Range(call[v].todo) \subseteq Range(blobs[v])
  /\ call[v].todo # <<>> <=> call[v].op \in Reads \cup {"put"}
  /\ blobs[v] = <<>> <=> call[v].op = "closed"

OthersKeep(v) ==
  \A w \in Vaults \ {v} : blobs'[w] = blobs[w] /\ cache'[w] = cache[w] /\ call'[w] = call[w]

LEMMA AllTyped ==
  ASSUME TypeOK, Types, NEW w \in Vaults
  PROVE  VaultTyped(w)
BY DEF TypeOK, Types, VaultTyped

\* A step of v that neither is nor becomes a put.
LEMMA CallStepTypes ==
  ASSUME TypeOK, Types, NEW v \in Vaults, OthersKeep(v), UNCHANGED <<log, lock, puts, acked>>,
         call[v].op # "put",
         blobs' \in [Vaults -> Seq(Blobs)], cache' \in [Vaults -> [Blobs -> Nat]],
         call' \in [Vaults -> Call], VaultTyped(v)',
         dir' \in Seq(Blobs), IsInjective(dir'), Range(dir) \subseteq Range(dir'),
         faults' \in 0 .. MaxFaults, forgot' \subseteq Vaults
  PROVE  TypeOK' /\ Types'
<1>1. Types'
  BY DEF Types
<1>2. ASSUME NEW w \in Vaults
      PROVE  VaultTyped(w)'
  <2>1. CASE w = v
    BY <2>1
  <2>2. CASE w # v
    <3>1. VaultTyped(w)
      BY AllTyped
    <3> QED
      BY <2>2, <3>1 DEF OthersKeep, VaultTyped
  <2> QED
    BY <2>1, <2>2
<1>3. ASSUME NEW b \in Blobs, lock'[b] # NoVault
      PROVE  (Writing(lock[b]) /\ Head(call[lock[b]].todo) = b)'
  <2>1. lock[b] \in Vaults /\ Writing(lock[b]) /\ Head(call[lock[b]].todo) = b
    BY <1>3 DEF TypeOK, Types
  <2>2. lock[b] # v
    BY <2>1 DEF Writing
  <2> QED
    BY <2>1, <2>2 DEF OthersKeep, Writing
<1>4. acked' \subseteq DOMAIN puts'
  BY DEF TypeOK
<1> QED
  BY <1>1, <1>2, <1>3, <1>4 DEF TypeOK, VaultTyped, Call

\* What a step that writes nothing keeps.
LEMMA NothingWritten ==
  ASSUME IndInv, UNCHANGED <<log, puts, acked>>, forgot \subseteq forgot',
         \A w \in Vaults : call'[w].op = "put" =>
           /\ call[w].op = "put" /\ call'[w].put = call[w].put
           /\ call'[w].todo = call[w].todo /\ call'[w].where = call[w].where
  PROVE  TxnsOfPuts' /\ PutsUnderWay' /\ ChunksAhead' /\ MarkerLast' /\ AckedMarked' /\ PutOnce'
<1> USE DEF IndInv
<1>1. TxnsOfPuts'
  BY DEF TxnsOfPuts
<1>2. PutsUnderWay'
  BY DEF PutsUnderWay
<1>3. MarkerLast' /\ AckedMarked'
  BY DEF MarkerLast, AckedMarked, MarkerOnFile, WholePut, ChunkOnFile
<1>4. ChunksAhead'
  BY DEF ChunksAhead, ChunkOnFile
<1>5. OnFile' = OnFile
  BY DEF OnFile, Listed, Everything
<1>6. StoresOnce'
  BY <1>5 DEF PutOnce, StoresOnce
<1>7. PutOnce'
  BY <1>5, <1>6 DEF PutOnce
<1> QED
  BY <1>1, <1>2, <1>3, <1>4, <1>7

\* The others know what they knew.
LEMMA OthersKnow ==
  ASSUME IndInv, NEW v \in Vaults, OthersKeep(v), UNCHANGED <<log, puts>>,
         forgot \subseteq forgot', NEW w \in Vaults \ forgot', w # v, call'[w].op # "closed",
         NEW b \in Blobs, NEW g \in DOMAIN log'[b], puts'[log'[b][g].put].by = w
  PROVE  /\ b \in Range(blobs'[w])
         /\ \/ g <= cache'[w][b]
            \/ call'[w].op \in {"open", "refresh"} /\ b \in Range(call'[w].todo)
         /\ Reading(w, b)' => g <= call'[w].from
<1>1. /\ blobs'[w] = blobs[w] /\ cache'[w] = cache[w] /\ call'[w] = call[w]
      /\ w \in Vaults \ forgot /\ g \in DOMAIN log[b] /\ puts[log[b][g].put].by = w
  BY DEF OthersKeep
<1>2. /\ b \in Range(blobs[w])
      /\ \/ g <= cache[w][b]
         \/ call[w].op \in {"open", "refresh"} /\ b \in Range(call[w].todo)
      /\ Reading(w, b) => g <= call[w].from
  BY <1>1 DEF IndInv, KnowsItsOwn
<1> QED
  BY <1>1, <1>2 DEF Reading

-----------------------------------------------------------------------------
(* Reading indexes. *)

\* What a step that starts, ends or goes on with the reading of v has to show.
LEMMA ReadStep ==
  ASSUME IndInv, NEW v \in Vaults, OthersKeep(v), UNCHANGED <<log, lock, puts, acked>>,
         call[v].op # "put", call'[v].op # "put", forgot \subseteq forgot',
         blobs' \in [Vaults -> Seq(Blobs)], cache' \in [Vaults -> [Blobs -> Nat]],
         call' \in [Vaults -> Call], VaultTyped(v)',
         dir' \in Seq(Blobs), IsInjective(dir'), Range(dir) \subseteq Range(dir'),
         Directory', faults' \in 0 .. MaxFaults, forgot' \subseteq Vaults,
         (v \notin forgot' /\ call'[v].op # "closed") =>
           \A b \in Blobs : \A g \in DOMAIN log[b] :
             puts[log[b][g].put].by = v =>
               /\ b \in Range(blobs'[v])
               /\ \/ g <= cache'[v][b]
                  \/ call'[v].op \in {"open", "refresh"} /\ b \in Range(call'[v].todo)
               /\ Reading(v, b)' => g <= call'[v].from
  PROVE  IndInv'
<1>1. TypeOK' /\ Types'
  BY CallStepTypes DEF IndInv
<1>2. TxnsOfPuts' /\ PutsUnderWay' /\ ChunksAhead' /\ MarkerLast' /\ AckedMarked' /\ PutOnce'
  <2>1. \A w \in Vaults : call'[w].op = "put" => call'[w] = call[w]
    BY DEF OthersKeep
  <2> QED
    BY <2>1, NothingWritten
<1>3. KnowsItsOwn'
  <2> SUFFICES ASSUME NEW w \in Vaults \ forgot', call'[w].op # "closed", NEW b \in Blobs,
                      NEW g \in DOMAIN log'[b], puts'[log'[b][g].put].by = w
               PROVE  /\ b \in Range(blobs'[w])
                      /\ \/ g <= cache'[w][b]
                         \/ call'[w].op \in {"open", "refresh"} /\ b \in Range(call'[w].todo)
                      /\ Reading(w, b)' => g <= call'[w].from
    BY DEF KnowsItsOwn
  <2>1. CASE w = v
    BY <2>1
  <2>2. CASE w # v
    BY <2>2, OthersKnow
  <2> QED
    BY <2>1, <2>2
<1> QED
  BY <1>1, <1>2, <1>3 DEF IndInv

LEMMA OpenStep ==
  ASSUME IndInv, NEW v \in Vaults, Open(v)
  PROVE  IndInv'
<1> USE DEF IndInv
<1>1. /\ blobs' = [blobs EXCEPT ![v] = dir] /\ call[v].op = "closed"
      /\ call' = [call EXCEPT ![v] = StartRead("open", dir)]
      /\ UNCHANGED <<log, dir, lock, cache, puts, faults, acked, forgot>>
  BY DEF Open
<1>2. dir \in Seq(Blobs) /\ dir # <<>> /\ "open" \in Reads
  BY DEF TypeOK, Directory, Reads
<1>3. /\ call'[v] = StartRead("open", dir) /\ blobs'[v] = dir /\ OthersKeep(v)
      /\ blobs' \in [Vaults -> Seq(Blobs)]
  BY <1>1, <1>2 DEF Types, OthersKeep
<1>4. /\ call'[v] \in Call /\ call'[v].todo = dir /\ call'[v].op = "open"
      /\ call'[v].from = Len(log[Head(dir)])
  BY <1>2, <1>3, StartReadFacts
<1>5. call' \in [Vaults -> Call]
  BY <1>1, <1>3, <1>4 DEF Types
<1>6. VaultTyped(v)'
  BY <1>1, <1>2, <1>3, <1>4 DEF VaultTyped, TypeOK
<1>7. Directory'
  BY <1>1 DEF Directory
<1>8. ASSUME NEW b \in Blobs, NEW g \in DOMAIN log[b]
      PROVE  b \in Range(dir) /\ (Reading(v, b)' => g <= call'[v].from)
  <2>1. log[b] \in Seq(Txn) /\ g \in 1 .. Len(log[b]) /\ log[b] # <<>>
    BY LenProperties, EmptySeq DEF Types
  <2> QED
    BY <1>4, <2>1 DEF Directory, Reading
<1> QED
  BY <1>1, <1>3, <1>4, <1>5, <1>6, <1>7, <1>8, ReadStep DEF TypeOK, Types

LEMMA RefreshStep ==
  ASSUME IndInv, NEW v \in Vaults, RefreshIndexes(v)
  PROVE  IndInv'
<1> USE DEF IndInv
<1>1. /\ cache' = [cache EXCEPT ![v] = Nothing] /\ call[v].op = "idle"
      /\ call' = [call EXCEPT ![v] = StartRead("refresh", blobs[v])]
      /\ UNCHANGED <<log, dir, lock, blobs, puts, faults, acked, forgot>>
  BY DEF RefreshIndexes
<1>2. blobs[v] \in Seq(Blobs) /\ blobs[v] # <<>> /\ "refresh" \in Reads
  BY <1>1 DEF TypeOK, Reads
<1>3. /\ call'[v] = StartRead("refresh", blobs[v]) /\ cache'[v] = Nothing /\ OthersKeep(v)
      /\ cache' \in [Vaults -> [Blobs -> Nat]]
  BY <1>1 DEF Types, OthersKeep, Nothing
<1>4. /\ call'[v] \in Call /\ call'[v].todo = blobs[v] /\ call'[v].op = "refresh"
      /\ call'[v].from = Len(log[Head(blobs[v])])
  BY <1>2, <1>3, StartReadFacts
<1>5. call' \in [Vaults -> Call]
  BY <1>1, <1>3, <1>4 DEF Types
<1>6. VaultTyped(v)'
  <2>1. \A b \in Blobs : Len(log[b]) \in Nat
    BY LenProperties DEF Types
  <2> QED
    BY <1>1, <1>2, <1>3, <1>4, <2>1 DEF VaultTyped, TypeOK, Nothing
<1>7. Directory'
  BY <1>1 DEF Directory
<1>8. ASSUME NEW b \in Blobs, NEW g \in DOMAIN log[b], puts[log[b][g].put].by = v,
             v \notin forgot
      PROVE  b \in Range(blobs[v]) /\ (Reading(v, b)' => g <= call'[v].from)
  <2>1. log[b] \in Seq(Txn) /\ g \in 1 .. Len(log[b])
    BY LenProperties DEF Types
  <2>2. b \in Range(blobs[v])
    BY <1>1, <1>8 DEF KnowsItsOwn
  <2> QED
    BY <1>4, <2>1, <2>2 DEF Reading
<1> QED
  BY <1>1, <1>3, <1>4, <1>5, <1>6, <1>7, <1>8, ReadStep DEF TypeOK, Types

LEMMA ChangedStep ==
  ASSUME IndInv, NEW v \in Vaults, HandleBlobChanged(v)
  PROVE  IndInv'
<1> USE DEF IndInv
<1>1. PICK b0 \in Range(blobs[v]) : call' = [call EXCEPT ![v] = StartRead("changed", <<b0>>)]
  BY DEF HandleBlobChanged
<1>2. call[v].op = "idle" /\ UNCHANGED <<log, dir, lock, blobs, cache, puts, faults, acked, forgot>>
  BY DEF HandleBlobChanged
<1>3. /\ blobs[v] \in Seq(Blobs) /\ blobs[v] # <<>> /\ b0 \in Blobs /\ "changed" \in Reads
      /\ <<b0>> \in Seq(Blobs) /\ <<b0>> # <<>> /\ Head(<<b0>>) = b0 /\ Range(<<b0>>) = {b0}
  <2>1. blobs[v] \in Seq(Blobs) /\ blobs[v] # <<>>
    BY <1>2 DEF TypeOK, Reads
  <2>2. b0 \in Blobs
    BY <2>1, RangeFacts
  <2>3. Range(<<b0>>) = {b0}
    BY DEF Range
  <2> QED
    BY <2>1, <2>2, <2>3 DEF Reads
<1>4. call'[v] = StartRead("changed", <<b0>>) /\ OthersKeep(v)
  BY <1>1, <1>2 DEF Types, OthersKeep
<1>5. /\ call'[v] \in Call /\ call'[v].todo = <<b0>> /\ call'[v].op = "changed"
      /\ call'[v].from = Len(log[b0])
  <2> DEFINE one == <<b0>>
  <2>1. one \in Seq(Blobs) /\ one # <<>> /\ Head(one) = b0 /\ call'[v] = StartRead("changed", one)
    BY <1>3, <1>4
  <2> HIDE DEF one
  <2>2. call'[v] \in Call /\ call'[v].todo = one /\ call'[v].op = "changed"
        /\ call'[v].from = Len(log[b0])
    BY <1>3, <2>1, StartReadFacts
  <2> QED
    BY <2>2 DEF one
<1>6. call' \in [Vaults -> Call]
  BY <1>1, <1>4, <1>5 DEF Types
<1>7. VaultTyped(v)'
  <2>1. VaultTyped(v)
    BY AllTyped
  <2> QED
    BY <1>2, <1>3, <1>5, <2>1 DEF VaultTyped
<1>8. Directory'
  BY <1>2 DEF Directory
<1>9. ASSUME NEW b \in Blobs, NEW g \in DOMAIN log[b], puts[log[b][g].put].by = v,
             v \notin forgot
      PROVE  b \in Range(blobs[v]) /\ g <= cache[v][b] /\ (Reading(v, b)' => g <= call'[v].from)
  <2>1. log[b] \in Seq(Txn) /\ g \in 1 .. Len(log[b])
    BY LenProperties DEF Types
  <2>2. b \in Range(blobs[v]) /\ g <= cache[v][b]
    BY <1>2, <1>9 DEF KnowsItsOwn
  <2> QED
    BY <1>3, <1>5, <2>1, <2>2 DEF Reading
<1> QED
  BY <1>2, <1>4, <1>5, <1>6, <1>7, <1>8, <1>9, ReadStep DEF TypeOK, Types

LEMMA AppendStep ==
  ASSUME IndInv, NEW v \in Vaults, AppendBlob(v)
  PROVE  IndInv'
<1> USE DEF IndInv
<1> DEFINE new == Len(dir) + 1
<1>1. PICK i \in 1 .. new : dir' = InsertAt(dir, i, new)
  BY DEF AppendBlob
<1>2. /\ call[v].op = "idle" /\ new \in Blobs
      /\ blobs' = [blobs EXCEPT ![v] = Append(@, new)]
      /\ call' = [call EXCEPT ![v] = StartRead("append", <<new>>)]
      /\ UNCHANGED <<log, lock, cache, puts, faults, acked, forgot>>
  BY DEF AppendBlob
<1>3. /\ dir \in Seq(Blobs) /\ IsInjective(dir) /\ Range(dir) = 1 .. Len(dir)
      /\ Len(dir) \in Nat /\ new \notin Range(dir)
  BY LenProperties DEF TypeOK, Directory
<1>4. /\ dir' \in Seq(Blobs) /\ Len(dir') = new /\ IsInjective(dir')
      /\ Range(dir') = Range(dir) \cup {new}
  BY <1>1, <1>2, <1>3, InsertAtInjective
<1>5. /\ blobs[v] \in Seq(Blobs) /\ blobs[v] # <<>>
      /\ blobs'[v] = Append(blobs[v], new) /\ blobs'[v] \in Seq(Blobs) /\ blobs'[v] # <<>>
      /\ Range(blobs'[v]) = Range(blobs[v]) \cup {new}
  <2>1. blobs[v] \in Seq(Blobs) /\ blobs[v] # <<>> /\ blobs'[v] = Append(blobs[v], new)
    BY <1>2 DEF TypeOK, Reads, Types
  <2> HIDE DEF new
  <2> QED
    BY <1>2, <2>1, AppendProperties, AppendRange
<1>6. <<new>> \in Seq(Blobs) /\ <<new>> # <<>> /\ Range(<<new>>) = {new} /\ "append" \in Reads
      /\ Head(<<new>>) = new
  <2> HIDE DEF new
  <2> QED
    BY <1>2 DEF Range, Reads
<1> HIDE DEF new
<1>7. /\ call'[v] = StartRead("append", <<new>>) /\ OthersKeep(v)
      /\ blobs' \in [Vaults -> Seq(Blobs)]
  BY <1>2, <1>5 DEF Types, OthersKeep
<1>8. /\ call'[v] \in Call /\ call'[v].todo = <<new>> /\ call'[v].op = "append"
      /\ call'[v].from = Len(log[new])
  <2> DEFINE one == <<new>>
  <2>1. one \in Seq(Blobs) /\ one # <<>> /\ Head(one) = new /\ call'[v] = StartRead("append", one)
    BY <1>6, <1>7
  <2> HIDE DEF one
  <2>2. call'[v] \in Call /\ call'[v].todo = one /\ call'[v].op = "append"
        /\ call'[v].from = Len(log[new])
    BY <1>6, <2>1, StartReadFacts
  <2> QED
    BY <2>2 DEF one
<1>9. call' \in [Vaults -> Call]
  BY <1>2, <1>7, <1>8 DEF Types
<1>10. VaultTyped(v)'
  <2>1. VaultTyped(v)
    BY AllTyped
  <2> QED
    BY <1>2, <1>4, <1>5, <1>6, <1>8, <2>1 DEF VaultTyped
<1>11. Directory'
  <2>1. Range(dir') = 1 .. new /\ new <= MaxBlobs
    BY <1>2, <1>3, <1>4, VaultAssumption DEF new, Blobs
  <2>2. dir' # <<>>
    BY <1>3, <1>4, EmptySeq DEF new
  <2> QED
    BY <1>2, <1>4, <2>1, <2>2 DEF Directory
<1>12. ASSUME NEW b \in Blobs, NEW g \in DOMAIN log[b], puts[log[b][g].put].by = v,
             v \notin forgot
      PROVE  b \in Range(blobs'[v]) /\ g <= cache[v][b] /\ (Reading(v, b)' => g <= call'[v].from)
  <2>1. log[b] \in Seq(Txn) /\ g \in 1 .. Len(log[b])
    BY LenProperties DEF Types
  <2>2. b \in Range(blobs[v]) /\ g <= cache[v][b]
    BY <1>2, <1>12 DEF KnowsItsOwn
  <2> QED
    BY <1>5, <1>6, <1>8, <2>1, <2>2 DEF Reading
<1> QED
  BY <1>2, <1>4, <1>7, <1>8, <1>9, <1>10, <1>11, <1>12, ReadStep DEF TypeOK, Types

LEMMA FinishReadStep ==
  ASSUME IndInv, NEW v \in Vaults, FinishRead(v)
  PROVE  IndInv'
<1> USE DEF IndInv
<1> DEFINE b0   == Head(call[v].todo)
           rest == Tail(call[v].todo)
<1>1. PICK g0 \in 0 .. Len(log[b0]) :
        /\ cache' = [cache EXCEPT ![v][b0] = g0]
        /\ forgot' = IF g0 < call[v].from THEN forgot \cup {v} ELSE forgot
  BY DEF FinishRead
<1>2. /\ call[v].op \in Reads
      /\ call' = [call EXCEPT ![v] = StartRead(call[v].op, rest)]
      /\ UNCHANGED <<log, dir, lock, blobs, puts, faults, acked>>
  BY DEF FinishRead, Types
<1>3. /\ call[v].todo \in Seq(Blobs) /\ b0 \in Blobs /\ rest \in Seq(Blobs)
      /\ Range(call[v].todo) = {b0} \cup Range(rest)
      /\ blobs[v] # <<>> /\ Range(call[v].todo) \subseteq Range(blobs[v])
  BY <1>2, BusyFacts
<1> HIDE DEF b0, rest
<1>4. call'[v] = StartRead(call[v].op, rest)
  BY <1>2 DEF Types
<1>5. /\ call'[v] \in Call /\ call'[v].todo = rest
      /\ call'[v].op = IF rest = <<>> THEN "idle" ELSE call[v].op
      /\ rest # <<>> => call'[v].from = Len(log[Head(rest)])
  BY <1>2, <1>3, <1>4, StartReadFacts
<1>6. Len(log[b0]) \in Nat /\ g0 \in Nat
  BY <1>3, LenProperties DEF Types
<1>7. /\ cache' \in [Vaults -> [Blobs -> Nat]]
      /\ cache'[v][b0] = g0 /\ \A b \in Blobs \ {b0} : cache'[v][b] = cache[v][b]
      /\ \A w \in Vaults \ {v} : cache'[w] = cache[w]
  BY <1>1, <1>3, <1>6 DEF Types
<1>8. OthersKeep(v) /\ call' \in [Vaults -> Call]
  BY <1>2, <1>4, <1>5, <1>7 DEF OthersKeep, Types
<1>9. VaultTyped(v)'
  <2>1. VaultTyped(v)
    BY AllTyped
  <2>2. \A b \in Blobs : cache'[v][b] <= Len(log[b])
    BY <1>1, <1>3, <1>6, <1>7, <2>1 DEF VaultTyped
  <2>3. (call'[v].op # "closed") /\ (call'[v].todo # <<>> <=> call'[v].op \in Reads \cup {"put"})
    BY <1>2, <1>5 DEF Reads
  <2> QED
    BY <1>2, <1>3, <1>5, <1>7, <2>1, <2>2, <2>3 DEF VaultTyped
<1>10. Directory'
  BY <1>2 DEF Directory
<1>11. forgot \subseteq forgot' /\ forgot' \subseteq Vaults
  BY <1>1 DEF TypeOK
<1>12. ASSUME NEW b \in Blobs, NEW g \in DOMAIN log[b], puts[log[b][g].put].by = v,
             v \notin forgot'
      PROVE  /\ b \in Range(blobs[v])
             /\ \/ g <= cache'[v][b]
                \/ call'[v].op \in {"open", "refresh"} /\ b \in Range(rest)
             /\ Reading(v, b)' => g <= call'[v].from
  <2>1. log[b] \in Seq(Txn) /\ g \in 1 .. Len(log[b]) /\ Len(log[b]) \in Nat
    BY LenProperties DEF Types
  <2>2. v \notin forgot /\ ~(g0 < call[v].from)
    BY <1>1, <1>12
  <2>3. call[v].op # "closed" /\ call[v].from \in Nat
    BY <1>2 DEF Reads, Types, Call
  <2>4. /\ b \in Range(blobs[v])
        /\ \/ g <= cache[v][b]
           \/ call[v].op \in {"open", "refresh"} /\ b \in Range(call[v].todo)
        /\ Reading(v, b) => g <= call[v].from
    BY <1>12, <2>2, <2>3 DEF KnowsItsOwn
  <2>5. CASE b = b0
    <3>1. g <= call[v].from
      BY <1>2, <2>4, <2>5 DEF Reading, b0
    <3>2. g <= g0
      BY <1>6, <2>1, <2>2, <2>3, <3>1
    <3>3. Reading(v, b)' => g <= call'[v].from
      BY <1>5, <2>1, <2>5 DEF Reading, Reads
    <3> QED
      BY <1>7, <2>4, <2>5, <3>2, <3>3
  <2>6. CASE b # b0
    <3>1. b \in Range(call[v].todo) => b \in Range(rest) /\ rest # <<>>
      BY <1>3, <2>6, RangeFacts
    <3>2. Reading(v, b)' => g <= call'[v].from
      BY <1>5, <2>1, <2>6 DEF Reading, Reads
    <3> QED
      BY <1>5, <1>7, <2>4, <2>6, <3>1, <3>2
  <2> QED
    BY <2>5, <2>6
<1>13. call[v].op # "put" /\ call'[v].op # "put"
  BY <1>2, <1>5 DEF Reads
<1> QED
  BY <1>2, <1>5, <1>7, <1>8, <1>9, <1>10, <1>11, <1>12, <1>13, ReadStep DEF TypeOK, Types

LEMMA FailReadStep ==
  ASSUME IndInv, NEW v \in Vaults, FailRead(v)
  PROVE  IndInv'
<1> USE DEF IndInv
<1>1. /\ call[v].op \in Reads
      /\ forgot' = IF call[v].op = "refresh" THEN forgot \cup {v} ELSE forgot
      /\ UNCHANGED <<log, dir, lock, puts, acked>>
  BY DEF FailRead
<1>2. faults' \in 0 .. MaxFaults
  BY VaultAssumption DEF FailRead, TypeOK
<1>3. forgot \subseteq forgot' /\ forgot' \subseteq Vaults
  BY <1>1 DEF TypeOK
<1>4. Directory'
  BY <1>1 DEF Directory
<1>5. call[v].op # "put" /\ dir \in Seq(Blobs) /\ IsInjective(dir) /\ VaultTyped(v)
  BY <1>1, AllTyped DEF Reads, TypeOK
<1>6. CASE call[v].op = "open"
  <2>1. /\ call' = [call EXCEPT ![v] = Closed] /\ blobs' = [blobs EXCEPT ![v] = <<>>]
        /\ cache' = [cache EXCEPT ![v] = Nothing]
    BY <1>6 DEF FailRead
  <2>2. call'[v] = Closed /\ blobs'[v] = <<>> /\ cache'[v] = Nothing /\ OthersKeep(v)
    BY <2>1 DEF Types, OthersKeep
  <2>3. <<>> \in Seq(Blobs) /\ Range(<<>>) = {}
    BY EmptySeq DEF Range
  <2>4. Nothing \in [Blobs -> Nat] /\ \A b \in Blobs : Nothing[b] = 0
    BY DEF Nothing
  <2>5. /\ blobs' \in [Vaults -> Seq(Blobs)] /\ cache' \in [Vaults -> [Blobs -> Nat]]
        /\ call' \in [Vaults -> Call]
    BY <2>1, <2>3, <2>4, ClosedFacts DEF Types
  <2>6. VaultTyped(v)'
    <3>1. \A b \in Blobs : Len(log[b]) \in Nat
      BY LenProperties DEF Types
    <3>2. call'[v].todo = <<>> /\ call'[v].op = "closed" /\ call'[v].op \notin Reads \cup {"put"}
      BY <2>2, ClosedFacts DEF Reads
    <3> QED
      BY <1>1, <2>2, <2>3, <2>4, <3>1, <3>2, ClosedFacts DEF VaultTyped
  <2> QED
    BY <1>1, <1>2, <1>3, <1>4, <1>5, <2>2, <2>5, <2>6, ClosedFacts, ReadStep
<1>7. CASE call[v].op # "open"
  <2>1. call' = [call EXCEPT ![v] = Idle] /\ UNCHANGED <<blobs, cache>>
    BY <1>7 DEF FailRead
  <2>2. call'[v] = Idle /\ OthersKeep(v) /\ call' \in [Vaults -> Call]
    BY <2>1, ClosedFacts DEF Types, OthersKeep
  <2>3. VaultTyped(v)'
    <3>1. blobs[v] # <<>>
      BY <1>1, BusyFacts
    <3>2. /\ call'[v].todo = <<>> /\ call'[v].op = "idle" /\ call'[v].op \notin Reads \cup {"put"}
          /\ Range(<<>>) = {}
      BY <2>2, ClosedFacts DEF Reads, Range
    <3> QED
      BY <1>1, <1>5, <2>1, <2>2, <3>1, <3>2, ClosedFacts DEF VaultTyped
  <2>4. ASSUME NEW b \in Blobs, NEW g \in DOMAIN log[b], puts[log[b][g].put].by = v,
               v \notin forgot'
        PROVE  b \in Range(blobs'[v]) /\ g <= cache'[v][b] /\ ~Reading(v, b)'
    <3>1. v \notin forgot /\ call[v].op \notin {"open", "refresh"} /\ call[v].op # "closed"
      BY <1>1, <1>7, <2>4 DEF Reads
    <3>2. b \in Range(blobs[v]) /\ g <= cache[v][b]
      BY <2>4, <3>1 DEF KnowsItsOwn
    <3>3. ~Reading(v, b)'
      BY <2>2, ClosedFacts DEF Reading, Reads
    <3> QED
      BY <2>1, <3>2, <3>3
  <2>5. blobs \in [Vaults -> Seq(Blobs)] /\ cache \in [Vaults -> [Blobs -> Nat]]
    BY DEF Types
  <2>6. call'[v].op # "put"
    BY <2>2, ClosedFacts
  <2> QED
    BY <1>1, <1>2, <1>3, <1>4, <1>5, <2>1, <2>2, <2>3, <2>4, <2>5, <2>6, ReadStep
<1> QED
  BY <1>6, <1>7

-----------------------------------------------------------------------------
(* Putting files. *)

\* The locks of the calls that write.
LEMMA HeldByWriters ==
  ASSUME TypeOK, Types, NEW b \in Blobs, lock[b] # NoVault
  PROVE  lock[b] \in Vaults /\ Writing(lock[b]) /\ Head(call[lock[b]].todo) = b
BY DEF TypeOK, Types

LEMMA BeginWriteStep ==
  ASSUME IndInv, NEW v \in Vaults, BeginWrite(v)
  PROVE  IndInv'
<1> USE DEF IndInv
<1> DEFINE b0 == Head(call[v].todo)
<1>1. /\ call[v].op = "put" /\ lock[b0] = NoVault
      /\ lock' = [lock EXCEPT ![b0] = v]
      /\ call' = [w \in Vaults |-> IF Reading(w, b0) THEN [call[w] EXCEPT !.busy = TRUE]
                                   ELSE call[w]]
      /\ UNCHANGED <<log, dir, blobs, cache, puts, faults, acked, forgot>>
  BY DEF BeginWrite
<1>2. b0 \in Blobs
  BY <1>1, BusyFacts
<1> HIDE DEF b0
<1>3. ASSUME NEW w \in Vaults
      PROVE  /\ call'[w] \in Call /\ call'[w].op = call[w].op /\ call'[w].todo = call[w].todo
             /\ call'[w].put = call[w].put /\ call'[w].where = call[w].where
             /\ call'[w].from = call[w].from
  <2>1. call[w] \in Call
    BY DEF Types
  <2>2. call'[w] = call[w] \/ call'[w] = [call[w] EXCEPT !.busy = TRUE]
    BY <1>1
  <2>3. [call[w] EXCEPT !.busy = TRUE] \in Call
    <3>1. TRUE \in BOOLEAN
      OBVIOUS
    <3> QED
      BY <2>1, <3>1, Zenon DEF Call
  <2> QED
    BY <2>1, <2>2, <2>3 DEF Call
<1>4. Types'
  <2>1. call' \in [Vaults -> Call]
    BY <1>1, <1>3
  <2> QED
    BY <1>1, <1>2, <2>1 DEF Types
<1>5. TypeOK'
  <2>1. ASSUME NEW w \in Vaults
        PROVE  VaultTyped(w)'
    <3>1. VaultTyped(w)
      BY AllTyped
    <3> QED
      BY <1>1, <1>3, <3>1 DEF VaultTyped
  <2>2. ASSUME NEW b \in Blobs, lock'[b] # NoVault
        PROVE  (Writing(lock[b]) /\ Head(call[lock[b]].todo) = b)'
    <3>1. CASE b = b0
      <4>1. lock'[b] = v /\ call'[v].op = "put" /\ call'[v].todo = call[v].todo
        BY <1>1, <1>2, <1>3, <3>1 DEF Types
      <4>2. Head(call'[v].todo) = b
        BY <3>1, <4>1 DEF b0
      <4> QED
        BY <4>1, <4>2 DEF Writing
    <3>2. CASE b # b0
      <4>1. lock'[b] = lock[b]
        BY <1>1, <1>2, <3>2 DEF Types
      <4>2. lock[b] \in Vaults /\ Writing(lock[b]) /\ Head(call[lock[b]].todo) = b
        BY <2>2, <4>1, HeldByWriters
      <4> QED
        BY <1>3, <4>1, <4>2 DEF Writing
    <3> QED
      BY <3>1, <3>2
  <2> QED
    BY <1>1, <1>3, <2>1, <2>2 DEF TypeOK, VaultTyped, Call
<1>6. TxnsOfPuts' /\ PutsUnderWay' /\ ChunksAhead' /\ MarkerLast' /\ AckedMarked' /\ PutOnce'
  BY <1>1, <1>3, NothingWritten
<1>7. Directory'
  BY <1>1 DEF Directory
<1>8. KnowsItsOwn'
  <2> SUFFICES ASSUME NEW w \in Vaults \ forgot', call'[w].op # "closed", NEW b \in Blobs,
                      NEW g \in DOMAIN log'[b], puts'[log'[b][g].put].by = w
               PROVE  /\ b \in Range(blobs'[w])
                      /\ \/ g <= cache'[w][b]
                         \/ call'[w].op \in {"open", "refresh"} /\ b \in Range(call'[w].todo)
                      /\ Reading(w, b)' => g <= call'[w].from
    BY DEF KnowsItsOwn
  <2>1. /\ b \in Range(blobs[w])
        /\ \/ g <= cache[w][b]
           \/ call[w].op \in {"open", "refresh"} /\ b \in Range(call[w].todo)
        /\ Reading(w, b) => g <= call[w].from
    BY <1>1, <1>3 DEF KnowsItsOwn
  <2>2. Reading(w, b)' => Reading(w, b)
    BY <1>3 DEF Reading
  <2> QED
    BY <1>1, <1>3, <2>1, <2>2
<1> QED
  BY <1>4, <1>5, <1>6, <1>7, <1>8

\* The blobs of a placement form a list of them.
LEMMA InOrderFacts ==
  ASSUME TypeOK, Types, NEW v \in Vaults, NEW where \in [1 .. Total[v] -> Range(blobs[v])],
         NEW todo \in InOrder(v, where)
  PROVE  /\ where \in [1 .. Total[v] -> Blobs] /\ where \in Seq(Blobs)
         /\ \A s \in 1 .. Total[v] : where[s] \in Range(where)
         /\ todo \in Seq(Blobs) /\ todo # <<>>
         /\ Range(todo) = Range(where) /\ Range(todo) \subseteq Range(blobs[v])
<1>1. Total[v] \in Nat /\ Total[v] >= 1
  BY VaultAssumption
<1>2. blobs[v] \in Seq(Blobs) /\ Range(blobs[v]) \subseteq Blobs
  BY RangeFacts DEF Types
<1>3. where \in [1 .. Total[v] -> Blobs] /\ where \in Seq(Blobs)
  BY <1>1, <1>2, SeqDef
<1>4. /\ Range(where) \subseteq Range(blobs[v])
      /\ \A s \in 1 .. Total[v] : where[s] \in Range(where)
  BY DEF Range
<1>5. Range(where) # {}
  BY <1>1, <1>4
<1>6. Cardinality(Range(where)) \in Nat
  <2>1. IsFiniteSet(Blobs)
    BY VaultAssumption, FS_Interval DEF Blobs
  <2>2. IsFiniteSet(Range(where))
    BY <1>2, <1>4, <2>1, FS_Subset
  <2> QED
    BY <2>2, FS_CardinalityType
<1>7. /\ todo \in [1 .. Cardinality(Range(where)) -> Range(where)]
      /\ Range(todo) = Range(where)
  BY DEF InOrder
<1>8. todo \in Seq(Range(where))
  BY <1>6, <1>7, SeqDef
<1>9. todo \in Seq(Blobs) /\ todo # <<>>
  <2>1. todo \in Seq(Blobs)
    BY <1>2, <1>4, <1>6, <1>7, SeqDef
  <2> QED
    BY <1>5, <1>7, <2>1, RangeFacts
<1> QED
  BY <1>3, <1>4, <1>7, <1>9

LEMMA OnFileFacts ==
  ASSUME Types, NEW m
  PROVE  m \in OnFile <=> \E b \in Blobs : \E g \in DOMAIN log[b] : log[b][g].put = m
<1>1. \A b \in Blobs : DOMAIN log[b] = 1 .. Len(log[b])
  BY LenProperties DEF Types
<1>2. m \in OnFile <=> \E b \in Blobs : \E g \in 1 .. Len(log[b]) : log[b][g].put = m
  BY DEF OnFile, Listed, Everything
<1> QED
  BY <1>1, <1>2

\* What an index lists of a file.
LEMMA EntryFacts ==
  ASSUME NEW view, NEW f
  PROVE  /\ \A t \in Listed(view) : \A s \in t.chunks :
              t.file = f => <<t.put, s>> \in ChunkEntries(view, f)
         /\ \A c \in ChunkEntries(view, f) : \E t \in Listed(view) :
              t.file = f /\ \E s \in t.chunks : c = <<t.put, s>>
<1> DEFINE OfFile == {t \in Listed(view) : t.file = f}
           Pairs(t) == {<<t.put, s>> : s \in t.chunks}
<1>1. ChunkEntries(view, f) = UNION {Pairs(t) : t \in OfFile}
  BY DEF ChunkEntries
<1>2. ASSUME NEW t \in Listed(view), NEW s \in t.chunks, t.file = f
      PROVE  <<t.put, s>> \in ChunkEntries(view, f)
  <2>1. t \in OfFile /\ <<t.put, s>> \in Pairs(t)
    BY <1>2
  <2> HIDE DEF OfFile, Pairs
  <2> QED
    BY <1>1, <2>1
<1>3. ASSUME NEW c \in ChunkEntries(view, f)
      PROVE  \E t \in Listed(view) : t.file = f /\ \E s \in t.chunks : c = <<t.put, s>>
  <2>1. \E t \in OfFile : c \in Pairs(t)
    <3> HIDE DEF OfFile, Pairs
    <3> QED
      BY <1>1
  <2> QED
    BY <2>1
<1> QED
  BY <1>2, <1>3

LEMMA PutFileStep ==
  ASSUME IndInv, NEW v \in Vaults, NEW f \in Files, PutFile(v, f)
  PROVE  IndInv'
<1> USE DEF IndInv
<1> DEFINE n0  == Len(puts) + 1
           put == [by |-> v, file |-> f]
<1>1. /\ call[v].op = "idle" /\ ~AlreadyExists(v, f) /\ puts' = Append(puts, put)
      /\ UNCHANGED <<log, dir, lock, blobs, cache, faults, acked, forgot>>
  BY DEF PutFile
<1>2. PICK where \in [1 .. Total[v] -> Range(blobs[v])] : \E todo \in InOrder(v, where) :
        call' = [call EXCEPT ![v] = [Doing("put", todo) EXCEPT !.put = Len(puts'),
                                                               !.where = where]]
  BY DEF PutFile
<1>20. PICK todo \in InOrder(v, where) :
        call' = [call EXCEPT ![v] = [Doing("put", todo) EXCEPT !.put = Len(puts'),
                                                               !.where = where]]
  BY <1>2
<1>3. /\ where \in [1 .. Total[v] -> Blobs] /\ where \in Seq(Blobs)
      /\ \A s \in 1 .. Total[v] : where[s] \in Range(where)
      /\ todo \in Seq(Blobs) /\ todo # <<>>
      /\ Range(todo) = Range(where) /\ Range(todo) \subseteq Range(blobs[v])
  BY InOrderFacts
<1>4. /\ puts' \in Seq(Put) /\ Len(puts') = n0 /\ n0 \in Nat
      /\ DOMAIN puts = 1 .. Len(puts) /\ DOMAIN puts' = DOMAIN puts \cup {n0}
      /\ n0 \notin DOMAIN puts /\ puts'[n0] = put
      /\ \A n \in DOMAIN puts : puts'[n] = puts[n]
  <2>1. put \in Put /\ puts \in Seq(Put) /\ Len(puts) \in Nat /\ DOMAIN puts = 1 .. Len(puts)
    BY LenProperties DEF Types, Put
  <2> HIDE DEF put
  <2> QED
    BY <1>1, <2>1, AppendProperties
<1> HIDE DEF n0, put
<1>5. /\ call'[v] = [op |-> "put", todo |-> todo, put |-> n0, where |-> where, from |-> 0,
                     busy |-> FALSE]
      /\ \A w \in Vaults \ {v} : call'[w] = call[w]
  BY <1>20, <1>4 DEF Doing, Types
<1>6. /\ call'[v] \in Call /\ call'[v].op = "put" /\ call'[v].todo = todo
      /\ call'[v].put = n0 /\ call'[v].where = where /\ call'[v].from = 0
  BY <1>3, <1>4, <1>5 DEF Call
<1>7. Types'
  <2>1. call' \in [Vaults -> Call]
    BY <1>20, <1>5, <1>6 DEF Types
  <2> QED
    BY <1>1, <1>4, <2>1 DEF Types
<1>8. TypeOK'
  <2>1. ASSUME NEW w \in Vaults
        PROVE  VaultTyped(w)'
    <3>1. VaultTyped(w)
      BY AllTyped
    <3>2. CASE w = v
      BY <1>1, <1>3, <1>6, <3>1, <3>2 DEF VaultTyped
    <3>3. CASE w # v
      BY <1>1, <1>5, <3>1, <3>3 DEF VaultTyped
    <3> QED
      BY <3>2, <3>3
  <2>2. ASSUME NEW b \in Blobs, lock'[b] # NoVault
        PROVE  (Writing(lock[b]) /\ Head(call[lock[b]].todo) = b)'
    <3>1. lock[b] \in Vaults /\ Writing(lock[b]) /\ Head(call[lock[b]].todo) = b
      BY <1>1, <2>2, HeldByWriters
    <3>2. lock[b] # v
      BY <1>1, <3>1 DEF Writing
    <3> QED
      BY <1>1, <1>5, <3>1, <3>2 DEF Writing
  <2>3. acked' \subseteq DOMAIN puts'
    BY <1>1, <1>4 DEF TypeOK
  <2> QED
    BY <1>1, <2>1, <2>2, <2>3 DEF TypeOK, VaultTyped, Call
<1>9. Directory'
  BY <1>1 DEF Directory
<1>10. TxnsOfPuts'
  BY <1>1, <1>4 DEF TxnsOfPuts
<1>11. PutsUnderWay'
  <2> SUFFICES ASSUME NEW w \in Vaults, call'[w].op = "put"
               PROVE  /\ call'[w].put \in DOMAIN puts' /\ puts'[call'[w].put].by = w
                      /\ call'[w].where \in [1 .. Total[w] -> Blobs]
                      /\ Range(call'[w].todo) \subseteq Range(call'[w].where)
    BY DEF PutsUnderWay
  <2>1. CASE w = v
    BY <1>3, <1>4, <1>6, <2>1 DEF put
  <2>2. CASE w # v
    BY <1>4, <1>5, <2>2 DEF PutsUnderWay
  <2> QED
    BY <2>1, <2>2
<1>12. ChunksAhead'
  <2> SUFFICES ASSUME NEW w \in Vaults, call'[w].op = "put", NEW s \in 1 .. Total[w]
               PROVE  call'[w].where[s] \in Range(call'[w].todo)
                      \/ ChunkOnFile(call[w].put, s)'
    BY DEF ChunksAhead
  <2>1. CASE w = v
    BY <1>3, <1>6, <2>1
  <2>2. CASE w # v
    BY <1>1, <1>5, <2>2 DEF ChunksAhead, ChunkOnFile
  <2> QED
    BY <2>1, <2>2
<1>13. MarkerLast' /\ AckedMarked'
  <2>1. ASSUME NEW n, MarkerOnFile(n)
        PROVE  n \in DOMAIN puts
    BY <2>1 DEF MarkerOnFile, TxnsOfPuts
  <2>2. ASSUME NEW n \in DOMAIN puts', MarkerOnFile(n)'
        PROVE  WholePut(n)'
    <3>1. MarkerOnFile(n)
      BY <1>1, <2>2 DEF MarkerOnFile
    <3>2. n \in DOMAIN puts /\ WholePut(n)
      BY <2>1, <3>1 DEF MarkerLast
    <3> QED
      BY <1>1, <1>4, <3>2 DEF WholePut, ChunkOnFile
  <2>3. AckedMarked'
    BY <1>1 DEF AckedMarked, MarkerOnFile
  <2> QED
    BY <2>2, <2>3 DEF MarkerLast
<1>14. KnowsItsOwn'
  <2> SUFFICES ASSUME NEW w \in Vaults \ forgot', call'[w].op # "closed", NEW b \in Blobs,
                      NEW g \in DOMAIN log'[b], puts'[log'[b][g].put].by = w
               PROVE  /\ b \in Range(blobs'[w])
                      /\ \/ g <= cache'[w][b]
                         \/ call'[w].op \in {"open", "refresh"} /\ b \in Range(call'[w].todo)
                      /\ Reading(w, b)' => g <= call'[w].from
    BY DEF KnowsItsOwn
  <2>1. g \in DOMAIN log[b] /\ puts[log[b][g].put].by = w
    BY <1>1, <1>4 DEF TxnsOfPuts
  <2>2. CASE w = v
    <3>1. b \in Range(blobs[w]) /\ g <= cache[w][b]
      BY <1>1, <2>1, <2>2 DEF KnowsItsOwn
    <3> QED
      BY <1>1, <1>6, <2>2, <3>1 DEF Reading, Reads
  <2>3. CASE w # v
    BY <1>1, <1>5, <2>1, <2>3 DEF KnowsItsOwn, Reading
  <2> QED
    BY <2>2, <2>3
<1>15. OnFile' = OnFile /\ \A m \in OnFile : m \in DOMAIN puts
  BY <1>1, OnFileFacts DEF OnFile, Listed, Everything, TxnsOfPuts
<1>16. ASSUME v \notin forgot, NEW m \in OnFile
       PROVE  puts[m] # put
  <2> SUFFICES ASSUME puts[m] = put
               PROVE  FALSE
    OBVIOUS
  <2>1. PICK b \in Blobs : \E g \in DOMAIN log[b] : log[b][g].put = m
    BY OnFileFacts
  <2>2. PICK g \in DOMAIN log[b] : log[b][g].put = m
    BY <2>1
  <2>3. g <= cache[v][b]
    BY <1>1, <1>16, <2>2 DEF KnowsItsOwn, put
  <2>4. cache[v][b] \in Nat /\ g \in 1 .. Len(log[b])
    BY LenProperties DEF Types
  <2>5. log[b][g] \in Listed(cache[v])
    BY <2>3, <2>4 DEF Listed
  <2>6. log[b][g].file = f /\ log[b][g].chunks # {}
    BY <2>2 DEF TxnsOfPuts, put
  <2>7. ChunkEntries(cache[v], f) # {}
    <3>1. PICK s \in log[b][g].chunks : TRUE
      BY <2>6
    <3> QED
      BY <2>5, <2>6, <3>1, EntryFacts
  <2> QED
    BY <1>1, <2>7 DEF AlreadyExists
<1>17. PutOnce'
  <2>1. StoresOnce'
    BY <1>1, <1>4, <1>15 DEF PutOnce, StoresOnce
  <2>2. ASSUME NEW w \in Vaults \ forgot', call'[w].op = "put", NEW m \in OnFile',
               puts'[m] = puts'[call'[w].put]
        PROVE  m = call'[w].put
    <3>1. m \in OnFile /\ m \in DOMAIN puts /\ puts'[m] = puts[m]
      BY <1>4, <1>15
    <3>2. CASE w = v
      BY <1>1, <1>4, <1>6, <1>16, <2>2, <3>1, <3>2
    <3>3. CASE w # v
      <4>1. call'[w] = call[w] /\ call[w].put \in DOMAIN puts
        BY <1>5, <2>2, <3>3 DEF PutsUnderWay
      <4> QED
        <5>1. w \in Vaults \ forgot /\ call[w].op = "put" /\ puts[m] = puts[call[w].put]
          BY <1>1, <1>4, <2>2, <3>1, <4>1
        <5>2. m = call[w].put
          BY <3>1, <5>1 DEF PutOnce
        <5> QED
          BY <4>1, <5>2
    <3> QED
      BY <3>2, <3>3
  <2> QED
    BY <2>1, <2>2 DEF PutOnce
<1> QED
  BY <1>7, <1>8, <1>9, <1>10, <1>11, <1>12, <1>13, <1>14, <1>17

-----------------------------------------------------------------------------
(* Writing. *)

\* The transaction that the write of v commits.
NextTxn(v) ==
  [put |-> call[v].put, file |-> puts[call[v].put].file, total |-> MarkerTotal(v),
   chunks |-> {s \in 1 .. Total[v] : call[v].where[s] = Head(call[v].todo)}]

LEMMA NextTxnFacts ==
  ASSUME IndInv, NEW v \in Vaults, Writing(v)
  PROVE  /\ NextTxn(v) \in Txn /\ NextTxn(v).put = call[v].put
         /\ call[v].put \in DOMAIN puts /\ puts[call[v].put].by = v
         /\ NextTxn(v).file = puts[call[v].put].file
         /\ NextTxn(v).total = MarkerTotal(v) /\ MarkerTotal(v) \in {0, Total[v]}
         /\ NextTxn(v).chunks = {s \in 1 .. Total[v] : call[v].where[s] = Head(call[v].todo)}
         /\ NextTxn(v).chunks # {} /\ Total[v] \in Nat \ {0}
<1> USE DEF IndInv
<1>1. /\ call[v].put \in DOMAIN puts /\ puts[call[v].put].by = v
      /\ call[v].where \in [1 .. Total[v] -> Blobs]
      /\ Range(call[v].todo) \subseteq Range(call[v].where)
  BY DEF PutsUnderWay, Writing
<1>2. Total[v] \in Nat \ {0} /\ MarkerTotal(v) \in {0, Total[v]}
  BY VaultAssumption DEF MarkerTotal
<1>3. puts[call[v].put] \in Put /\ call[v].put \in Nat
  BY <1>1, LenProperties DEF Types, Call
<1>4. Head(call[v].todo) \in Range(call[v].where)
  BY <1>1, BusyFacts DEF Writing
<1>5. {s \in 1 .. Total[v] : call[v].where[s] = Head(call[v].todo)} # {}
  BY <1>1, <1>4 DEF Range
<1> DEFINE carried == {s \in 1 .. Total[v] : call[v].where[s] = Head(call[v].todo)}
<1>6. carried \in SUBSET Nat
  BY <1>2
<1>7. NextTxn(v) = [put |-> call[v].put, file |-> puts[call[v].put].file,
                    total |-> MarkerTotal(v), chunks |-> carried]
  BY DEF NextTxn
<1> HIDE DEF carried
<1>8. NextTxn(v) \in Txn
  BY <1>2, <1>3, <1>6, <1>7 DEF Txn, Put
<1>9. NextTxn(v).chunks = carried /\ NextTxn(v).put = call[v].put
      /\ NextTxn(v).file = puts[call[v].put].file /\ NextTxn(v).total = MarkerTotal(v)
  BY <1>7
<1> QED
  BY <1>1, <1>2, <1>5, <1>8, <1>9 DEF carried

LEMMA LoggedFacts ==
  ASSUME IndInv, NEW v \in Vaults, Writing(v), log' = Logged(v)
  PROVE  /\ log' \in [Blobs -> Seq(Txn)] /\ Head(call[v].todo) \in Blobs
         /\ log'[Head(call[v].todo)] = Append(log[Head(call[v].todo)], NextTxn(v))
         /\ \A b \in Blobs : /\ b # Head(call[v].todo) => log'[b] = log[b]
                             /\ Len(log[b]) <= Len(log'[b])
                             /\ DOMAIN log[b] \subseteq DOMAIN log'[b]
                             /\ \A g \in DOMAIN log[b] : log'[b][g] = log[b][g]
                             /\ \A g \in DOMAIN log'[b] :
                                  \/ g \in DOMAIN log[b]
                                  \/ b = Head(call[v].todo) /\ log'[b][g] = NextTxn(v)
         /\ \E g \in DOMAIN log'[Head(call[v].todo)] :
              log'[Head(call[v].todo)][g] = NextTxn(v)
<1> DEFINE b0 == Head(call[v].todo)
<1>1. b0 \in Blobs
  BY BusyFacts DEF IndInv, Writing
<1>2. NextTxn(v) \in Txn
  BY NextTxnFacts
<1>3. log' = [log EXCEPT ![b0] = Append(log[b0], NextTxn(v))]
  BY <1>1 DEF Logged, NextTxn, IndInv, Types
<1> HIDE DEF b0
<1>4. log \in [Blobs -> Seq(Txn)]
  BY DEF IndInv, Types
<1>5. /\ Append(log[b0], NextTxn(v)) \in Seq(Txn)
      /\ Len(Append(log[b0], NextTxn(v))) = Len(log[b0]) + 1
      /\ \A g \in 1 .. Len(log[b0]) : Append(log[b0], NextTxn(v))[g] = log[b0][g]
      /\ Append(log[b0], NextTxn(v))[Len(log[b0]) + 1] = NextTxn(v)
  BY <1>1, <1>2, <1>4, AppendProperties
<1>6. log' \in [Blobs -> Seq(Txn)] /\ log'[b0] = Append(log[b0], NextTxn(v))
      /\ \A b \in Blobs : b # b0 => log'[b] = log[b]
  BY <1>1, <1>3, <1>4, <1>5
<1>7. \A b \in Blobs : /\ DOMAIN log[b] = 1 .. Len(log[b]) /\ Len(log[b]) \in Nat
                       /\ DOMAIN log'[b] = 1 .. Len(log'[b]) /\ Len(log'[b]) \in Nat
  BY <1>4, <1>6, LenProperties
<1>8. ASSUME NEW b \in Blobs
      PROVE  /\ Len(log[b]) <= Len(log'[b])
             /\ DOMAIN log[b] \subseteq DOMAIN log'[b]
             /\ \A g \in DOMAIN log[b] : log'[b][g] = log[b][g]
             /\ \A g \in DOMAIN log'[b] :
                  \/ g \in DOMAIN log[b]
                  \/ b = b0 /\ log'[b][g] = NextTxn(v)
  <2>1. CASE b = b0
    BY <1>5, <1>6, <1>7, <2>1
  <2>2. CASE b # b0
    BY <1>6, <1>7, <2>2
  <2> QED
    BY <2>1, <2>2
<1>9. Len(log[b0]) + 1 \in DOMAIN log'[b0]
  BY <1>1, <1>5, <1>6, <1>7
<1> QED
  BY <1>1, <1>5, <1>6, <1>8, <1>9 DEF b0

\* What the blobs have after a step of v that may have committed its write.
LogStep(v) == log' = log \/ (Writing(v) /\ log' = Logged(v))

LEMMA LogStepFacts ==
  ASSUME IndInv, NEW v \in Vaults, LogStep(v)
  PROVE  /\ log' \in [Blobs -> Seq(Txn)]
         /\ \A b \in Blobs : /\ Len(log[b]) <= Len(log'[b])
                             /\ DOMAIN log[b] \subseteq DOMAIN log'[b]
                             /\ \A g \in DOMAIN log[b] : log'[b][g] = log[b][g]
                             /\ \A g \in DOMAIN log'[b] :
                                  \/ g \in DOMAIN log[b]
                                  \/ /\ Writing(v) /\ log'[b][g] = NextTxn(v)
                                     /\ b = Head(call[v].todo)
<1>1. CASE log' = log
  BY <1>1, LenProperties DEF IndInv, Types
<1>2. CASE Writing(v) /\ log' = Logged(v)
  BY <1>2, LoggedFacts
<1> QED
  BY <1>1, <1>2 DEF LogStep

LEMMA WriteKeepsLocks ==
  ASSUME TypeOK, Types, NEW v \in Vaults, OthersKeep(v), lock' = Unlock(v)
  PROVE  /\ lock' \in [Blobs -> Vaults \cup {NoVault}]
         /\ \A b \in Blobs : lock'[b] # NoVault =>
              (Writing(lock[b]) /\ Head(call[lock[b]].todo) = b)'
<1>1. lock' \in [Blobs -> Vaults \cup {NoVault}]
  BY DEF Types, Unlock
<1>2. ASSUME NEW b \in Blobs, lock'[b] # NoVault
      PROVE  (Writing(lock[b]) /\ Head(call[lock[b]].todo) = b)'
  <2>1. lock[b] # v /\ lock'[b] = lock[b]
    BY <1>2 DEF Unlock
  <2>2. lock[b] \in Vaults /\ Writing(lock[b]) /\ Head(call[lock[b]].todo) = b
    BY <1>2, <2>1, HeldByWriters
  <2>3. call'[lock[b]] = call[lock[b]]
    BY <2>1, <2>2 DEF OthersKeep
  <2> QED
    BY <2>1, <2>2, <2>3 DEF Writing
<1> QED
  BY <1>1, <1>2

\* What the write of v adds: chunks of its put, and in the end the marker,
\* with which every chunk is there.
LEMMA WriteKeepsFacts ==
  ASSUME IndInv, NEW v \in Vaults, LogStep(v), UNCHANGED <<dir, puts>>, forgot \subseteq forgot'
  PROVE  /\ Directory' /\ TxnsOfPuts' /\ MarkerLast' /\ StoresOnce'
         /\ \A n, s : ChunkOnFile(n, s) => ChunkOnFile(n, s)'
         /\ \A n : MarkerOnFile(n) => MarkerOnFile(n)'
         /\ \A m \in OnFile' : m \in OnFile \/ (Writing(v) /\ m = call[v].put)
<1> USE DEF IndInv
<1>1. /\ log' \in [Blobs -> Seq(Txn)]
      /\ \A b \in Blobs : /\ DOMAIN log[b] \subseteq DOMAIN log'[b]
                          /\ \A g \in DOMAIN log[b] : log'[b][g] = log[b][g]
                          /\ \A g \in DOMAIN log'[b] :
                               \/ g \in DOMAIN log[b]
                               \/ /\ Writing(v) /\ log'[b][g] = NextTxn(v)
                                  /\ b = Head(call[v].todo)
  BY LogStepFacts
<1>2. Directory'
  <2>1. ASSUME NEW b \in Blobs, log'[b] # <<>>
        PROVE  b \in Range(dir)
    <3>1. log'[b] \in Seq(Txn)
      BY <1>1
    <3>2. PICK g \in DOMAIN log'[b] : TRUE
      BY <2>1, <3>1, NonEmptyDomain
    <3>3. CASE g \in DOMAIN log[b]
      <4>1. log[b] # <<>>
        BY <3>3
      <4> QED
        BY <4>1 DEF Directory
    <3>4. CASE Writing(v) /\ b = Head(call[v].todo)
      <4>1. b \in Range(blobs[v])
        BY <3>4, BusyFacts DEF Writing
      <4> QED
        BY <4>1, AllTyped DEF VaultTyped
    <3> QED
      BY <1>1, <3>2, <3>3, <3>4
  <2> QED
    BY <2>1 DEF Directory
<1>3. TxnsOfPuts'
  <2> SUFFICES ASSUME NEW b \in Blobs, NEW g \in DOMAIN log'[b]
               PROVE  LET t == log'[b][g]
                      IN  /\ t.put \in DOMAIN puts /\ t.file = puts[t.put].file
                          /\ t.chunks # {} /\ t.chunks \subseteq 1 .. Total[puts[t.put].by]
                          /\ t.total \in {0, Total[puts[t.put].by]}
    BY DEF TxnsOfPuts
  <2>1. CASE g \in DOMAIN log[b]
    BY <1>1, <2>1 DEF TxnsOfPuts
  <2>2. CASE Writing(v) /\ log'[b][g] = NextTxn(v)
    BY <2>2, NextTxnFacts
  <2> QED
    BY <1>1, <2>1, <2>2
<1>4. ASSUME NEW n, NEW s, ChunkOnFile(n, s)
      PROVE  ChunkOnFile(n, s)'
  BY <1>1, <1>4 DEF ChunkOnFile
<1>5. ASSUME NEW n, MarkerOnFile(n)
      PROVE  MarkerOnFile(n)'
  BY <1>1, <1>5 DEF MarkerOnFile
<1>6. ASSUME NEW m \in OnFile'
      PROVE  m \in OnFile \/ (Writing(v) /\ m = call[v].put)
  <2>1. Types => (m \in OnFile <=> \E b \in Blobs : \E g \in DOMAIN log[b] : log[b][g].put = m)
    BY OnFileFacts
  <2>2. \E b \in Blobs : \E g \in DOMAIN log'[b] : log'[b][g].put = m
    <3>1. \A b \in Blobs : DOMAIN log'[b] = 1 .. Len(log'[b])
      BY <1>1, LenProperties
    <3>2. \E b \in Blobs : \E g \in 1 .. Len(log'[b]) : log'[b][g].put = m
      BY DEF OnFile, Listed, Everything
    <3> QED
      BY <3>1, <3>2
  <2>3. PICK b \in Blobs : \E g \in DOMAIN log'[b] : log'[b][g].put = m
    BY <2>2
  <2>4. PICK g \in DOMAIN log'[b] : log'[b][g].put = m
    BY <2>3
  <2> QED
    BY <1>1, <2>1, <2>4, NextTxnFacts
<1>7. ASSUME NEW n \in DOMAIN puts, MarkerOnFile(n)'
      PROVE  WholePut(n)'
  <2>1. CASE MarkerOnFile(n)
    BY <1>4, <2>1 DEF MarkerLast, WholePut
  <2>2. CASE ~MarkerOnFile(n)
    <3>1. PICK b \in Blobs : \E g \in DOMAIN log'[b] : log'[b][g].put = n /\ log'[b][g].total > 0
      BY <1>7 DEF MarkerOnFile
    <3>2. PICK g \in DOMAIN log'[b] : log'[b][g].put = n /\ log'[b][g].total > 0
      BY <3>1
    <3>3. g \notin DOMAIN log[b]
      BY <1>1, <2>2, <3>2 DEF MarkerOnFile
    <3>4. Writing(v) /\ log'[b][g] = NextTxn(v) /\ b = Head(call[v].todo)
      BY <1>1, <3>3
    <3>5. n = call[v].put /\ puts[n].by = v /\ MarkerTotal(v) > 0
      BY <3>2, <3>4, NextTxnFacts
    <3>6. Range(Tail(call[v].todo)) = {}
      <4>1. call[v].todo \in Seq(Blobs) /\ call[v].todo # <<>>
        BY <3>4, BusyFacts DEF Writing
      <4>2. Len(call[v].todo) <= 1
        BY <3>5, <4>1, LenProperties DEF MarkerTotal
      <4>3. Tail(call[v].todo) = <<>>
        BY <4>1, <4>2, LenProperties, EmptySeq, HeadTailProperties
      <4> QED
        BY <4>3 DEF Range
    <3>7. Range(call[v].todo) = {b}
      BY <3>4, <3>6, BusyFacts DEF Writing
    <3>8. ASSUME NEW s \in 1 .. Total[v]
          PROVE  ChunkOnFile(n, s)'
      <4>1. CASE call[v].where[s] \in Range(call[v].todo)
        <5>1. s \in NextTxn(v).chunks
          BY <3>4, <3>7, <4>1, NextTxnFacts
        <5> QED
          BY <3>2, <3>4, <5>1 DEF ChunkOnFile
      <4>2. CASE ChunkOnFile(n, s)
        BY <1>4, <4>2
      <4> QED
        BY <3>4, <3>5, <4>1, <4>2 DEF ChunksAhead, Writing
    <3> QED
      BY <3>5, <3>8 DEF WholePut
  <2> QED
    BY <2>1, <2>2
<1>8. StoresOnce'
  <2> SUFFICES ASSUME NEW m \in OnFile', NEW n \in OnFile', puts[m] = puts[n],
                      puts[m].by \notin forgot'
               PROVE  m = n
    BY DEF StoresOnce
  <2>1. puts[m].by \notin forgot
    OBVIOUS
  <2>2. Writing(v) => call[v].op = "put" /\ puts[call[v].put].by = v
    BY NextTxnFacts DEF Writing
  <2>3. CASE m \in OnFile /\ n \in OnFile
    BY <2>1, <2>3 DEF PutOnce, StoresOnce
  <2>4. CASE m \in OnFile /\ Writing(v) /\ n = call[v].put
    BY <2>1, <2>2, <2>4 DEF PutOnce
  <2>5. CASE n \in OnFile /\ Writing(v) /\ m = call[v].put
    BY <2>1, <2>2, <2>5 DEF PutOnce
  <2>6. CASE m = call[v].put /\ n = call[v].put
    BY <2>6
  <2> QED
    BY <1>6, <2>3, <2>4, <2>5, <2>6
<1>9. MarkerLast'
  BY <1>7 DEF MarkerLast
<1> QED
  BY <1>2, <1>3, <1>4, <1>5, <1>6, <1>8, <1>9

\* What a step of v that may have committed its write has to show.
LEMMA WriteStep ==
  ASSUME IndInv, NEW v \in Vaults, OthersKeep(v), LogStep(v), lock' = Unlock(v),
         UNCHANGED <<dir, puts>>, forgot \subseteq forgot', forgot' \subseteq Vaults,
         faults' \in 0 .. MaxFaults,
         blobs' \in [Vaults -> Seq(Blobs)], cache' \in [Vaults -> [Blobs -> Nat]],
         call' \in [Vaults -> Call], VaultTyped(v)',
         acked' \subseteq DOMAIN puts, AckedMarked',
         call'[v].op = "put" =>
           /\ call[v].op = "put" /\ call'[v].put = call[v].put /\ call'[v].where = call[v].where
           /\ Range(call'[v].todo) \subseteq Range(call[v].where)
           /\ \A s \in 1 .. Total[v] :
                call[v].where[s] \in Range(call'[v].todo) \/ ChunkOnFile(call[v].put, s)',
         (v \notin forgot' /\ call'[v].op # "closed") =>
           /\ call'[v].op \notin Reads
           /\ \A b \in Blobs : \A g \in DOMAIN log'[b] :
                puts[log'[b][g].put].by = v => b \in Range(blobs'[v]) /\ g <= cache'[v][b]
  PROVE  IndInv'
<1> USE DEF IndInv
<1>1. /\ log' \in [Blobs -> Seq(Txn)]
      /\ \A b \in Blobs : Len(log[b]) <= Len(log'[b]) /\ Len(log[b]) \in Nat /\ Len(log'[b]) \in Nat
  <2>1. log' \in [Blobs -> Seq(Txn)] /\ \A b \in Blobs : Len(log[b]) <= Len(log'[b])
    BY LogStepFacts
  <2> QED
    BY <2>1, LenProperties DEF Types
<1>2. /\ lock' \in [Blobs -> Vaults \cup {NoVault}]
      /\ \A b \in Blobs : lock'[b] # NoVault =>
           (Writing(lock[b]) /\ Head(call[lock[b]].todo) = b)'
  BY WriteKeepsLocks
<1>3. /\ Directory' /\ TxnsOfPuts' /\ MarkerLast' /\ StoresOnce'
      /\ \A n, s : ChunkOnFile(n, s) => ChunkOnFile(n, s)'
      /\ \A m \in OnFile' : m \in OnFile \/ (Writing(v) /\ m = call[v].put)
  BY WriteKeepsFacts
<1>4. Types'
  BY <1>1, <1>2 DEF Types
<1>5. TypeOK'
  <2>1. ASSUME NEW w \in Vaults
        PROVE  VaultTyped(w)'
    <3>1. CASE w = v
      BY <3>1
    <3>2. CASE w # v
      <4>1. VaultTyped(w) /\ blobs'[w] = blobs[w] /\ cache'[w] = cache[w] /\ call'[w] = call[w]
        BY <3>2, AllTyped DEF OthersKeep
      <4>2. \A b \in Blobs : cache[w][b] <= Len(log'[b])
        <5> SUFFICES ASSUME NEW b \in Blobs
                     PROVE  cache[w][b] <= Len(log'[b])
          OBVIOUS
        <5>1. cache[w][b] <= Len(log[b]) /\ cache[w][b] \in Nat
          BY <4>1 DEF VaultTyped
        <5> QED
          BY <1>1, <5>1
      <4> QED
        BY <4>1, <4>2 DEF VaultTyped
    <3> QED
      BY <3>1, <3>2
  <2> QED
    BY <1>2, <2>1 DEF TypeOK, VaultTyped, Call
<1>6. PutsUnderWay' /\ ChunksAhead'
  <2>1. ASSUME NEW w \in Vaults, call'[w].op = "put"
        PROVE  /\ call'[w].put \in DOMAIN puts' /\ puts'[call'[w].put].by = w
               /\ call'[w].where \in [1 .. Total[w] -> Blobs]
               /\ Range(call'[w].todo) \subseteq Range(call'[w].where)
               /\ \A s \in 1 .. Total[w] : call'[w].where[s] \in Range(call'[w].todo)
                                            \/ ChunkOnFile(call[w].put, s)'
    <3>1. call[w].op = "put" /\ call'[w].put = call[w].put /\ call'[w].where = call[w].where
      BY <2>1 DEF OthersKeep
    <3>2. CASE w = v
      BY <2>1, <3>1, <3>2 DEF PutsUnderWay
    <3>3. CASE w # v
      BY <1>3, <3>1, <3>3 DEF PutsUnderWay, ChunksAhead, OthersKeep
    <3> QED
      BY <3>2, <3>3
  <2> QED
    BY <2>1 DEF PutsUnderWay, ChunksAhead
<1>7. KnowsItsOwn'
  <2> SUFFICES ASSUME NEW w \in Vaults \ forgot', call'[w].op # "closed", NEW b \in Blobs,
                      NEW g \in DOMAIN log'[b], puts'[log'[b][g].put].by = w
               PROVE  /\ b \in Range(blobs'[w])
                      /\ \/ g <= cache'[w][b]
                         \/ call'[w].op \in {"open", "refresh"} /\ b \in Range(call'[w].todo)
                      /\ Reading(w, b)' => g <= call'[w].from
    BY DEF KnowsItsOwn
  <2>1. CASE w = v
    BY <2>1 DEF Reading
  <2>2. CASE w # v
    <3>1. g \in DOMAIN log[b] /\ log'[b][g] = log[b][g]
      BY <2>2, LogStepFacts, NextTxnFacts
    <3>2. call'[w] = call[w] /\ cache'[w] = cache[w] /\ blobs'[w] = blobs[w]
      BY <2>2 DEF OthersKeep
    <3> QED
      BY <3>1, <3>2 DEF KnowsItsOwn, Reading
  <2> QED
    BY <2>1, <2>2
<1>8. PutOnce'
  <2>1. ASSUME NEW w \in Vaults \ forgot', call'[w].op = "put", NEW m \in OnFile',
               puts[m] = puts[call'[w].put]
        PROVE  m = call'[w].put
    <3>1. call[w].op = "put" /\ call'[w].put = call[w].put
      BY <2>1 DEF OthersKeep
    <3>2. CASE m \in OnFile
      BY <2>1, <3>1, <3>2 DEF PutOnce
    <3>3. CASE Writing(v) /\ m = call[v].put
      <4>1. puts[m].by = v /\ puts[call[w].put].by = w
        BY <3>1, <3>3, NextTxnFacts DEF PutsUnderWay
      <4> QED
        BY <2>1, <3>1, <3>3, <4>1
    <3> QED
      BY <1>3, <3>2, <3>3
  <2> QED
    BY <1>3, <2>1 DEF PutOnce
<1> QED
  BY <1>3, <1>4, <1>5, <1>6, <1>7, <1>8

LEMMA CommitWriteStep ==
  ASSUME IndInv, NEW v \in Vaults, CommitWrite(v)
  PROVE  IndInv'
<1> USE DEF IndInv
<1> DEFINE b0   == Head(call[v].todo)
           rest == Tail(call[v].todo)
<1>1. /\ Writing(v) /\ call[v].op = "put" /\ log' = Logged(v)
      /\ lock' = [lock EXCEPT ![b0] = NoVault]
      /\ cache' = [cache EXCEPT ![v][b0] = Len(log'[b0])]
      /\ UNCHANGED <<dir, blobs, puts, faults, forgot>>
  BY DEF CommitWrite, Writing, Cached
<1>2. /\ call[v].todo \in Seq(Blobs) /\ call[v].todo # <<>> /\ b0 \in Blobs
      /\ rest \in Seq(Blobs) /\ Range(call[v].todo) = {b0} \cup Range(rest)
      /\ blobs[v] # <<>> /\ Range(call[v].todo) \subseteq Range(blobs[v])
  BY <1>1, BusyFacts
<1>3. /\ log' \in [Blobs -> Seq(Txn)]
      /\ \A b \in Blobs : (b # b0 => log'[b] = log[b]) /\ Len(log[b]) <= Len(log'[b])
      /\ \E g \in DOMAIN log'[b0] : log'[b0][g] = NextTxn(v)
  BY <1>1, LoggedFacts
<1>4. lock' = Unlock(v)
  <2>1. \A b \in Blobs : lock[b] = v <=> b = b0
    <3>1. lock[b0] = v /\ v # NoVault
      BY <1>1, VaultAssumption DEF Writing
    <3>2. ASSUME NEW b \in Blobs, lock[b] = v
          PROVE  b = b0
      BY <3>1, <3>2, HeldByWriters
    <3> QED
      BY <3>1, <3>2
  <2> HIDE DEF b0
  <2> QED
    BY <1>1, <1>2, <2>1 DEF Unlock, Types
<1> HIDE DEF b0
<1>5. LogStep(v)
  BY <1>1 DEF LogStep
<1>6. \A b \in Blobs : /\ Len(log'[b]) \in Nat /\ Len(log[b]) \in Nat
                       /\ DOMAIN log'[b] = 1 .. Len(log'[b])
                       /\ DOMAIN log[b] = 1 .. Len(log[b])
  BY <1>3, LenProperties DEF Types
<1>7. /\ cache' \in [Vaults -> [Blobs -> Nat]]
      /\ cache'[v][b0] = Len(log'[b0]) /\ \A b \in Blobs \ {b0} : cache'[v][b] = cache[v][b]
      /\ \A w \in Vaults \ {v} : cache'[w] = cache[w]
  BY <1>1, <1>2, <1>6 DEF Types
<1>8. VaultTyped(v)
  BY AllTyped
<1>9. \A b \in Blobs : cache'[v][b] <= Len(log'[b])
  <2> SUFFICES ASSUME NEW b \in Blobs
               PROVE  cache'[v][b] <= Len(log'[b])
    OBVIOUS
  <2>1. cache[v][b] <= Len(log[b]) /\ cache[v][b] \in Nat
    BY <1>8 DEF VaultTyped
  <2>2. CASE b = b0
    BY <1>6, <1>7, <2>2
  <2>3. CASE b # b0
    BY <1>3, <1>7, <2>1, <2>3
  <2> QED
    BY <2>2, <2>3
<1>10. ASSUME v \notin forgot, NEW b \in Blobs, NEW g \in DOMAIN log'[b],
              puts[log'[b][g].put].by = v
       PROVE  b \in Range(blobs[v]) /\ g <= cache'[v][b]
  <2>1. CASE b = b0
    BY <1>2, <1>6, <1>7, <2>1
  <2>2. CASE b # b0
    <3>1. log'[b] = log[b] /\ g \in DOMAIN log[b] /\ puts[log[b][g].put].by = v
      BY <1>3, <1>10, <2>2
    <3>2. b \in Range(blobs[v]) /\ g <= cache[v][b]
      BY <1>1, <1>10, <3>1 DEF KnowsItsOwn
    <3> QED
      BY <1>7, <2>2, <3>2
  <2> QED
    BY <2>1, <2>2
<1>11. /\ call[v].put \in DOMAIN puts /\ acked \subseteq DOMAIN puts
       /\ \A n : MarkerOnFile(n) => MarkerOnFile(n)'
       /\ \A n, s : ChunkOnFile(n, s) => ChunkOnFile(n, s)'
  BY <1>1, <1>5, WriteKeepsFacts, NextTxnFacts DEF TypeOK
<1>12. CASE Len(call[v].todo) = 1
  <2>1. acked' = acked \cup {call[v].put} /\ call' = [call EXCEPT ![v] = Idle]
    BY <1>12 DEF CommitWrite
  <2>2. call'[v] = Idle /\ OthersKeep(v) /\ call' \in [Vaults -> Call]
    BY <1>1, <1>7, <2>1, ClosedFacts DEF OthersKeep, Types
  <2>3. VaultTyped(v)'
    <3>1. /\ call'[v] \in Call /\ call'[v].op = "idle" /\ call'[v].todo = <<>> /\ Range(<<>>) = {}
          /\ call'[v].op \notin Reads \cup {"put"}
      BY <2>2, ClosedFacts DEF Range, Reads
    <3> QED
      BY <1>1, <1>2, <1>7, <1>8, <1>9, <3>1 DEF VaultTyped
  <2>4. ASSUME NEW n0, n0 = call[v].put
        PROVE  MarkerOnFile(n0)'
    <3>1. MarkerTotal(v) = Total[v]
      BY <1>12 DEF MarkerTotal
    <3>2. NextTxn(v).put = n0 /\ NextTxn(v).total > 0
      BY <1>1, <2>4, <3>1, NextTxnFacts
    <3>3. \E g \in DOMAIN log'[b0] : log'[b0][g].put = n0 /\ log'[b0][g].total > 0
      BY <1>3, <3>2
    <3> QED
      BY <1>2, <3>3 DEF MarkerOnFile
  <2>5. acked' \subseteq DOMAIN puts /\ AckedMarked'
    BY <1>11, <2>1, <2>4 DEF AckedMarked
  <2>6. call'[v].op = "idle" /\ "idle" \notin Reads
    BY <2>2, ClosedFacts DEF Reads
  <2>7. faults' \in 0 .. MaxFaults /\ forgot' \subseteq Vaults /\ blobs' \in [Vaults -> Seq(Blobs)]
    BY <1>1 DEF TypeOK, Types
  <2> QED
    BY <1>1, <1>4, <1>5, <1>7, <1>10, <2>2, <2>3, <2>5, <2>6, <2>7, WriteStep
<1>13. CASE Len(call[v].todo) # 1
  <2>1. UNCHANGED acked /\ call' = [call EXCEPT ![v].todo = rest]
    BY <1>13 DEF CommitWrite
  <2>2. rest # <<>>
    <3>1. Len(call[v].todo) \in Nat \ {0, 1}
      BY <1>2, <1>13, NonEmptyDomain
    <3>2. Len(rest) = Len(call[v].todo) - 1
      BY <1>2, HeadTailProperties
    <3>3. Len(rest) # 0
      BY <3>1, <3>2
    <3>4. Len(<<>>) = 0
      BY EmptySeq
    <3> HIDE DEF rest
    <3> QED
      BY <3>3, <3>4, Zenon
  <2>3. /\ call'[v] \in Call /\ call'[v].op = "put" /\ call'[v].todo = rest
        /\ call'[v].put = call[v].put /\ call'[v].where = call[v].where
    <3>1. call[v] \in Call /\ call'[v] = [call[v] EXCEPT !.todo = rest]
      BY <2>1 DEF Types
    <3> HIDE DEF rest
    <3> QED
      BY <1>1, <1>2, <3>1 DEF Call
  <2>4. OthersKeep(v) /\ call' \in [Vaults -> Call]
    <3> HIDE DEF rest
    <3> QED
      BY <1>1, <1>7, <2>1, <2>3 DEF OthersKeep, Types
  <2>5. VaultTyped(v)'
    <3> HIDE DEF rest
    <3> QED
      BY <1>1, <1>2, <1>7, <1>8, <1>9, <2>2, <2>3 DEF VaultTyped
  <2>6. acked' \subseteq DOMAIN puts /\ AckedMarked'
    BY <1>11, <2>1 DEF AckedMarked
  <2>7. faults' \in 0 .. MaxFaults /\ forgot' \subseteq Vaults /\ blobs' \in [Vaults -> Seq(Blobs)]
    BY <1>1 DEF TypeOK, Types
  <2>8. Range(call'[v].todo) \subseteq Range(call[v].where)
    BY <1>1, <1>2, <2>3 DEF PutsUnderWay
  <2>9. ASSUME NEW s \in 1 .. Total[v]
        PROVE  call[v].where[s] \in Range(call'[v].todo) \/ ChunkOnFile(call[v].put, s)'
    <3>1. CASE call[v].where[s] = b0
      <4>1. s \in NextTxn(v).chunks /\ NextTxn(v).put = call'[v].put
        BY <1>1, <2>3, <3>1, NextTxnFacts DEF b0
      <4>2. \E g \in DOMAIN log'[b0] : log'[b0][g].put = call'[v].put /\ s \in log'[b0][g].chunks
        BY <1>3, <4>1
      <4> QED
        BY <1>2, <4>2 DEF ChunkOnFile
    <3>2. CASE call[v].where[s] # b0
      <4>1. call[v].where[s] \in Range(call[v].todo) \/ ChunkOnFile(call[v].put, s)
        BY <1>1 DEF ChunksAhead
      <4>2. ASSUME ChunkOnFile(call[v].put, s)
            PROVE  ChunkOnFile(call[v].put, s)'
        <5>1. ASSUME NEW n, n = call[v].put
              PROVE  ChunkOnFile(n, s)'
          BY <1>11, <4>2, <5>1
        <5> QED
          BY <2>3, <5>1
      <4> QED
        BY <1>2, <2>3, <3>2, <4>1, <4>2
    <3> QED
      BY <3>1, <3>2
  <2>10. "put" \notin Reads
    BY DEF Reads
  <2> QED
    BY <1>1, <1>4, <1>5, <1>7, <1>10, <2>3, <2>4, <2>5, <2>6, <2>7, <2>8, <2>9, <2>10, WriteStep
<1> QED
  BY <1>12, <1>13

\* v gives up what it is doing: it becomes idle, or closed.
LEMMA GiveUpStep ==
  ASSUME IndInv, NEW v \in Vaults, OthersKeep(v), LogStep(v), lock' = Unlock(v),
         UNCHANGED <<dir, puts, acked>>, forgot \subseteq forgot', forgot' \subseteq Vaults,
         faults' \in 0 .. MaxFaults, call[v].op # "closed",
         \/ /\ call' = [call EXCEPT ![v] = Idle] /\ UNCHANGED <<blobs, cache>>
            /\ call[v].op = "put" /\ (log' = log \/ v \in forgot')
         \/ /\ call' = [call EXCEPT ![v] = Closed]
            /\ blobs' = [blobs EXCEPT ![v] = <<>>] /\ cache' = [cache EXCEPT ![v] = Nothing]
  PROVE  IndInv'
<1> USE DEF IndInv
<1>1. \A n : MarkerOnFile(n) => MarkerOnFile(n)'
  BY WriteKeepsFacts
<1>2. acked' \subseteq DOMAIN puts /\ AckedMarked'
  BY <1>1 DEF AckedMarked, TypeOK
<1>3. \A b \in Blobs : Len(log[b]) \in Nat /\ Len(log'[b]) \in Nat /\ Len(log[b]) <= Len(log'[b])
  BY LogStepFacts, LenProperties DEF Types
<1>4. VaultTyped(v) /\ Range(<<>>) = {} /\ <<>> \in Seq(Blobs)
  BY AllTyped, EmptySeq DEF Range
<1>5. CASE call' = [call EXCEPT ![v] = Idle]
  <2>1. /\ UNCHANGED <<blobs, cache>> /\ call[v].op = "put" /\ (log' = log \/ v \in forgot')
        /\ call'[v] = Idle
    BY <1>5, ClosedFacts DEF Types
  <2>2. /\ call'[v] \in Call /\ call'[v].op = "idle" /\ call'[v].todo = <<>>
        /\ call'[v].op \notin Reads \cup {"put"}
    BY <2>1, ClosedFacts DEF Reads
  <2>3. \A b \in Blobs : cache[v][b] <= Len(log'[b])
    <3> SUFFICES ASSUME NEW b \in Blobs
                 PROVE  cache[v][b] <= Len(log'[b])
      OBVIOUS
    <3>1. cache[v][b] <= Len(log[b]) /\ cache[v][b] \in Nat
      BY <1>4 DEF VaultTyped
    <3> QED
      BY <1>3, <3>1
  <2>4. VaultTyped(v)'
    BY <1>4, <2>1, <2>2, <2>3 DEF VaultTyped
  <2>5. ASSUME v \notin forgot', NEW b \in Blobs, NEW g \in DOMAIN log'[b],
               puts[log'[b][g].put].by = v
        PROVE  b \in Range(blobs'[v]) /\ g <= cache'[v][b]
    BY <2>1, <2>5 DEF KnowsItsOwn
  <2>6. /\ call' \in [Vaults -> Call] /\ blobs' \in [Vaults -> Seq(Blobs)]
        /\ cache' \in [Vaults -> [Blobs -> Nat]]
    BY <1>5, <2>1, <2>2 DEF Types
  <2> QED
    BY <1>2, <2>2, <2>4, <2>5, <2>6, WriteStep
<1>6. CASE call' # [call EXCEPT ![v] = Idle]
  <2>1. /\ call' = [call EXCEPT ![v] = Closed]
        /\ blobs' = [blobs EXCEPT ![v] = <<>>] /\ cache' = [cache EXCEPT ![v] = Nothing]
    BY <1>6
  <2>2. call'[v] = Closed /\ blobs'[v] = <<>> /\ cache'[v] = Nothing
    BY <2>1 DEF Types
  <2>3. /\ call'[v] \in Call /\ call'[v].op = "closed" /\ call'[v].todo = <<>>
        /\ call'[v].op \notin Reads \cup {"put"}
    BY <2>2, ClosedFacts DEF Reads
  <2>4. Nothing \in [Blobs -> Nat] /\ \A b \in Blobs : Nothing[b] = 0
    BY DEF Nothing
  <2>5. VaultTyped(v)'
    BY <1>3, <1>4, <2>2, <2>3, <2>4 DEF VaultTyped
  <2>6. /\ call' \in [Vaults -> Call] /\ blobs' \in [Vaults -> Seq(Blobs)]
        /\ cache' \in [Vaults -> [Blobs -> Nat]]
    BY <1>4, <2>1, <2>3, <2>2, <2>4 DEF Types
  <2> QED
    BY <1>2, <2>3, <2>5, <2>6, WriteStep
<1> QED
  BY <1>5, <1>6

LEMMA FailWriteStep ==
  ASSUME IndInv, NEW v \in Vaults, FailWrite(v)
  PROVE  IndInv'
<1>1. /\ Writing(v) /\ call[v].op = "put" /\ faults < MaxFaults /\ faults' = faults + 1
      /\ lock' = Unlock(v) /\ call' = [call EXCEPT ![v] = Idle]
      /\ UNCHANGED <<dir, blobs, cache, puts, acked>>
  BY DEF FailWrite, Writing
<1>2. LogStep(v) /\ (log' = log \/ v \in forgot') /\ forgot \subseteq forgot'
  BY <1>1 DEF FailWrite, LogStep
<1>3. forgot' \subseteq Vaults /\ faults' \in 0 .. MaxFaults /\ OthersKeep(v)
  <2>1. forgot' \subseteq Vaults
    BY DEF FailWrite, IndInv, TypeOK
  <2>2. faults' \in 0 .. MaxFaults
    BY <1>1, VaultAssumption DEF IndInv, TypeOK
  <2>3. OthersKeep(v)
    BY <1>1 DEF OthersKeep, IndInv, Types
  <2> QED
    BY <2>1, <2>2, <2>3
<1> QED
  BY <1>1, <1>2, <1>3, GiveUpStep

LEMMA CloseStep ==
  ASSUME IndInv, NEW v \in Vaults, Close(v)
  PROVE  IndInv'
<1>1. /\ call[v].op # "closed" /\ lock' = Unlock(v) /\ call' = [call EXCEPT ![v] = Closed]
      /\ blobs' = [blobs EXCEPT ![v] = <<>>] /\ cache' = [cache EXCEPT ![v] = Nothing]
      /\ UNCHANGED <<dir, puts, acked, forgot>>
  BY DEF Close
<1>2. LogStep(v)
  BY DEF Close, LogStep
<1>3. forgot' \subseteq Vaults /\ faults' \in 0 .. MaxFaults /\ OthersKeep(v)
  <2>1. forgot' \subseteq Vaults
    BY <1>1 DEF IndInv, TypeOK
  <2>2. faults' \in 0 .. MaxFaults
    BY VaultAssumption DEF IndInv, TypeOK, Close
  <2>3. OthersKeep(v)
    BY <1>1 DEF OthersKeep, IndInv, Types
  <2> QED
    BY <2>1, <2>2, <2>3
<1> QED
  BY <1>1, <1>2, <1>3, GiveUpStep

-----------------------------------------------------------------------------
(* The invariant. *)

LEMMA InitInv == Init => IndInv
<1> SUFFICES ASSUME Init
             PROVE  IndInv
  OBVIOUS
<1>1. /\ log = [b \in Blobs |-> <<>>] /\ dir = <<1>>
      /\ lock = [b \in Blobs |-> NoVault]
      /\ blobs = [v \in Vaults |-> <<>>] /\ cache = [v \in Vaults |-> Nothing]
      /\ call = [v \in Vaults |-> Closed]
      /\ puts = <<>> /\ faults = 0 /\ acked = {} /\ forgot = {}
  BY DEF Init
<1>2. /\ \A b \in Blobs : log[b] = <<>> /\ Len(log[b]) = 0 /\ DOMAIN log[b] = {}
      /\ \A v \in Vaults : /\ call[v] = Closed /\ blobs[v] = <<>> /\ cache[v] = Nothing
                           /\ call[v].op = "closed" /\ call[v].todo = <<>>
  <2>1. Len(<<>>) = 0 /\ DOMAIN <<>> = {}
    BY EmptySeq, LenProperties
  <2> QED
    BY <1>1, <2>1, ClosedFacts
<1>3. /\ Nothing \in [Blobs -> Nat] /\ \A b \in Blobs : Nothing[b] = 0
      /\ <<>> \in Seq(Blobs) /\ Range(<<>>) = {} /\ 1 \in Blobs
  BY VaultAssumption, EmptySeq DEF Nothing, Range, Blobs
<1>4. Types
  <2>1. <<>> \in Seq(Txn) /\ <<>> \in Seq(Put)
    BY EmptySeq
  <2> QED
    BY <1>1, <1>3, <2>1, ClosedFacts DEF Types
<1>5. dir \in Seq(Blobs) /\ IsInjective(dir) /\ Range(dir) = {1} /\ Len(dir) = 1 /\ dir # <<>>
  <2>1. dir \in Seq(Blobs) /\ Len(dir) = 1 /\ dir # <<>> /\ DOMAIN dir = {1} /\ dir[1] = 1
    BY <1>1, <1>3
  <2> QED
    BY <2>1 DEF Range, IsInjective
<1>6. TypeOK
  <2>1. ASSUME NEW v \in Vaults
        PROVE  VaultTyped(v) /\ call[v].op \in Reads \cup {"put", "idle", "closed"}
    <3>1. "closed" \notin Reads \cup {"put"}
      BY DEF Reads
    <3>2. cache[v] \in [Blobs -> Nat] /\ \A b \in Blobs : cache[v][b] <= Len(log[b])
      BY <1>2, <1>3
    <3>3. call[v] \in Call /\ Range(call[v].todo) \subseteq Range(blobs[v])
      BY <1>2, ClosedFacts
    <3>4. Range(blobs[v]) \subseteq Range(dir) /\ blobs[v] \in Seq(Blobs)
      BY <1>2, <1>3
    <3> QED
      BY <1>2, <3>1, <3>2, <3>3, <3>4 DEF VaultTyped
  <2>2. 0 \in 0 .. MaxFaults /\ \A b \in Blobs : lock[b] = NoVault
    BY <1>1, VaultAssumption
  <2> QED
    BY <1>1, <1>5, <2>1, <2>2 DEF TypeOK, VaultTyped
<1>7. Directory
  BY <1>2, <1>5, VaultAssumption DEF Directory
<1>8. TxnsOfPuts /\ KnowsItsOwn
  BY <1>2 DEF TxnsOfPuts, KnowsItsOwn
<1>9. PutsUnderWay /\ ChunksAhead
  BY <1>2 DEF PutsUnderWay, ChunksAhead
<1>10. MarkerLast /\ AckedMarked
  BY <1>1, <1>2 DEF MarkerLast, AckedMarked, MarkerOnFile
<1>11. \A m : m \notin OnFile
  BY <1>2, <1>4, OnFileFacts
<1>12. PutOnce
  BY <1>11 DEF PutOnce, StoresOnce
<1> QED
  BY <1>4, <1>6, <1>7, <1>8, <1>9, <1>10, <1>12 DEF IndInv

LEMMA NextInv == IndInv /\ [Next]_vars => IndInv'
<1> SUFFICES ASSUME IndInv, [Next]_vars
             PROVE  IndInv'
  OBVIOUS
<1>1. CASE UNCHANGED vars
  <2>1. UNCHANGED <<log, dir, lock, blobs, cache, call, puts, faults, acked, forgot>>
    BY <1>1 DEF vars
  <2>2. TypeOK' /\ Types' /\ Directory'
    BY <2>1 DEF IndInv, TypeOK, Types, Directory, Writing
  <2>3. TxnsOfPuts' /\ PutsUnderWay' /\ ChunksAhead' /\ MarkerLast' /\ AckedMarked' /\ PutOnce'
    BY <2>1, NothingWritten
  <2>4. KnowsItsOwn'
    BY <2>1 DEF IndInv, KnowsItsOwn, Reading
  <2> QED
    BY <2>2, <2>3, <2>4 DEF IndInv
<1>2. ASSUME NEW v \in Vaults,
             \/ Open(v) \/ RefreshIndexes(v) \/ HandleBlobChanged(v) \/ AppendBlob(v)
             \/ \E f \in Files : PutFile(v, f)
             \/ Step(v) \/ Close(v)
      PROVE  IndInv'
  <2>1. CASE Open(v)
    BY <2>1, OpenStep
  <2>2. CASE RefreshIndexes(v)
    BY <2>2, RefreshStep
  <2>3. CASE HandleBlobChanged(v)
    BY <2>3, ChangedStep
  <2>4. CASE AppendBlob(v)
    BY <2>4, AppendStep
  <2>5. CASE \E f \in Files : PutFile(v, f)
    BY <2>5, PutFileStep
  <2>6. CASE FinishRead(v)
    BY <2>6, FinishReadStep
  <2>7. CASE FailRead(v)
    BY <2>7, FailReadStep
  <2>8. CASE BeginWrite(v)
    BY <2>8, BeginWriteStep
  <2>9. CASE CommitWrite(v)
    BY <2>9, CommitWriteStep
  <2>10. CASE FailWrite(v)
    BY <2>10, FailWriteStep
  <2>11. CASE Close(v)
    BY <2>11, CloseStep
  <2> QED
    BY <1>2, <2>1, <2>2, <2>3, <2>4, <2>5, <2>6, <2>7, <2>8, <2>9, <2>10, <2>11
       DEF Step, PutStep
<1> QED
  BY <1>1, <1>2 DEF Next

LEMMA AlwaysInv == Spec => []IndInv
BY InitInv, NextInv, PTL DEF Spec

-----------------------------------------------------------------------------
(* What follows from it. *)

\* A cached index lists what the blobs have.
LEMMA ListedFacts ==
  ASSUME IndInv, NEW v \in Vaults, NEW t \in Listed(cache[v])
  PROVE  /\ \E b \in Blobs : \E g \in DOMAIN log[b] : g <= cache[v][b] /\ t = log[b][g]
         /\ t.put \in DOMAIN puts /\ t.file = puts[t.put].file
         /\ t.chunks \subseteq 1 .. Total[puts[t.put].by]
         /\ t.total \in {0, Total[puts[t.put].by]}
<1>1. PICK b \in Blobs : \E g \in 1 .. cache[v][b] : t = log[b][g]
  BY DEF Listed
<1>2. PICK g \in 1 .. cache[v][b] : t = log[b][g]
  BY <1>1
<1>3. cache[v][b] \in Nat /\ cache[v][b] <= Len(log[b]) /\ Len(log[b]) \in Nat
  BY LenProperties DEF IndInv, TypeOK, Types
<1>4. g \in DOMAIN log[b] /\ g <= cache[v][b]
  BY <1>2, <1>3, LenProperties DEF IndInv, Types
<1> QED
  BY <1>2, <1>4 DEF IndInv, TxnsOfPuts

LEMMA EverythingListed ==
  ASSUME IndInv, NEW b \in Blobs, NEW g \in DOMAIN log[b]
  PROVE  /\ log[b][g] \in Listed(Everything)
         /\ \A v \in Vaults : g <= cache[v][b] => log[b][g] \in Listed(cache[v])
<1>1. DOMAIN log[b] = 1 .. Len(log[b]) /\ Len(log[b]) \in Nat
  BY LenProperties DEF IndInv, Types
<1>2. \A v \in Vaults : cache[v][b] \in Nat
  BY DEF IndInv, Types
<1> QED
  BY <1>1, <1>2 DEF Listed, Everything

LEMMA MarkerSeen == IndInv => MarkerSeenMeansWhole
<1> SUFFICES ASSUME IndInv, NEW v \in Vaults, NEW t \in Listed(cache[v]), t.total > 0,
                    NEW s \in 1 .. Total[puts[t.put].by]
             PROVE  <<t.put, s>> \in ChunkEntries(Everything, t.file)
  BY DEF MarkerSeenMeansWhole
<1> DEFINE n == t.put
<1>1. n \in DOMAIN puts /\ t.file = puts[n].file
      /\ \E b \in Blobs : \E g \in DOMAIN log[b] : t = log[b][g]
  BY ListedFacts
<1>2. MarkerOnFile(n)
  BY <1>1 DEF MarkerOnFile
<1>3. ChunkOnFile(n, s)
  BY <1>1, <1>2 DEF IndInv, MarkerLast, WholePut
<1> HIDE DEF n
<1>4. PICK b \in Blobs : \E g \in DOMAIN log[b] : log[b][g].put = n /\ s \in log[b][g].chunks
  BY <1>3 DEF ChunkOnFile
<1>5. PICK g \in DOMAIN log[b] : log[b][g].put = n /\ s \in log[b][g].chunks
  BY <1>4
<1>6. log[b][g] \in Listed(Everything) /\ log[b][g].file = t.file
  BY <1>1, <1>5, EverythingListed DEF IndInv, TxnsOfPuts
<1> QED
  BY <1>5, <1>6, EntryFacts DEF n

\* The pairs of one thing with the numbers up to k.
LEMMA PairsCounted ==
  ASSUME NEW n, NEW k \in Nat
  PROVE  Cardinality({<<n, s>> : s \in 1 .. k}) = k
<1> DEFINE S == {<<n, s>> : s \in 1 .. k}
           f == [s \in 1 .. k |-> <<n, s>>]
<1>1. f \in Bijection(1 .. k, S)
  BY DEF Bijection, Injection, Surjection, IsInjective
<1>2. ExistsBijection(1 .. k, S)
  BY <1>1 DEF ExistsBijection
<1>3. IsFiniteSet(1 .. k) /\ Cardinality(1 .. k) = k
  BY FS_Interval
<1> QED
  BY <1>2, <1>3, FS_Bijection

LEMMA OwnServed == IndInv => ReadsItsWrites
<1> SUFFICES ASSUME IndInv, NEW n \in acked, NEW v, v = puts[n].by, call[v].op = "idle",
                    v \notin forgot, NEW f, f = puts[n].file, OnFileOf(f) = {n}
             PROVE  Served(cache[v], f)
  BY DEF ReadsItsWrites
<1> USE DEF IndInv
<1>1. n \in DOMAIN puts /\ v \in Vaults
  <2>1. n \in DOMAIN puts
    BY DEF TypeOK
  <2>2. puts[n] \in Put
    BY <2>1, LenProperties DEF Types
  <2> QED
    BY <2>1, <2>2 DEF Put
<1>2. MarkerOnFile(n) /\ WholePut(n)
  BY <1>1 DEF AckedMarked, MarkerLast
<1>3. Total[v] \in Nat \ {0}
  BY <1>1, VaultAssumption
<1>4. ASSUME NEW b \in Blobs, NEW g \in DOMAIN log[b], log[b][g].put = n
      PROVE  log[b][g] \in Listed(cache[v]) /\ log[b][g].file = f
  <2>1. g <= cache[v][b]
    BY <1>1, <1>4 DEF KnowsItsOwn
  <2> QED
    BY <1>1, <1>4, <2>1, EverythingListed DEF TxnsOfPuts
<1>5. ASSUME NEW t \in Listed(cache[v]), t.file = f
      PROVE  t.put = n /\ t.total \in {0, Total[v]} /\ t.chunks \subseteq 1 .. Total[v]
  <2>1. /\ \E b \in Blobs : \E g \in DOMAIN log[b] : t = log[b][g]
        /\ puts[t.put].file = f
        /\ t.chunks \subseteq 1 .. Total[puts[t.put].by]
        /\ t.total \in {0, Total[puts[t.put].by]}
    BY <1>1, <1>5, ListedFacts
  <2>2. t.put \in OnFile
    BY <2>1, OnFileFacts
  <2>3. t.put = n
    BY <2>1, <2>2 DEF OnFileOf
  <2> QED
    BY <2>1, <2>3
<1>6. {t.total : t \in Markers(cache[v], f)} = {Total[v]} /\ Markers(cache[v], f) # {}
  <2>1. PICK b \in Blobs : \E g \in DOMAIN log[b] : log[b][g].put = n /\ log[b][g].total > 0
    BY <1>2 DEF MarkerOnFile
  <2>2. PICK g \in DOMAIN log[b] : log[b][g].put = n /\ log[b][g].total > 0
    BY <2>1
  <2>3. log[b][g] \in Markers(cache[v], f)
    BY <1>4, <2>2 DEF Markers
  <2>4. \A t \in Markers(cache[v], f) : t.total = Total[v]
    BY <1>5 DEF Markers
  <2> QED
    BY <2>3, <2>4
<1>7. Max({Total[v]}) = Total[v]
  BY <1>3 DEF Max
<1>8. ChunkEntries(cache[v], f) = {<<n, s>> : s \in 1 .. Total[v]}
  <2>1. ASSUME NEW c \in ChunkEntries(cache[v], f)
        PROVE  \E s \in 1 .. Total[v] : c = <<n, s>>
    BY <1>5, EntryFacts
  <2>2. ASSUME NEW s \in 1 .. Total[v]
        PROVE  <<n, s>> \in ChunkEntries(cache[v], f)
    <3>1. ChunkOnFile(n, s)
      BY <1>2 DEF WholePut
    <3>2. PICK b \in Blobs : \E g \in DOMAIN log[b] : log[b][g].put = n /\ s \in log[b][g].chunks
      BY <3>1 DEF ChunkOnFile
    <3>3. PICK g \in DOMAIN log[b] : log[b][g].put = n /\ s \in log[b][g].chunks
      BY <3>2
    <3> QED
      BY <1>4, <3>3, EntryFacts
  <2> QED
    BY <2>1, <2>2
<1>9. /\ Cardinality(ChunkEntries(cache[v], f)) = Total[v]
      /\ {c[2] : c \in ChunkEntries(cache[v], f)} = 1 .. Total[v]
  <2> DEFINE T == {<<n, s>> : s \in 1 .. Total[v]}
  <2>1. Cardinality(T) = Total[v]
    BY <1>3, PairsCounted, ZenonT(60)
  <2>3. {c[2] : c \in T} = 1 .. Total[v]
    <3>1. \A s \in 1 .. Total[v] : <<n, s>>[2] = s
      OBVIOUS
    <3> QED
      BY <3>1, ZenonT(60)
  <2>2. ChunkEntries(cache[v], f) = T
    BY <1>8
  <2> HIDE DEF T
  <2> QED
    BY <2>1, <2>2, <2>3
<1> QED
  BY <1>6, <1>7, <1>9 DEF Served

-----------------------------------------------------------------------------
(* A file whose chunks are all of one put.                                 *)

Size(n) == Ends[puts[n].by][Total[puts[n].by]]

LEMMA EndsAreSums ==
  ASSUME NEW v \in Vaults
  PROVE  PrefixSums(Pieces[v], Total[v], Ends[v])
<1>1. Total[v] \in Nat
  BY VaultAssumption
<1>2. PICK e : PrefixSums(Pieces[v], Total[v], e)
  BY <1>1, PrefixSumsExist
<1> QED BY <1>2 DEF PrefixSums, Ends

LEMMA PieceFacts ==
  ASSUME NEW v \in Vaults
  PROVE  /\ Total[v] \in Nat \ {0}
         /\ \A s \in 1 .. Total[v] : Pieces[v][s] \in Nat
         /\ \A s \in 0 .. Total[v] : Ends[v][s] \in Nat /\ Ends[v][s] <= Ends[v][Total[v]]
         /\ \A s \in 1 .. Total[v] : Ends[v][s] = Ends[v][s - 1] + Pieces[v][s]
         /\ Ends[v][0] = 0
<1>1. Total[v] \in Nat \ {0}
  BY VaultAssumption
<1>2. \A s \in 1 .. Total[v] : Pieces[v][s] \in Nat
  BY ReadAssumption, ElementOfSeq
<1>3. PrefixSums(Pieces[v], Total[v], Ends[v])
  BY EndsAreSums
<1> QED BY <1>1, <1>2, <1>3, PrefixSumsGrow

LEMMA OnePutFacts ==
  ASSUME IndInv, NEW v \in Vaults, NEW n \in DOMAIN puts, OnePut(v, n)
  PROVE  /\ puts[n].by \in Vaults
         /\ OrderedFileChunks(cache[v], puts[n].file)
              = [s \in 1 .. Total[puts[n].by] |-> <<n, s>>]
<1> DEFINE f == puts[n].file
           K == Total[puts[n].by]
           C == ChunkEntries(cache[v], f)
<1>1. puts[n].by \in Vaults
  <2>1. puts[n] \in Put
    BY ElementOfSeq DEF IndInv, Types
  <2> QED BY <2>1 DEF Put
<1>2. K \in Nat \ {0}
  BY <1>1, VaultAssumption
<1>3. ASSUME NEW t \in Listed(cache[v]), t.file = f
      PROVE  t.put = n /\ t.total \in {0, K}
  <2>1. PICK b \in Blobs : \E g \in 1 .. cache[v][b] : t = log[b][g]
    BY <1>3 DEF Listed
  <2>2. PICK g \in 1 .. cache[v][b] : t = log[b][g]
    BY <2>1
  <2>3. g \in DOMAIN log[b]
    <3>1. cache[v][b] \in Nat /\ cache[v][b] <= Len(log[b]) /\ log[b] \in Seq(Txn)
      BY AllTyped DEF IndInv, VaultTyped, Types
    <3> QED BY <2>2, <3>1
  <2>4. t.chunks # {} /\ t.total \in {0, Total[puts[t.put].by]}
    BY <2>2, <2>3 DEF IndInv, TxnsOfPuts
  <2>5. PICK s : s \in t.chunks
    BY <2>4
  <2>6. <<t.put, s>> \in C
    BY <1>3, <2>5 DEF ChunkEntries
  <2>7. t.put = n
    BY <2>6 DEF OnePut
  <2> QED BY <2>4, <2>7
<1>4. {t.total : t \in Markers(cache[v], f)} = {K}
  <2>1. \A t \in Markers(cache[v], f) : t.total = K
    BY <1>2, <1>3 DEF Markers
  <2>2. Markers(cache[v], f) # {}
    BY DEF OnePut, Served
  <2> QED BY <2>1, <2>2
<1>5. Cardinality(C) = K /\ {c[2] : c \in C} = 1 .. K
  <2>1. Max({K}) \in {K}
    <3>1. {K} \subseteq Nat /\ K \in Nat /\ \A y \in {K} : y <= K
      BY <1>2
    <3> HIDE DEF K
    <3> QED BY <3>1, MaxOfNaturals
  <2>2. Max({K}) = Cardinality(C)
    BY <1>4 DEF OnePut, Served
  <2>3. {c[2] : c \in C} = 1 .. Cardinality(C)
    BY DEF OnePut, Served
  <2> QED BY <2>1, <2>2, <2>3
<1>6. ASSUME NEW c \in C PROVE c = <<n, c[2]>>
  <2>1. \E p, s : c = <<p, s>>
    BY DEF ChunkEntries
  <2>2. c[1] = n
    BY DEF OnePut
  <2> QED BY <2>1, <2>2
<1>7. OrderedFileChunks(cache[v], f) = [s \in 1 .. Cardinality(C) |-> CHOOSE c \in C : c[2] = s]
  BY DEF OrderedFileChunks
<1> HIDE DEF C, K, f
<1>8. ASSUME NEW s \in 1 .. K
      PROVE  (CHOOSE c \in C : c[2] = s) = <<n, s>>
  <2>1. \E c \in C : c[2] = s
    BY <1>5
  <2> QED BY <1>6, <2>1
<1>9. OrderedFileChunks(cache[v], f) = [s \in 1 .. K |-> <<n, s>>]
  BY <1>5, <1>7, <1>8
<1> QED BY <1>1, <1>9 DEF f, K

LEMMA ContentIsASlice ==
  ASSUME NEW n, puts[n].by \in Vaults
  PROVE  Content(n) = Slice(n, 0, Size(n)) /\ Size(n) \in Nat
<1> DEFINE K == Size(n)
<1>1. K \in Nat
  BY PieceFacts DEF Size
<1>2. Content(n) = [i \in 1 .. K |-> <<n, i>>]
  BY DEF Content, Size
<1> HIDE DEF K
<1>3. /\ Content(n) \in [1 .. K -> {n} \X Nat]
      /\ \A i \in 1 .. K : Content(n)[i] = <<n, i>>
  <2>1. \A i \in 1 .. K : <<n, i>> \in {n} \X Nat
    BY <1>1
  <2> QED BY <1>2, <2>1
<1>4. Content(n) \in Seq({n} \X Nat) /\ Len(Content(n)) = K
  BY <1>1, <1>3, SeqDef, LenProperties
<1>5. 0 <= K /\ K - 0 = K /\ \A i \in 1 .. K : 0 + i = i
  BY <1>1
<1>6. \A i \in 1 .. K - 0 : Content(n)[i] = <<n, 0 + i>>
  BY <1>3, <1>5
<1>7. Content(n) = Slice(n, 0, K)
  BY <1>1, <1>4, <1>5, <1>6, SliceIs
<1> QED BY <1>1, <1>7 DEF K

\* read_chunk
LEMMA PlaintextIsASlice ==
  ASSUME NEW n, puts[n].by \in Vaults, NEW s \in 1 .. Total[puts[n].by]
  PROVE  /\ Plaintext(<<n, s>>) = Slice(n, Ends[puts[n].by][s - 1], Ends[puts[n].by][s])
         /\ PlaintextLength(<<n, s>>) = Pieces[puts[n].by][s]
<1> DEFINE E == Ends[puts[n].by]
<1>1. /\ s - 1 \in 0 .. Total[puts[n].by] /\ s \in 0 .. Total[puts[n].by]
  BY PieceFacts
<1>2. /\ E[s - 1] \in Nat /\ E[s] \in Nat /\ E[s] <= Size(n)
      /\ E[s] = E[s - 1] + Pieces[puts[n].by][s] /\ Pieces[puts[n].by][s] \in Nat
  BY <1>1, PieceFacts DEF Size
<1>3. Content(n) = Slice(n, 0, Size(n)) /\ Size(n) \in Nat
  BY ContentIsASlice
<1>4. Plaintext(<<n, s>>) = SubSeq(Content(n), E[s - 1] + 1, E[s])
  BY DEF Plaintext
<1> HIDE DEF E
<1>5. SubSeq(Slice(n, 0, Size(n)), E[s - 1] + 1, E[s]) = Slice(n, E[s - 1], E[s])
  <2>1. PICK p \in Nat, q \in Nat, m \in Nat : p = E[s - 1] /\ q = E[s] /\ m = Size(n)
    BY <1>2, <1>3
  <2>2. PICK first \in Int : first = p + 1
    OBVIOUS
  <2>3. /\ 0 \in Nat /\ first \in Nat /\ 1 <= first /\ first <= q + 1 /\ 0 + q <= m
        /\ 0 + first - 1 = p /\ 0 + q = q
    BY <1>2, <2>1, <2>2
  <2>4. Cut(Slice(n, 0, m), first, q) = Slice(n, 0 + first - 1, 0 + q)
    BY <2>3, SliceOfSlice
  <2>5. Cut(Slice(n, 0, m), first, q) = Slice(n, p, q)
    BY <2>3, <2>4
  <2> QED BY <2>1, <2>2, <2>5 DEF Cut
<1> QED BY <1>3, <1>4, <1>5 DEF PlaintextLength, E

\* chunk_end and file_size of such a file.
LEMMA SizesOfChunks ==
  ASSUME NEW n, puts[n].by \in Vaults, NEW chunks,
         chunks = [s \in 1 .. Total[puts[n].by] |-> <<n, s>>]
  PROVE  /\ Len(chunks) = Total[puts[n].by] /\ DOMAIN chunks = 1 .. Total[puts[n].by]
         /\ ChunkEnds(chunks) = Ends[puts[n].by] /\ FileSize(chunks) = Size(n)
<1> DEFINE K == Total[puts[n].by]
           w == Pieces[puts[n].by]
<1>1. K \in Nat
  BY PieceFacts
<1>2. Len(chunks) = K /\ DOMAIN chunks = 1 .. K
  <2>1. chunks \in [1 .. K -> {n} \X Nat]
    OBVIOUS
  <2> QED BY <1>1, <2>1, SeqDef, LenProperties
<1>3. \A s \in 1 .. K : PlaintextLength(chunks[s]) = w[s]
  BY PlaintextIsASlice
<1> HIDE DEF K, w
<1>4. PrefixSums(w, K, ChunkEnds(chunks))
  <2>1. ASSUME NEW e
        PROVE  [s \in 0 .. K |-> IF s = 0 THEN 0 ELSE e[s - 1] + PlaintextLength(chunks[s])]
                 = [s \in 0 .. K |-> IF s = 0 THEN 0 ELSE e[s - 1] + w[s]]
    <3>1. \A s \in 0 .. K : s # 0 => s \in 1 .. K
      BY <1>1
    <3> QED BY <1>3, <3>1
  <2>2. PICK e : PrefixSums(w, K, e)
    BY <1>1, PrefixSumsExist
  <2>3. e = [s \in 0 .. K |-> IF s = 0 THEN 0 ELSE e[s - 1] + PlaintextLength(chunks[s])]
    BY <2>1, <2>2 DEF PrefixSums
  <2> DEFINE d == ChunkEnds(chunks)
  <2>4. d = [s \in 0 .. K |-> IF s = 0 THEN 0 ELSE d[s - 1] + PlaintextLength(chunks[s])]
    BY <1>2, <2>3, ZenonT(60) DEF ChunkEnds
  <2> HIDE DEF d
  <2>5. PrefixSums(w, K, d)
    BY <2>1, <2>4 DEF PrefixSums
  <2> QED BY <2>5 DEF d
<1>5. PrefixSums(w, K, Ends[puts[n].by])
  BY EndsAreSums DEF K, w
<1>6. ChunkEnds(chunks) = Ends[puts[n].by]
  BY <1>1, <1>4, <1>5, PrefixSumsAgree
<1> QED BY <1>2, <1>6 DEF FileSize, Size, K

\* What a chunk that holds places a + 1 to b gives to a range.
LEMMA PartIsASlice ==
  ASSUME NEW n, NEW c, NEW a \in Nat, NEW b \in Nat, a <= b,
         Plaintext(c) = Slice(n, a, b), PlaintextLength(c) = b - a,
         NEW offset \in Nat, NEW end \in Nat, offset < end
  PROVE  Part(c, a, offset, end) = Slice(n, Clamp(a, offset, end), Clamp(b, offset, end))
<1>1. a + PlaintextLength(c) = b
  OBVIOUS
<1>2. CASE b <= offset \/ a >= end
  <2>1. Part(c, a, offset, end) = <<>>
    BY <1>1, <1>2 DEF Part
  <2>2. Clamp(a, offset, end) = Clamp(b, offset, end) /\ Clamp(a, offset, end) \in Nat
    BY <1>2 DEF Clamp
  <2> QED BY <2>1, <2>2, NoSlice
<1>3. CASE ~(b <= offset \/ a >= end)
  <2> DEFINE x == Max({offset - a, 0})
             y == Min({end, b}) - a
  <2>1. Part(c, a, offset, end) = SubSeq(Slice(n, a, b), x + 1, y)
    BY <1>1, <1>3 DEF Part
  <2>2. x = IF offset - a >= 0 THEN offset - a ELSE 0
    <3>1. offset - a \in Int /\ 0 \in Int
      OBVIOUS
    <3> QED BY <3>1, MaxOfTwo
  <2>3. y = (IF end <= b THEN end ELSE b) - a
    <3>1. end \in Int /\ b \in Int
      OBVIOUS
    <3> QED BY <3>1, MinOfTwo
  <2> HIDE DEF x, y
  <2>4. PICK p, q : p = Clamp(a, offset, end) /\ q = Clamp(b, offset, end)
    OBVIOUS
  <2>5. /\ p \in Nat /\ q \in Nat /\ a <= p /\ p <= q /\ q <= b
        /\ x + 1 = p - a + 1 /\ y = q - a
    BY <1>3, <2>2, <2>3, <2>4 DEF Clamp
  <2>6. PICK first \in Int : first = x + 1
    BY <2>5
  <2>7. /\ first \in Nat /\ y \in Nat /\ 1 <= first /\ first <= y + 1 /\ a + y <= b
        /\ a + first - 1 = p /\ a + y = q
    BY <2>5, <2>6
  <2>8. Cut(Slice(n, a, b), first, y) = Slice(n, a + first - 1, a + y)
    BY <2>7, SliceOfSlice
  <2>9. Cut(Slice(n, a, b), first, y) = Slice(n, p, q)
    BY <2>7, <2>8
  <2> QED BY <2>1, <2>4, <2>6, <2>9 DEF Cut
<1> QED BY <1>2, <1>3

\* read_file_range returns a slice of the put.
LEMMA RangeIsASlice ==
  ASSUME NEW n, puts[n].by \in Vaults, NEW chunks,
         chunks = [s \in 1 .. Total[puts[n].by] |-> <<n, s>>],
         NEW offset \in Nat, NEW length \in Nat
  PROVE  /\ (offset >= Size(n) \/ length = 0) => ReadFileRange(chunks, offset, length) = <<>>
         /\ (offset < Size(n) /\ length > 0) =>
              ReadFileRange(chunks, offset, length)
                = Slice(n, offset, IF offset + length <= Size(n) THEN offset + length
                                                                 ELSE Size(n))
<1>1. /\ FileSize(chunks) = Size(n) /\ ChunkEnds(chunks) = Ends[puts[n].by]
      /\ DOMAIN chunks = 1 .. Total[puts[n].by]
  BY SizesOfChunks
<1>2. Size(n) \in Nat
  BY ContentIsASlice
<1>3. (offset >= Size(n) \/ length = 0) => ReadFileRange(chunks, offset, length) = <<>>
  BY <1>1 DEF ReadFileRange
<1>4. ASSUME offset < Size(n), length > 0
      PROVE  ReadFileRange(chunks, offset, length)
               = Slice(n, offset, IF offset + length <= Size(n) THEN offset + length ELSE Size(n))
  <2>1. PICK end : end = Min({offset + length, Size(n)})
    OBVIOUS
  <2>2. end = IF offset + length <= Size(n) THEN offset + length ELSE Size(n)
    <3>1. offset + length \in Int /\ Size(n) \in Int
      BY <1>2
    <3> QED BY <2>1, <3>1, MinOfTwo
  <2>3. end \in Nat /\ offset < end /\ end <= Size(n)
    BY <1>2, <1>4, <2>2
  <2>4. PICK E : E = Ends[puts[n].by]
    OBVIOUS
  <2>5. PICK K : K = Total[puts[n].by]
    OBVIOUS
  <2>6. /\ K \in Nat \ {0} /\ E[0] = 0 /\ E[K] = Size(n)
        /\ \A s \in 0 .. K : E[s] \in Nat
        /\ \A s \in 1 .. K : E[s - 1] <= E[s] /\ Pieces[puts[n].by][s] = E[s] - E[s - 1]
    <3>1. /\ K \in Nat \ {0} /\ E[0] = 0 /\ E[K] = Size(n)
          /\ \A s \in 0 .. K : E[s] \in Nat
          /\ \A s \in 1 .. K : E[s] = E[s - 1] + Pieces[puts[n].by][s]
          /\ \A s \in 1 .. K : Pieces[puts[n].by][s] \in Nat
      BY <2>4, <2>5, PieceFacts DEF Size
    <3>2. \A s \in 1 .. K : s - 1 \in 0 .. K /\ s \in 0 .. K
      BY <3>1
    <3> QED BY <3>1, <3>2
  <2>7. PICK B : B = [s \in 0 .. K |-> Clamp(E[s], offset, end)]
    OBVIOUS
  <2>8. ASSUME NEW s \in 1 .. K
        PROVE  Part(chunks[s], E[s - 1], offset, end) = Slice(n, B[s - 1], B[s])
    <3>1. s - 1 \in 0 .. K /\ s \in 0 .. K
      BY <2>6
    <3>2. chunks[s] = <<n, s>>
      BY <2>5
    <3>3. Plaintext(chunks[s]) = Slice(n, E[s - 1], E[s]) /\ PlaintextLength(chunks[s]) = E[s] - E[s - 1]
      BY <2>4, <2>5, <2>6, <3>2, PlaintextIsASlice
    <3>4. E[s - 1] \in Nat /\ E[s] \in Nat /\ E[s - 1] <= E[s]
      BY <2>6, <3>1
    <3>5. Part(chunks[s], E[s - 1], offset, end)
            = Slice(n, Clamp(E[s - 1], offset, end), Clamp(E[s], offset, end))
      BY <2>3, <3>3, <3>4, PartIsASlice
    <3> QED BY <2>7, <3>1, <3>5
  <2>9. /\ B \in [0 .. K -> Nat] /\ \A s \in 1 .. K : B[s - 1] <= B[s]
        /\ B[0] = offset /\ B[K] = end
    <3>1. \A s \in 0 .. K : B[s] = Clamp(E[s], offset, end) /\ B[s] \in Nat
      <4> SUFFICES ASSUME NEW s \in 0 .. K
                   PROVE  B[s] = Clamp(E[s], offset, end) /\ B[s] \in Nat
        OBVIOUS
      <4>1. E[s] \in Nat /\ offset <= end
        BY <2>3, <2>6
      <4>2. Clamp(E[s], offset, end) \in Nat
        BY <2>3, <4>1, ClampFacts
      <4> QED BY <2>7, <4>2
    <3>2. \A s \in 1 .. K : s - 1 \in 0 .. K /\ s \in 0 .. K
      BY <2>6
    <3>3. \A s \in 1 .. K : B[s - 1] <= B[s]
      <4> SUFFICES ASSUME NEW s \in 1 .. K PROVE B[s - 1] <= B[s]
        OBVIOUS
      <4>1. /\ E[s - 1] \in Nat /\ E[s] \in Nat /\ E[s - 1] <= E[s] /\ offset <= end
        BY <2>3, <2>6, <3>2
      <4>2. Clamp(E[s - 1], offset, end) <= Clamp(E[s], offset, end)
        BY <2>3, <4>1, ClampFacts
      <4> QED BY <3>1, <3>2, <4>2
    <3>4. 0 \in 0 .. K /\ K \in 0 .. K
      BY <2>6
    <3>5. B[0] = offset
      <4>1. B[0] = Clamp(E[0], offset, end) /\ E[0] = 0
        BY <2>6, <3>1, <3>4
      <4> QED BY <2>3, <4>1 DEF Clamp
    <3>6. B[K] = end
      <4>1. B[K] = Clamp(E[K], offset, end) /\ E[K] \in Nat /\ end <= E[K]
        BY <2>3, <2>6, <3>1, <3>4
      <4> QED BY <2>3, <4>1 DEF Clamp
    <3> QED BY <2>7, <3>1, <3>3, <3>5, <3>6
  <2>10. PICK parts : parts = [s \in 1 .. K |-> Slice(n, B[s - 1], B[s])]
    OBVIOUS
  <2>11. parts = [s \in DOMAIN chunks |-> Part(chunks[s], ChunkEnds(chunks)[s - 1], offset, end)]
    BY <1>1, <2>4, <2>5, <2>8, <2>10
  <2>12. ReadFileRange(chunks, offset, length) = FlattenSeq(parts)
    <3>1. ~(offset >= FileSize(chunks) \/ length = 0)
      BY <1>1, <1>2, <1>4
    <3>2. end = Min({offset + length, FileSize(chunks)})
      BY <1>1, <2>1
    <3> QED BY <2>11, <3>1, <3>2 DEF ReadFileRange
  <2>13. FlattenSeq(parts) = Slice(n, B[0], B[K])
    BY <2>6, <2>9, <2>10, PartsJoin
  <2> QED BY <2>2, <2>9, <2>12, <2>13
<1> QED BY <1>3, <1>4

-----------------------------------------------------------------------------
(* The four properties of reads.                                           *)

\* What OnePut means for reads: the chunks, and how long the put is.
LEMMA OnePutReads ==
  ASSUME IndInv, NEW v \in Vaults, NEW n \in DOMAIN puts, OnePut(v, n)
  PROVE  /\ puts[n].by \in Vaults
         /\ OrderedFileChunks(cache[v], puts[n].file)
              = [s \in 1 .. Total[puts[n].by] |-> <<n, s>>]
         /\ FileSize(OrderedFileChunks(cache[v], puts[n].file)) = Size(n)
         /\ Content(n) = Slice(n, 0, Size(n)) /\ Len(Content(n)) = Size(n) /\ Size(n) \in Nat
<1>1. /\ puts[n].by \in Vaults
      /\ OrderedFileChunks(cache[v], puts[n].file)
           = [s \in 1 .. Total[puts[n].by] |-> <<n, s>>]
  BY OnePutFacts
<1>2. FileSize(OrderedFileChunks(cache[v], puts[n].file)) = Size(n)
  BY <1>1, SizesOfChunks
<1>3. Content(n) = Slice(n, 0, Size(n)) /\ Size(n) \in Nat
  BY <1>1, ContentIsASlice
<1>4. Len(Content(n)) = Size(n)
  <2>1. 0 \in Nat /\ 0 <= Size(n) /\ Size(n) - 0 = Size(n)
    BY <1>3
  <2> QED BY <1>3, <2>1, SliceIsSeq
<1> QED BY <1>1, <1>2, <1>3, <1>4

LEMMA RangesRead == IndInv => RangeReadIsSlice
<1> SUFFICES ASSUME IndInv, NEW v \in Vaults, NEW n \in DOMAIN puts, OnePut(v, n),
                    NEW offset \in 0 .. Len(Content(n)) + 1, NEW length \in 0 .. MaxWord
             PROVE  ReadFileRange(OrderedFileChunks(cache[v], puts[n].file), offset, length)
                      = SubSeq(Content(n), offset + 1, Min({offset + length, Len(Content(n))}))
  BY DEF RangeReadIsSlice
<1>1. PICK chunks : chunks = OrderedFileChunks(cache[v], puts[n].file)
  OBVIOUS
<1>2. PICK size \in Nat : size = Size(n)
  BY OnePutReads
<1>3. /\ puts[n].by \in Vaults /\ chunks = [s \in 1 .. Total[puts[n].by] |-> <<n, s>>]
      /\ Content(n) = Slice(n, 0, size) /\ Len(Content(n)) = size
  BY <1>1, <1>2, OnePutReads
<1>4. offset \in Nat /\ length \in Nat
  BY <1>3, ReadAssumption
<1>5. PICK end \in Nat : end = offset + length
  BY <1>4
<1>6. Min({offset + length, Len(Content(n))}) = IF end <= size THEN end ELSE size
  <2>1. end \in Int /\ size \in Int
    OBVIOUS
  <2>2. Min({end, size}) = IF end <= size THEN end ELSE size
    BY <2>1, MinOfTwo
  <2> QED BY <1>3, <1>5, <2>2
<1>7. PICK last \in Nat, first \in Nat :
        last = (IF end <= size THEN end ELSE size) /\ first = offset + 1
  BY <1>4
<1>8. Cut(Content(n), first, last) = IF first <= last THEN Slice(n, offset, last) ELSE <<>>
  <2>1. 1 <= first /\ last <= size /\ first - 1 = offset
    BY <1>4, <1>7
  <2>2. Cut(Slice(n, 0, size), first, last) = IF first <= last THEN Slice(n, first - 1, last) ELSE <<>>
    BY <2>1, CutOfContent
  <2> QED BY <1>3, <2>1, <2>2
<1>9. ReadFileRange(chunks, offset, length) = IF first <= last THEN Slice(n, offset, last) ELSE <<>>
  <2>1. CASE first <= last
    <3>1. offset < Size(n) /\ length > 0
      BY <1>2, <1>4, <1>5, <1>7, <2>1
    <3>2. ReadFileRange(chunks, offset, length)
            = Slice(n, offset, IF offset + length <= Size(n) THEN offset + length ELSE Size(n))
      BY <1>3, <1>4, <3>1, RangeIsASlice
    <3> QED BY <1>2, <1>5, <1>7, <2>1, <3>2
  <2>2. CASE ~(first <= last)
    <3>1. offset >= Size(n) \/ length = 0
      BY <1>2, <1>4, <1>5, <1>7, <2>2
    <3> QED BY <1>3, <1>4, <2>2, <3>1, RangeIsASlice
  <2> QED BY <2>1, <2>2
<1>10. ReadFileRange(chunks, offset, length) = Cut(Content(n), first, last)
  BY <1>8, <1>9
<1> QED BY <1>1, <1>6, <1>7, <1>10 DEF Cut

\* How many bytes a range read returns.
LEMMA RangeLength ==
  ASSUME NEW n, puts[n].by \in Vaults, NEW chunks,
         chunks = [s \in 1 .. Total[puts[n].by] |-> <<n, s>>],
         NEW offset \in Nat, NEW length \in Nat
  PROVE  /\ ReadFileRange(chunks, offset, length) \in Seq({n} \X Nat)
         /\ Len(ReadFileRange(chunks, offset, length))
              = IF offset >= Size(n) THEN 0
                ELSE IF length <= Size(n) - offset THEN length ELSE Size(n) - offset
<1>1. PICK size \in Nat : size = Size(n)
  BY ContentIsASlice
<1>2. PICK r : r = ReadFileRange(chunks, offset, length)
  OBVIOUS
<1>3. CASE offset >= size \/ length = 0
  <2>1. r = <<>>
    BY <1>1, <1>2, <1>3, RangeIsASlice
  <2>2. r \in Seq({n} \X Nat) /\ Len(r) = 0
    BY <2>1, EmptySeq
  <2> QED BY <1>1, <1>2, <1>3, <2>2
<1>4. CASE ~(offset >= size \/ length = 0)
  <2>1. PICK end \in Nat : end = IF offset + length <= size THEN offset + length ELSE size
    OBVIOUS
  <2>2. r = Slice(n, offset, end)
    <3>1. offset < Size(n) /\ length > 0
      BY <1>1, <1>4
    <3>2. r = Slice(n, offset, IF offset + length <= Size(n) THEN offset + length ELSE Size(n))
      BY <1>2, <3>1, RangeIsASlice
    <3> QED BY <1>1, <2>1, <3>2
  <2>3. offset <= end
    BY <1>4, <2>1
  <2>4. r \in Seq({n} \X Nat) /\ Len(r) = end - offset
    BY <2>2, <2>3, SliceIsSeq
  <2>5. end - offset = IF length <= size - offset THEN length ELSE size - offset
    BY <1>4, <2>1
  <2> QED BY <1>1, <1>2, <1>4, <2>4, <2>5
<1> QED BY <1>3, <1>4

LEMMA ProbesFill == IndInv => ProbedBufferIsFilled
<1> SUFFICES ASSUME IndInv, NEW v \in Vaults, NEW n \in DOMAIN puts, OnePut(v, n),
                    NEW chunks, chunks = OrderedFileChunks(cache[v], puts[n].file),
                    NEW offset \in 0 .. FileSize(chunks) + 1, NEW length \in 0 .. MaxWord,
                    NEW wanted, wanted = RangeProbe(chunks, offset, length)
             PROVE  /\ ~Overflows(chunks, offset, wanted)
                    /\ Len(ReadRangeInto(chunks, offset, wanted, wanted)) = wanted
                    /\ Len(ReadFileRange(chunks, offset, length)) = IF length = 0 THEN 0 ELSE wanted
  BY DEF ProbedBufferIsFilled
<1>1. PICK size \in Nat : size = Size(n)
  BY OnePutReads
<1>2. /\ puts[n].by \in Vaults /\ chunks = [s \in 1 .. Total[puts[n].by] |-> <<n, s>>]
      /\ FileSize(chunks) = size
  BY <1>1, OnePutReads
<1>3. offset \in Nat /\ length \in Nat
  BY <1>2, ReadAssumption
<1>4. PICK available : available = Max({size - offset, 0})
  OBVIOUS
<1>5. available = (IF size - offset >= 0 THEN size - offset ELSE 0) /\ available \in Nat
  <2>1. size - offset \in Int /\ 0 \in Int
    BY <1>3
  <2>2. Max({size - offset, 0}) = IF size - offset >= 0 THEN size - offset ELSE 0
    BY <2>1, MaxOfTwo
  <2> QED BY <1>3, <1>4, <2>2
<1>6. wanted = (IF length = 0 THEN available ELSE IF length <= available THEN length ELSE available)
  <2>1. length \in Int /\ available \in Int
    BY <1>3, <1>5
  <2>2. Min({length, available}) = IF length <= available THEN length ELSE available
    BY <2>1, MinOfTwo
  <2> QED BY <1>2, <1>4, <2>2 DEF RangeProbe
<1>7. wanted \in Nat /\ wanted <= available
  BY <1>3, <1>5, <1>6
<1>8. PICK data : data = ReadFileRange(chunks, offset, wanted)
  OBVIOUS
<1>9. data \in Seq({n} \X Nat) /\ Len(data) = wanted
  <2>1. /\ data \in Seq({n} \X Nat)
        /\ Len(data) = IF offset >= size THEN 0
                       ELSE IF wanted <= size - offset THEN wanted ELSE size - offset
    BY <1>1, <1>2, <1>3, <1>7, <1>8, RangeLength, ZenonT(60)
  <2> QED BY <1>3, <1>5, <1>7, <2>1
<1>10. Len(ReadRangeInto(chunks, offset, wanted, wanted)) = wanted
  <2>1. Min({Len(data), wanted}) = wanted
    <3>1. wanted \in Int
      BY <1>7
    <3>2. Min({wanted, wanted}) = wanted
      BY <3>1, MinOfTwo
    <3> QED BY <1>9, <3>2
  <2>2. ReadRangeInto(chunks, offset, wanted, wanted) = SubSeq(data, 1, wanted)
    BY <1>8, <2>1 DEF ReadRangeInto
  <2>3. \A i \in 1 .. wanted : data[i] \in {n} \X Nat
    BY <1>9, ElementOfSeq
  <2>4. Len(SubSeq(data, 1, wanted)) = IF 1 <= wanted THEN wanted - 1 + 1 ELSE 0
    BY <1>7, <2>3, SubSeqProperties
  <2> QED BY <1>7, <2>2, <2>4
<1>11. Len(ReadFileRange(chunks, offset, length)) = IF length = 0 THEN 0 ELSE wanted
  <2>1. Len(ReadFileRange(chunks, offset, length))
          = IF offset >= size THEN 0
            ELSE IF length <= size - offset THEN length ELSE size - offset
    BY <1>1, <1>2, <1>3, RangeLength
  <2> QED BY <1>3, <1>5, <1>6, <2>1
<1>12. ~Overflows(chunks, offset, wanted)
  <2>1. size <= MaxWord /\ MaxWord \in Nat
    BY <1>1, <1>2, SizeAssumption, ReadAssumption DEF Size
  <2>2. offset < size => offset + wanted <= MaxWord
    BY <1>3, <1>5, <1>7, <2>1
  <2> QED BY <1>2, <1>3, <1>7, <2>1, <2>2 DEF Overflows
<1> QED BY <1>10, <1>11, <1>12

\* One read of a cursor that has returned the first p bytes.
CursorAt(n, p) == [position |-> p, bytes |-> Slice(n, 0, p)]

AfterRead(chunks, length, c) ==
  LET got == ReadFileRange(chunks, c.position, length)
  IN  [position |-> Advanced(c.position, got, length), bytes |-> c.bytes \o got]

LEMMA CursorStep ==
  ASSUME NEW n, puts[n].by \in Vaults, NEW chunks,
         chunks = [s \in 1 .. Total[puts[n].by] |-> <<n, s>>],
         NEW length \in Nat, length > 0, NEW p \in Nat, p <= Size(n), NEW q,
         q = IF p + length <= Size(n) THEN p + length ELSE Size(n)
  PROVE  AfterRead(chunks, length, CursorAt(n, p)) = CursorAt(n, q)
<1>1. PICK size \in Nat : size = Size(n)
  BY ContentIsASlice
<1>2. q \in Nat /\ p <= q
  BY <1>1
<1>3. PICK got : got = ReadFileRange(chunks, p, length)
  OBVIOUS
<1>4. got \in Seq({n} \X Nat) /\ p + Len(got) = q
  <2>1. /\ got \in Seq({n} \X Nat)
        /\ Len(got) = IF p >= size THEN 0 ELSE IF length <= size - p THEN length ELSE size - p
    BY <1>1, <1>3, RangeLength
  <2> QED BY <1>1, <2>1
<1>5. Slice(n, 0, p) \o got = Slice(n, 0, q)
  <2>1. CASE p < size
    <3>1. got = Slice(n, p, q)
      BY <1>1, <1>3, <2>1, RangeIsASlice
    <3>2. 0 \in Nat /\ 0 <= p
      OBVIOUS
    <3>3. \A x, y, z \in Nat : x <= y /\ y <= z => Slice(n, x, y) \o Slice(n, y, z) = Slice(n, x, z)
      BY SlicesMeet, ZenonT(60)
    <3>4. Slice(n, 0, p) \o Slice(n, p, q) = Slice(n, 0, q)
      BY <1>2, <3>2, <3>3
    <3> QED BY <3>1, <3>4
  <2>2. CASE ~(p < size)
    <3>1. got = <<>>
      BY <1>1, <1>3, <2>2, RangeIsASlice
    <3>2. p = q
      BY <1>1, <2>2
    <3>3. Slice(n, 0, p) \in Seq({n} \X Nat)
      <4>1. 0 \in Nat /\ 0 <= p
        OBVIOUS
      <4> QED BY <4>1, SliceIsSeq
    <3> QED BY <3>1, <3>2, <3>3, ConcatEmptySeq
  <2> QED BY <2>1, <2>2
<1> QED BY <1>3, <1>4, <1>5 DEF AfterRead, CursorAt, Advanced

LEMMA CursorsRead ==
  ASSUME NEW n, puts[n].by \in Vaults, NEW chunks,
         chunks = [s \in 1 .. Total[puts[n].by] |-> <<n, s>>],
         NEW length \in Nat, length > 0, NEW reads \in Nat, reads >= Size(n)
  PROVE  CursorAfter(chunks, length, reads) = CursorAt(n, Size(n))
<1>1. PICK size \in Nat : size = Size(n)
  BY ContentIsASlice
\* The equation that the cursors solve, and a solution.
<1> DEFINE Solves(h) == h = [k \in 0 .. reads |-> IF k = 0 THEN [position |-> 0, bytes |-> <<>>]
                                                  ELSE AfterRead(chunks, length, h[k - 1])]
<1>2. PICK at : at = [k \in 0 .. reads |-> IF k * length <= size THEN k * length ELSE size]
  OBVIOUS
<1>3. /\ \A k \in 0 .. reads : at[k] \in Nat /\ at[k] <= size
      /\ at[0] = 0
      /\ \A k \in 1 .. reads :
           at[k] = IF at[k - 1] + length <= size THEN at[k - 1] + length ELSE size
  <2>1. ASSUME NEW k \in 0 .. reads PROVE at[k] \in Nat /\ at[k] <= size
    <3>1. k * length \in Nat
      OBVIOUS
    <3> QED BY <1>2, <3>1
  <2>2. at[0] = 0
    <3>1. 0 * length = 0 /\ 0 \in 0 .. reads
      OBVIOUS
    <3> QED BY <1>2, <3>1
  <2>3. ASSUME NEW k \in 1 .. reads
        PROVE  at[k] = IF at[k - 1] + length <= size THEN at[k - 1] + length ELSE size
    <3>1. k \in 0 .. reads /\ k - 1 \in 0 .. reads /\ k - 1 \in Nat
      OBVIOUS
    <3>2. (k - 1) * length \in Nat /\ k * length = (k - 1) * length + length
      OBVIOUS
    <3> QED BY <1>2, <3>1, <3>2
  <2> QED BY <2>1, <2>2, <2>3
<1>4. \A k \in 0 .. reads : k <= size => at[k] >= k
  <2> DEFINE Bad == {k \in 0 .. reads : k <= size /\ at[k] < k}
  <2>1. ASSUME Bad # {} PROVE FALSE
    <3>1. PICK k \in Bad : \A m \in Bad : k <= m
      <4> HIDE DEF Bad
      <4>1. Bad \subseteq Nat
        BY DEF Bad
      <4> QED BY <2>1, <4>1, LeastNatural
    <3>2. k \in 1 .. reads /\ k - 1 \in 0 .. reads /\ k - 1 <= size
      BY <1>3
    <3>3. k - 1 \notin Bad
      BY <3>1, <3>2
    <3>4. at[k - 1] >= k - 1 /\ at[k - 1] \in Nat /\ at[k - 1] <= size
      BY <1>3, <3>2, <3>3
    <3>5. at[k] = IF at[k - 1] + length <= size THEN at[k - 1] + length ELSE size
      BY <1>3, <3>2
    <3> QED BY <3>2, <3>4, <3>5
  <2>2. \A k \in 0 .. reads : at[k] \in Nat
    BY <1>3
  <2> QED BY <2>1, <2>2
<1>5. at[reads] = size
  <2>1. CASE reads = size
    BY <1>3, <1>4, <2>1
  <2>2. CASE reads > size
    <3> DEFINE Bad == {k \in 0 .. reads : size <= k /\ at[k] # size}
    <3>1. ASSUME Bad # {} PROVE FALSE
      <4>1. PICK k \in Bad : \A m \in Bad : k <= m
        <5> HIDE DEF Bad
        <5>1. Bad \subseteq Nat
          BY DEF Bad
        <5> QED BY <3>1, <5>1, LeastNatural
      <4>2. k # size
        BY <1>3, <1>4
      <4>3. k \in 1 .. reads /\ k - 1 \in 0 .. reads /\ size <= k - 1
        BY <4>2
      <4>4. at[k - 1] = size
        BY <4>1, <4>3
      <4>5. at[k] = size
        BY <1>3, <4>3, <4>4
      <4> QED BY <4>5
    <3>2. reads \in 0 .. reads /\ size <= reads
      BY <2>2
    <3> QED BY <3>1, <3>2
  <2> QED BY <1>1, <2>1, <2>2
<1>6. PICK j : j = [k \in 0 .. reads |-> CursorAt(n, at[k])]
  OBVIOUS
<1>7. /\ [position |-> 0, bytes |-> <<>>] = CursorAt(n, 0)
      /\ \A k \in 1 .. reads :
           AfterRead(chunks, length, CursorAt(n, at[k - 1])) = CursorAt(n, at[k])
  <2>1. [position |-> 0, bytes |-> <<>>] = CursorAt(n, 0)
    BY NoSlice DEF CursorAt
  <2>2. ASSUME NEW k \in 1 .. reads
        PROVE  AfterRead(chunks, length, CursorAt(n, at[k - 1])) = CursorAt(n, at[k])
    <3>1. PICK p, q : p = at[k - 1] /\ q = at[k]
      OBVIOUS
    <3>2. k - 1 \in 0 .. reads
      OBVIOUS
    <3>3. /\ p \in Nat /\ p <= Size(n)
          /\ q = IF p + length <= Size(n) THEN p + length ELSE Size(n)
      BY <1>1, <1>3, <3>1, <3>2
    <3>4. AfterRead(chunks, length, CursorAt(n, p)) = CursorAt(n, q)
      BY <3>3, CursorStep
    <3> QED BY <3>1, <3>4
  <2> QED BY <2>1, <2>2
<1>8. Solves(j)
  <2>1. ASSUME NEW k \in 0 .. reads
        PROVE  j[k] = IF k = 0 THEN [position |-> 0, bytes |-> <<>>]
                      ELSE AfterRead(chunks, length, j[k - 1])
    <3>1. CASE k = 0
      BY <1>3, <1>6, <1>7, <3>1
    <3>2. CASE k # 0
      <4>1. k \in 1 .. reads /\ k - 1 \in 0 .. reads
        BY <3>2
      <4> QED BY <1>6, <1>7, <3>2, <4>1
    <3> QED BY <3>1, <3>2
  <2> QED BY <1>6, <2>1
<1> DEFINE h == CHOOSE x : Solves(x)
<1>9. Solves(h)
  <2> HIDE DEF Solves
  <2> QED BY <1>8
<1>10. CursorAfter(chunks, length, reads) = h[reads]
  BY DEF CursorAfter, AfterRead
<1> HIDE DEF h
<1>11. \A k \in 0 .. reads : h[k] = IF k = 0 THEN [position |-> 0, bytes |-> <<>>]
                                    ELSE AfterRead(chunks, length, h[k - 1])
  BY <1>9
<1> HIDE DEF Solves
<1>12. \A k \in 0 .. reads : h[k] = CursorAt(n, at[k])
  <2> DEFINE Bad == {k \in 0 .. reads : h[k] # CursorAt(n, at[k])}
  <2>1. ASSUME Bad # {} PROVE FALSE
    <3>1. PICK k \in Bad : \A m \in Bad : k <= m
      <4> HIDE DEF Bad
      <4>1. Bad \subseteq Nat
        BY DEF Bad
      <4> QED BY <2>1, <4>1, LeastNatural
    <3>2. k # 0
      BY <1>3, <1>7, <1>11
    <3>3. k \in 1 .. reads /\ k - 1 \in 0 .. reads
      BY <3>2
    <3>4. h[k - 1] = CursorAt(n, at[k - 1])
      BY <3>1, <3>3
    <3>5. h[k] = AfterRead(chunks, length, h[k - 1])
      BY <1>11, <3>2
    <3>6. h[k] = CursorAt(n, at[k])
      BY <1>7, <3>3, <3>4, <3>5
    <3> QED BY <3>6
  <2> QED BY <2>1
<1>13. reads \in 0 .. reads
  OBVIOUS
<1> QED BY <1>1, <1>5, <1>10, <1>12, <1>13

LEMMA CursorsEnd == IndInv => CursorReadsAll
<1> SUFFICES ASSUME IndInv, NEW v \in Vaults, NEW n \in DOMAIN puts, OnePut(v, n),
                    NEW length \in 1 .. Len(Content(n))
             PROVE  CursorAfter(OrderedFileChunks(cache[v], puts[n].file), length,
                                Len(Content(n)) + 1)
                      = [position |-> Len(Content(n)), bytes |-> Content(n)]
  BY DEF CursorReadsAll
<1>1. PICK chunks : chunks = OrderedFileChunks(cache[v], puts[n].file)
  OBVIOUS
<1>2. PICK size \in Nat : size = Size(n)
  BY OnePutReads
<1>3. /\ puts[n].by \in Vaults /\ chunks = [s \in 1 .. Total[puts[n].by] |-> <<n, s>>]
      /\ Content(n) = Slice(n, 0, size) /\ Len(Content(n)) = size
  BY <1>1, <1>2, OnePutReads
<1>4. length \in Nat /\ length > 0 /\ size + 1 \in Nat /\ size + 1 >= Size(n)
  BY <1>2, <1>3
<1>5. CursorAfter(chunks, length, size + 1) = CursorAt(n, Size(n))
  BY <1>3, <1>4, CursorsRead
<1> QED BY <1>1, <1>2, <1>3, <1>5 DEF CursorAt

LEMMA WholesRead == IndInv => WholeReadIsOnePut
<1> SUFFICES ASSUME IndInv, NEW v \in Vaults, NEW f \in Files,
                    call[v].op = "idle", Served(cache[v], f),
                    NEW complete \in LatestCompletes(cache[v], f),
                    NEW bytes, bytes = ReadWhole(OrderedFileChunks(cache[v], f))
             PROVE  IF HashMatches(complete, bytes)
                    THEN \E n \in OnFileOf(f) : bytes = Content(n)
                    ELSE Cardinality(OnFileOf(f)) > 1
  BY DEF WholeReadIsOnePut
<1>1. ASSUME NEW t \in Listed(cache[v]), t.file = f
      PROVE  /\ t.put \in OnFileOf(f) /\ t.put \in DOMAIN puts /\ puts[t.put].file = f
             /\ t.chunks # {}
  <2>1. PICK b \in Blobs : \E g \in 1 .. cache[v][b] : t = log[b][g]
    BY <1>1 DEF Listed
  <2>2. PICK g \in 1 .. cache[v][b] : t = log[b][g]
    BY <2>1
  <2>3. g \in DOMAIN log[b] /\ g \in 1 .. Len(log[b])
    <3>1. cache[v][b] \in Nat /\ cache[v][b] <= Len(log[b]) /\ log[b] \in Seq(Txn)
      BY AllTyped DEF IndInv, VaultTyped, Types
    <3> QED BY <2>2, <3>1
  <2>4. t.chunks # {} /\ t.put \in DOMAIN puts /\ t.file = puts[t.put].file
    BY <2>2, <2>3 DEF IndInv, TxnsOfPuts
  <2>5. t \in Listed(Everything)
    BY <2>2, <2>3 DEF Listed, Everything
  <2>6. t.put \in OnFile
    BY <2>5 DEF OnFile
  <2> QED BY <1>1, <2>4, <2>6 DEF OnFileOf
<1>2. PICK n : n = complete.put
  OBVIOUS
<1>3. n \in OnFileOf(f) /\ n \in DOMAIN puts /\ puts[n].file = f
  <2>1. complete \in Listed(cache[v]) /\ complete.file = f
    BY DEF LatestCompletes, Markers
  <2> QED BY <1>1, <1>2, <2>1
<1>4. CASE HashMatches(complete, bytes)
  BY <1>2, <1>3, <1>4 DEF HashMatches
<1>5. CASE ~HashMatches(complete, bytes)
  <2>1. ~ \A c \in ChunkEntries(cache[v], f) : c[1] = n
    <3> SUFFICES ASSUME \A c \in ChunkEntries(cache[v], f) : c[1] = n PROVE FALSE
      OBVIOUS
    <3>1. OnePut(v, n)
      BY <1>3 DEF OnePut
    <3>2. PICK chunks : chunks = OrderedFileChunks(cache[v], f)
      OBVIOUS
    <3>3. PICK size \in Nat : size = Size(n)
      BY <1>3, <3>1, OnePutReads
    <3>4. /\ puts[n].by \in Vaults /\ chunks = [s \in 1 .. Total[puts[n].by] |-> <<n, s>>]
          /\ Content(n) = Slice(n, 0, size) /\ FileSize(chunks) = size
      BY <1>3, <3>1, <3>2, <3>3, OnePutReads
    <3>5. bytes = ReadFileRange(chunks, 0, size)
      BY <3>2, <3>4 DEF ReadWhole
    <3>6. ReadFileRange(chunks, 0, size) = Slice(n, 0, size)
      <4>1. 0 \in Nat /\ 0 + size = size
        OBVIOUS
      <4>2. CASE size = 0
        <5>1. ReadFileRange(chunks, 0, size) = <<>>
          BY <3>4, <4>1, <4>2, RangeIsASlice
        <5> QED BY <4>1, <4>2, <5>1, NoSlice
      <4>3. CASE size # 0
        <5>1. 0 < Size(n) /\ size > 0
          BY <3>3, <4>3
        <5>2. ReadFileRange(chunks, 0, size)
                = Slice(n, 0, IF 0 + size <= Size(n) THEN 0 + size ELSE Size(n))
          BY <3>4, <4>1, <5>1, RangeIsASlice
        <5> QED BY <3>3, <4>1, <5>2
      <4> QED BY <4>2, <4>3
    <3>7. bytes = Content(complete.put)
      BY <1>2, <3>4, <3>5, <3>6
    <3> QED BY <1>5, <3>7 DEF HashMatches
  <2>2. PICK m : m \in OnFileOf(f) /\ m # n
    <3>1. PICK c \in ChunkEntries(cache[v], f) : c[1] # n
      BY <2>1
    <3>2. PICK t \in Listed(cache[v]) : t.file = f /\ \E s \in t.chunks : c = <<t.put, s>>
      BY DEF ChunkEntries
    <3>3. c[1] = t.put
      BY <3>2
    <3> QED BY <1>1, <3>1, <3>2, <3>3
  <2>3. IsFiniteSet(OnFileOf(f))
    <3>1. OnFileOf(f) \subseteq 1 .. Len(puts)
      <4> SUFFICES ASSUME NEW k \in OnFileOf(f) PROVE k \in 1 .. Len(puts)
        OBVIOUS
      <4>1. PICK t \in Listed(Everything) : k = t.put
        BY DEF OnFileOf, OnFile
      <4>2. PICK b \in Blobs : \E g \in 1 .. Len(log[b]) : t = log[b][g]
        BY DEF Listed, Everything
      <4>3. PICK g \in 1 .. Len(log[b]) : t = log[b][g]
        BY <4>2
      <4>4. log[b] \in Seq(Txn) /\ puts \in Seq(Put)
        BY DEF IndInv, Types
      <4>5. g \in DOMAIN log[b] /\ DOMAIN puts = 1 .. Len(puts)
        BY <4>4
      <4>6. t.put \in DOMAIN puts
        BY <4>3, <4>5 DEF IndInv, TxnsOfPuts
      <4> QED BY <4>1, <4>5, <4>6
    <3>2. Len(puts) \in Nat
      BY LenProperties DEF IndInv, Types
    <3>3. 1 \in Int /\ Len(puts) \in Int
      BY <3>2
    <3> QED BY <3>1, <3>3, FS_Interval, FS_Subset
  <2>4. Cardinality({n, m}) = 2
    <3>1. {n} \cup {m} = {n, m} /\ m \notin {n}
      BY <2>2
    <3>2. IsFiniteSet({n}) /\ Cardinality({n}) = 1
      BY FS_Singleton
    <3>3. Cardinality({n} \cup {m}) = Cardinality({n}) + 1
      BY <3>1, <3>2, FS_AddElement
    <3> QED BY <3>1, <3>2, <3>3
  <2>5. Cardinality({n, m}) <= Cardinality(OnFileOf(f)) /\ Cardinality(OnFileOf(f)) \in Nat
    <3>1. {n, m} \subseteq OnFileOf(f)
      BY <1>3, <2>2
    <3> QED BY <2>3, <3>1, FS_Subset, FS_CardinalityType
  <2> QED BY <1>5, <2>4, <2>5
<1> QED BY <1>4, <1>5

-----------------------------------------------------------------------------
(* The theorems. *)

\* Type correctness: whatever calls interleave, an index never claims a
\* transaction that its blob does not have, and the lock of a blob is held
\* by the call that writes it (src/src/vault.rs: replace_cached_blob_index,
\* write_chunks).
THEOREM TypesHold == Spec => []TypeOK
BY AlwaysInv, PTL DEF IndInv

\* put_file never stores a file of its vault twice, for any number of
\* processes, blobs and faults, unless the vault's index lost something.
THEOREM StoredOnce == Spec => []StoresOnce
BY AlwaysInv, PTL DEF IndInv, PutOnce

\* The completion marker is committed after every chunk of its put: whoever
\* sees it, through however old an index, finds the whole file on the blobs.
THEOREM MarkerComesLast == Spec => []MarkerSeenMeansWhole
BY AlwaysInv, MarkerSeen, PTL

\* A vault between calls serves each file it stored and was told Ok for.
THEOREM OwnPutsAreServed == Spec => []ReadsItsWrites
BY AlwaysInv, OwnServed, PTL

\* read_file_range returns the bytes of the put at the places asked for, as
\* many as there are, wherever its chunks are stored and however long they
\* are (src/src/vault.rs: read_file_range, ordered_file_chunks).
THEOREM RangeReadsAreSlices == Spec => []RangeReadIsSlice
BY AlwaysInv, RangesRead, PTL

\* A cursor that is read to the end returns every byte of the file once and
\* in order, and stays there, when no read on the way overflows
\* (read_from_file).
THEOREM CursorsReadAll == Spec => []CursorReadsAll
BY AlwaysInv, CursorsEnd, PTL

\* read_file returns the bytes of one put, or finds the hash wrong where the
\* chunks of two puts met.
THEOREM WholeReadsAreOnePut == Spec => []WholeReadIsOnePut
BY AlwaysInv, WholesRead, PTL

\* A host that probes any range and reads as many bytes as it was told can do
\* so, and fills its buffer to the last byte; a read of the range itself gets
\* as many, except that it gets none for a length of 0, and fails when the end
\* of the range is no u64 (src/native/src/lib.rs: vaultblob_read_file_range).
THEOREM ProbedBuffersAreFilled == Spec => []ProbedBufferIsFilled
BY AlwaysInv, ProbesFill, PTL
=============================================================================

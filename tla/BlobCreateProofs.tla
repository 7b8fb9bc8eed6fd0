-------------------------- MODULE BlobCreateProofs --------------------------
(***************************************************************************)
(* Proofs about BlobCreate, for any number of creators and openers, any    *)
(* gaps and any bounds.                                                    *)
(***************************************************************************)
EXTENDS BlobCreate, TLAPS

Rewriting == Creating \ {"truncate"}

\* Nobody is between the truncation and the end of a create_new.
AtRest == \A p \in Procs : call[p].pc \notin Rewriting

LockType == lock \in Procs \cup {NoProc}

\* With the code's test of the length, create_new never follows the sight of
\* a complete front matter.
NeverSeen == \A p \in Procs : ~call[p].seen

\* How far create_new got is what is on file.
StageOnFile ==
  \A p \in Procs :
    /\ call[p].pc \in Creating => call[p].keys # 0
    /\ call[p].pc = "stable" => file.len = 0
    /\ call[p].pc = "slot_a" => file.len = 1 /\ file.stable = call[p].keys
    /\ call[p].pc \in {"slot_b", "body"} =>
         /\ file.stable = call[p].keys /\ file.slot = call[p].keys
         /\ IF call[p].pc = "slot_b" THEN file.len = 2 ELSE file.len >= FRONT_MATTER

\* A file without a stable slot is empty, and a complete front matter is of
\* one creation, also while it is filled.
SlotsOnFile ==
  /\ file.len = 0 => file.stable = 0
  /\ file.len >= FRONT_MATTER => file.slot = file.stable /\ file.stable # 0

\* Until a creation is cut short or overtaken, a file at rest is empty or
\* whole, and a handle is one of the blob on file.
Undisturbed ==
  (~cut /\ ~raced) =>
    /\ AtRest => file.len = 0 \/ file.len >= FULL
    /\ \A p \in Procs : handle[p] # 0 => handle[p] = file.stable

\* What was acknowledged is on file, and nobody is rewriting it.
AckedAtRest ==
  (~raced /\ acked # {}) => AtRest /\ file.len >= FRONT_MATTER /\ AckedKept

IndInv ==
  /\ TypeOK
  /\ LockType
  /\ NeverSeen
  /\ StageOnFile
  /\ SlotsOnFile
  /\ Undisturbed
  /\ AckedAtRest

-----------------------------------------------------------------------------
CallRecord == [pc : Creating \cup {"idle", "open", "length", "read", "lock"},
               existed : BOOLEAN, seen : BOOLEAN, keys : 0 .. keys]

LEMMA InitInv == Init => IndInv
<1> SUFFICES ASSUME Init PROVE IndInv
  OBVIOUS
<1> USE CreateAssumption DEF Init, Creating, NoFile, Idle, FULL, FRONT_MATTER, Procs
<1>1. TypeOK /\ LockType
  <2>1. file \in [exists : BOOLEAN, len : 0 .. FULL, stable : 0 .. keys,
               slot : 0 .. keys, generation : 0 .. MaxTxns]
    OBVIOUS
  <2>2. call \in [Procs -> CallRecord]
    BY DEF CallRecord
  <2>3. acked \subseteq (1 .. keys) \X (1 .. MaxTxns)
    OBVIOUS
  <2>4. ASSUME NEW p \in Procs
        PROVE  lock # p /\ call[p].pc \notin Creating
    OBVIOUS
  <2>5. /\ handle \in [Procs -> 0 .. keys] /\ keys \in 0 .. MaxKeys
        /\ faults \in 0 .. MaxFaults /\ LockType
    BY DEF LockType
  <2>6. cut \in BOOLEAN /\ raced \in BOOLEAN
    BY Zenon
  <2> HIDE DEF Init, Creating, FULL
  <2> QED
    BY <2>1, <2>2, <2>3, <2>4, <2>5, <2>6 DEF TypeOK, CallRecord
<1>2. NeverSeen /\ StageOnFile /\ SlotsOnFile /\ Undisturbed
  BY DEF NeverSeen, StageOnFile, SlotsOnFile, Undisturbed
<1>3. AckedAtRest
  BY DEF AckedAtRest
<1> QED
  BY <1>1, <1>2, <1>3 DEF IndInv

-----------------------------------------------------------------------------
(* The steps.  A step of p moves p to another pc and leaves the others     *)
(* where they are.                                                         *)

Moves(p, pc) ==
  /\ call' \in [Procs -> CallRecord']
  /\ call'[p].pc = pc
  /\ ~call'[p].seen
  /\ \A q \in Procs \ {p} : call'[q] = call[q]

LEMMA StepMoves ==
  ASSUME IndInv, NEW p \in Procs, NEW from, NEW to \in Creating \cup {"idle"},
         Step(p, from, to), keys' = keys
  PROVE  Moves(p, to) /\ call'[p].keys = call[p].keys
BY DEF IndInv, TypeOK, NeverSeen, Step, Moves, CallRecord

LEMMA NobodyHolds ==
  ASSUME IndInv, lock = NoProc
  PROVE  \A q \in Procs : call[q].pc \notin Creating
BY CreateAssumption DEF IndInv, TypeOK, Procs

\* Only the holder of the lock rewrites the blob, so nobody does while p
\* creates it.
LEMMA OneRewrites ==
  ASSUME IndInv, NEW p \in Procs, call[p].pc \in Creating
  PROVE  lock = p /\ \A q \in Procs \ {p} : call[q].pc \notin Creating
BY DEF IndInv, TypeOK

FileRecord == [exists : BOOLEAN, len : 0 .. FULL, stable : 0 .. keys,
               slot : 0 .. keys, generation : 0 .. MaxTxns]

\* A step that ends where it began, outside create_new, and at most reads
\* the stable slot.
LEMMA OutsideStep ==
  ASSUME IndInv, NEW p \in Procs, call[p].pc \notin Creating,
         NEW pc \in {"open", "length", "read", "lock", "idle"}, Moves(p, pc),
         UNCHANGED <<lock, keys, faults, acked, cut, raced>>,
         file' \in FileRecord, file'.len = file.len, file'.stable = file.stable,
         file'.slot = file.slot, file'.generation = file.generation,
         handle' \in [Procs -> 0 .. keys],
         \A q \in Procs : handle'[q] # handle[q] => handle'[q] \in {0, file.stable}
  PROVE  IndInv'
<1>1. \A q \in Procs : call'[q].pc \in Creating => call'[q] = call[q]
  BY DEF Moves, Creating
<1>2. \A q \in Procs : call[q].pc \in Creating => call'[q] = call[q]
  BY DEF Moves
<1>3. TypeOK'
  BY <1>1, <1>2 DEF IndInv, TypeOK, Moves, CallRecord, FileRecord
<1>4. LockType' /\ NeverSeen'
  BY DEF IndInv, LockType, NeverSeen, Moves
<1>5. StageOnFile' /\ SlotsOnFile'
  BY <1>1 DEF IndInv, StageOnFile, SlotsOnFile, Creating
<1>6. AtRest' <=> AtRest
  BY <1>1, <1>2 DEF AtRest, Creating, Rewriting
<1>7. Undisturbed' /\ AckedAtRest'
  BY <1>6 DEF IndInv, Undisturbed, AckedAtRest, AckedKept
<1> QED
  BY <1>3, <1>4, <1>5, <1>7 DEF IndInv

LEMMA QuietSteps ==
  ASSUME IndInv, NEW p \in Procs,
         Open(p) \/ OpenFound(p) \/ CheckLength(p)
  PROVE  IndInv'
<1>1. UNCHANGED <<file, lock, handle, keys, faults, acked, cut, raced>>
  BY DEF Open, OpenFound, CheckLength
<1>2. call[p].pc \notin Creating
  BY DEF Open, OpenFound, CheckLength, Creating
<1>3. \E pc \in {"open", "length", "read", "lock", "idle"} : Moves(p, pc)
  <2> USE DEF IndInv, TypeOK, NeverSeen, Moves, Idle, CallRecord
  <2>1. CASE Open(p)
    BY <2>1, <1>1 DEF Open
  <2>2. CASE OpenFound(p)
    <3>1. PICK pc \in {"length", "read"} :
            call' = [call EXCEPT ![p] = [Idle EXCEPT !.pc = pc, !.existed = file.exists]]
      BY <2>2 DEF OpenFound
    <3>2. file.exists \in BOOLEAN /\ 0 \in 0 .. keys
          /\ pc \in Creating \cup {"idle", "open", "length", "read", "lock"}
      OBVIOUS
    <3>3. [Idle EXCEPT !.pc = pc, !.existed = file.exists] \in CallRecord
      <4> HIDE DEF IndInv, TypeOK, NeverSeen, Moves
      <4> QED BY <3>2
    <3>4. call'[p] = [Idle EXCEPT !.pc = pc, !.existed = file.exists]
      BY <3>1
    <3>5. \A q \in Procs \ {p} : call'[q] = call[q]
      BY <3>1
    <3>6. call'[p].pc = pc /\ ~call'[p].seen
      BY <3>4
    <3>7. call' \in [Procs -> CallRecord']
      BY <3>1, <3>3, <1>1
    <3>8. Moves(p, pc)
      BY <3>5, <3>6, <3>7
    <3> QED
      BY <3>8
  <2>3. CASE CheckLength(p)
    <3>1. CASE call[p].existed /\ LongEnough
      BY <2>3, <3>1, <1>1 DEF CheckLength
    <3>2. CASE ~(call[p].existed /\ LongEnough) /\ p \in Creators
      BY <2>3, <3>2, <1>1, ZenonT(60) DEF CheckLength, LongEnough
    <3>3. CASE ~(call[p].existed /\ LongEnough) /\ p \notin Creators
      BY <2>3, <3>3, <1>1 DEF CheckLength
    <3> QED
      BY <3>1, <3>2, <3>3
  <2> QED
    BY <2>1, <2>2, <2>3
<1>4. file \in FileRecord /\ handle \in [Procs -> 0 .. keys]
  BY DEF IndInv, TypeOK, FileRecord
<1> QED
  BY <1>1, <1>2, <1>3, <1>4, OutsideStep

LEMMA OpenFileStep ==
  ASSUME IndInv, NEW p \in Procs, OpenFile(p)
  PROVE  IndInv'
<1>1. /\ UNCHANGED <<lock, handle, keys, faults, acked, cut, raced>>
      /\ file' = [file EXCEPT !.exists = TRUE] /\ call[p].pc = "open"
      /\ Step(p, "open", "length")
  BY DEF OpenFile, Step
<1>2. Moves(p, "length")
  BY <1>1 DEF IndInv, TypeOK, NeverSeen, Step, Moves, CallRecord
<1>3. /\ file' \in FileRecord
      /\ file'.len = file.len /\ file'.stable = file.stable /\ file'.slot = file.slot
      /\ file'.generation = file.generation
  BY <1>1 DEF IndInv, TypeOK, FileRecord
<1>4. handle \in [Procs -> 0 .. keys]
  BY DEF IndInv, TypeOK
<1> QED
  BY <1>1, <1>2, <1>3, <1>4, OutsideStep DEF Creating

LEMMA ReadStableStep ==
  ASSUME IndInv, NEW p \in Procs, ReadStable(p)
  PROVE  IndInv'
<1>1. /\ UNCHANGED <<file, lock, keys, faults, acked, cut, raced>>
      /\ handle' = [handle EXCEPT ![p] = file.stable] /\ call[p].pc = "read"
  BY DEF ReadStable, Step
<1>2. Moves(p, "idle")
  BY <1>1, StepMoves DEF ReadStable
<1>3. file \in FileRecord /\ handle' \in [Procs -> 0 .. keys]
  BY <1>1 DEF IndInv, TypeOK, FileRecord
<1>4. \A q \in Procs : handle'[q] # handle[q] => handle'[q] \in {0, file.stable}
  BY <1>1 DEF IndInv, TypeOK
<1> QED
  BY <1>1, <1>2, <1>3, <1>4, OutsideStep DEF Creating

LEMMA CloseStep ==
  ASSUME IndInv, NEW p \in Procs, Close(p)
  PROVE  IndInv'
<1>1. /\ UNCHANGED <<file, lock, call, keys, faults, acked, cut, raced>>
      /\ handle' \in [Procs -> 0 .. keys]
      /\ \A q \in Procs : handle'[q] \in {0, handle[q]}
  BY DEF IndInv, TypeOK, Close
<1>2. TypeOK' /\ LockType' /\ NeverSeen' /\ StageOnFile' /\ SlotsOnFile' /\ AckedAtRest'
  BY <1>1 DEF IndInv, TypeOK, LockType, NeverSeen, StageOnFile, SlotsOnFile, AckedAtRest,
     AtRest, AckedKept
<1>3. Undisturbed'
  BY <1>1 DEF IndInv, Undisturbed, AtRest
<1> QED
  BY <1>2, <1>3 DEF IndInv

LEMMA LockStep ==
  ASSUME IndInv, NEW p \in Procs, Lock(p)
  PROVE  IndInv'
<1>1. /\ UNCHANGED <<file, handle, faults, acked, cut, raced>>
      /\ lock = NoProc /\ lock' = p /\ keys < MaxKeys /\ keys' = keys + 1
      /\ call' = [call EXCEPT ![p].pc = "truncate", ![p].keys = keys + 1]
      /\ call[p].pc = "lock"
  BY DEF Lock
<1>2. /\ keys \in Nat /\ keys' \in 0 .. MaxKeys
      /\ \A k : k \in 0 .. keys => k \in 0 .. keys'
      /\ \A k : k \in 1 .. keys => k \in 1 .. keys'
  BY <1>1, CreateAssumption DEF IndInv, TypeOK
<1>3. Moves(p, "truncate") /\ call'[p].keys # 0
  BY <1>1, <1>2 DEF IndInv, TypeOK, NeverSeen, Moves, CallRecord, Creating
<1>4. \A q \in Procs : call[q].pc \notin Creating
  BY <1>1, CreateAssumption DEF IndInv, TypeOK
<1>5. file' \in FileRecord' /\ handle' \in [Procs -> 0 .. keys']
  BY <1>1, <1>2 DEF IndInv, TypeOK, FileRecord
<1>6. acked' \subseteq (1 .. keys') \X (1 .. MaxTxns)
  BY <1>1, <1>2 DEF IndInv, TypeOK
<1>7. TypeOK'
  BY <1>1, <1>2, <1>3, <1>4, <1>5, <1>6
     DEF IndInv, TypeOK, Moves, CallRecord, FileRecord, Creating
<1>8. LockType' /\ NeverSeen' /\ StageOnFile' /\ SlotsOnFile'
  BY <1>1, <1>3, <1>4 DEF IndInv, LockType, NeverSeen, StageOnFile, SlotsOnFile, Moves, Creating
<1>9. AtRest /\ AtRest'
  BY <1>3, <1>4 DEF AtRest, Moves, Rewriting, Creating
<1>10. Undisturbed' /\ AckedAtRest'
  BY <1>1, <1>9 DEF IndInv, Undisturbed, AckedAtRest, AckedKept
<1> QED
  BY <1>7, <1>8, <1>10 DEF IndInv

\* What a step inside create_new has to show: the file matches the stage.
LEMMA CreatingStep ==
  ASSUME IndInv, NEW p \in Procs, call[p].pc \in Creating,
         NEW pc \in Rewriting, Moves(p, pc), call'[p].keys = call[p].keys,
         UNCHANGED <<lock, handle, keys, faults, acked, cut>>, raced' \in BOOLEAN,
         file' \in FileRecord, SlotsOnFile', StageOnFile', Undisturbed',
         ~raced' => ~raced /\ acked = {}
  PROVE  IndInv'
<1>1. lock = p /\ \A q \in Procs \ {p} : call[q].pc \notin Creating /\ call'[q] = call[q]
  BY OneRewrites DEF Moves
<1>2. TypeOK'
  BY <1>1 DEF IndInv, TypeOK, Moves, CallRecord, FileRecord, Rewriting
<1>3. LockType' /\ NeverSeen'
  BY DEF IndInv, LockType, NeverSeen, Moves
<1>4. AckedAtRest'
  BY DEF AckedAtRest
<1> QED
  BY <1>2, <1>3, <1>4 DEF IndInv

LEMMA TruncateStep ==
  ASSUME IndInv, NEW p \in Procs, Truncate(p)
  PROVE  IndInv'
<1>1. /\ UNCHANGED <<lock, handle, keys, faults, acked, cut>>
      /\ file' = [NoFile EXCEPT !.exists = TRUE] /\ call[p].pc = "truncate"
      /\ raced' = (raced \/ (file.len >= FRONT_MATTER /\ ~call[p].seen))
      /\ Step(p, "truncate", "stable")
  BY DEF Truncate, Step
<1>2. Moves(p, "stable") /\ call'[p].keys = call[p].keys
  BY <1>1, StepMoves DEF Creating
<1>3. /\ \A q \in Procs \ {p} : call[q].pc \notin Creating /\ call'[q] = call[q]
      /\ call[p].keys # 0
  BY <1>1, <1>2, OneRewrites DEF Moves, Creating, IndInv, StageOnFile
<1>4. file'.len = 0 /\ file'.stable = 0 /\ file'.slot = 0 /\ file'.generation = 0
      /\ file'.exists
  BY <1>1 DEF NoFile
<1>5. file' \in FileRecord
  <2>1. 0 \in 0 .. FULL /\ 0 \in 0 .. keys /\ 0 \in 0 .. MaxTxns
    BY CreateAssumption DEF IndInv, TypeOK, FULL, FRONT_MATTER
  <2>2. NoFile \in FileRecord
    BY <2>1 DEF NoFile, FileRecord
  <2> QED
    BY <1>1, <2>2 DEF FileRecord
<1>6. SlotsOnFile' /\ StageOnFile'
  BY <1>2, <1>3, <1>4 DEF SlotsOnFile, StageOnFile, Moves, Creating, FRONT_MATTER
<1>7. ~raced' => ~raced /\ file.len < FRONT_MATTER
  <2>1. ~call[p].seen
    BY DEF IndInv, NeverSeen
  <2>2. ~raced' => ~raced /\ ~(file.len >= FRONT_MATTER)
    BY <1>1, <2>1, Zenon
  <2> QED
    BY <2>2 DEF IndInv, TypeOK, FRONT_MATTER
<1>8. raced' \in BOOLEAN
  BY <1>1 DEF IndInv, TypeOK
<1>9. ~raced' => acked = {}
  BY <1>7 DEF IndInv, TypeOK, AckedAtRest, FRONT_MATTER
<1>10. AtRest
  BY <1>1, <1>3 DEF AtRest, Rewriting
<1>11. ASSUME ~cut, ~raced'
       PROVE  \A q \in Procs : handle[q] = 0
  <2>1. file.len = 0
    BY <1>7, <1>10, <1>11, CreateAssumption
    DEF IndInv, Undisturbed, TypeOK, FULL, FRONT_MATTER
  <2> QED
    BY <1>7, <1>11, <2>1 DEF IndInv, Undisturbed, SlotsOnFile
<1>12. Undisturbed'
  BY <1>1, <1>4, <1>11 DEF Undisturbed
<1> QED
  BY <1>1, <1>2, <1>5, <1>6, <1>7, <1>8, <1>9, <1>12, CreatingStep DEF Creating, Rewriting

\* Nothing is acknowledged of a blob that is being written for the first
\* time, unless its creation truncated another.
LEMMA NothingAcked ==
  ASSUME IndInv, NEW p \in Procs, call[p].pc \in Rewriting
  PROVE  ~raced => acked = {}
BY DEF IndInv, AckedAtRest, AtRest

LEMMA WriteStableStep ==
  ASSUME IndInv, NEW p \in Procs, WriteStable(p)
  PROVE  IndInv'
<1>1. /\ UNCHANGED <<lock, handle, keys, faults, acked, cut, raced>>
      /\ file' = [file EXCEPT !.stable = call[p].keys, !.len = Longer(1)]
      /\ call[p].pc = "stable" /\ Step(p, "stable", "slot_a")
  BY DEF WriteStable, Step
<1>2. Moves(p, "slot_a") /\ call'[p].keys = call[p].keys
  BY <1>1, StepMoves DEF Creating
<1>3. file.len = 0 /\ call[p].keys \in 1 .. keys
  BY <1>1 DEF IndInv, TypeOK, StageOnFile, Creating
<1>4. file' \in FileRecord /\ file'.len = 1 /\ file'.stable = call[p].keys
  <2>1. Longer(1) = 1 /\ 1 \in 0 .. FULL /\ 0 \in 0 .. MaxTxns
    BY <1>3, CreateAssumption DEF Longer, FULL, FRONT_MATTER
  <2>2. file \in FileRecord /\ call[p].keys \in 0 .. keys
    BY DEF IndInv, TypeOK, FileRecord
  <2> HIDE DEF FULL
  <2> QED
    BY <1>1, <2>1, <2>2 DEF FileRecord
<1>5. \A q \in Procs \ {p} : call[q].pc \notin Creating /\ call'[q] = call[q]
  BY <1>1, <1>2, OneRewrites DEF Moves, Creating
<1>6. SlotsOnFile' /\ StageOnFile'
  BY <1>2, <1>3, <1>4, <1>5 DEF SlotsOnFile, StageOnFile, Moves, Creating, FRONT_MATTER
<1>7. ~AtRest'
  BY <1>2 DEF AtRest, Moves, Creating, Rewriting
<1>8. Undisturbed'
  BY <1>1, <1>3, <1>7 DEF IndInv, Undisturbed, SlotsOnFile
<1>9. raced' \in BOOLEAN /\ call[p].pc \in Rewriting
  BY <1>1 DEF IndInv, TypeOK, Rewriting, Creating
<1> QED
  BY <1>1, <1>2, <1>4, <1>6, <1>8, <1>9, NothingAcked, CreatingStep DEF Creating, Rewriting

LEMMA WriteSlotAStep ==
  ASSUME IndInv, NEW p \in Procs, WriteSlotA(p)
  PROVE  IndInv'
<1>1. /\ UNCHANGED <<lock, handle, keys, faults, acked, cut, raced>>
      /\ file' = [file EXCEPT !.slot = call[p].keys, !.len = Longer(2), !.generation = 0]
      /\ call[p].pc = "slot_a" /\ Step(p, "slot_a", "slot_b")
  BY DEF WriteSlotA, Step
<1>2. Moves(p, "slot_b") /\ call'[p].keys = call[p].keys
  BY <1>1, StepMoves DEF Creating
<1>3. file.len = 1 /\ file.stable = call[p].keys /\ call[p].keys \in 1 .. keys
  BY <1>1 DEF IndInv, TypeOK, StageOnFile, Creating
<1>4. /\ file' \in FileRecord /\ file'.len = 2
      /\ file'.stable = call[p].keys /\ file'.slot = call[p].keys
  <2>1. Longer(2) = 2 /\ 2 \in 0 .. FULL /\ 0 \in 0 .. MaxTxns
    BY <1>3, CreateAssumption DEF Longer, FULL, FRONT_MATTER
  <2>2. file \in FileRecord /\ call[p].keys \in 0 .. keys
    BY DEF IndInv, TypeOK, FileRecord
  <2>3. file' = [file EXCEPT !.slot = call[p].keys, !.len = 2, !.generation = 0]
    BY <1>1, <2>1
  <2>4. file'.len = 2 /\ file'.stable = file.stable /\ file'.slot = call[p].keys
    BY <2>2, <2>3 DEF FileRecord
  <2> HIDE DEF FULL
  <2>5. file' \in FileRecord
    BY <2>1, <2>2, <2>3 DEF FileRecord
  <2> QED
    BY <1>3, <2>4, <2>5
<1>5. \A q \in Procs \ {p} : call[q].pc \notin Creating /\ call'[q] = call[q]
  BY <1>1, <1>2, OneRewrites DEF Moves, Creating
<1>6. SlotsOnFile' /\ StageOnFile'
  BY <1>2, <1>3, <1>4, <1>5 DEF SlotsOnFile, StageOnFile, Moves, Creating, FRONT_MATTER
<1>7. ~AtRest'
  BY <1>2 DEF AtRest, Moves, Creating, Rewriting
<1>8. Undisturbed'
  BY <1>1, <1>3, <1>4, <1>7 DEF IndInv, Undisturbed
<1>9. raced' \in BOOLEAN /\ call[p].pc \in Rewriting
  BY <1>1 DEF IndInv, TypeOK, Rewriting, Creating
<1> QED
  BY <1>1, <1>2, <1>4, <1>6, <1>8, <1>9, NothingAcked, CreatingStep DEF Creating, Rewriting

\* The second volatile slot, and the gaps behind it: the file gets longer.
LEMMA LongerStep ==
  ASSUME IndInv, NEW p \in Procs, WriteSlotB(p) \/ FillBody(p)
  PROVE  IndInv'
<1>1. /\ UNCHANGED <<lock, handle, keys, faults, acked, cut, raced>>
      /\ call[p].pc \in {"slot_b", "body"}
  BY DEF WriteSlotB, FillBody, Step
<1>2. Moves(p, "body") /\ call'[p].keys = call[p].keys
  <2>1. CASE WriteSlotB(p)
    BY <1>1, <2>1, StepMoves DEF Creating, WriteSlotB
  <2>2. CASE FillBody(p)
    BY <2>2 DEF FillBody, Moves, IndInv, TypeOK, NeverSeen, CallRecord
  <2> QED
    BY <2>1, <2>2
<1>3. /\ file.stable = call[p].keys /\ file.slot = call[p].keys /\ call[p].keys \in 1 .. keys
      /\ IF call[p].pc = "slot_b" THEN file.len = 2 ELSE file.len >= FRONT_MATTER
  BY <1>1 DEF IndInv, TypeOK, StageOnFile, Creating
<1>4. /\ file' \in FileRecord /\ file'.len >= FRONT_MATTER
      /\ file'.stable = file.stable /\ file'.slot = file.slot
  <2>1. CASE WriteSlotB(p)
    BY <1>3, <2>1, CreateAssumption
    DEF IndInv, TypeOK, FileRecord, WriteSlotB, Step, Longer, FULL, FRONT_MATTER
  <2>2. CASE FillBody(p)
    <3>1. file' = [file EXCEPT !.len = @ + 1] /\ file.len < FULL /\ file.len >= FRONT_MATTER
      BY <1>3, <2>2 DEF FillBody
    <3> QED
      BY <3>1, CreateAssumption DEF IndInv, TypeOK, FileRecord, FULL, FRONT_MATTER
  <2> QED
    BY <2>1, <2>2
<1>5. \A q \in Procs \ {p} : call[q].pc \notin Creating /\ call'[q] = call[q]
  BY <1>1, <1>2, OneRewrites DEF Moves, Creating
<1>6. SlotsOnFile' /\ StageOnFile'
  BY <1>2, <1>3, <1>4, <1>5 DEF SlotsOnFile, StageOnFile, Moves, Creating, FRONT_MATTER
<1>7. ~AtRest'
  BY <1>2 DEF AtRest, Moves, Creating, Rewriting
<1>8. Undisturbed'
  BY <1>1, <1>4, <1>7 DEF IndInv, Undisturbed
<1>9. raced' \in BOOLEAN /\ call[p].pc \in Rewriting
  BY <1>1 DEF IndInv, TypeOK, Rewriting, Creating
<1> QED
  BY <1>1, <1>2, <1>4, <1>6, <1>8, <1>9, NothingAcked, CreatingStep DEF Creating, Rewriting

LEMMA FinishStep ==
  ASSUME IndInv, NEW p \in Procs, Finish(p)
  PROVE  IndInv'
<1>1. /\ UNCHANGED <<file, keys, faults, acked, cut, raced>>
      /\ handle' = [handle EXCEPT ![p] = call[p].keys] /\ lock' = NoProc
      /\ file.len >= FULL /\ call[p].pc = "body" /\ Step(p, "body", "idle")
  BY DEF Finish, Step
<1>2. Moves(p, "idle")
  BY <1>1, StepMoves DEF Creating
<1>3. file.stable = call[p].keys /\ call[p].keys \in 1 .. keys
  BY <1>1 DEF IndInv, TypeOK, StageOnFile, Creating
<1>4. \A q \in Procs \ {p} : call[q].pc \notin Creating /\ call'[q] = call[q]
  BY <1>1, <1>2, OneRewrites DEF Moves, Creating
<1>5. \A q \in Procs : call'[q].pc \notin Creating
  BY <1>2, <1>4 DEF Moves, Creating
<1>6. handle' \in [Procs -> 0 .. keys] /\ \A q \in Procs : handle'[q] \in {handle[q], file.stable}
  BY <1>1, <1>3 DEF IndInv, TypeOK
<1>7. TypeOK' /\ LockType'
  <2>1. NoProc \notin Procs
    BY CreateAssumption DEF Procs
  <2>2. \A q \in Procs : lock' = q <=> call'[q].pc \in Creating
    BY <1>1, <1>5, <2>1
  <2> QED
    BY <1>1, <1>2, <1>6, <2>2 DEF IndInv, TypeOK, LockType, Moves, CallRecord
<1>8. NeverSeen' /\ StageOnFile' /\ SlotsOnFile'
  BY <1>1, <1>2, <1>5 DEF IndInv, NeverSeen, StageOnFile, SlotsOnFile, Moves, Creating
<1>9. Undisturbed'
  BY <1>1, <1>6 DEF IndInv, Undisturbed
<1>10. AckedAtRest'
  BY <1>1, NothingAcked DEF AckedAtRest, Rewriting, Creating
<1> QED
  BY <1>7, <1>8, <1>9, <1>10 DEF IndInv

LEMMA WriteStep ==
  ASSUME IndInv, NEW p \in Procs, Write(p)
  PROVE  IndInv'
<1>1. /\ UNCHANGED <<lock, call, handle, keys, faults, cut, raced>>
      /\ file' = [file EXCEPT !.generation = @ + 1, !.len = Longer(FULL)]
      /\ acked' = acked \cup {<<handle[p], file.generation + 1>>}
      /\ file.generation < MaxTxns /\ lock = NoProc /\ handle[p] # 0
      /\ file.slot = handle[p] /\ file.len >= FRONT_MATTER + LEADING
  BY DEF Write, Writable
<1>2. /\ file \in FileRecord /\ FULL \in Nat /\ FRONT_MATTER <= FULL
      /\ file.len >= FRONT_MATTER
  BY <1>1, CreateAssumption DEF IndInv, TypeOK, FileRecord, FULL, FRONT_MATTER
<1>3. Longer(FULL) = FULL
  BY <1>2 DEF FileRecord, Longer
<1>4. file' = [file EXCEPT !.generation = file.generation + 1, !.len = FULL]
  BY <1>1, <1>3
<1>5. /\ file'.len = FULL /\ file'.stable = file.stable /\ file'.slot = file.slot
      /\ file'.generation = file.generation + 1
  BY <1>2, <1>4 DEF FileRecord
<1>6. file.generation + 1 \in 1 .. MaxTxns /\ file.generation \in Nat
  BY <1>1, <1>2, CreateAssumption DEF FileRecord
<1>7. file' \in FileRecord
  <2>1. FULL \in 0 .. FULL /\ file.generation + 1 \in 0 .. MaxTxns
    BY <1>2, <1>6, CreateAssumption
  <2>2. UNCHANGED keys
    BY <1>1
  <2> QED
    BY <1>2, <1>4, <2>1, <2>2 DEF FileRecord
<1>8. acked' \subseteq (1 .. keys) \X (1 .. MaxTxns)
  BY <1>1, <1>6 DEF IndInv, TypeOK
<1>9. \A q \in Procs : call[q].pc \notin Creating
  BY <1>1, NobodyHolds
<1>10. TypeOK' /\ LockType' /\ NeverSeen'
  BY <1>1, <1>7, <1>8 DEF IndInv, TypeOK, LockType, NeverSeen, FileRecord
<1>11. StageOnFile' /\ SlotsOnFile'
  BY <1>1, <1>2, <1>5, <1>9 DEF IndInv, StageOnFile, SlotsOnFile, Creating, FRONT_MATTER
<1>12. AtRest'
  BY <1>1, <1>9 DEF AtRest, Rewriting
<1>13. Undisturbed'
  BY <1>1, <1>2, <1>5 DEF IndInv, Undisturbed
<1>14. AckedAtRest'
  <2> SUFFICES ASSUME ~raced', NEW t \in acked'
               PROVE  t[1] = file'.slot /\ t[2] <= file'.generation
    BY <1>2, <1>5, <1>12 DEF AckedAtRest, AckedKept
  <2>1. CASE t \in acked
    <3>1. t[1] = file.slot /\ t[2] <= file.generation /\ t[2] \in Nat
      BY <1>1, <2>1 DEF IndInv, TypeOK, AckedAtRest, AckedKept
    <3> QED
      BY <1>5, <1>6, <3>1
  <2>2. CASE t = <<handle[p], file.generation + 1>>
    BY <1>1, <1>5, <1>6, <2>2
  <2> QED
    BY <1>1, <2>1, <2>2
<1> QED
  BY <1>10, <1>11, <1>13, <1>14 DEF IndInv

LEMMA CutStep ==
  ASSUME IndInv, NEW p \in Procs, Cut(p)
  PROVE  IndInv'
<1>1. /\ UNCHANGED <<file, handle, keys, acked, raced>>
      /\ faults < MaxFaults /\ faults' = faults + 1
      /\ call' = [call EXCEPT ![p] = Idle]
      /\ cut' = (cut \/ call[p].pc \in Creating)
      /\ lock' = IF lock = p THEN NoProc ELSE lock
  BY DEF Cut
<1>2. Moves(p, "idle") /\ call'[p] = Idle
  <2>1. Idle \in CallRecord /\ ~Idle.seen
    BY DEF IndInv, TypeOK, CallRecord, Idle
  <2> QED
    BY <1>1, <2>1 DEF IndInv, TypeOK, Moves, CallRecord, Idle
<1>3. \A q \in Procs : call'[q].pc \in Creating => q # p /\ call'[q] = call[q]
  BY <1>2 DEF Moves, Creating
<1>4. cut' \in BOOLEAN /\ (call[p].pc \in Creating => cut') /\ (~cut' => ~cut)
  BY <1>1, Zenon DEF IndInv, TypeOK
<1>5. faults' \in 0 .. MaxFaults
  BY <1>1, CreateAssumption DEF IndInv, TypeOK
<1>6. LockType' /\ \A q \in Procs : lock' = q <=> call'[q].pc \in Creating
  <2>1. NoProc \notin Procs
    BY CreateAssumption DEF Procs
  <2> QED
    BY <1>1, <1>2, <1>3, <2>1 DEF IndInv, TypeOK, LockType, Moves, Creating
<1>7. TypeOK'
  BY <1>1, <1>2, <1>4, <1>5, <1>6 DEF IndInv, TypeOK, Moves, CallRecord
<1>8. NeverSeen' /\ StageOnFile' /\ SlotsOnFile'
  BY <1>1, <1>2, <1>3 DEF IndInv, NeverSeen, StageOnFile, SlotsOnFile, Moves, Creating
<1>9. call[p].pc \notin Creating => (AtRest' <=> AtRest)
  BY <1>2, <1>3 DEF AtRest, Moves, Rewriting, Creating
<1>10. Undisturbed'
  BY <1>1, <1>4, <1>9 DEF IndInv, Undisturbed
<1>11. AtRest => AtRest'
  BY <1>3 DEF AtRest, Rewriting
<1>12. AckedAtRest'
  BY <1>1, <1>11 DEF IndInv, AckedAtRest, AckedKept
<1> QED
  BY <1>6, <1>7, <1>8, <1>10, <1>12 DEF IndInv

-----------------------------------------------------------------------------
LEMMA NextInv == IndInv /\ [Next]_vars => IndInv'
<1>1. IndInv /\ Next => IndInv'
  BY QuietSteps, OpenFileStep, ReadStableStep, LockStep, TruncateStep, WriteStableStep,
     WriteSlotAStep, LongerStep, FinishStep, WriteStep, CloseStep, CutStep DEF Next
<1>2. IndInv /\ UNCHANGED vars => IndInv'
  BY DEF vars, IndInv, TypeOK, LockType, NeverSeen, StageOnFile, SlotsOnFile, Undisturbed,
     AckedAtRest, AtRest, AckedKept
<1> QED
  BY <1>1, <1>2

LEMMA Inductive == Spec => []IndInv
BY InitInv, NextInv, PTL DEF Spec

(* The state of Blob::open and create_new stays in its type whoever calls  *)
(* them, and the flock is held exactly while create_new runs: no call that *)
(* ends, in whatever way, leaves the blob locked.                          *)
THEOREM TypesHold == Spec => []TypeOK
<1>1. IndInv => TypeOK
  BY DEF IndInv
<1> QED
  BY <1>1, Inductive, PTL

(* The volatile slots of a blob are always of the same creation as its     *)
(* stable slot when it can be read, whatever creators raced or were cut    *)
(* short.                                                                  *)
THEOREM SlotsAgree == Spec => []KeysAgree
<1>1. IndInv => KeysAgree
  BY DEF IndInv, KeysAgree, SlotsOnFile
<1> QED
  BY <1>1, Inductive, PTL

(* A process that opened a blob while another was creating it can write to *)
(* it once it has the lock, unless that creation was cut short or done     *)
(* over.                                                                   *)
THEOREM WritableOnceOpen == Spec => []OpenedIsWritable
<1>1. IndInv => OpenedIsWritable
  <2> SUFFICES ASSUME IndInv, lock = NoProc, ~cut, ~raced, NEW p \in Procs, handle[p] # 0
               PROVE  Writable(p)
    BY DEF OpenedIsWritable
  <2>1. AtRest
    BY NobodyHolds DEF AtRest, Rewriting
  <2>2. handle[p] = file.stable /\ (file.len = 0 \/ file.len >= FULL)
    BY <2>1 DEF IndInv, Undisturbed
  <2>3. file.len >= FULL /\ file.len \in Nat
    BY <2>2 DEF IndInv, TypeOK, SlotsOnFile
  <2> QED
    BY <2>2, <2>3, CreateAssumption DEF IndInv, SlotsOnFile, Writable, FULL, FRONT_MATTER
<1> QED
  BY <1>1, Inductive, PTL

(* While no creator truncates a blob that came to be after it looked, every *)
(* transaction that returned Ok stays on file: create_new never destroys a *)
(* blob it could have seen.                                                *)
THEOREM AcknowledgedStays == Spec => []AckedKeptUnraced
<1>1. IndInv => AckedKeptUnraced
  BY DEF IndInv, AckedKeptUnraced, AckedAtRest, AckedKept
<1> QED
  BY <1>1, Inductive, PTL
=============================================================================

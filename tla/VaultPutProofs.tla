--------------------------- MODULE VaultPutProofs ---------------------------
(***************************************************************************)
(* Theorems about VaultPut, for any files, sizes, limits and policies: the *)
(* types of the planner, that a file_complete is in an index only when the *)
(* whole file is in the vault, that no put takes the estimate of a blob    *)
(* over max_blob_size, and how many blobs a put may append.                *)
(***************************************************************************)
EXTENDS VaultPut, DataLemmas

-----------------------------------------------------------------------------
(* The inductive invariant. *)

\* How many chunks each file has and what each chunk costs, as functions.
Count == [f \in Files |-> ChunkCount(f)]

Cost == [c \in Files \X Nat |-> ChunkCost(c[1], c[2])]

\* The estimate of a blob, and what the plan adds to it.
Load(b) == SumOver(Cost, blobs[b].chunks) + COMPLETE_COST * Cardinality(blobs[b].complete)

Extra(b) == SumOver(Cost, ToStore(b))

\* The file_complete goes to b: no chunk of the plan is for a later blob.
LastUsed(b) == \A t \in DOMAIN where : where[t] <= b

Finite == \A b \in DOMAIN blobs : IsFiniteSet(blobs[b].chunks) /\ IsFiniteSet(blobs[b].complete)

\* How far the plan is.
PlanGrows ==
  /\ pc \in {"idle", "append"} => where = <<>>
  /\ pc = "plan" => Len(where) < Count[file] /\ (policy = "whole" => where = <<>>)
  /\ pc \in {"finalize", "write"} => Len(where) = Count[file]

\* The file of a plan is new to the vault.
FileIsNew ==
  pc \in {"plan", "finalize", "append"} =>
    \A b \in DOMAIN blobs : \A s \in 1 .. Count[file] : <<file, s>> \notin blobs[b].chunks

\* While it is written, its chunks are where the plan has them, those of a
\* blob together, and those of the last blob not yet.
WrittenAsPlanned ==
  pc = "write" =>
    /\ \A b \in DOMAIN blobs : \A s \in DOMAIN where :
         <<file, s>> \in blobs[b].chunks => b = where[s]
    /\ \A s, t \in DOMAIN where :
         where[s] = where[t] /\ <<file, s>> \in blobs[where[s]].chunks
           => <<file, t>> \in blobs[where[s]].chunks
    /\ \A s \in DOMAIN where :
         LastUsed(where[s]) => <<file, s>> \notin blobs[where[s]].chunks

StoredInOneBlob ==
  \A b, d \in DOMAIN blobs : \A c \in blobs[b].chunks \cap blobs[d].chunks : b = d

CompleteIsWhole ==
  \A b \in DOMAIN blobs : \A f \in blobs[b].complete : \A s \in 1 .. Count[f] :
    \E d \in DOMAIN blobs : <<f, s>> \in blobs[d].chunks

\* Blobs have room for what the plan adds to them, and for the file_complete.
Fits ==
  \A b \in DOMAIN blobs :
    /\ Load(b) <= max_blob_size
    /\ pc \in {"plan", "finalize"} => Load(b) + Extra(b) <= max_blob_size
    /\ pc = "write" /\ ~ ToStore(b) \subseteq blobs[b].chunks =>
         Load(b) + Extra(b) + (IF LastUsed(b) THEN COMPLETE_COST ELSE 0) <= max_blob_size

IndInv ==
  /\ TypeOK
  /\ Finite
  /\ PlanGrows
  /\ FileIsNew
  /\ WrittenAsPlanned
  /\ StoredInOneBlob
  /\ CompleteIsWhole
  /\ Fits

-----------------------------------------------------------------------------
(* How files are cut. *)

LEMMA ChunkSizePositive ==
  ASSUME policy \in Policies
  PROVE  ChunkSize \in Nat \ {0}
<1>1. /\ max_chunk_size \in Nat \ {0} /\ max_blob_size \in Nat \ {0}
      /\ CHUNK_COST \in Nat /\ COMPLETE_COST \in Nat
  BY PutAssumption
<1>2. CASE policy = "whole"
  BY <1>1, <1>2 DEF ChunkSize, split_files_across_blobs
<1>3. CASE policy # "whole"
  <2> DEFINE T == {max_chunk_size, max_blob_size - CHUNK_COST - COMPLETE_COST}
  <2>1. max_blob_size > CHUNK_COST + COMPLETE_COST
    <3>1. Policies # {"whole"}
      BY <1>3
    <3> QED BY <3>1, PutAssumption
  <2>2. T \subseteq Nat \ {0} /\ T # {} /\ T \subseteq Nat
    BY <1>1, <2>1
  <2>3. ChunkSize = Min(T)
    BY <1>3 DEF ChunkSize, split_files_across_blobs
  <2> HIDE DEF T
  <2>4. Min(T) \in T
    BY <2>2, MinOfNaturals
  <2> QED BY <2>2, <2>3, <2>4
<1> QED BY <1>2, <1>3

LEMMA SizeType == ASSUME NEW f \in Files PROVE Size[f] \in Nat
BY PutAssumption

\* The chunks of a file cover it, and the last one is not empty unless the
\* file is.
LEMMA ChunkCountFacts ==
  ASSUME policy \in Policies, NEW f \in Files
  PROVE  /\ ChunkCount(f) \in Nat \ {0}
         /\ (ChunkCount(f) - 1) * ChunkSize <= Size[f]
         /\ (ChunkCount(f) - 1) * ChunkSize \in Nat
<1> DEFINE C == ChunkSize
           L == Size[f]
           q == (L + C - 1) \div C
<1>1. C \in Nat \ {0} /\ L \in Nat
  BY ChunkSizePositive, SizeType
<1>2. ChunkCount(f) = Max({1, q})
  BY DEF ChunkCount
<1> HIDE DEF C, L
<1>3. q \in Nat /\ q * C <= L + C - 1
  BY <1>1
<1> HIDE DEF q
<1>4. ChunkCount(f) = IF q >= 1 THEN q ELSE 1
  <2> DEFINE T == {1, q}
             n == 1 + q
  <2>1. T \subseteq Nat /\ T # {} /\ n \in Nat /\ \A y \in T : y <= n
    BY <1>3
  <2>2. ChunkCount(f) = Max(T)
    BY <1>2
  <2> HIDE DEF T, n
  <2>3. Max(T) \in T /\ \A y \in T : Max(T) >= y
    BY <2>1, MaxOfNaturals
  <2> QED BY <2>2, <2>3, <1>3 DEF T
<1>5. CASE q >= 1
  <2>1. (q - 1) * C = q * C - C
    BY <1>1, <1>3
  <2>2. (q - 1) * C \in Int
    BY <1>1, <1>3
  <2>3. q * C >= C
    BY <1>1, <1>3, <1>5
  <2>4. (q - 1) * C <= L /\ (q - 1) * C >= 0
    BY <1>1, <1>3, <2>1, <2>2, <2>3
  <2> QED BY <1>1, <1>3, <1>4, <1>5, <2>2, <2>4 DEF C, L
<1>6. CASE ~ q >= 1
  <2>1. ChunkCount(f) = 1 /\ 0 * C = 0
    BY <1>1, <1>4, <1>6
  <2>2. (1 - 1) * C = 0
    BY <1>1
  <2> QED BY <1>1, <2>1, <2>2 DEF C, L
<1> QED BY <1>5, <1>6

LEMMA ChunkCostType ==
  ASSUME policy \in Policies, NEW f \in Files, NEW s \in Nat
  PROVE  ChunkCost(f, s) \in Int
<1>1. ChunkSize \in Nat /\ Size[f] \in Nat /\ CHUNK_COST \in Nat
  BY ChunkSizePositive, SizeType, PutAssumption
<1>2. (ChunkCount(f) - 1) * ChunkSize \in Nat
  BY ChunkCountFacts
<1>3. ChunkLength(f, s) \in Int
  <2> DEFINE p == (ChunkCount(f) - 1) * ChunkSize
  <2>1. ChunkLength(f, s) = IF s < ChunkCount(f) THEN ChunkSize ELSE Size[f] - p
    BY DEF ChunkLength
  <2> HIDE DEF p
  <2> QED BY <1>1, <1>2, <2>1 DEF p
<1> QED BY <1>1, <1>3 DEF ChunkCost

LEMMA CostType ==
  ASSUME policy \in Policies
  PROVE  /\ Cost \in [Files \X Nat -> Int]
         /\ Count \in [Files -> Nat \ {0}]
<1>1. ASSUME NEW c \in Files \X Nat
      PROVE  ChunkCost(c[1], c[2]) \in Int
  BY ChunkCostType
<1>2. ASSUME NEW f \in Files
      PROVE  ChunkCount(f) \in Nat \ {0}
  BY ChunkCountFacts
<1> QED BY <1>1, <1>2 DEF Cost, Count

\* The policy is set once, so the cuts and costs stay.
LEMMA CostStays ==
  ASSUME policy' = policy
  PROVE  Cost' = Cost /\ Count' = Count
BY DEF Cost, Count, ChunkCost, ChunkLength, ChunkCount, ChunkSize, split_files_across_blobs

\* CostOf is the sum of the costs.
LEMMA CostOfIsSum ==
  ASSUME policy \in Policies, NEW S \in SUBSET (Files \X Nat), IsFiniteSet(S)
  PROVE  CostOf(S) = SumOver(Cost, S)
<1> DEFINE next(j, s) == IF s = {} THEN 0 ELSE ChunkCost(Take(s)[1], Take(s)[2]) + j[s \ {Take(s)}]
           SumsHere(j) == j = [s \in SUBSET S |-> next(j, s)]
<1>1. ASSUME NEW s \in SUBSET S, s # {}
      PROVE  Cost[Take(s)] = ChunkCost(Take(s)[1], Take(s)[2])
  <2>1. Take(s) \in Files \X Nat
    BY <1>1, TakeIsIn
  <2> QED BY <2>1 DEF Cost
<1>2. ASSUME NEW j
      PROVE  Sums(Cost, S, j) <=> SumsHere(j)
  <2>1. ASSUME NEW s \in SUBSET S
        PROVE  next(j, s) = IF s = {} THEN 0 ELSE Cost[Take(s)] + j[s \ {Take(s)}]
    BY <1>1
  <2> HIDE DEF next
  <2> QED BY <2>1 DEF Sums
<1>3. PICK i : Sums(Cost, S, i)
  BY SumsExist
<1>4. PICK j : SumsHere(j) /\ CostOf(S) = j[S]
  <2>1. SumsHere(i)
    BY <1>2, <1>3
  <2> QED BY <2>1 DEF CostOf, MapThenSumSet, MapThenFoldSet, Take
<1>5. PICK k : Sums(Cost, S, k) /\ SumOver(Cost, S) = k[S]
  BY SumIsInATable
<1>6. Sums(Cost, S, j)
  BY <1>2, <1>4
<1>7. j[S] = k[S]
  BY <1>5, <1>6, SumsAgree
<1> QED BY <1>4, <1>5, <1>7

\* The first k chunks of f.
FirstChunks(f, k) == {<<f, s>> : s \in 1 .. k}

LEMMA ChunksAreFinite ==
  ASSUME NEW f, NEW k \in Nat
  PROVE  IsFiniteSet(FirstChunks(f, k))
<1> DEFINE T == {f} \X (1 .. k)
<1>1. IsFiniteSet({f}) /\ IsFiniteSet(1 .. k)
  <2>1. IsFiniteSet({f})
    BY FS_Singleton, Zenon
  <2>2. IsFiniteSet(1 .. k)
    <3>1. 1 \in Int /\ k \in Int
      OBVIOUS
    <3> QED BY <3>1, FS_Interval
  <2> QED BY <2>1, <2>2
<1>2. IsFiniteSet(T)
  <2> DEFINE A == {f}
             B == 1 .. k
  <2>1. IsFiniteSet(A) /\ IsFiniteSet(B)
    BY <1>1
  <2> HIDE DEF A, B
  <2>2. IsFiniteSet(A \X B)
    BY <2>1, FS_Product
  <2> QED BY <2>2 DEF A, B
<1>3. FirstChunks(f, k) \in SUBSET T
  BY DEF FirstChunks
<1> HIDE DEF T
<1> QED BY <1>2, <1>3, FS_Subset

\* All but the last chunk of a file have the full length.
LEMMA CostOfFullChunks ==
  ASSUME policy \in Policies, NEW f \in Files
  PROVE  \A k \in 0 .. Count[f] - 1 :
           SumOver(Cost, FirstChunks(f, k)) = k * (ChunkSize + CHUNK_COST)
<1> DEFINE sum(k) == SumOver(Cost, FirstChunks(f, k))
           d == ChunkSize + CHUNK_COST
           Bad == {k \in 0 .. Count[f] - 1 : sum(k) # k * d}
<1> SUFFICES ASSUME Bad # {}
             PROVE  FALSE
  OBVIOUS
<1>1. Count[f] \in Nat \ {0} /\ Count[f] = ChunkCount(f)
  BY CostType DEF Count
<1>2. d \in Nat /\ ChunkSize \in Nat /\ CHUNK_COST \in Nat
  BY ChunkSizePositive, PutAssumption
<1>3. Bad \subseteq Nat
  BY <1>1
<1> HIDE DEF Bad
<1>4. PICK k \in Bad : \A m \in Bad : k <= m
  BY <1>3, LeastNatural
<1>5. k \in 0 .. Count[f] - 1 /\ sum(k) # k * d
  BY DEF Bad
<1>6. CASE k = 0
  <2>1. FirstChunks(f, 0) = {}
    BY DEF FirstChunks
  <2>2. sum(0) = 0
    BY <2>1, SumOfNothing
  <2>3. 0 * d = 0
    BY <1>2
  <2> QED BY <1>5, <1>6, <2>2, <2>3
<1>7. CASE k # 0
  <2> DEFINE m == k - 1
             c == <<f, k>>
  <2>1. m \in 0 .. Count[f] - 1 /\ m \in Nat /\ m < k /\ k = m + 1 /\ k \in Nat
    BY <1>1, <1>5, <1>7
  <2>2. sum(m) = m * d
    <3>1. m \notin Bad
      BY <1>4, <2>1
    <3> HIDE DEF m, d
    <3> QED BY <2>1, <3>1 DEF Bad
  <2>3. FirstChunks(f, k) = FirstChunks(f, m) \cup {c} /\ c \notin FirstChunks(f, m)
    <3>1. 1 .. k = (1 .. m) \cup {k} /\ k \notin 1 .. m
      BY <2>1
    <3> HIDE DEF m
    <3> QED BY <3>1 DEF FirstChunks
  <2>4. IsFiniteSet(FirstChunks(f, m))
    BY <2>1, ChunksAreFinite
  <2>5. c \in Files \X Nat /\ FirstChunks(f, m) \subseteq Files \X Nat
    BY <2>1 DEF FirstChunks
  <2>6. Cost[c] = d
    <3>1. Cost[c] = ChunkCost(f, k)
      BY <2>5 DEF Cost
    <3>2. k < ChunkCount(f)
      BY <1>1, <1>5
    <3> QED BY <3>1, <3>2 DEF ChunkCost, ChunkLength
  <2>7. \A x \in FirstChunks(f, m) \cup {c} : Cost[x] \in Int
    BY <2>5, CostType
  <2>8. SumOver(Cost, FirstChunks(f, m) \cup {c}) = Cost[c] + SumOver(Cost, FirstChunks(f, m))
    <3> DEFINE S == FirstChunks(f, m)
    <3>1. IsFiniteSet(S) /\ c \notin S /\ \A x \in S \cup {c} : Cost[x] \in Int
      BY <2>3, <2>4, <2>7
    <3> HIDE DEF S, c
    <3>2. SumOver(Cost, S \cup {c}) = Cost[c] + SumOver(Cost, S)
      BY <3>1, SumWith
    <3> QED BY <3>2 DEF S
  <2>9. SumOver(Cost, FirstChunks(f, k)) = SumOver(Cost, FirstChunks(f, m) \cup {c})
    BY <2>3, Zenon
  <2>10. sum(k) = d + m * d
    BY <2>2, <2>6, <2>8, <2>9
  <2>11. d + m * d = k * d
    <3> HIDE DEF d, m
    <3> QED BY <1>2, <2>1
  <2> QED BY <1>5, <2>10, <2>11
<1> QED BY <1>6, <1>7

\* A file costs what the planner estimates for it.
LEMMA CostOfWholeFile ==
  ASSUME policy \in Policies, NEW f \in Files
  PROVE  SumOver(Cost, FirstChunks(f, Count[f])) + COMPLETE_COST = FileCost(f)
<1> DEFINE n == Count[f]
           m == n - 1
           C == ChunkSize
           c == <<f, n>>
           S == FirstChunks(f, m)
<1>1. n \in Nat \ {0} /\ n = ChunkCount(f) /\ m \in Nat /\ m \in 0 .. n - 1 /\ n = m + 1
  BY CostType DEF Count
<1>2. C \in Nat /\ CHUNK_COST \in Nat /\ COMPLETE_COST \in Nat /\ Size[f] \in Nat /\ m * C \in Nat
  BY <1>1, ChunkSizePositive, SizeType, PutAssumption, ChunkCountFacts
<1>3. SumOver(Cost, S) = m * (C + CHUNK_COST)
  BY <1>1, CostOfFullChunks
<1>4. FirstChunks(f, n) = S \cup {c} /\ c \notin S
  <2>1. 1 .. n = (1 .. m) \cup {n} /\ n \notin 1 .. m
    BY <1>1
  <2> HIDE DEF n, m
  <2> QED BY <2>1 DEF FirstChunks
<1>5. IsFiniteSet(S)
  BY <1>1, ChunksAreFinite
<1>6. S \cup {c} \subseteq Files \X Nat
  BY <1>1 DEF FirstChunks
<1>7. \A x \in S \cup {c} : Cost[x] \in Int
  BY <1>6, CostType
<1>8. Cost[c] = Size[f] - m * C + CHUNK_COST
  <2>1. Cost[c] = ChunkCost(f, n)
    BY <1>1 DEF Cost
  <2>2. ~ n < ChunkCount(f) /\ ChunkCount(f) - 1 = m
    BY <1>1
  <2>3. ChunkLength(f, n) = Size[f] - m * C
    BY <2>2 DEF ChunkLength
  <2> QED BY <2>1, <2>3 DEF ChunkCost
<1>9. FileCost(f) = Size[f] + n * CHUNK_COST + COMPLETE_COST
  BY <1>1 DEF FileCost
<1>10. SumOver(Cost, FirstChunks(f, n)) = SumOver(Cost, S \cup {c})
  BY <1>4, Zenon
<1> HIDE DEF n, m, C, c, S
<1>11. SumOver(Cost, S \cup {c}) = Cost[c] + SumOver(Cost, S)
  BY <1>4, <1>5, <1>7, SumWith
<1>12. m * (C + CHUNK_COST) = m * C + m * CHUNK_COST /\ n * CHUNK_COST = m * CHUNK_COST + CHUNK_COST
  BY <1>1, <1>2
<1>13. m * CHUNK_COST \in Int
  BY <1>1, <1>2
<1>14. SumOver(Cost, FirstChunks(f, n)) + COMPLETE_COST = FileCost(f)
  <2> DEFINE p == m * C
             r == m * CHUNK_COST
  <2>1. /\ SumOver(Cost, FirstChunks(f, n)) = (Size[f] - p + CHUNK_COST) + (p + r)
        /\ FileCost(f) = Size[f] + (r + CHUNK_COST) + COMPLETE_COST
    BY <1>3, <1>8, <1>9, <1>10, <1>11, <1>12
  <2>2. p \in Int /\ r \in Int
    BY <1>2, <1>13
  <2> HIDE DEF p, r
  <2> QED BY <1>2, <2>1, <2>2
<1> QED BY <1>14 DEF n

-----------------------------------------------------------------------------
(* What the invariant says of the planner's estimates. *)

Blob == [chunks : SUBSET (Files \X Nat), complete : SUBSET Files]

LEMMA Typed ==
  ASSUME TypeOK
  PROVE  /\ policy \in Policies /\ file \in Files
         /\ blobs \in Seq(Blob) /\ Len(blobs) \in Nat \ {0} /\ DOMAIN blobs = 1 .. Len(blobs)
         /\ \A b \in DOMAIN blobs : blobs[b] \in Blob
         /\ where \in Seq(1 .. Len(blobs)) /\ Len(where) \in Nat /\ DOMAIN where = 1 .. Len(where)
         /\ \A s \in DOMAIN where : where[s] \in 1 .. Len(blobs)
         /\ max_blob_size \in Nat /\ COMPLETE_COST \in Nat /\ MaxBlobs \in Nat
         /\ Count[file] \in Nat \ {0} /\ Count[file] = ChunkCount(file)
<1>1. blobs \in Seq(Blob) /\ policy \in Policies /\ file \in Files
  BY DEF TypeOK, Blob
<1>2. Len(blobs) \in Nat /\ DOMAIN blobs = 1 .. Len(blobs) /\ \A b \in DOMAIN blobs : blobs[b] \in Blob
  <2> HIDE DEF Blob
  <2> QED BY <1>1
<1>3. Len(blobs) # 0
  BY <1>2 DEF TypeOK
<1>4. where \in Seq(1 .. Len(blobs))
  BY <1>2 DEF TypeOK
<1>5. Len(where) \in Nat /\ DOMAIN where = 1 .. Len(where)
      /\ \A s \in DOMAIN where : where[s] \in 1 .. Len(blobs)
  BY <1>4
<1>6. max_blob_size \in Nat /\ COMPLETE_COST \in Nat /\ MaxBlobs \in Nat
  BY PutAssumption
<1>7. Count[file] \in Nat \ {0} /\ Count[file] = ChunkCount(file)
  BY <1>1, CostType DEF Count
<1> QED BY <1>1, <1>2, <1>3, <1>4, <1>5, <1>6, <1>7

LEMMA ToStoreFacts ==
  ASSUME TypeOK, NEW b
  PROVE  /\ ToStore(b) \in SUBSET (Files \X Nat) /\ IsFiniteSet(ToStore(b))
         /\ Extra(b) \in Int
<1>1. file \in Files /\ DOMAIN where = 1 .. Len(where) /\ Len(where) \in Nat /\ policy \in Policies
  BY Typed
<1>2. ToStore(b) \in SUBSET (Files \X Nat) /\ ToStore(b) \in SUBSET FirstChunks(file, Len(where))
  BY <1>1 DEF ToStore, PlannedFor, FirstChunks
<1>3. IsFiniteSet(ToStore(b))
  BY <1>1, <1>2, ChunksAreFinite, FS_Subset
<1>4. \A c \in ToStore(b) : Cost[c] \in Int
  BY <1>1, <1>2, CostType
<1>5. Extra(b) \in Int
  BY <1>3, <1>4, SumIsAnInteger DEF Extra
<1> QED BY <1>2, <1>3, <1>5

LEMMA Estimates ==
  ASSUME TypeOK, Finite, NEW b \in DOMAIN blobs
  PROVE  /\ EstimatedSize(b) = Load(b) /\ Load(b) \in Int
         /\ Planned(b) = Extra(b) /\ Extra(b) \in Int
         /\ blobs[b].chunks \in SUBSET (Files \X Nat) /\ IsFiniteSet(blobs[b].chunks)
         /\ SumOver(Cost, blobs[b].chunks) \in Int
         /\ IsFiniteSet(blobs[b].complete) /\ Cardinality(blobs[b].complete) \in Nat
<1>1. policy \in Policies /\ blobs[b] \in Blob /\ COMPLETE_COST \in Nat
  BY Typed
<1>2. blobs[b].chunks \in SUBSET (Files \X Nat)
  BY <1>1 DEF Blob
<1>3. IsFiniteSet(blobs[b].chunks) /\ IsFiniteSet(blobs[b].complete)
  BY DEF Finite
<1>4. CostOf(blobs[b].chunks) = SumOver(Cost, blobs[b].chunks)
  BY <1>1, <1>2, <1>3, CostOfIsSum
<1>5. CostOf(ToStore(b)) = SumOver(Cost, ToStore(b))
  BY <1>1, ToStoreFacts, CostOfIsSum
<1>6. Cardinality(blobs[b].complete) \in Nat
  BY <1>3, FS_CardinalityType
<1>7. SumOver(Cost, blobs[b].chunks) \in Int
  <2>1. \A c \in blobs[b].chunks : Cost[c] \in Int
    BY <1>1, <1>2, CostType
  <2> QED BY <1>3, <2>1, SumIsAnInteger
<1>8. EstimatedSize(b) = Load(b)
  BY <1>4 DEF EstimatedSize, Load
<1>9. Load(b) \in Int
  BY <1>1, <1>6, <1>7 DEF Load
<1>10. Planned(b) = Extra(b)
  BY <1>5 DEF Planned, Extra
<1> QED BY <1>2, <1>3, <1>6, <1>7, <1>8, <1>9, <1>10, ToStoreFacts

\* The blob that is chosen has room, and the cursor goes on from it.
LEMMA ChosenHasRoom ==
  ASSUME TypeOK, Finite, NEW n \in Int, WithRoom(n) # {}
  PROVE  /\ Chosen(n) \in DOMAIN blobs
         /\ Load(Chosen(n)) + Extra(Chosen(n)) + n <= max_blob_size
         /\ CursorAfter(Chosen(n)) \in 0 .. Len(blobs) - 1
<1>1. Len(blobs) \in Nat \ {0} /\ DOMAIN blobs = 1 .. Len(blobs)
  BY Typed
<1>2. Start \in Int
  BY <1>1 DEF Start, TypeOK
<1>3. \A k \in Nat : At(k) \in 1 .. Len(blobs)
  BY <1>1, <1>2 DEF At
<1> DEFINE k == Min(WithRoom(n))
<1>4. k \in WithRoom(n)
  <2>1. WithRoom(n) \subseteq Nat
    BY <1>1 DEF WithRoom
  <2> QED BY <2>1, MinOfNaturals
<1>5. Chosen(n) = At(k)
  BY DEF Chosen
<1> HIDE DEF k
<1>6. k \in Nat /\ EstimatedSize(At(k)) + Planned(At(k)) + n <= max_blob_size
  BY <1>1, <1>4 DEF WithRoom
<1>7. At(k) \in DOMAIN blobs
  BY <1>1, <1>3, <1>6
<1>8. Load(At(k)) + Extra(At(k)) + n <= max_blob_size
  BY <1>6, <1>7, Estimates
<1>9. CursorAfter(At(k)) \in 0 .. Len(blobs) - 1
  <2>1. \A b \in Nat : b % Len(blobs) \in 0 .. Len(blobs) - 1
    BY <1>1
  <2>2. At(k) \in Nat
    BY <1>1, <1>7
  <2> QED BY <2>1, <2>2 DEF CursorAfter
<1> QED BY <1>5, <1>7, <1>8, <1>9

\* What does not change.
LEMMA LoadStays ==
  ASSUME policy' = policy, NEW b, blobs'[b] = blobs[b]
  PROVE  Load(b)' = Load(b)
BY CostStays DEF Load

LEMMA PlanStays ==
  ASSUME policy' = policy, UNCHANGED <<file, where>>, NEW b
  PROVE  ToStore(b)' = ToStore(b) /\ Extra(b)' = Extra(b) /\ (LastUsed(b)' <=> LastUsed(b))
<1>1. ToStore(b)' = ToStore(b)
  BY DEF ToStore, PlannedFor
<1>2. Extra(b)' = Extra(b)
  BY <1>1, CostStays DEF Extra
<1> QED BY <1>1, <1>2 DEF LastUsed

LEMMA PlanOfNothing ==
  ASSUME where' = <<>>, NEW b
  PROVE  ToStore(b)' = {} /\ Extra(b)' = 0
<1>1. ToStore(b)' = {}
  BY DEF ToStore, PlannedFor
<1>2. Extra(b)' = SumOver(Cost', {})
  BY <1>1 DEF Extra
<1> QED BY <1>1, <1>2, SumOfNothing

LEMMA BlobsStay ==
  ASSUME IndInv, policy' = policy, blobs' = blobs
  PROVE  Finite' /\ StoredInOneBlob' /\ CompleteIsWhole'
BY CostStays DEF IndInv, Finite, StoredInOneBlob, CompleteIsWhole

-----------------------------------------------------------------------------
(* The initial states and each action. *)

LEMMA InitInv ==
  ASSUME Init
  PROVE  IndInv
<1> USE DEF Init
<1>1. Len(blobs) = 1 /\ DOMAIN blobs = {1} /\ blobs[1] = EmptyBlob
  OBVIOUS
<1>2. IsFiniteSet({}) /\ Cardinality({}) = 0
  BY FS_EmptySet
<1>3. max_blob_size \in Nat /\ COMPLETE_COST \in Nat /\ MaxBlobs \in Nat \ {0} /\ MaxFaults \in Nat
  BY PutAssumption
<1>4. TypeOK
  <2>1. EmptyBlob \in [chunks : SUBSET (Files \X Nat), complete : SUBSET Files]
    BY DEF EmptyBlob
  <2>2. blobs \in Seq([chunks : SUBSET (Files \X Nat), complete : SUBSET Files])
    BY <2>1
  <2>3. where \in Seq(DOMAIN blobs)
    BY <1>1
  <2> QED BY <1>1, <1>3, <2>2, <2>3 DEF TypeOK
<1>5. Finite
  <2>1. EmptyBlob.chunks = {} /\ EmptyBlob.complete = {}
    BY DEF EmptyBlob
  <2>2. \A b \in DOMAIN blobs : blobs[b].chunks = {} /\ blobs[b].complete = {}
    BY <1>1, <2>1
  <2>3. IsFiniteSet({})
    BY <1>2
  <2> HIDE DEF Init
  <2> QED BY <2>2, <2>3, Zenon DEF Finite
<1>6. PlanGrows /\ FileIsNew /\ WrittenAsPlanned
  BY DEF PlanGrows, FileIsNew, WrittenAsPlanned
<1>7. StoredInOneBlob /\ CompleteIsWhole
  BY <1>1 DEF StoredInOneBlob, CompleteIsWhole, EmptyBlob
<1>8. Fits
  <2>1. Load(1) = 0
    <3>1. SumOver(Cost, blobs[1].chunks) = 0
      BY <1>1, SumOfNothing DEF EmptyBlob
    <3>2. Cardinality(blobs[1].complete) = 0
      BY <1>1, <1>2 DEF EmptyBlob
    <3> QED BY <1>3, <3>1, <3>2 DEF Load
  <2> QED BY <1>1, <1>3, <2>1 DEF Fits
<1> QED BY <1>4, <1>5, <1>6, <1>7, <1>8 DEF IndInv

LEMMA PutInv ==
  ASSUME IndInv, NEW f \in Files, Put(f)
  PROVE  IndInv'
<1> USE DEF Put
<1>1. TypeOK /\ Finite /\ Fits
  BY DEF IndInv
<1>2. policy' = policy /\ blobs' = blobs /\ file' = f /\ where' = <<>>
  OBVIOUS
<1>3. Finite' /\ StoredInOneBlob' /\ CompleteIsWhole'
  BY <1>2, BlobsStay
<1>4. Count' = Count /\ Count[f] \in Nat \ {0} /\ Count[f] = ChunkCount(f)
  BY <1>1, <1>2, CostStays, CostType DEF TypeOK, Count
<1>5. pc' \in {"idle", "plan"}
  OBVIOUS
<1>6. TypeOK'
  BY <1>1, <1>2, <1>5 DEF TypeOK
<1>7. PlanGrows'
  BY <1>2, <1>4, <1>5 DEF PlanGrows
<1>8. FileIsNew'
  <2> SUFFICES ASSUME pc' = "plan", NEW b \in DOMAIN blobs, NEW s \in 1 .. Count[f]
               PROVE  <<f, s>> \notin blobs[b].chunks
    BY <1>2, <1>4, <1>5 DEF FileIsNew
  <2>1. Stored \cap Chunks(f) = {}
    OBVIOUS
  <2>2. <<f, s>> \in Chunks(f)
    BY <1>4 DEF Chunks
  <2> QED BY <2>1, <2>2 DEF Stored
<1>9. WrittenAsPlanned'
  BY <1>5 DEF WrittenAsPlanned
<1>10. Fits'
  <2> SUFFICES ASSUME NEW b \in DOMAIN blobs
               PROVE  /\ Load(b)' <= max_blob_size
                      /\ Load(b)' + Extra(b)' <= max_blob_size
    BY <1>2, <1>5 DEF Fits
  <2>1. Load(b)' = Load(b) /\ Extra(b)' = 0
    BY <1>2, LoadStays, PlanOfNothing
  <2>2. Load(b) \in Int /\ Load(b) <= max_blob_size
    BY <1>1, Estimates DEF Fits
  <2> QED BY <2>1, <2>2
<1> QED BY <1>3, <1>6, <1>7, <1>8, <1>9, <1>10 DEF IndInv

\* A call that ends leaves the blobs as they are, or has written the last.
LEMMA ReturnInv ==
  ASSUME IndInv, NEW r \in {"Ok", "Err", "FileExceedsBlobCapacity"}, Return(r),
         UNCHANGED <<policy, blobs, next_blob_cursor, file, appended>>,
         faults' \in 0 .. MaxFaults
  PROVE  IndInv'
<1>1. TypeOK /\ Finite /\ Fits
  BY DEF IndInv
<1>2. pc' = "idle" /\ where' = <<>> /\ result' = r
  BY DEF Return
<1>3. Finite' /\ StoredInOneBlob' /\ CompleteIsWhole'
  BY BlobsStay
<1>4. TypeOK'
  BY <1>1, <1>2 DEF TypeOK
<1>5. PlanGrows' /\ FileIsNew' /\ WrittenAsPlanned'
  BY <1>2 DEF PlanGrows, FileIsNew, WrittenAsPlanned
<1>6. Fits'
  BY <1>1, <1>2, LoadStays DEF Fits
<1> QED BY <1>3, <1>4, <1>5, <1>6 DEF IndInv

\* The planner gives up this time, and a blob is to be appended.
LEMMA GiveUpInv ==
  ASSUME IndInv, pc' = "append", where' = <<>>, pc \in {"plan", "finalize"},
         UNCHANGED <<policy, blobs, next_blob_cursor, file, result, faults, appended>>
  PROVE  IndInv'
<1>1. TypeOK /\ Finite /\ Fits /\ FileIsNew
  BY DEF IndInv
<1>2. Finite' /\ StoredInOneBlob' /\ CompleteIsWhole'
  BY BlobsStay
<1>3. TypeOK'
  BY <1>1 DEF TypeOK
<1>4. FileIsNew'
  BY <1>1, CostStays DEF FileIsNew
<1>5. PlanGrows' /\ WrittenAsPlanned'
  BY DEF PlanGrows, WrittenAsPlanned
<1>6. Fits'
  BY <1>1, LoadStays DEF Fits
<1> QED BY <1>2, <1>3, <1>4, <1>5, <1>6 DEF IndInv

LEMMA WriteFailsInv ==
  ASSUME IndInv, WriteFails
  PROVE  IndInv'
<1>1. faults' \in 0 .. MaxFaults
  <2>1. faults \in 0 .. MaxFaults /\ MaxFaults \in Nat
    BY PutAssumption DEF IndInv, TypeOK
  <2> QED BY <2>1 DEF WriteFails
<1> QED BY <1>1, ReturnInv DEF WriteFails

\* A plan that is for no chunk adds nothing.
LEMMA NothingToStore ==
  ASSUME where = <<>>, NEW b
  PROVE  ToStore(b) = {} /\ Extra(b) = 0
<1>1. ToStore(b) = {}
  BY DEF ToStore, PlannedFor
<1> QED BY <1>1, SumOfNothing DEF Extra

\* A new file is not stored yet when its plan is made.
LEMMA NotStoredYet ==
  ASSUME IndInv, pc \in {"plan", "finalize"}, UNCHANGED <<policy, blobs, file>>,
         where' \in Seq(DOMAIN blobs), Len(where') = Count[file]
  PROVE  WrittenAsPlanned'
<1>1. DOMAIN where' = 1 .. Count[file] /\ \A s \in DOMAIN where' : where'[s] \in DOMAIN blobs
  OBVIOUS
<1>2. \A b \in DOMAIN blobs : \A s \in DOMAIN where' : <<file, s>> \notin blobs[b].chunks
  BY <1>1 DEF IndInv, FileIsNew
<1> QED BY <1>1, <1>2 DEF WrittenAsPlanned

LEMMA PlanWholeInv ==
  ASSUME IndInv, PlanWhole
  PROVE  IndInv'
<1> DEFINE cost == FileCost(file)
           n == ChunkCount(file)
           b == Chosen(cost)
<1>1. TypeOK /\ Finite /\ Fits /\ PlanGrows
  BY DEF IndInv
<1>2. pc = "plan" /\ policy = "whole" /\ UNCHANGED <<policy, blobs, file, faults, appended>>
  BY DEF PlanWhole, split_files_across_blobs
<1>3. where = <<>>
  BY <1>1, <1>2 DEF PlanGrows
<1>4. CASE cost > max_blob_size
  <2>1. Return("FileExceedsBlobCapacity") /\ UNCHANGED next_blob_cursor
    BY <1>4 DEF PlanWhole
  <2>2. faults' \in 0 .. MaxFaults
    BY <1>1, <1>2 DEF TypeOK
  <2> QED BY <1>2, <2>1, <2>2, ReturnInv
<1>5. CASE ~ cost > max_blob_size /\ WithRoom(cost) = {}
  <2>1. pc' = "append" /\ UNCHANGED <<next_blob_cursor, where, result>>
    BY <1>5 DEF PlanWhole
  <2> QED BY <1>2, <1>3, <2>1, GiveUpInv
<1>6. CASE ~ cost > max_blob_size /\ WithRoom(cost) # {}
  <2>1. /\ where' = [s \in 1 .. n |-> b] /\ next_blob_cursor' = CursorAfter(b)
        /\ pc' = "write" /\ UNCHANGED result
    BY <1>6 DEF PlanWhole
  <2>2. n \in Nat \ {0} /\ Count[file] = n /\ policy \in Policies /\ file \in Files
        /\ COMPLETE_COST \in Nat /\ max_blob_size \in Nat /\ DOMAIN blobs = 1 .. Len(blobs) /\ Len(blobs) \in Nat
    BY <1>1, Typed
  <2>3. cost \in Int
    <3>1. Size[file] \in Nat /\ CHUNK_COST \in Nat
      BY <2>2, SizeType, PutAssumption
    <3> QED BY <2>2, <3>1 DEF FileCost
  <2> HIDE DEF cost
  <2>4. /\ b \in DOMAIN blobs /\ CursorAfter(b) \in 0 .. Len(blobs) - 1
        /\ Load(b) + Extra(b) + cost <= max_blob_size
    BY <1>1, <1>6, <2>3, ChosenHasRoom
  <2> HIDE DEF n, b
  <2>5. where' \in Seq(DOMAIN blobs) /\ Len(where') = n
    BY <2>1, <2>2, <2>4
  <2>6. TypeOK'
    BY <1>1, <1>2, <2>1, <2>4, <2>5 DEF TypeOK
  <2>7. Finite' /\ StoredInOneBlob' /\ CompleteIsWhole'
    BY <1>2, BlobsStay
  <2>8. PlanGrows' /\ FileIsNew'
    <3>1. Count' = Count
      BY <1>2, CostStays
    <3> QED BY <1>2, <2>1, <2>2, <2>5, <3>1 DEF PlanGrows, FileIsNew
  <2>9. WrittenAsPlanned'
    BY <1>2, <2>2, <2>5, NotStoredYet
  <2>10. Fits'
    <3> SUFFICES ASSUME NEW d \in DOMAIN blobs
                 PROVE  /\ Load(d)' <= max_blob_size
                        /\ ~ ToStore(d)' \subseteq blobs[d].chunks =>
                             Load(d)' + Extra(d)' + (IF LastUsed(d)' THEN COMPLETE_COST ELSE 0) <= max_blob_size
      BY <1>2, <2>1 DEF Fits
    <3>1. Load(d)' = Load(d) /\ Load(d) \in Int /\ Load(d) <= max_blob_size
      BY <1>1, <1>2, LoadStays, Estimates DEF Fits
    <3>2. ToStore(d)' = IF d = b THEN FirstChunks(file, n) ELSE {}
      <4>1. PlannedFor(d)' = IF d = b THEN 1 .. n ELSE {}
        BY <2>1 DEF PlannedFor
      <4> QED BY <1>2, <4>1 DEF ToStore, FirstChunks
    <3>3. CASE d = b
      <4>1. Extra(d)' = SumOver(Cost, FirstChunks(file, n))
        <5>1. Extra(d)' = SumOver(Cost', FirstChunks(file, n))
          BY <3>2, <3>3 DEF Extra
        <5> QED BY <5>1, <1>2, CostStays
      <4>2. SumOver(Cost, FirstChunks(file, n)) + COMPLETE_COST = cost
        BY <2>2, CostOfWholeFile DEF cost
      <4>3. SumOver(Cost, FirstChunks(file, n)) \in Int
        <5>1. FirstChunks(file, n) \in SUBSET (Files \X Nat)
          BY <2>2 DEF FirstChunks
        <5>2. IsFiniteSet(FirstChunks(file, n))
          BY <2>2, ChunksAreFinite
        <5>3. \A c \in FirstChunks(file, n) : Cost[c] \in Int
          BY <2>2, <5>1, CostType
        <5> QED BY <5>2, <5>3, SumIsAnInteger
      <4>4. Extra(b) = 0
        BY <1>3, NothingToStore
      <4>5. Load(d) + cost <= max_blob_size
        BY <2>3, <2>4, <3>1, <3>3, <4>4
      <4>6. Load(d)' + Extra(d)' + COMPLETE_COST <= max_blob_size
        BY <2>2, <3>1, <4>1, <4>2, <4>3, <4>5
      <4>7. Load(d)' + Extra(d)' \in Int
        BY <3>1, <4>1, <4>3
      <4>8. ASSUME NEW x \in {0, COMPLETE_COST} PROVE Load(d)' + Extra(d)' + x <= max_blob_size
        BY <2>2, <4>6, <4>7
      <4> QED BY <3>1, <4>8
    <3>4. CASE d # b
      BY <3>1, <3>2, <3>4
    <3> QED BY <3>3, <3>4
  <2> QED BY <2>6, <2>7, <2>8, <2>9, <2>10 DEF IndInv
<1> QED BY <1>4, <1>5, <1>6

LEMMA PlanChunkInv ==
  ASSUME IndInv, PlanChunk
  PROVE  IndInv'
<1> DEFINE s == Len(where) + 1
           cost == ChunkCost(file, s)
           b == Chosen(cost)
           c == <<file, s>>
<1>1. TypeOK /\ Finite /\ Fits /\ PlanGrows
  BY DEF IndInv
<1>2. pc = "plan" /\ policy # "whole" /\ UNCHANGED <<policy, blobs, file, result, faults, appended>>
  BY DEF PlanChunk, split_files_across_blobs
<1>3. CASE WithRoom(cost) = {}
  <2>1. pc' = "append" /\ where' = <<>> /\ UNCHANGED next_blob_cursor
    BY <1>3 DEF PlanChunk
  <2> QED BY <1>2, <2>1, GiveUpInv
<1>4. CASE WithRoom(cost) # {}
  <2>1. /\ where' = Append(where, b) /\ next_blob_cursor' = CursorAfter(b)
        /\ pc' = IF s = ChunkCount(file) THEN "finalize" ELSE "plan"
    BY <1>4 DEF PlanChunk
  <2>2. /\ Count[file] \in Nat /\ Count[file] = ChunkCount(file) /\ policy \in Policies /\ file \in Files
        /\ max_blob_size \in Nat /\ where \in Seq(DOMAIN blobs) /\ Len(where) \in Nat
        /\ DOMAIN where = 1 .. Len(where)
    BY <1>1, Typed
  <2>3. c \in Files \X Nat /\ Cost[c] = cost /\ cost \in Int
    <3>1. s \in Nat
      BY <2>2
    <3> HIDE DEF s
    <3> QED BY <2>2, <3>1, ChunkCostType DEF Cost
  <2>4. Len(where) < Count[file]
    BY <1>1, <1>2 DEF PlanGrows
  <2> HIDE DEF cost
  <2>5. /\ b \in DOMAIN blobs /\ CursorAfter(b) \in 0 .. Len(blobs) - 1
        /\ Load(b) + Extra(b) + cost <= max_blob_size
    BY <1>1, <1>4, <2>3, ChosenHasRoom
  <2> HIDE DEF b
  <2>6. /\ where' \in Seq(DOMAIN blobs) /\ Len(where') = s
        /\ DOMAIN where' = DOMAIN where \cup {s} /\ s \notin DOMAIN where
        /\ where'[s] = b /\ \A t \in DOMAIN where : where'[t] = where[t]
    BY <2>1, <2>2, <2>5
  <2>7. TypeOK'
    BY <1>1, <1>2, <2>1, <2>5, <2>6 DEF TypeOK
  <2>8. Finite' /\ StoredInOneBlob' /\ CompleteIsWhole'
    BY <1>2, BlobsStay
  <2>9. PlanGrows' /\ FileIsNew' /\ WrittenAsPlanned'
    <3>1. Count' = Count /\ pc' \in {"plan", "finalize"}
      BY <1>2, <2>1, CostStays
    <3>2. PlanGrows'
      BY <1>2, <2>1, <2>2, <2>4, <2>6, <3>1 DEF PlanGrows
    <3>3. FileIsNew'
      BY <1>2, <3>1 DEF FileIsNew, IndInv
    <3>4. WrittenAsPlanned'
      BY <3>1 DEF WrittenAsPlanned
    <3> QED BY <3>2, <3>3, <3>4
  <2>10. Fits'
    <3> SUFFICES ASSUME NEW d \in DOMAIN blobs
                 PROVE  /\ Load(d)' <= max_blob_size
                        /\ Load(d)' + Extra(d)' <= max_blob_size
      <4>1. pc' \in {"plan", "finalize"} /\ DOMAIN blobs' = DOMAIN blobs
        BY <1>2, <2>1
      <4> QED BY <4>1 DEF Fits
    <3>1. /\ Load(d)' = Load(d) /\ Load(d) \in Int /\ Load(d) <= max_blob_size
          /\ Extra(d) \in Int /\ Load(d) + Extra(d) <= max_blob_size
      BY <1>1, <1>2, LoadStays, Estimates DEF Fits
    <3>2. Extra(d)' = SumOver(Cost, ToStore(d)')
      BY <1>2, CostStays DEF Extra
    <3>3. CASE d = b
      <4>1. ToStore(d)' = ToStore(d) \cup {c} /\ c \notin ToStore(d)
        <5>1. PlannedFor(d)' = PlannedFor(d) \cup {s} /\ s \notin PlannedFor(d)
          BY <2>6, <3>3 DEF PlannedFor
        <5> HIDE DEF s
        <5> QED BY <1>2, <5>1 DEF ToStore
      <4>2. ToStore(d) \in SUBSET (Files \X Nat) /\ IsFiniteSet(ToStore(d))
        BY <1>1, ToStoreFacts
      <4>3. \A x \in ToStore(d) \cup {c} : Cost[x] \in Int
        BY <2>2, <2>3, <4>2, CostType
      <4>4. SumOver(Cost, ToStore(d) \cup {c}) = Cost[c] + SumOver(Cost, ToStore(d))
        <5> DEFINE S == ToStore(d)
        <5>1. IsFiniteSet(S) /\ c \notin S /\ \A x \in S \cup {c} : Cost[x] \in Int
          BY <4>1, <4>2, <4>3
        <5> HIDE DEF S, c
        <5>2. SumOver(Cost, S \cup {c}) = Cost[c] + SumOver(Cost, S)
          BY <5>1, SumWith
        <5> QED BY <5>2 DEF S
      <4>5. SumOver(Cost, ToStore(d)') = SumOver(Cost, ToStore(d) \cup {c})
        BY <4>1, Zenon
      <4>6. Extra(d)' = cost + Extra(d)
        BY <2>3, <3>2, <4>4, <4>5 DEF Extra
      <4> QED BY <2>2, <2>3, <2>5, <3>1, <3>3, <4>6
    <3>4. CASE d # b
      <4>1. ToStore(d)' = ToStore(d)
        <5>1. PlannedFor(d)' = PlannedFor(d)
          BY <2>6, <3>4 DEF PlannedFor
        <5> QED BY <1>2, <5>1 DEF ToStore
      <4>2. Extra(d)' = Extra(d)
        BY <3>2, <4>1 DEF Extra
      <4> QED BY <3>1, <4>2
    <3> QED BY <3>3, <3>4
  <2> QED BY <2>7, <2>8, <2>9, <2>10 DEF IndInv
<1> QED BY <1>3, <1>4

\* The file_complete goes to a blob that the plan uses, and to the last one.
LEMMA MarkerIsLastUsed ==
  ASSUME TypeOK, where # <<>>
  PROVE  /\ \E s \in DOMAIN where : where[s] = MarkerBlob
         /\ LastUsed(MarkerBlob)
<1> DEFINE T == {where[s] : s \in DOMAIN where}
           n == Len(blobs)
<1>1. DOMAIN where # {} /\ n \in Nat /\ \A s \in DOMAIN where : where[s] \in 1 .. n
  BY Typed
<1>2. T \subseteq Nat /\ T # {} /\ \A y \in T : y <= n
  BY <1>1
<1> HIDE DEF T
<1>3. Max(T) \in T /\ \A y \in T : Max(T) >= y
  BY <1>1, <1>2, MaxOfNaturals
<1>4. MarkerBlob = Max(T)
  BY DEF MarkerBlob, T
<1>5. \A s \in DOMAIN where : where[s] \in T
  BY DEF T
<1>6. \E s \in DOMAIN where : where[s] = MarkerBlob
  BY <1>3, <1>4 DEF T
<1>7. MarkerBlob \in Nat
  BY <1>2, <1>3, <1>4
<1>8. \A s \in DOMAIN where : where[s] <= MarkerBlob
  BY <1>1, <1>3, <1>4, <1>5, <1>7
<1> QED BY <1>6, <1>8 DEF LastUsed

LEMMA FinalizeInv ==
  ASSUME IndInv, Finalize
  PROVE  IndInv'
<1> DEFINE After(b) == EstimatedSize(b) + Planned(b) + (IF b = MarkerBlob THEN COMPLETE_COST ELSE 0)
           fits == \A b \in DOMAIN blobs : PlannedFor(b) # {} => After(b) <= max_blob_size
<1>1. TypeOK /\ Finite /\ Fits /\ PlanGrows
  BY DEF IndInv
<1>2. pc = "finalize" /\ UNCHANGED <<policy, blobs, next_blob_cursor, file, result, faults, appended>>
  BY DEF Finalize
<1>3. CASE ~ fits
  <2>1. pc' = "append" /\ where' = <<>>
    BY <1>3 DEF Finalize
  <2> HIDE DEF fits
  <2> QED BY <1>2, <2>1, GiveUpInv
<1>4. CASE fits
  <2>1. pc' = "write" /\ where' = where
    BY <1>4 DEF Finalize
  <2>2. Len(where) = Count[file] /\ Count[file] \in Nat \ {0} /\ where \in Seq(1 .. Len(blobs))
        /\ DOMAIN blobs = 1 .. Len(blobs) /\ \A s \in DOMAIN where : where[s] \in DOMAIN blobs
    BY <1>1, <1>2, Typed DEF PlanGrows
  <2>3. where # <<>>
    BY <2>2
  <2>4. TypeOK'
    BY <1>1, <1>2, <2>1 DEF TypeOK
  <2>5. Finite' /\ StoredInOneBlob' /\ CompleteIsWhole'
    BY <1>2, BlobsStay
  <2>6. PlanGrows' /\ FileIsNew'
    BY <1>2, <2>1, <2>2, CostStays DEF PlanGrows, FileIsNew
  <2>7. WrittenAsPlanned'
    <3>1. where' \in Seq(DOMAIN blobs) /\ Len(where') = Count[file]
      BY <2>1, <2>2
    <3> QED BY <1>2, <3>1, NotStoredYet
  <2>8. Fits'
    <3> SUFFICES ASSUME NEW d \in DOMAIN blobs
                 PROVE  /\ Load(d)' <= max_blob_size
                        /\ ~ ToStore(d)' \subseteq blobs[d].chunks =>
                             Load(d)' + Extra(d)' + (IF LastUsed(d)' THEN COMPLETE_COST ELSE 0) <= max_blob_size
      BY <1>2, <2>1 DEF Fits
    <3>1. /\ Load(d)' = Load(d) /\ Load(d) <= max_blob_size /\ ToStore(d)' = ToStore(d)
          /\ Extra(d)' = Extra(d) /\ (LastUsed(d)' <=> LastUsed(d))
      BY <1>1, <1>2, <2>1, LoadStays, PlanStays DEF Fits
    <3>2. ASSUME ~ ToStore(d) \subseteq blobs[d].chunks
          PROVE  Load(d) + Extra(d) + (IF LastUsed(d) THEN COMPLETE_COST ELSE 0) <= max_blob_size
      <4>1. PICK s \in PlannedFor(d) : TRUE
        BY <3>2 DEF ToStore
      <4>2. s \in DOMAIN where /\ where[s] = d
        BY <4>1 DEF PlannedFor
      <4>3. After(d) <= max_blob_size
        BY <1>4, <4>1
      <4>4. LastUsed(d) => d = MarkerBlob
        <5>1. PICK t \in DOMAIN where : where[t] = MarkerBlob
          BY <1>1, <2>3, MarkerIsLastUsed
        <5>2. d <= MarkerBlob /\ d \in Nat /\ MarkerBlob \in Nat
          BY <1>1, <2>2, <2>3, <4>2, <5>1, MarkerIsLastUsed DEF LastUsed
        <5>3. LastUsed(d) => MarkerBlob <= d
          BY <5>1 DEF LastUsed
        <5> QED BY <5>2, <5>3
      <4>5. d = MarkerBlob => LastUsed(d)
        BY <1>1, <2>3, MarkerIsLastUsed
      <4>6. EstimatedSize(d) = Load(d) /\ Planned(d) = Extra(d)
        BY <1>1, Estimates
      <4> QED BY <4>3, <4>4, <4>5, <4>6
    <3> QED BY <3>1, <3>2
  <2> QED BY <2>4, <2>5, <2>6, <2>7, <2>8 DEF IndInv
<1> HIDE DEF fits
<1> QED BY <1>3, <1>4

LEMMA AppendBlobInv ==
  ASSUME IndInv, AppendBlob
  PROVE  IndInv'
<1> DEFINE n == Len(blobs) + 1
<1>1. TypeOK /\ Finite /\ Fits /\ PlanGrows /\ FileIsNew /\ StoredInOneBlob /\ CompleteIsWhole
  BY DEF IndInv
<1>2. /\ pc = "append" /\ pc' = "plan" /\ Len(blobs) < MaxBlobs
      /\ blobs' = Append(blobs, EmptyBlob) /\ appended' = appended + 1
      /\ UNCHANGED <<policy, next_blob_cursor, file, where, result, faults>>
  BY DEF AppendBlob
<1>3. where = <<>>
  BY <1>1, <1>2 DEF PlanGrows
<1>4. /\ blobs \in Seq(Blob) /\ Len(blobs) \in Nat \ {0} /\ DOMAIN blobs = 1 .. Len(blobs)
      /\ max_blob_size \in Nat /\ COMPLETE_COST \in Nat /\ MaxBlobs \in Nat
      /\ Count[file] \in Nat \ {0} /\ policy \in Policies
  BY <1>1, Typed
<1>5. EmptyBlob \in Blob /\ EmptyBlob.chunks = {} /\ EmptyBlob.complete = {}
  BY DEF EmptyBlob, Blob
<1>6. /\ blobs' \in Seq(Blob) /\ Len(blobs') = n /\ DOMAIN blobs' = DOMAIN blobs \cup {n}
      /\ n \notin DOMAIN blobs /\ blobs'[n] = EmptyBlob
      /\ \A b \in DOMAIN blobs : blobs'[b] = blobs[b]
  <2> HIDE DEF Blob
  <2> QED BY <1>2, <1>4, <1>5
<1>7. Count' = Count
  BY <1>2, CostStays
<1>8. blobs'[n].chunks = {} /\ blobs'[n].complete = {}
  BY <1>5, <1>6
<1>9. TypeOK'
  <2>1. next_blob_cursor' \in 0 .. Len(blobs') - 1 /\ appended' \in 0 .. Len(blobs') - 1
        /\ Len(blobs') <= MaxBlobs
    BY <1>1, <1>2, <1>4, <1>6 DEF TypeOK
  <2>2. where' \in Seq(DOMAIN blobs')
    BY <1>2, <1>3
  <2> QED BY <1>1, <1>2, <1>6, <2>1, <2>2 DEF TypeOK, Blob
<1>10. Finite'
  <2>1. IsFiniteSet({})
    BY FS_EmptySet
  <2>2. ASSUME NEW b \in DOMAIN blobs'
        PROVE  IsFiniteSet(blobs'[b].chunks) /\ IsFiniteSet(blobs'[b].complete)
    <3>1. CASE b = n
      BY <1>8, <2>1, <3>1
    <3>2. CASE b # n
      BY <1>1, <1>6, <3>2 DEF Finite
    <3> QED BY <3>1, <3>2
  <2> QED BY <2>2 DEF Finite
<1>11. PlanGrows'
  BY <1>2, <1>3, <1>4, <1>7 DEF PlanGrows
<1> HIDE DEF n
<1>12. FileIsNew' /\ WrittenAsPlanned'
  <2>1. WrittenAsPlanned'
    BY <1>2 DEF WrittenAsPlanned
  <2>2. FileIsNew'
    BY <1>1, <1>2, <1>6, <1>7, <1>8 DEF FileIsNew
  <2> QED BY <2>1, <2>2
<1>13. StoredInOneBlob'
  BY <1>1, <1>6, <1>8 DEF StoredInOneBlob
<1>14. CompleteIsWhole'
  <2> SUFFICES ASSUME NEW b \in DOMAIN blobs', NEW f \in blobs'[b].complete, NEW s \in 1 .. Count[f]
               PROVE  \E d \in DOMAIN blobs' : <<f, s>> \in blobs'[d].chunks
    BY <1>7 DEF CompleteIsWhole
  <2>1. b \in DOMAIN blobs /\ f \in blobs[b].complete
    BY <1>6, <1>8
  <2>2. PICK d \in DOMAIN blobs : <<f, s>> \in blobs[d].chunks
    BY <1>1, <2>1 DEF CompleteIsWhole
  <2> QED BY <1>6, <2>2
<1>15. Fits'
  <2> SUFFICES ASSUME NEW d \in DOMAIN blobs'
               PROVE  /\ Load(d)' <= max_blob_size
                      /\ Load(d)' + Extra(d)' <= max_blob_size
    BY <1>2 DEF Fits
  <2>1. Extra(d)' = 0
    BY <1>2, <1>3, PlanOfNothing
  <2>2. Load(d)' \in Int /\ Load(d)' <= max_blob_size
    <3>1. CASE d = n
      <4>1. SumOver(Cost', blobs'[d].chunks) = 0
        <5>1. SumOver(Cost', {}) = 0
          BY SumOfNothing
        <5> QED BY <1>8, <3>1, <5>1
      <4>2. Cardinality(blobs'[d].complete) = 0
        BY <1>8, <3>1, FS_EmptySet
      <4>3. Load(d)' = 0 + COMPLETE_COST * 0
        BY <4>1, <4>2 DEF Load
      <4> QED BY <1>4, <4>3
    <3>2. CASE d # n
      BY <1>1, <1>2, <1>6, <3>2, LoadStays, Estimates DEF Fits
    <3> QED BY <3>1, <3>2
  <2> QED BY <2>1, <2>2
<1> QED BY <1>9, <1>10, <1>11, <1>12, <1>13, <1>14, <1>15 DEF IndInv

\* The next blob of the plan takes its chunks, none of which it has.
LEMMA WriteBlobInv ==
  ASSUME IndInv, WriteBlob
  PROVE  IndInv'
<1>0. PICK b : b = Min(Remaining)
  OBVIOUS
<1> DEFINE marker == IF b = MarkerBlob THEN {file} ELSE {}
           new == [chunks |-> blobs[b].chunks \cup ToStore(b), complete |-> blobs[b].complete \cup marker]
<1>1. TypeOK /\ Finite /\ Fits /\ PlanGrows /\ WrittenAsPlanned /\ StoredInOneBlob /\ CompleteIsWhole
  BY DEF IndInv
<1>2. /\ pc = "write" /\ blobs' = [blobs EXCEPT ![b] = new]
      /\ UNCHANGED <<policy, next_blob_cursor, file, faults, appended>>
  BY <1>0 DEF WriteBlob
<1>3. IF b = MarkerBlob THEN Return("Ok") ELSE UNCHANGED <<pc, where, result>>
  BY <1>0 DEF WriteBlob
<1>4. /\ blobs \in Seq(Blob) /\ Len(blobs) \in Nat \ {0} /\ DOMAIN blobs = 1 .. Len(blobs)
      /\ max_blob_size \in Nat /\ COMPLETE_COST \in Nat /\ file \in Files /\ policy \in Policies
      /\ \A d \in DOMAIN blobs : blobs[d] \in Blob
      /\ where \in Seq(1 .. Len(blobs)) /\ \A s \in DOMAIN where : where[s] \in DOMAIN blobs
  BY <1>1, Typed
<1>5. Len(where) = Count[file] /\ Count[file] \in Nat \ {0} /\ DOMAIN where = 1 .. Count[file] /\ where # <<>>
  BY <1>1, <1>2, Typed DEF PlanGrows
<1>6. PICK last \in DOMAIN where : where[last] = MarkerBlob
  BY <1>1, <1>5, MarkerIsLastUsed
<1>7. MarkerBlob \in DOMAIN blobs /\ LastUsed(MarkerBlob)
  BY <1>1, <1>4, <1>5, <1>6, MarkerIsLastUsed
<1>8. MarkerBlob \in Remaining
  <2>1. <<file, last>> \in ToStore(MarkerBlob)
    BY <1>6 DEF ToStore, PlannedFor
  <2>2. <<file, last>> \notin blobs[MarkerBlob].chunks
    BY <1>1, <1>2, <1>6, <1>7 DEF WrittenAsPlanned
  <2> QED BY <1>7, <2>1, <2>2 DEF Remaining
<1>9. b \in Remaining /\ \A d \in Remaining : b <= d
  <2>1. Remaining \subseteq Nat /\ Remaining # {}
    BY <1>4, <1>8 DEF Remaining
  <2> QED BY <1>0, <2>1, MinOfNaturals
<1>10. b \in DOMAIN blobs /\ ~ ToStore(b) \subseteq blobs[b].chunks
  BY <1>9 DEF Remaining
<1>11. PICK u \in DOMAIN where : where[u] = b /\ <<file, u>> \notin blobs[b].chunks
  BY <1>10 DEF ToStore, PlannedFor
<1>12. \A s \in DOMAIN where : where[s] = b <=> <<file, s>> \in ToStore(b)
  BY DEF ToStore, PlannedFor
<1>13. ToStore(b) \cap blobs[b].chunks = {}
  <2> SUFFICES ASSUME NEW s \in DOMAIN where, where[s] = b, <<file, s>> \in blobs[b].chunks
               PROVE  FALSE
    BY DEF ToStore, PlannedFor
  <2> QED BY <1>1, <1>2, <1>11 DEF WrittenAsPlanned
<1>14. /\ DOMAIN blobs' = DOMAIN blobs /\ Len(blobs') = Len(blobs) /\ blobs'[b] = new
       /\ \A d \in DOMAIN blobs : d # b => blobs'[d] = blobs[d]
  <2> HIDE DEF new, Blob
  <2> QED BY <1>2, <1>4, <1>10
<1>15. /\ blobs'[b].chunks = blobs[b].chunks \cup ToStore(b)
       /\ blobs'[b].complete = blobs[b].complete \cup marker
  <2> HIDE DEF marker
  <2> QED BY <1>14
<1>16. /\ ToStore(b) \in SUBSET (Files \X Nat) /\ IsFiniteSet(ToStore(b)) /\ Extra(b) \in Int
       /\ Load(b) \in Int /\ blobs[b].chunks \in SUBSET (Files \X Nat) /\ IsFiniteSet(blobs[b].chunks)
       /\ SumOver(Cost, blobs[b].chunks) \in Int
       /\ IsFiniteSet(blobs[b].complete) /\ Cardinality(blobs[b].complete) \in Nat
  BY <1>1, <1>10, ToStoreFacts, Estimates
<1>17. blobs' \in Seq(Blob)
  <2>1. new \in Blob
    <3>1. marker \in SUBSET Files /\ blobs[b].complete \in SUBSET Files
      BY <1>4, <1>10 DEF Blob
    <3> HIDE DEF marker
    <3> QED BY <1>16, <3>1 DEF Blob
  <2> HIDE DEF new, Blob
  <2> QED BY <1>2, <1>4, <1>10, <2>1
<1> HIDE DEF new
<1>18. Count' = Count /\ Cost' = Cost
  BY <1>2, CostStays
<1>19. /\ pc' \in {"idle", "write"} /\ (pc' = "idle" <=> b = MarkerBlob)
       /\ (pc' = "idle" => where' = <<>>)
       /\ (pc' = "write" => where' = where)
       /\ (where' = <<>> \/ where' = where) /\ result' \in {"Ok", result}
  BY <1>2, <1>3 DEF Return
<1>20. TypeOK'
  <2>1. where' \in Seq(DOMAIN blobs')
    <3>1. DOMAIN blobs' = 1 .. Len(blobs)
      BY <1>4, <1>14
    <3>2. <<>> \in Seq(1 .. Len(blobs))
      OBVIOUS
    <3>3. where' \in Seq(1 .. Len(blobs))
      BY <1>4, <1>19, <3>2
    <3> QED BY <3>1, <3>3
  <2>2. /\ policy' \in Policies /\ file' \in Files /\ faults' \in 0 .. MaxFaults
        /\ result' \in {"none", "Ok", "Err", "FileAlreadyExists", "FileExceedsBlobCapacity"}
        /\ pc' \in {"idle", "plan", "finalize", "append", "write"}
    BY <1>1, <1>2, <1>19 DEF TypeOK
  <2>3. /\ next_blob_cursor' \in 0 .. Len(blobs') - 1 /\ appended' \in 0 .. Len(blobs') - 1
        /\ Len(blobs') <= MaxBlobs
    BY <1>1, <1>2, <1>14 DEF TypeOK
  <2> QED BY <1>17, <2>1, <2>2, <2>3 DEF TypeOK, Blob
<1>21. Finite'
  <2>1. IsFiniteSet(blobs[b].chunks \cup ToStore(b))
    BY <1>16, FS_Union
  <2>2. IsFiniteSet(blobs[b].complete \cup marker)
    <3>1. marker = {file} \/ marker = {}
      OBVIOUS
    <3> HIDE DEF marker
    <3>2. IsFiniteSet(blobs[b].complete \cup {file})
      BY <1>16, FS_AddElement
    <3>3. blobs[b].complete \cup {} = blobs[b].complete
      OBVIOUS
    <3> QED BY <1>16, <3>1, <3>2, <3>3
  <2>3. ASSUME NEW d \in DOMAIN blobs
        PROVE  IsFiniteSet(blobs'[d].chunks) /\ IsFiniteSet(blobs'[d].complete)
    <3> HIDE DEF marker
    <3>1. CASE d = b
      BY <1>15, <2>1, <2>2, <3>1
    <3>2. CASE d # b
      BY <1>1, <1>14, <3>2 DEF Finite
    <3> QED BY <3>1, <3>2
  <2> QED BY <1>14, <2>3 DEF Finite
<1>22. PlanGrows'
  BY <1>2, <1>5, <1>18, <1>19 DEF PlanGrows
<1>23. FileIsNew'
  BY <1>19 DEF FileIsNew
<1>24. ASSUME NEW d \in DOMAIN blobs, NEW c \in blobs'[d].chunks
       PROVE  c \in blobs[d].chunks \/ (d = b /\ c \in ToStore(b))
  BY <1>14, <1>15
<1>25. ASSUME NEW d \in DOMAIN blobs
       PROVE  blobs[d].chunks \subseteq blobs'[d].chunks
  BY <1>14, <1>15
<1>26. StoredInOneBlob'
  <2>1. ASSUME NEW d \in DOMAIN blobs, NEW c \in ToStore(b), c \in blobs[d].chunks
        PROVE  d = b
    BY <1>1, <1>2, <2>1 DEF WrittenAsPlanned, ToStore, PlannedFor
  <2> SUFFICES ASSUME NEW d \in DOMAIN blobs, NEW e \in DOMAIN blobs,
                      NEW c \in blobs'[d].chunks, c \in blobs'[e].chunks
               PROVE  d = e
    BY <1>14 DEF StoredInOneBlob
  <2>2. c \in blobs[d].chunks \/ (d = b /\ c \in ToStore(b))
    BY <1>24
  <2>3. c \in blobs[e].chunks \/ (e = b /\ c \in ToStore(b))
    BY <1>24
  <2> QED BY <1>1, <2>1, <2>2, <2>3 DEF StoredInOneBlob
<1>27. CompleteIsWhole'
  <2> SUFFICES ASSUME NEW d \in DOMAIN blobs, NEW f \in blobs'[d].complete, NEW s \in 1 .. Count[f]
               PROVE  \E e \in DOMAIN blobs : <<f, s>> \in blobs'[e].chunks
    BY <1>14, <1>18 DEF CompleteIsWhole
  <2>1. CASE f \in blobs[d].complete
    <3>1. PICK e \in DOMAIN blobs : <<f, s>> \in blobs[e].chunks
      BY <1>1, <2>1 DEF CompleteIsWhole
    <3> QED BY <1>25, <3>1
  <2>2. CASE f \notin blobs[d].complete
    <3>1. f = file /\ b = MarkerBlob
      BY <1>14, <1>15, <2>2
    <3>2. s \in DOMAIN where /\ where[s] \in DOMAIN blobs
      BY <1>4, <1>5, <3>1
    <3>3. <<file, s>> \in ToStore(where[s])
      BY <3>2 DEF ToStore, PlannedFor
    <3>4. CASE where[s] = b
      BY <1>10, <1>15, <3>1, <3>3, <3>4
    <3>5. CASE where[s] # b
      <4>1. where[s] < b
        BY <1>4, <1>7, <1>10, <3>1, <3>2, <3>5 DEF LastUsed
      <4>2. where[s] \notin Remaining
        BY <1>4, <1>9, <1>10, <3>2, <4>1
      <4>3. <<file, s>> \in blobs[where[s]].chunks
        BY <3>2, <3>3, <4>2 DEF Remaining
      <4> QED BY <1>25, <3>1, <3>2, <4>3
    <3> QED BY <3>4, <3>5
  <2> QED BY <2>1, <2>2
<1>28. WrittenAsPlanned'
  <2> SUFFICES ASSUME pc' = "write"
               PROVE  /\ \A d \in DOMAIN blobs : \A s \in DOMAIN where :
                           <<file, s>> \in blobs'[d].chunks => d = where[s]
                      /\ \A s, t \in DOMAIN where :
                           where[s] = where[t] /\ <<file, s>> \in blobs'[where[s]].chunks
                             => <<file, t>> \in blobs'[where[s]].chunks
                      /\ \A s \in DOMAIN where :
                           LastUsed(where[s]) => <<file, s>> \notin blobs'[where[s]].chunks
    BY <1>2, <1>14, <1>19 DEF WrittenAsPlanned, LastUsed
  <2>1. b # MarkerBlob
    BY <1>19
  <2>2. \A d \in DOMAIN blobs : \A s \in DOMAIN where : <<file, s>> \in blobs'[d].chunks => d = where[s]
    BY <1>1, <1>2, <1>12, <1>24 DEF WrittenAsPlanned
  <2>3. ASSUME NEW s \in DOMAIN where, NEW t \in DOMAIN where, where[s] = where[t],
               <<file, s>> \in blobs'[where[s]].chunks
        PROVE  <<file, t>> \in blobs'[where[s]].chunks
    <3>1. CASE where[s] = b
      BY <1>12, <1>15, <2>3, <3>1
    <3>2. CASE where[s] # b
      BY <1>1, <1>2, <1>4, <1>14, <2>3, <3>2 DEF WrittenAsPlanned
    <3> QED BY <3>1, <3>2
  <2>4. ASSUME NEW s \in DOMAIN where, LastUsed(where[s])
        PROVE  <<file, s>> \notin blobs'[where[s]].chunks
    <3>1. where[s] # b
      <4>1. where[last] <= where[s] /\ where[s] <= MarkerBlob
        BY <1>7, <2>4 DEF LastUsed
      <4> QED BY <1>4, <1>6, <1>7, <2>1, <4>1
    <3>2. <<file, s>> \notin blobs[where[s]].chunks
      BY <1>1, <1>2, <2>4 DEF WrittenAsPlanned
    <3> QED BY <1>4, <1>14, <3>1, <3>2
  <2> QED BY <2>2, <2>3, <2>4
<1>29. Load(b)' <= Load(b) + Extra(b) + (IF LastUsed(b) THEN COMPLETE_COST ELSE 0) /\ Load(b)' \in Int
  <2> DEFINE A == blobs[b].chunks
             T == ToStore(b)
             D == blobs[b].complete
             m == Cardinality(D)
             n == Cardinality(D \cup marker)
  <2>1. SumOver(Cost, A \cup T) = SumOver(Cost, A) + SumOver(Cost, T)
    <3>1. \A c \in A \cup T : Cost[c] \in Int
      BY <1>4, <1>16, CostType
    <3>2. IsFiniteSet(A) /\ IsFiniteSet(T) /\ A \cap T = {}
      BY <1>13, <1>16
    <3> HIDE DEF A, T
    <3> QED BY <3>1, <3>2, SumOfDisjoint
  <2>2. Load(b)' = SumOver(Cost, A \cup T) + COMPLETE_COST * n
    <3> HIDE DEF marker
    <3> QED BY <1>15, <1>18 DEF Load
  <2>3. Load(b) = SumOver(Cost, A) + COMPLETE_COST * m /\ Extra(b) = SumOver(Cost, T)
    BY DEF Load, Extra
  <2>4. /\ n \in Nat /\ m \in Nat /\ n <= m + 1
        /\ (b # MarkerBlob => n = m)
    <3>1. b = MarkerBlob => marker = {file}
      OBVIOUS
    <3>2. b # MarkerBlob => D \cup marker = D
      OBVIOUS
    <3>3. IsFiniteSet(D) /\ m \in Nat
      BY <1>16
    <3> HIDE DEF D, marker
    <3>4. Cardinality(D \cup {file}) = IF file \in D THEN m ELSE m + 1
      BY <3>3, FS_AddElement
    <3>5. CASE b = MarkerBlob
      BY <3>1, <3>3, <3>4, <3>5
    <3>6. CASE b # MarkerBlob
      <4>1. n = m
        BY <3>2, <3>6, Zenon
      <4> QED BY <3>3, <3>6, <4>1
    <3> QED BY <3>5, <3>6
  <2>5. b = MarkerBlob => LastUsed(b)
    BY <1>7
  <2>6. COMPLETE_COST * n <= COMPLETE_COST * m + (IF LastUsed(b) THEN COMPLETE_COST ELSE 0)
        /\ COMPLETE_COST * n \in Int /\ COMPLETE_COST * m \in Int
    <3> HIDE DEF n, m
    <3>1. COMPLETE_COST * (m + 1) = COMPLETE_COST * m + COMPLETE_COST
      BY <1>4, <2>4
    <3>2. COMPLETE_COST * n \in Int /\ COMPLETE_COST * m \in Int
      BY <1>4, <2>4
    <3>3. n = m \/ n = m + 1
      <4>1. n = m + 1 \/ n <= m
        BY <2>4
      <4>2. m <= n
        <5>1. D \in SUBSET (D \cup marker) /\ IsFiniteSet(D \cup marker)
          <6>1. IsFiniteSet(D \cup {file})
            BY <1>16, FS_AddElement
          <6>2. D \cup marker = D \cup {file} \/ D \cup marker = D
            OBVIOUS
          <6>3. IsFiniteSet(D)
            BY <1>16
          <6> QED BY <6>1, <6>2, <6>3
        <5> HIDE DEF D, marker
        <5> QED BY <5>1, FS_Subset DEF m, n
      <4> QED BY <2>4, <4>1, <4>2
    <3>4. CASE n = m
      <4>1. COMPLETE_COST * n = COMPLETE_COST * m
        BY <3>4
      <4> QED BY <1>4, <3>2, <4>1
    <3>5. CASE n = m + 1
      <4>1. LastUsed(b)
        BY <2>4, <2>5, <3>5
      <4>2. COMPLETE_COST * n = COMPLETE_COST * m + COMPLETE_COST
        BY <3>1, <3>5
      <4> QED BY <1>4, <3>2, <4>1, <4>2
    <3> QED BY <3>3, <3>4, <3>5
  <2>7. SumOver(Cost, A) \in Int /\ SumOver(Cost, T) \in Int
    BY <1>16, <2>3
  <2> HIDE DEF A, T, m, n
  <2> QED BY <1>4, <2>1, <2>2, <2>3, <2>6, <2>7, SMTT(60)
<1>30. Fits'
  <2> SUFFICES ASSUME NEW d \in DOMAIN blobs
               PROVE  /\ Load(d)' <= max_blob_size
                      /\ pc' = "write" /\ ~ ToStore(d)' \subseteq blobs'[d].chunks =>
                           Load(d)' + Extra(d)' + (IF LastUsed(d)' THEN COMPLETE_COST ELSE 0) <= max_blob_size
    BY <1>14, <1>19 DEF Fits
  <2>1. CASE d = b
    <3>1. Load(b) + Extra(b) + (IF LastUsed(b) THEN COMPLETE_COST ELSE 0) <= max_blob_size
      BY <1>1, <1>2, <1>10 DEF Fits
    <3>2. Load(b)' <= max_blob_size
      <4> DEFINE x == Load(b) + Extra(b) + (IF LastUsed(b) THEN COMPLETE_COST ELSE 0)
      <4>1. x \in Int /\ x <= max_blob_size /\ Load(b)' <= x /\ Load(b)' \in Int
        BY <1>4, <1>16, <1>29, <3>1
      <4> HIDE DEF x
      <4> QED BY <1>4, <4>1
    <3>3. pc' = "write" => ToStore(b)' \subseteq blobs'[b].chunks
      BY <1>2, <1>15, <1>19, PlanStays
    <3> QED BY <2>1, <3>2, <3>3
  <2>2. CASE d # b
    <3>1. Load(d)' = Load(d) /\ Load(d) <= max_blob_size /\ blobs'[d] = blobs[d]
      BY <1>1, <1>2, <1>14, <2>2, LoadStays DEF Fits
    <3>2. ASSUME pc' = "write"
          PROVE  ToStore(d)' = ToStore(d) /\ Extra(d)' = Extra(d) /\ (LastUsed(d)' <=> LastUsed(d))
      BY <1>2, <1>19, <3>2, PlanStays
    <3> QED BY <1>1, <1>2, <3>1, <3>2 DEF Fits
  <2> QED BY <2>1, <2>2
<1> QED BY <1>20, <1>21, <1>22, <1>23, <1>26, <1>27, <1>28, <1>30 DEF IndInv

-----------------------------------------------------------------------------
(* The theorems. *)

LEMMA InvIsInductive ==
  ASSUME IndInv, [Next]_vars
  PROVE  IndInv'
<1>1. ASSUME NEW f \in Files, Put(f)
      PROVE  IndInv'
  BY <1>1, PutInv
<1>2. CASE PlanWhole
  BY <1>2, PlanWholeInv
<1>3. CASE PlanChunk
  BY <1>3, PlanChunkInv
<1>4. CASE Finalize
  BY <1>4, FinalizeInv
<1>5. CASE AppendBlob
  BY <1>5, AppendBlobInv
<1>6. CASE WriteBlob
  BY <1>6, WriteBlobInv
<1>7. CASE WriteFails
  BY <1>7, WriteFailsInv
<1>8. CASE UNCHANGED vars
  <2>1. UNCHANGED <<policy, blobs, next_blob_cursor, pc, file, where, result, faults, appended>>
    BY <1>8 DEF vars
  <2>2. TypeOK /\ PlanGrows /\ FileIsNew /\ WrittenAsPlanned /\ Fits
    BY DEF IndInv
  <2>3. Count' = Count
    BY <2>1, CostStays
  <2>4. Finite' /\ StoredInOneBlob' /\ CompleteIsWhole'
    BY <2>1, BlobsStay
  <2>5. TypeOK'
    BY <2>1, <2>2 DEF TypeOK
  <2>6. PlanGrows' /\ FileIsNew'
    BY <2>1, <2>2, <2>3 DEF PlanGrows, FileIsNew
  <2>7. WrittenAsPlanned'
    BY <2>1, <2>2 DEF WrittenAsPlanned, LastUsed
  <2>8. Fits'
    BY <2>1, <2>2, LoadStays, PlanStays DEF Fits
  <2> QED BY <2>4, <2>5, <2>6, <2>7, <2>8 DEF IndInv
<1> QED BY <1>1, <1>2, <1>3, <1>4, <1>5, <1>6, <1>7, <1>8 DEF Next, Working

LEMMA InvHolds == Spec => []IndInv
<1>1. Init => IndInv
  BY InitInv
<1>2. IndInv /\ [Next]_vars => IndInv'
  BY InvIsInductive
<1> QED BY <1>1, <1>2, PTL DEF Spec

(* The planner's state stays in its type: its cursor is always on a blob   *)
(* of the vault, and each chunk is planned for one.                        *)
THEOREM TypesHold == Spec => []TypeOK
<1>1. IndInv => TypeOK
  BY DEF IndInv
<1> QED BY <1>1, InvHolds, PTL

(* However files are cut and spread, and whichever writes fail, a file     *)
(* whose file_complete is in an index has every chunk in exactly one blob. *)
THEOREM MarkerIsLast == Spec => []MarkerMeansWhole
<1>1. IndInv => MarkerMeansWhole
  <2> SUFFICES ASSUME IndInv, NEW b \in DOMAIN blobs, NEW f \in blobs[b].complete, NEW c \in Chunks(f)
               PROVE  Cardinality({d \in DOMAIN blobs : c \in blobs[d].chunks}) = 1
    BY DEF MarkerMeansWhole
  <2>1. TypeOK /\ CompleteIsWhole /\ StoredInOneBlob
    BY DEF IndInv
  <2>2. f \in Files /\ Count[f] = ChunkCount(f)
    <3>1. blobs[b] \in Blob
      BY <2>1, Typed
    <3> QED BY <3>1 DEF Blob, Count
  <2>3. PICK s \in 1 .. Count[f] : c = <<f, s>>
    BY <2>2 DEF Chunks
  <2>4. PICK d \in DOMAIN blobs : c \in blobs[d].chunks
    BY <2>1, <2>3 DEF CompleteIsWhole
  <2>5. {e \in DOMAIN blobs : c \in blobs[e].chunks} = {d}
    BY <2>1, <2>4 DEF StoredInOneBlob
  <2>6. Cardinality({d}) = 1
    BY FS_Singleton, Zenon
  <2> QED BY <2>5, <2>6, Zenon
<1> QED BY <1>1, InvHolds, PTL

(* For any limits for which a vault can be configured, no put takes the    *)
(* estimate of a blob over max_blob_size.                                  *)
THEOREM CapacityIsKept == Spec => []WithinCapacity
<1>1. IndInv => WithinCapacity
  BY Estimates DEF IndInv, Fits, WithinCapacity
<1> QED BY <1>1, InvHolds, PTL

-----------------------------------------------------------------------------
(* How many blobs a put appends, when files are not split from the first   *)
(* blob on.  The blobs a put has appended are empty until it writes.       *)

\* How many blobs the vault had when the put began.
Had == Len(blobs) - appended

\* The appended blob that the cursor meets next, and those of the plan.
NextNew == IF next_blob_cursor < Had THEN Had + 1 ELSE next_blob_cursor + 1

UsedNew == {b \in Had + 1 .. Len(blobs) : \E s \in DOMAIN where : where[s] = b}

NewIsEmpty ==
  pc \in {"plan", "finalize", "append"} =>
    \A b \in Had + 1 .. Len(blobs) : blobs[b] = EmptyBlob

\* A plan of so many chunks has used the appended blobs from first on, around
\* to next.
Round(first, next, used, chunks, had, all) ==
  \/ /\ first <= next /\ used = first .. next - 1
     /\ next - first <= chunks
  \/ /\ next <= first /\ used = (first .. all) \cup (had + 1 .. next - 1)
     /\ (all - first + 1) + (next - had - 1) <= chunks

\* With more appended blobs than chunks, no appended blob is used twice.
\* While none is used, the cursor goes on through the blobs the vault had.
Striped ==
  (policy = "stripe" /\ pc \in {"plan", "finalize"} /\ appended >= Count[file]) =>
    /\ \E first \in Had + 1 .. Len(blobs) :
         Round(first, NextNew, UsedNew, Len(where), Had, Len(blobs))
    /\ \A s, t \in DOMAIN where : where[s] = where[t] /\ where[s] > Had => s = t
    /\ UsedNew = {} =>
         /\ appended - Count[file] + Len(where) <= next_blob_cursor
         /\ where # <<>> => next_blob_cursor <= Had

\* When the next blob is appended.
NoRoomFound ==
  pc = "append" =>
    /\ policy = "whole" => appended = 0
    /\ policy = "stripe" =>
         \/ appended < Count[file]
         \/ appended - Count[file] + 1 <= next_blob_cursor /\ next_blob_cursor <= Had

\* A whole file has its file_complete in its plan from the beginning.
ChunksAreFinalized == pc = "finalize" => policy # "whole"

AppendInv ==
  /\ policy # "split"
  /\ ChunksAreFinalized
  /\ NewIsEmpty
  /\ Striped
  /\ NoRoomFound
  /\ AppendsAreBounded

LEMMA SmallRemainder ==
  ASSUME NEW n \in Nat \ {0}, NEW x \in Nat, x < n + n
  PROVE  x % n = IF x < n THEN x ELSE x - n
<1> DEFINE q == x \div n
           r == x % n
<1>1. q \in Nat /\ r \in 0 .. n - 1 /\ x = n * q + r
  OBVIOUS
<1> HIDE DEF q, r
<1>2. q = 0 \/ q = 1
  <2>1. q >= 2 => n * q >= n + n
    BY <1>1
  <2> QED BY <1>1, <2>1
<1>3. n * 0 = 0 /\ n * 1 = n
  OBVIOUS
<1>4. r = IF x < n THEN x ELSE x - n
  BY <1>1, <1>2, <1>3
<1> QED BY <1>4 DEF r

\* effective_chunk_size: a chunk and the marker fit an empty blob.
LEMMA ChunkFitsABlob ==
  ASSUME policy \in Policies, policy # "whole", NEW f \in Files, NEW s \in 1 .. ChunkCount(f)
  PROVE  ChunkCost(f, s) \in Int /\ ChunkCost(f, s) + COMPLETE_COST <= max_blob_size
<1> DEFINE C == ChunkSize
           K == ChunkCount(f)
           L == Size[f]
<1>1. /\ max_chunk_size \in Nat \ {0} /\ max_blob_size \in Nat \ {0}
      /\ CHUNK_COST \in Nat /\ COMPLETE_COST \in Nat
  BY PutAssumption
<1>2. C \in Nat \ {0} /\ L \in Nat /\ K \in Nat \ {0}
  BY ChunkSizePositive, SizeType, ChunkCountFacts
<1>3. C <= max_blob_size - CHUNK_COST - COMPLETE_COST
  <2> DEFINE T == {max_chunk_size, max_blob_size - CHUNK_COST - COMPLETE_COST}
  <2>1. C = Min(T)
    BY DEF ChunkSize, split_files_across_blobs
  <2>2. max_blob_size > CHUNK_COST + COMPLETE_COST
    <3>1. Policies # {"whole"}
      OBVIOUS
    <3> QED BY <3>1, PutAssumption
  <2>3. T \subseteq Nat /\ T # {}
    BY <1>1, <2>2
  <2> HIDE DEF C
  <2>4. \A y \in T : Min(T) <= y
    BY <2>3, MinOfNaturals
  <2> QED BY <2>1, <2>4
<1> HIDE DEF C, K, L
<1>4. L <= (K - 1) * C + C
  <2> DEFINE q == (L + C - 1) \div C
             r == (L + C - 1) % C
  <2>1. L + C - 1 = C * q + r /\ r \in 0 .. C - 1 /\ q \in Nat
    BY <1>2
  <2>2. K = Max({1, q})
    BY DEF ChunkCount, K, C, L
  <2> HIDE DEF q, r
  <2>3. K >= q
    <3>1. K = IF 1 >= q THEN 1 ELSE q
      <4>1. 1 \in Int /\ q \in Int
        BY <2>1
      <4> QED BY <2>2, <4>1, MaxOfTwo
    <3> QED BY <2>1, <3>1
  <2>4. C * q <= C * K /\ C * K \in Nat
    BY <1>2, <2>1, <2>3
  <2>5. (K - 1) * C + C = C * K
    BY <1>2
  <2> QED BY <1>2, <2>1, <2>4, <2>5
<1>5. ChunkLength(f, s) \in Int /\ ChunkLength(f, s) <= C
  <2>1. s < K \/ s = K
    BY <1>2 DEF K
  <2>2. CASE s < K
    BY <1>2, <2>2 DEF ChunkLength, C, K
  <2>3. CASE s = K
    <3> DEFINE p == (K - 1) * C
    <3>1. p \in Int
      BY <1>2
    <3>2. ChunkLength(f, s) = L - p
      BY <1>2, <2>3 DEF ChunkLength, C, K, L
    <3> HIDE DEF p
    <3>3. L <= p + C
      BY <1>4 DEF p
    <3> QED BY <1>2, <3>1, <3>2, <3>3
  <2> QED BY <2>1, <2>2, <2>3
<1> QED BY <1>1, <1>2, <1>3, <1>5 DEF ChunkCost

\* An appended blob that the plan does not use has room for anything that
\* fits a blob.
LEMMA EmptyBlobHasRoom ==
  ASSUME TypeOK, Finite, NEW b \in DOMAIN blobs, blobs[b] = EmptyBlob,
         \A s \in DOMAIN where : where[s] # b
  PROVE  EstimatedSize(b) + Planned(b) = 0 /\ Load(b) = 0
<1>1. IsFiniteSet({}) /\ Cardinality({}) = 0
  BY FS_EmptySet
<1>2. Load(b) = 0
  <2>1. Load(b) = SumOver(Cost, {}) + COMPLETE_COST * Cardinality({})
    BY DEF Load, EmptyBlob
  <2>2. COMPLETE_COST \in Nat
    BY PutAssumption
  <2> QED BY <1>1, <2>1, <2>2, SumOfNothing
<1>3. Extra(b) = 0
  <2>1. ToStore(b) = {}
    BY DEF ToStore, PlannedFor
  <2> QED BY <2>1, SumOfNothing DEF Extra
<1> QED BY <1>2, <1>3, Estimates

\* choose_blob_inner: where the search goes, striping.
LEMMA Search ==
  ASSUME TypeOK, policy # "split", NEW k \in 0 .. Len(blobs) - 1
  PROVE  At(k) = IF next_blob_cursor + k < Len(blobs) THEN next_blob_cursor + k + 1
                 ELSE next_blob_cursor + k + 1 - Len(blobs)
<1> DEFINE n == Len(blobs)
           c == next_blob_cursor
<1>1. n \in Nat \ {0}
  BY Typed
<1>2. c \in 0 .. n - 1
  BY DEF TypeOK
<1>3. Start = c
  <2>1. policy \in {"whole", "stripe"}
    BY PutAssumption DEF TypeOK
  <2>2. Start = c % n
    BY <2>1 DEF Start, split_files_across_blobs, stripe_chunks_across_blobs
  <2> HIDE DEF n, c
  <2>3. c \in Nat /\ c < n + n /\ c < n
    BY <1>1, <1>2
  <2> QED BY <1>1, <2>2, <2>3, SmallRemainder
<1>4. At(k) = 1 + ((c + k) % n)
  BY <1>3 DEF At
<1>5. k \in Nat /\ k < n
  OBVIOUS
<1> HIDE DEF n, c
<1>6. PICK x \in Nat : x = c + k
  BY <1>1, <1>2, <1>5
<1>7. x < n + n
  BY <1>1, <1>2, <1>5, <1>6
<1>8. x % n = IF x < n THEN x ELSE x - n
  BY <1>1, <1>7, SmallRemainder
<1>9. At(k) = IF c + k < n THEN c + k + 1 ELSE c + k + 1 - n
  BY <1>1, <1>2, <1>4, <1>5, <1>6, <1>8
<1> QED BY <1>9 DEF n, c

\* The search meets a blob with room, and chooses the first it meets.
LEMMA RoomIsFound ==
  ASSUME TypeOK, Finite, policy # "split", NEW cost \in Int,
         NEW b \in next_blob_cursor + 1 .. Len(blobs),
         EstimatedSize(b) + Planned(b) + cost <= max_blob_size
  PROVE  /\ WithRoom(cost) # {}
         /\ Chosen(cost) \in next_blob_cursor + 1 .. b
<1>1. PICK n \in Nat \ {0}, c \in Nat : n = Len(blobs) /\ c = next_blob_cursor /\ c < n
  BY Typed DEF TypeOK
<1>2. PICK k \in Nat : k = b - c - 1
  BY <1>1
<1>3. k \in 0 .. n - 1 /\ c + k < n /\ c + k + 1 = b
  BY <1>1, <1>2
<1>4. At(k) = b
  BY <1>1, <1>3, Search
<1>5. k \in WithRoom(cost)
  BY <1>1, <1>3, <1>4 DEF WithRoom
<1>6. PICK m : m = Min(WithRoom(cost))
  OBVIOUS
<1>7. m \in WithRoom(cost) /\ m <= k
  <2>1. WithRoom(cost) \subseteq Nat
    BY <1>1 DEF WithRoom
  <2> QED BY <1>5, <1>6, <2>1, MinOfNaturals
<1>8. m \in 0 .. n - 1
  BY <1>1, <1>7 DEF WithRoom
<1>9. c + m < n /\ c + m + 1 \in c + 1 .. b
  BY <1>1, <1>3, <1>7, <1>8
<1>10. At(m) = c + m + 1
  BY <1>1, <1>8, <1>9, Search
<1>11. Chosen(cost) = At(m)
  BY <1>6 DEF Chosen
<1> QED BY <1>1, <1>5, <1>9, <1>10, <1>11

\* One chunk more in the plan goes to the appended blob that is next.
LEMMA RoundGoesOn ==
  ASSUME NEW all \in Nat, NEW had \in Nat, had < all, NEW chunks \in Nat, chunks < all - had,
         NEW first \in had + 1 .. all, NEW next \in had + 1 .. all, NEW used,
         Round(first, next, used, chunks, had, all)
  PROVE  /\ next \notin used
         /\ Round(first, IF next < all THEN next + 1 ELSE had + 1, used \cup {next},
                  chunks + 1, had, all)
<1>1. CASE /\ first <= next /\ used = first .. next - 1
           /\ next - first <= chunks
  <2>1. CASE next < all
    <3>1. used \cup {next} = first .. next + 1 - 1
      BY <1>1, <2>1
    <3> QED BY <1>1, <2>1, <3>1 DEF Round
  <2>2. CASE ~(next < all)
    <3>1. used \cup {next} = (first .. all) \cup (had + 1 .. had + 1 - 1)
      BY <1>1, <2>2
    <3>2. (all - first + 1) + (had + 1 - had - 1) <= chunks + 1
      BY <1>1, <2>2
    <3> QED BY <1>1, <2>2, <3>1, <3>2 DEF Round
  <2> QED BY <2>1, <2>2
<1>2. CASE /\ next <= first /\ used = (first .. all) \cup (had + 1 .. next - 1)
           /\ (all - first + 1) + (next - had - 1) <= chunks
  <2>1. next < first /\ next < all
    BY <1>2
  <2>2. used \cup {next} = (first .. all) \cup (had + 1 .. next + 1 - 1)
    BY <1>2, <2>1
  <2>3. (all - first + 1) + (next + 1 - had - 1) <= chunks + 1
    BY <1>2
  <2> QED BY <1>2, <2>1, <2>2, <2>3 DEF Round
<1> QED BY <1>1, <1>2 DEF Round

LEMMA HadFacts ==
  ASSUME TypeOK
  PROVE  /\ Len(blobs) \in Nat \ {0} /\ appended \in Nat /\ Had \in Nat \ {0}
         /\ Had + appended = Len(blobs) /\ next_blob_cursor \in 0 .. Len(blobs) - 1
         /\ appended > 0 => NextNew \in Had + 1 .. Len(blobs)
         /\ Len(where) \in Nat /\ DOMAIN where = 1 .. Len(where)
         /\ Count[file] \in Nat \ {0}
<1>1. /\ Len(blobs) \in Nat \ {0} /\ Len(where) \in Nat /\ DOMAIN where = 1 .. Len(where)
      /\ Count[file] \in Nat \ {0}
  BY Typed
<1>2. appended \in 0 .. Len(blobs) - 1 /\ next_blob_cursor \in 0 .. Len(blobs) - 1
  BY DEF TypeOK
<1>3. Had = Len(blobs) - appended
  BY DEF Had
<1>4. Had \in Nat \ {0} /\ Had + appended = Len(blobs) /\ appended \in Nat
  BY <1>1, <1>2, <1>3
<1>5. appended > 0 => NextNew \in Had + 1 .. Len(blobs)
  BY <1>1, <1>2, <1>4 DEF NextNew
<1> QED BY <1>1, <1>2, <1>4, <1>5

\* PlanChunk, with more appended blobs than chunks: there is room, on a blob
\* the vault had or on the appended one that is next.
LEMMA NextIsNew ==
  ASSUME IndInv, NewIsEmpty, Striped, policy = "stripe", pc = "plan", appended >= Count[file],
         NEW cost \in Int, cost <= max_blob_size
  PROVE  /\ NextNew \notin UsedNew /\ WithRoom(cost) # {}
         /\ Chosen(cost) \in next_blob_cursor + 1 .. NextNew
<1>1. TypeOK /\ Finite /\ Len(where) < Count[file]
  BY DEF IndInv, PlanGrows
<1>2. PICK had \in Nat, all \in Nat, n \in Nat, m \in Nat :
        /\ had = Had /\ all = Len(blobs) /\ n = NextNew /\ m = Len(where)
        /\ n \in had + 1 .. all /\ had < all /\ m < all - had
  <2>1. /\ Had \in Nat /\ Len(blobs) \in Nat /\ NextNew \in Had + 1 .. Len(blobs)
        /\ Len(where) \in Nat /\ Had < Len(blobs) /\ Len(where) < Len(blobs) - Had
    <3>1. appended > 0 /\ Len(where) < appended
      BY <1>1, HadFacts
    <3> QED BY <1>1, <3>1, HadFacts
  <2>2. PICK had, all, n, m : had = Had /\ all = Len(blobs) /\ n = NextNew /\ m = Len(where)
    OBVIOUS
  <2>3. n \in Nat
    BY <2>1, <2>2
  <2> QED BY <2>1, <2>2, <2>3, Zenon
<1>3. n \notin UsedNew
  <2>1. PICK first \in had + 1 .. all : Round(first, n, UsedNew, m, had, all)
    BY <1>2 DEF Striped
  <2> QED BY <1>2, <2>1, RoundGoesOn
<1>4. blobs[n] = EmptyBlob /\ n \in DOMAIN blobs /\ \A s \in DOMAIN where : where[s] # n
  <2>1. blobs[n] = EmptyBlob
    BY <1>2 DEF NewIsEmpty
  <2>2. n \in DOMAIN blobs
    BY <1>1, <1>2, Typed
  <2>3. \A s \in DOMAIN where : where[s] # n
    BY <1>2, <1>3 DEF UsedNew
  <2> QED BY <2>1, <2>2, <2>3
<1>5. EstimatedSize(n) + Planned(n) + cost <= max_blob_size
  <2>1. EstimatedSize(n) + Planned(n) = 0
    BY <1>1, <1>4, EmptyBlobHasRoom
  <2> QED BY <2>1
<1>6. n \in next_blob_cursor + 1 .. Len(blobs)
  <2>1. next_blob_cursor \in Int /\ (next_blob_cursor < Had => n = Had + 1)
        /\ (~(next_blob_cursor < Had) => n = next_blob_cursor + 1)
    BY <1>1, <1>2, HadFacts DEF NextNew
  <2> QED BY <1>2, <2>1
<1>7. policy # "split"
  OBVIOUS
<1>8. WithRoom(cost) # {} /\ Chosen(cost) \in next_blob_cursor + 1 .. n
  BY <1>1, <1>5, <1>6, <1>7, RoomIsFound
<1> QED BY <1>2, <1>3, <1>8

\* The parts of AppendInv that a step of the planner keeps.
LEMMA SamePut ==
  ASSUME IndInv, AppendInv, UNCHANGED <<policy, blobs, file, appended>>
  PROVE  /\ Had' = Had /\ Count' = Count /\ policy' # "split" /\ AppendsAreBounded'
         /\ pc \in {"plan", "finalize"} => NewIsEmpty'
<1>1. Count' = Count /\ Had' = Had
  BY CostStays DEF Had
<1>2. policy' # "split"
  BY DEF AppendInv
<1>3. AppendsAreBounded'
  BY DEF AppendInv, AppendsAreBounded, ChunkCount, ChunkSize, split_files_across_blobs
<1>4. pc \in {"plan", "finalize"} => NewIsEmpty'
  BY <1>1 DEF AppendInv, NewIsEmpty
<1> QED BY <1>1, <1>2, <1>3, <1>4

\* Where the cursor goes when blob b is chosen.
LEMMA CursorGoesOn ==
  ASSUME NEW n \in Nat \ {0}, Len(blobs) = n, NEW b \in 1 .. n
  PROVE  CursorAfter(b) = IF b < n THEN b ELSE 0
<1>1. b \in Nat /\ b < n + n
  OBVIOUS
<1>2. b % n = IF b < n THEN b ELSE b - n
  BY <1>1, SmallRemainder
<1> QED BY <1>2 DEF CursorAfter

LEMMA RoundIsLonger ==
  ASSUME NEW first \in Int, NEW next \in Int, NEW used, NEW chunks \in Int, NEW had \in Int,
         NEW all \in Int, Round(first, next, used, chunks, had, all)
  PROVE  Round(first, next, used, chunks + 1, had, all)
BY DEF Round

LEMMA PlanChunkAppends ==
  ASSUME IndInv, AppendInv, PlanChunk
  PROVE  AppendInv'
<1> DEFINE s == Len(where) + 1
           cost == ChunkCost(file, s)
           b == Chosen(cost)
<1>1. TypeOK /\ PlanGrows
  BY DEF IndInv
<1>2. pc = "plan" /\ policy # "whole" /\ UNCHANGED <<policy, blobs, file, result, faults, appended>>
  BY DEF PlanChunk, split_files_across_blobs
<1>3. policy = "stripe" /\ policy \in Policies
  BY <1>1, <1>2, PutAssumption DEF AppendInv, TypeOK
<1>4. Had' = Had /\ Count' = Count /\ policy' # "split" /\ AppendsAreBounded' /\ NewIsEmpty'
  BY <1>2, SamePut
<1>5. /\ Len(blobs) \in Nat \ {0} /\ appended \in Nat /\ Had \in Nat \ {0}
      /\ Had + appended = Len(blobs) /\ next_blob_cursor \in 0 .. Len(blobs) - 1
      /\ appended > 0 => NextNew \in Had + 1 .. Len(blobs)
      /\ Len(where) \in Nat /\ DOMAIN where = 1 .. Len(where)
      /\ Count[file] \in Nat \ {0}
  BY <1>1, HadFacts
<1>6. Len(where) < Count[file]
  BY <1>1, <1>2 DEF PlanGrows
<1>7. cost \in Int /\ cost <= max_blob_size
  <2>1. s \in 1 .. ChunkCount(file) /\ file \in Files /\ max_blob_size \in Int /\ COMPLETE_COST \in Nat
    BY <1>1, <1>5, <1>6, Typed
  <2> HIDE DEF s
  <2>2. cost \in Int /\ cost + COMPLETE_COST <= max_blob_size
    BY <1>2, <1>3, <2>1, ChunkFitsABlob
  <2> HIDE DEF cost
  <2> QED BY <2>1, <2>2
<1>8. appended >= Count[file] =>
        /\ NextNew \notin UsedNew /\ WithRoom(cost) # {}
        /\ b \in next_blob_cursor + 1 .. NextNew
  <2> HIDE DEF cost
  <2> QED BY <1>2, <1>3, <1>7, NextIsNew DEF AppendInv
<1>9. ChunksAreFinalized'
  BY <1>2 DEF ChunksAreFinalized
<1>10. CASE WithRoom(cost) = {}
  <2>1. pc' = "append" /\ UNCHANGED next_blob_cursor
    BY <1>10 DEF PlanChunk
  <2>2. Striped'
    BY <2>1 DEF Striped
  <2>3. NoRoomFound'
    <3>1. ~(appended >= Count[file])
      BY <1>8, <1>10
    <3>2. appended < Count[file]
      BY <1>5, <3>1
    <3> QED BY <1>2, <1>3, <1>4, <2>1, <3>2 DEF NoRoomFound
  <2> QED BY <1>4, <1>9, <2>2, <2>3 DEF AppendInv
<1>11. CASE WithRoom(cost) # {}
  <2>1. /\ where' = Append(where, b) /\ next_blob_cursor' = CursorAfter(b)
        /\ pc' \in {"plan", "finalize"}
    BY <1>11 DEF PlanChunk
  <2>2. NoRoomFound'
    BY <2>1 DEF NoRoomFound
  <2> HIDE DEF cost, b
  <2>3. Striped'
    <3> SUFFICES ASSUME appended >= Count[file]
                 PROVE  /\ \E first \in Had + 1 .. Len(blobs) :
                             Round(first, NextNew', UsedNew', Len(where'), Had, Len(blobs))
                        /\ \A x, y \in DOMAIN where' : where'[x] = where'[y] /\ where'[x] > Had => x = y
                        /\ UsedNew' = {} =>
                             /\ appended - Count[file] + Len(where') <= next_blob_cursor'
                             /\ where' # <<>> => next_blob_cursor' <= Had
      BY <1>2, <1>4 DEF Striped
    <3>1. PICK h \in Nat, n \in Nat, c \in Nat, m \in Nat, k \in Nat :
            h = Had /\ n = Len(blobs) /\ c = next_blob_cursor /\ m = Len(where) /\ k = NextNew
      <4>1. appended > 0
        BY <1>5
      <4>2. NextNew \in Nat
        BY <1>5, <4>1
      <4>3. next_blob_cursor \in Nat
        BY <1>5
      <4> QED BY <1>5, <4>2, <4>3, Zenon
    <3>2. /\ h >= 1 /\ h < n /\ c < n /\ k \in h + 1 .. n /\ m < n - h
          /\ b \in c + 1 .. k /\ k \notin UsedNew /\ b \in 1 .. n
      BY <1>5, <1>6, <1>8, <3>1
    <3>3. k = IF c < h THEN h + 1 ELSE c + 1
      BY <3>1 DEF NextNew
    <3>4. /\ DOMAIN where' = DOMAIN where \cup {s} /\ s \notin DOMAIN where /\ Len(where') = m + 1
          /\ where'[s] = b /\ \A x \in DOMAIN where : where'[x] = where[x]
      <4>1. where \in Seq(1 .. n)
        BY <1>1, <3>1, Typed
      <4>2. DOMAIN where = 1 .. m /\ s = m + 1
        BY <1>5, <3>1
      <4> HIDE DEF s
      <4> QED BY <2>1, <3>1, <3>2, <4>1, <4>2
    <3> HIDE DEF s
    <3>5. next_blob_cursor' = IF b < n THEN b ELSE 0
      <4>1. n \in Nat \ {0} /\ b \in 1 .. n
        BY <3>2
      <4> QED BY <2>1, <3>1, <4>1, CursorGoesOn
    <3>6. PICK first \in h + 1 .. n : Round(first, k, UsedNew, m, h, n)
      BY <1>2, <1>3, <3>1 DEF AppendInv, Striped
    <3>7. /\ \A x, y \in DOMAIN where : where[x] = where[y] /\ where[x] > h => x = y
          /\ UsedNew = {} => appended - Count[file] + m <= c
      BY <1>2, <1>3, <3>1 DEF AppendInv, Striped
    <3>8. UsedNew = {d \in h + 1 .. n : \E x \in DOMAIN where : where[x] = d}
      BY <3>1 DEF UsedNew
    <3>9. UsedNew' = {d \in h + 1 .. n : \E x \in DOMAIN where' : where'[x] = d}
      BY <1>2, <1>4, <3>1 DEF UsedNew
    <3>10. NextNew' = IF next_blob_cursor' < h THEN h + 1 ELSE next_blob_cursor' + 1
      BY <1>4, <3>1 DEF NextNew
    <3>11. CASE b = k
      <4>1. UsedNew' = UsedNew \cup {k}
        BY <3>2, <3>4, <3>8, <3>9, <3>11
      <4>2. NextNew' = IF k < n THEN k + 1 ELSE h + 1
        BY <3>2, <3>5, <3>10, <3>11
      <4>3. Round(first, IF k < n THEN k + 1 ELSE h + 1, UsedNew \cup {k}, m + 1, h, n)
        <5>1. m < n - h /\ h < n /\ k \in h + 1 .. n
          BY <3>2
        <5> QED BY <3>6, <5>1, RoundGoesOn
      <4>4. Round(first, NextNew', UsedNew', Len(where'), Had, Len(blobs))
        BY <3>1, <3>4, <4>1, <4>2, <4>3
      <4>5. \A x \in DOMAIN where : where[x] # b
        BY <3>2, <3>8, <3>11
      <4>6. \A x, y \in DOMAIN where' : where'[x] = where'[y] /\ where'[x] > h => x = y
        BY <3>4, <3>7, <4>5
      <4> QED BY <3>1, <3>6, <4>1, <4>4, <4>6
    <3>12. CASE b # k
      <4>1. b <= h /\ c < h /\ b >= c + 1 /\ b \in Int
        BY <3>2, <3>3, <3>12
      <4>2. next_blob_cursor' = b /\ NextNew' = k
        BY <3>2, <3>3, <3>5, <3>10, <4>1
      <4>3. UsedNew' = UsedNew
        BY <3>4, <3>8, <3>9, <4>1
      <4>4. Round(first, k, UsedNew, m + 1, h, n)
        BY <3>6, RoundIsLonger
      <4>5. Round(first, NextNew', UsedNew', Len(where'), Had, Len(blobs))
        BY <3>1, <3>4, <4>2, <4>3, <4>4
      <4>6. \A x, y \in DOMAIN where' : where'[x] = where'[y] /\ where'[x] > h => x = y
        <5>1. ~(b > h)
          BY <4>1
        <5> QED BY <3>4, <3>7, <5>1
      <4>7. UsedNew' = {} => appended - Count[file] + (m + 1) <= b
        BY <1>5, <3>7, <4>1, <4>3
      <4> QED BY <3>1, <3>4, <3>6, <4>1, <4>2, <4>5, <4>6, <4>7
    <3> QED BY <3>11, <3>12
  <2> QED BY <1>4, <1>9, <2>2, <2>3 DEF AppendInv
<1> QED BY <1>10, <1>11

\* The call is over, or it writes: the next put begins the count again.
LEMMA NoMoreAppends ==
  ASSUME IndInv, AppendInv, pc' \in {"idle", "write"}, UNCHANGED <<policy, file, appended>>,
         Len(blobs') = Len(blobs)
  PROVE  AppendInv'
<1>1. NewIsEmpty' /\ Striped' /\ NoRoomFound' /\ ChunksAreFinalized'
  BY DEF NewIsEmpty, Striped, NoRoomFound, ChunksAreFinalized
<1>2. policy' # "split"
  BY DEF AppendInv
<1>3. AppendsAreBounded'
  BY DEF AppendInv, AppendsAreBounded, ChunkCount, ChunkSize, split_files_across_blobs
<1> QED BY <1>1, <1>2, <1>3 DEF AppendInv

LEMMA PutAppends ==
  ASSUME IndInv, AppendInv, NEW f \in Files, Put(f)
  PROVE  AppendInv'
<1>1. /\ pc = "idle" /\ file' = f /\ appended' = 0 /\ pc' \in {"idle", "plan"}
      /\ UNCHANGED <<policy, blobs, next_blob_cursor>>
  BY DEF Put
<1>2. Count' = Count /\ policy \in Policies /\ TypeOK /\ Len(blobs) \in Nat
  BY <1>1, CostStays, Typed DEF IndInv
<1>3. Count[f] \in Nat \ {0} /\ Count[f] = ChunkCount(f)
  BY <1>2, CostType DEF Count
<1>4. Had' = Len(blobs)
  BY <1>1, <1>2 DEF Had
<1>5. NewIsEmpty'
  BY <1>1, <1>2, <1>4 DEF NewIsEmpty
<1>6. Striped'
  BY <1>1, <1>2, <1>3 DEF Striped
<1>7. NoRoomFound' /\ ChunksAreFinalized'
  BY <1>1 DEF NoRoomFound, ChunksAreFinalized
<1>8. AppendsAreBounded'
  <2>1. ChunkCount(file)' = Count'[file']
    BY <1>1 DEF Count
  <2> QED BY <1>1, <1>2, <1>3, <2>1 DEF AppendsAreBounded
<1> QED BY <1>1, <1>5, <1>6, <1>7, <1>8 DEF AppendInv

\* For a whole file one blob is appended at most: it has room for any file
\* that is not refused.
LEMMA PlanWholeAppends ==
  ASSUME IndInv, AppendInv, PlanWhole
  PROVE  AppendInv'
<1> DEFINE cost == FileCost(file)
<1>1. TypeOK /\ Finite /\ PlanGrows
  BY DEF IndInv
<1>2. pc = "plan" /\ policy = "whole" /\ UNCHANGED <<policy, blobs, file, appended>>
  BY DEF PlanWhole, split_files_across_blobs
<1>3. where = <<>>
  BY <1>1, <1>2 DEF PlanGrows
<1>4. Had' = Had /\ Count' = Count /\ policy' # "split" /\ AppendsAreBounded' /\ NewIsEmpty'
  BY <1>2, SamePut
<1>5. CASE pc' # "append"
  <2>1. pc' \in {"idle", "write"}
    BY <1>5 DEF PlanWhole, Return
  <2> QED BY <1>2, <2>1, NoMoreAppends
<1>6. CASE pc' = "append"
  <2>1. ~ cost > max_blob_size /\ WithRoom(cost) = {}
    BY <1>6 DEF PlanWhole, Return
  <2>2. cost \in Int
    <3>1. /\ ChunkCount(file) \in Nat /\ COMPLETE_COST \in Nat /\ Size[file] \in Nat
          /\ CHUNK_COST \in Nat
      BY <1>1, Typed, SizeType, PutAssumption
    <3> QED BY <3>1 DEF FileCost
  <2>3. /\ Len(blobs) \in Nat /\ appended \in Nat /\ Had \in Nat \ {0}
        /\ next_blob_cursor \in 0 .. Len(blobs) - 1 /\ max_blob_size \in Nat
        /\ appended > 0 => NextNew \in Had + 1 .. Len(blobs)
    BY <1>1, HadFacts, Typed
  <2> HIDE DEF cost
  <2>4. ASSUME appended > 0
        PROVE  FALSE
    <3>1. NextNew \in Had + 1 .. Len(blobs) /\ NextNew \in DOMAIN blobs
      BY <1>1, <2>3, <2>4, Typed
    <3>2. blobs[NextNew] = EmptyBlob
      BY <1>2, <3>1 DEF AppendInv, NewIsEmpty
    <3>3. EstimatedSize(NextNew) + Planned(NextNew) = 0
      <4>1. \A s \in DOMAIN where : where[s] # NextNew
        BY <1>3
      <4> QED BY <1>1, <3>1, <3>2, <4>1, EmptyBlobHasRoom
    <3>4. EstimatedSize(NextNew) + Planned(NextNew) + cost <= max_blob_size
      BY <2>1, <2>2, <2>3, <3>3
    <3>5. NextNew \in next_blob_cursor + 1 .. Len(blobs)
      BY <2>3, <3>1 DEF NextNew
    <3> QED BY <1>1, <1>2, <2>1, <2>2, <3>4, <3>5, RoomIsFound
  <2>5. appended = 0
    BY <2>3, <2>4
  <2>6. Striped' /\ NoRoomFound' /\ ChunksAreFinalized'
    BY <1>2, <1>6, <2>5 DEF Striped, NoRoomFound, ChunksAreFinalized
  <2> QED BY <1>4, <2>6 DEF AppendInv
<1> QED BY <1>5, <1>6

\* The file_complete does not fit.  With more appended blobs than chunks it
\* is not for an appended blob: that one has a single chunk.
LEMMA FinalizeAppends ==
  ASSUME IndInv, AppendInv, Finalize
  PROVE  AppendInv'
<1> DEFINE After(b) == EstimatedSize(b) + Planned(b) + (IF b = MarkerBlob THEN COMPLETE_COST ELSE 0)
           fits == \A b \in DOMAIN blobs : PlannedFor(b) # {} => After(b) <= max_blob_size
<1>1. TypeOK /\ Finite /\ Fits /\ PlanGrows
  BY DEF IndInv
<1>2. pc = "finalize" /\ UNCHANGED <<policy, blobs, next_blob_cursor, file, appended>>
  BY DEF Finalize
<1>3. Had' = Had /\ Count' = Count /\ policy' # "split" /\ AppendsAreBounded' /\ NewIsEmpty'
  BY <1>2, SamePut
<1>4. CASE fits
  <2>1. pc' = "write"
    BY <1>4 DEF Finalize
  <2> HIDE DEF fits
  <2> QED BY <1>2, <2>1, NoMoreAppends
<1>5. CASE ~ fits
  <2>1. pc' = "append" /\ where' = <<>>
    BY <1>5 DEF Finalize
  <2>2. PICK d \in DOMAIN blobs : PlannedFor(d) # {} /\ ~ After(d) <= max_blob_size
    BY <1>5
  <2> HIDE DEF fits
  <2>3. /\ Len(where) = Count[file] /\ where # <<>>
        /\ Len(blobs) \in Nat /\ appended \in Nat /\ Had \in Nat /\ Count[file] \in Nat \ {0}
        /\ next_blob_cursor \in Nat /\ DOMAIN where = 1 .. Len(where)
        /\ max_blob_size \in Nat /\ COMPLETE_COST \in Nat
        /\ \A s \in DOMAIN where : where[s] \in 1 .. Len(blobs)
    <3>1. Len(where) = Count[file]
      BY <1>1, <1>2 DEF PlanGrows
    <3>2. next_blob_cursor \in Nat /\ Count[file] \in Nat \ {0}
      BY <1>1, HadFacts
    <3> QED BY <1>1, <3>1, <3>2, HadFacts, Typed
  <2>4. /\ EstimatedSize(d) = Load(d) /\ Planned(d) = Extra(d) /\ Load(d) \in Int /\ Extra(d) \in Int
        /\ Load(d) + Extra(d) <= max_blob_size
    BY <1>1, <1>2, Estimates DEF Fits
  <2>5. d = MarkerBlob /\ Load(d) + Extra(d) + COMPLETE_COST > max_blob_size
    BY <2>2, <2>3, <2>4
  <2>6. ASSUME policy = "stripe", appended >= Count[file], UsedNew # {}
        PROVE  FALSE
    <3>1. PICK t \in DOMAIN where : where[t] = MarkerBlob
      BY <1>1, <2>3, MarkerIsLastUsed
    <3>2. PICK u \in DOMAIN where : where[u] \in Had + 1 .. Len(blobs)
      BY <2>6 DEF UsedNew
    <3>3. where[t] > Had /\ d \in Had + 1 .. Len(blobs)
      <4>1. where[u] <= MarkerBlob
        BY <1>1, <2>3, MarkerIsLastUsed DEF LastUsed
      <4>2. where[t] \in 1 .. Len(blobs)
        BY <2>3
      <4> QED BY <2>3, <2>5, <3>1, <3>2, <4>1, <4>2
    <3>4. \A x \in DOMAIN where : where[x] = d => x = t
      BY <1>2, <2>5, <2>6, <3>1, <3>3 DEF AppendInv, Striped
    <3>5. ToStore(d) = {<<file, t>>}
      BY <2>5, <3>1, <3>4 DEF ToStore, PlannedFor
    <3>6. Load(d) = 0
      <4>1. blobs[d] = EmptyBlob
        BY <1>2, <3>3 DEF AppendInv, NewIsEmpty
      <4>2. Load(d) = SumOver(Cost, {}) + COMPLETE_COST * Cardinality({})
        BY <4>1 DEF Load, EmptyBlob
      <4>3. Cardinality({}) = 0
        BY FS_EmptySet
      <4> QED BY <2>3, <4>2, <4>3, SumOfNothing
    <3>7. policy \in Policies /\ policy # "whole" /\ file \in Files /\ t \in Nat
          /\ t \in 1 .. ChunkCount(file)
      BY <1>1, <2>3, <2>6, Typed
    <3>8. ChunkCost(file, t) \in Int /\ ChunkCost(file, t) + COMPLETE_COST <= max_blob_size
      BY <3>7, ChunkFitsABlob
    <3>9. Cost[<<file, t>>] = ChunkCost(file, t)
      BY <3>7 DEF Cost
    <3>10. Extra(d) = ChunkCost(file, t)
      <4> DEFINE c == <<file, t>>
      <4>1. Cost[c] \in Int
        BY <3>8, <3>9
      <4> HIDE DEF c
      <4>2. IsFiniteSet({}) /\ c \notin {} /\ \A x \in {} \cup {c} : Cost[x] \in Int
        BY <4>1, FS_EmptySet
      <4>3. SumOver(Cost, {} \cup {c}) = Cost[c] + SumOver(Cost, {})
        BY <4>2, SumWith
      <4>4. {} \cup {c} = ToStore(d)
        BY <3>5 DEF c
      <4>5. SumOver(Cost, ToStore(d)) = Cost[c] + SumOver(Cost, {})
        BY <4>3, <4>4, Zenon
      <4>6. SumOver(Cost, ToStore(d)) = Cost[c]
        BY <4>1, <4>5, SumOfNothing
      <4> QED BY <3>9, <4>6 DEF Extra, c
    <3> QED BY <2>3, <2>5, <3>6, <3>8, <3>10
  <2>7. NoRoomFound'
    <3>1. policy # "whole"
      BY <1>2 DEF AppendInv, ChunksAreFinalized
    <3>2. CASE appended < Count[file]
      BY <1>2, <1>3, <3>1, <3>2 DEF NoRoomFound
    <3>3. CASE ~ appended < Count[file] /\ policy = "stripe"
      <4>1. appended >= Count[file]
        BY <2>3, <3>3
      <4>2. UsedNew = {}
        BY <2>6, <3>3, <4>1
      <4>3. appended - Count[file] + Len(where) <= next_blob_cursor /\ next_blob_cursor <= Had
        BY <1>2, <2>3, <3>3, <4>1, <4>2 DEF AppendInv, Striped
      <4>4. appended - Count[file] + 1 <= next_blob_cursor
        BY <2>3, <4>3
      <4> QED BY <1>2, <1>3, <3>1, <4>3, <4>4 DEF NoRoomFound
    <3> QED BY <1>2, <2>1, <3>1, <3>2, <3>3 DEF NoRoomFound
  <2>8. Striped' /\ ChunksAreFinalized'
    BY <2>1 DEF Striped, ChunksAreFinalized
  <2> QED BY <1>3, <2>7, <2>8 DEF AppendInv
<1> QED BY <1>4, <1>5

LEMMA AppendBlobAppends ==
  ASSUME IndInv, AppendInv, AppendBlob
  PROVE  AppendInv'
<1>1. TypeOK /\ PlanGrows
  BY DEF IndInv
<1>2. /\ pc = "append" /\ pc' = "plan"
      /\ blobs' = Append(blobs, EmptyBlob) /\ appended' = appended + 1
      /\ UNCHANGED <<policy, next_blob_cursor, file, where>>
  BY DEF AppendBlob
<1>3. where' = <<>>
  BY <1>1, <1>2 DEF PlanGrows
<1>4. /\ Len(blobs) \in Nat \ {0} /\ appended \in Nat /\ Had \in Nat \ {0}
      /\ Had + appended = Len(blobs) /\ next_blob_cursor \in 0 .. Len(blobs) - 1
      /\ Count[file] \in Nat \ {0}
  BY <1>1, HadFacts
<1>5. /\ Len(blobs') = Len(blobs) + 1 /\ blobs'[Len(blobs) + 1] = EmptyBlob
      /\ \A b \in 1 .. Len(blobs) : blobs'[b] = blobs[b]
  <2>1. blobs \in Seq(Blob)
    BY <1>1, Typed
  <2> HIDE DEF Blob
  <2> QED BY <1>2, <2>1
<1>6. Had' = Had /\ Count' = Count
  <2>1. Had' = Len(blobs') - appended'
    BY DEF Had
  <2>2. Had' = Had
    BY <1>2, <1>4, <1>5, <2>1
  <2> QED BY <1>2, <2>2, CostStays
<1>7. NewIsEmpty'
  <2> SUFFICES ASSUME NEW b \in Had + 1 .. Len(blobs) + 1
               PROVE  blobs'[b] = EmptyBlob
    BY <1>5, <1>6 DEF NewIsEmpty
  <2>1. b = Len(blobs) + 1 \/ b \in Had + 1 .. Len(blobs)
    BY <1>4
  <2>2. b \in Had + 1 .. Len(blobs) => b \in 1 .. Len(blobs) /\ blobs[b] = EmptyBlob
    BY <1>2, <1>4 DEF AppendInv, NewIsEmpty
  <2> QED BY <1>5, <2>1, <2>2
<1>8. policy = "whole" \/ policy = "stripe"
  BY <1>1, PutAssumption DEF AppendInv, TypeOK
<1>9. policy = "whole" => appended = 0
  BY <1>2 DEF AppendInv, NoRoomFound
<1>10. policy = "stripe" =>
         \/ appended < Count[file]
         \/ appended - Count[file] + 1 <= next_blob_cursor /\ next_blob_cursor <= Had
  BY <1>2 DEF AppendInv, NoRoomFound
<1>11. Striped'
  <2> SUFFICES ASSUME policy = "stripe"
               PROVE  /\ \E first \in Had + 1 .. Len(blobs') :
                           Round(first, NextNew', UsedNew', Len(where'), Had, Len(blobs'))
                      /\ \A s, t \in DOMAIN where' : where'[s] = where'[t] /\ where'[s] > Had => s = t
                      /\ appended' - Count[file] + Len(where') <= next_blob_cursor'
                      /\ where' = <<>>
    BY <1>2, <1>6 DEF Striped
  <2>1. NextNew' = IF next_blob_cursor < Had THEN Had + 1 ELSE next_blob_cursor + 1
    BY <1>2, <1>6 DEF NextNew
  <2>2. NextNew' \in Had + 1 .. Len(blobs')
    BY <1>4, <1>5, <2>1
  <2>3. UsedNew' = {} /\ Len(where') = 0
    BY <1>3 DEF UsedNew
  <2>4. Round(NextNew', NextNew', UsedNew', Len(where'), Had, Len(blobs'))
    <3> DEFINE k == NextNew'
    <3>1. k \in Int
      BY <1>4, <2>1
    <3> HIDE DEF k
    <3>2. k .. k - 1 = {}
      BY <3>1
    <3>3. Round(k, k, {}, 0, Had, Len(blobs'))
      BY <3>1, <3>2 DEF Round
    <3> QED BY <2>3, <3>3 DEF k
  <2>5. \A s, t \in DOMAIN where' : where'[s] = where'[t] /\ where'[s] > Had => s = t
    BY <1>3
  <2>6. appended' - Count[file] + Len(where') <= next_blob_cursor'
    BY <1>2, <1>4, <1>10, <2>3
  <2> QED BY <1>3, <2>2, <2>4, <2>5, <2>6
<1>12. NoRoomFound' /\ ChunksAreFinalized'
  BY <1>2 DEF NoRoomFound, ChunksAreFinalized
<1>13. AppendsAreBounded'
  <2>1. ChunkCount(file)' = Count[file]
    <3>1. ChunkCount(file)' = Count'[file']
      <4>1. file' \in Files
        BY <1>1, <1>2 DEF TypeOK
      <4> QED BY <4>1 DEF Count
    <3> QED BY <1>2, <1>6, <3>1
  <2>2. appended + 1 <= Had + Count[file]
    BY <1>4, <1>8, <1>9, <1>10
  <2> QED BY <1>2, <1>4, <1>5, <2>1, <2>2 DEF AppendsAreBounded
<1> QED BY <1>2, <1>7, <1>11, <1>12, <1>13 DEF AppendInv

LEMMA AppendInvIsInductive ==
  ASSUME IndInv, AppendInv, [Next]_vars
  PROVE  AppendInv'
<1>1. TypeOK
  BY DEF IndInv
<1>2. ASSUME NEW f \in Files, Put(f)
      PROVE  AppendInv'
  BY <1>2, PutAppends
<1>3. CASE PlanWhole
  BY <1>3, PlanWholeAppends
<1>4. CASE PlanChunk
  BY <1>4, PlanChunkAppends
<1>5. CASE Finalize
  BY <1>5, FinalizeAppends
<1>6. CASE AppendBlob
  BY <1>6, AppendBlobAppends
<1>7. CASE WriteBlob
  <2>1. Len(blobs') = Len(blobs)
    <3>1. blobs \in Seq(Blob)
      BY <1>1, Typed
    <3>2. PICK b, new : blobs' = [blobs EXCEPT ![b] = new]
      BY <1>7 DEF WriteBlob
    <3> HIDE DEF Blob
    <3> QED BY <3>1, <3>2
  <2>2. pc' \in {"idle", "write"} /\ UNCHANGED <<policy, file, appended>>
    BY <1>7 DEF WriteBlob, Return
  <2> QED BY <2>1, <2>2, NoMoreAppends
<1>8. CASE WriteFails
  <2>1. pc' = "idle" /\ UNCHANGED <<policy, blobs, file, appended>>
    BY <1>8 DEF WriteFails, Return
  <2> QED BY <2>1, NoMoreAppends
<1>9. CASE UNCHANGED vars
  <2>1. UNCHANGED <<policy, blobs, next_blob_cursor, pc, file, where, result, faults, appended>>
    BY <1>9 DEF vars
  <2>2. Had' = Had /\ Count' = Count /\ policy' # "split" /\ AppendsAreBounded'
    BY <2>1, SamePut
  <2>3. NewIsEmpty' /\ ChunksAreFinalized' /\ NoRoomFound'
    BY <2>1, <2>2 DEF AppendInv, NewIsEmpty, ChunksAreFinalized, NoRoomFound
  <2>4. NextNew' = NextNew /\ UsedNew' = UsedNew
    BY <2>1, <2>2 DEF NextNew, UsedNew
  <2>5. Striped'
    BY <2>1, <2>2, <2>4 DEF AppendInv, Striped
  <2> QED BY <2>2, <2>3, <2>5 DEF AppendInv
<1> QED BY <1>2, <1>3, <1>4, <1>5, <1>6, <1>7, <1>8, <1>9 DEF Next, Working

(* When files are whole or their chunks are striped, a put appends no more *)
(* blobs than the vault had when it began and its file has chunks: each    *)
(* empty blob is met by the cursor before the next one is appended.  (With *)
(* files split from the first blob on this is not so.)                     *)
THEOREM AppendsStayBounded == Spec => [](policy # "split" => AppendsAreBounded)
<1> DEFINE Inv == policy # "split" => AppendInv
<1>1. Init => Inv
  <2> SUFFICES ASSUME Init, policy # "split"
               PROVE  AppendInv
    OBVIOUS
  <2>1. IndInv
    BY InitInv
  <2>2. pc = "idle" /\ appended = 0 /\ Len(blobs) = 1
    BY DEF Init
  <2>3. ChunkCount(file) \in Nat
    BY <2>1, Typed DEF IndInv
  <2>4. AppendsAreBounded
    BY <2>2, <2>3 DEF AppendsAreBounded
  <2> QED BY <2>2, <2>4 DEF AppendInv, ChunksAreFinalized, NewIsEmpty, Striped, NoRoomFound
<1>2. IndInv /\ Inv /\ [Next]_vars => Inv'
  <2> SUFFICES ASSUME IndInv, Inv, [Next]_vars, policy' # "split"
               PROVE  AppendInv'
    OBVIOUS
  <2>1. policy' = policy
    BY DEF Next, Working, Put, PlanWhole, PlanChunk, Finalize, AppendBlob, WriteBlob, WriteFails, vars
  <2> QED BY <2>1, AppendInvIsInductive
<1>3. Inv => (policy # "split" => AppendsAreBounded)
  BY DEF AppendInv
<1> QED BY <1>1, <1>2, <1>3, InvHolds, PTL DEF Spec
=============================================================================

--------------------------- MODULE PanMasterProofs ---------------------------
(***************************************************************************)
(* Proofs about the services of a network: PanMaster and PanLease, for any *)
(* number of nodes and records, roles and lease times; BcastOta, for any   *)
(* nodes, sizes and faults; and the types of their composition in MCPan.   *)
(***************************************************************************)
EXTENDS MCPan, TLAPS, FiniteSetTheorems, WellFoundedInduction

-----------------------------------------------------------------------------
(* Least and greatest elements *)

LEMMA LeastOf ==
    ASSUME NEW S, S \subseteq Nat, S # {}
    PROVE  Min(S) \in S /\ \A y \in S : Min(S) <= y
<1>. DEFINE Upto(k) == S \cap (0..k)
            F == {Upto(k) : k \in S}
            R == StrictSubsetOrdering(Nat)
<1>1. F \subseteq FiniteSubsetsOf(Nat) /\ F # {}
  <2>1. ASSUME NEW k \in S PROVE Upto(k) \in FiniteSubsetsOf(Nat)
    <3>1. IsFiniteSet(0..k)
      BY FS_Interval
    <3>2. IsFiniteSet(Upto(k))
      BY <3>1, FS_Subset
    <3>. QED BY <3>2 DEF FiniteSubsetsOf
  <2>. QED BY <2>1
<1>2. PICK M \in F : \A N \in F : <<N, M>> \notin R
  <2>1. IsWellFoundedOn(R, FiniteSubsetsOf(Nat))
    BY FS_StrictSubsetOrderingWellFounded
  <2>. HIDE DEF F, R
  <2>. QED BY <1>1, <2>1, WFMin
<1>3. PICK x \in S : M = Upto(x)
  OBVIOUS
<1>4. \A y \in S : x <= y
  <2>1. ASSUME NEW y \in S, y < x PROVE FALSE
    <3>1. Upto(y) \subseteq Upto(x) /\ x \in Upto(x) /\ x \notin Upto(y)
      BY <2>1
    <3>2. <<Upto(y), Upto(x)>> \in R
      BY <3>1 DEF StrictSubsetOrdering
    <3>. QED BY <1>2, <1>3, <3>2
  <2>. QED BY <2>1
<1>. QED BY <1>4 DEF Min

LEMMA GreatestOf ==
    ASSUME NEW S, S \subseteq Index, S # {}
    PROVE  Max(S) \in S
<1>. DEFINE T == {n \in Nat : MaxNodes - 1 - n \in S}
<1>1. \A x \in S : x \in Nat /\ MaxNodes - 1 - x \in Nat
  BY PanConstants DEF Index
<1>2. PICK x \in S : TRUE
  OBVIOUS
<1>3. MaxNodes - 1 - x \in T
  BY <1>1, <1>2, PanConstants
<1>4. Min(T) \in T /\ \A y \in T : Min(T) <= y
  BY <1>3, LeastOf
<1>5. ASSUME NEW y \in S PROVE MaxNodes - 1 - Min(T) >= y
  <2>1. MaxNodes - 1 - y \in T
    BY <1>1, PanConstants
  <2>2. Min(T) <= MaxNodes - 1 - y
    BY <1>4, <2>1
  <2>. QED BY <1>1, <1>4, <2>2, PanConstants
<1>. QED BY <1>4, <1>5 DEF Max

\* A set that is mapped one to one into another has no more elements.
LEMMA NotMore ==
    ASSUME NEW S, IsFiniteSet(S), NEW T, IsFiniteSet(T), NEW f \in [S -> T],
           \A x, y \in S : f[x] = f[y] => x = y
    PROVE  Cardinality(S) <= Cardinality(T)
<1>1. Cardinality(S) \in Nat /\ Cardinality(T) \in Nat
  BY FS_CardinalityType
<1>2. ~(Cardinality(T) < Cardinality(S))
  BY FS_PigeonHole
<1>. QED BY <1>1, <1>2

LEMMA IndexFinite ==
    /\ IsFiniteSet(Index) /\ Cardinality(Index) = MaxNodes
    /\ \A i \in Index : i \in Nat /\ i < MaxNodes
    /\ 0 \in Index
BY FS_Interval, PanConstants DEF Index

-----------------------------------------------------------------------------
(* Addresses and slots *)

LEMMA InRange == ASSUME NEW a \in Int, NEW b \in Int, 0 <= a, a <= b PROVE a \in 0..b
OBVIOUS

LEMMA Low12Type ==
    ASSUME NEW e \in Nat PROVE Low12(e) \in Int /\ 0 <= Low12(e) /\ Low12(e) < 4096
BY DEF Low12

LEMMA Low12Sum ==
    ASSUME NEW k \in Int, NEW r \in Int, 0 <= r, r < 4096
    PROVE  Low12(k * 4096 + r) = r
BY DEF Low12

\* All addresses tried for a node have its low 12 bits.
LEMMA CandidateAddr ==
    ASSUME NEW e \in Nat, NEW i \in Nat
    PROVE  Candidate(e, i) \in 0..FreeAddr /\ Low12(Candidate(e, i)) = Low12(e)
<1>0. FreeAddr \in Int /\ FreeAddr = 65535
  BY DEF FreeAddr
<1>1. PICK r \in Int : r = Low12(e) /\ 0 <= r /\ r < 4096
  BY Low12Type
<1>2. CASE i = 0
  <2>1. PICK w \in Int : w = e % 65536 /\ 0 <= w /\ w <= 65535
    OBVIOUS
  <2>2. Low12(w) = Low12(e)
    BY <2>1 DEF Low12
  <2>3. w \in 0..FreeAddr
    <3>1. FreeAddr \in Int /\ 0 <= w /\ w <= FreeAddr
      BY <1>0, <2>1
    <3>. QED BY ONLY <3>1, w \in Int, InRange
  <2>. QED BY <1>2, <2>1, <2>2, <2>3 DEF Candidate
<1>3. CASE i # 0
  <2>1. PICK k \in Int : k = i % 16 /\ 0 <= k /\ k < 16
    OBVIOUS
  <2>2. PICK a \in Int : a = k * 4096 + r /\ 0 <= a /\ a <= 65535
    BY <1>1, <2>1
  <2>3. Candidate(e, i) = a
    BY <1>1, <1>3, <2>1, <2>2 DEF Candidate
  <2>4. Low12(a) = r
    BY <1>1, <2>2, Low12Sum
  <2>5. a \in 0..FreeAddr
    <3>1. FreeAddr \in Int /\ 0 <= a /\ a <= FreeAddr
      BY <1>0, <2>2
    <3>. QED BY ONLY <3>1, a \in Int, InRange
  <2>. QED BY <1>1, <2>3, <2>4, <2>5
<1>. QED BY <1>2, <1>3

\* From the second on they differ, up to the fifteenth, and are neither 0 nor that
\* of a free record.
LEMMA CandidateHigh ==
    ASSUME NEW e \in Nat, NEW i \in 1..14
    PROVE  /\ Candidate(e, i) = i * 4096 + Low12(e)
           /\ Candidate(e, i) # 0 /\ Candidate(e, i) # FreeAddr
<1>1. PICK r \in Int : r = Low12(e) /\ 0 <= r /\ r < 4096
  BY Low12Type
<1>2. i % 16 = i /\ i # 0
  OBVIOUS
<1>3. Candidate(e, i) = i * 4096 + r
  BY <1>1, <1>2 DEF Candidate
<1>4. i * 4096 + r # 0 /\ i * 4096 + r # 65535
  BY <1>1
<1>. QED BY <1>1, <1>3, <1>4 DEF FreeAddr

\* An address that is found is not in the table.
LEMMA GoodAddr ==
    ASSUME NEW e \in Nat, FirstFreeAddr(e) # 0
    PROVE  /\ FirstFreeAddr(e) \in 0..FreeAddr
           /\ Low12(FirstFreeAddr(e)) = Low12(e)
           /\ \A j \in Index : addr[j] # FirstFreeAddr(e)
<1>. DEFINE good == {i \in Index : /\ Candidate(e, i) # 0
                                   /\ \A j \in Index : addr[j] # Candidate(e, i)}
<1>1. good # {} /\ FirstFreeAddr(e) = Candidate(e, Min(good))
  BY DEF FirstFreeAddr
<1>2. Min(good) \in good
  BY <1>1, LeastOf, IndexFinite
<1>3. PICK i \in Index : /\ FirstFreeAddr(e) = Candidate(e, i)
                         /\ \A j \in Index : addr[j] # Candidate(e, i)
  BY <1>1, <1>2
<1>4. i \in Nat
  BY IndexFinite
<1>5. Candidate(e, i) \in 0..FreeAddr /\ Low12(Candidate(e, i)) = Low12(e)
  BY <1>4, CandidateAddr
<1>. QED BY <1>3, <1>5

LEMMA FreeSlot ==
    ASSUME NEW a, NEW r
    PROVE  /\ FirstFreeSlot(a, r) \in 0..MaxNodes
           /\ FirstFreeSlot(a, r) \notin TakenSlots(a, r)
<1>. DEFINE free == {s \in 0..MaxNodes : s \notin TakenSlots(a, r)}
            holder == [s \in 0..MaxNodes |-> CHOOSE j \in Index : slot_id[j] = s]
<1>1. ASSUME free = {} PROVE FALSE
  <2>1. ASSUME NEW s \in 0..MaxNodes
        PROVE  holder[s] \in Index /\ slot_id[holder[s]] = s
    <3>1. PICK j \in Used : slot_id[j] = s
      BY <1>1 DEF TakenSlots
    <3>2. j \in Index
      BY DEF Used
    <3>. QED BY <3>1, <3>2
  <2>2. IsFiniteSet(0..MaxNodes) /\ Cardinality(0..MaxNodes) = MaxNodes + 1
    BY FS_Interval, PanConstants
  <2>3. holder \in [0..MaxNodes -> Index]
    BY <2>1
  <2>4. \A s, t \in 0..MaxNodes : holder[s] = holder[t] => s = t
    BY <2>1
  <2>. HIDE DEF holder
  <2>5. Cardinality(0..MaxNodes) <= Cardinality(Index)
    BY <2>2, <2>3, <2>4, IndexFinite, NotMore
  <2>. QED BY <2>2, <2>5, IndexFinite, PanConstants
<1>2. free \subseteq Nat
  BY PanConstants
<1>3. Min(free) \in free
  BY <1>1, <1>2, LeastOf
<1>. QED BY <1>3 DEF FirstFreeSlot

-----------------------------------------------------------------------------
(* The table *)

\* A node has one record, and no two records have the same address.
Unique == \A i, j \in Used : i # j => euid[i] # euid[j] /\ addr[i] # addr[j]

Known == \A i \in Used : euid[i] \in population

\* An address other than 0 is one of those tried for the node.
LowBits == \A i \in Used : addr[i] = 0 \/ Low12(addr[i]) = Low12(euid[i])

LEMMA NodesFinite ==
    ASSUME TypeOK
    PROVE  /\ IsFiniteSet(population) /\ Cardinality(population) \in Nat
           /\ \A e \in population : e \in Nat /\ e # 0
           /\ \A e : IsFiniteSet(Alike(e)) /\ Cardinality(Alike(e)) \in Nat
<1>1. population \in SUBSET Euids /\ IsFiniteSet(Euids)
  BY PanConstants DEF TypeOK
<1>2. IsFiniteSet(population)
  BY <1>1, FS_Subset
<1>3. \A e : Alike(e) \in SUBSET population
  BY DEF Alike
<1>4. \A e : IsFiniteSet(Alike(e))
  BY <1>2, <1>3, FS_Subset
<1>. QED BY <1>1, <1>2, <1>4, FS_CardinalityType, PanConstants

LEMMA UsedFinite ==
    ASSUME Used # Index
    PROVE  IsFiniteSet(Used) /\ Cardinality(Used) < MaxNodes
<1>1. Used \in SUBSET Index
  BY DEF Used
<1>2. /\ IsFiniteSet(Used) /\ Cardinality(Used) <= Cardinality(Index)
      /\ Cardinality(Index) # Cardinality(Used)
  BY <1>1, IndexFinite, FS_Subset
<1>3. Cardinality(Used) \in Nat
  BY <1>2, FS_CardinalityType
<1>. QED BY <1>2, <1>3, IndexFinite, PanConstants

\* The address of a new node is nobody's, even if it is 0.
LEMMA FreshAddr ==
    ASSUME TypeOK, Supported, Unique, Known, LowBits,
           NEW e \in population, RecordsOf(e) = {}, Used # Index
    PROVE  /\ FirstFreeAddr(e) \in 0..FreeAddr /\ FirstFreeAddr(e) # FreeAddr
           /\ \A j \in Used : addr[j] # FirstFreeAddr(e)
           /\ FirstFreeAddr(e) = 0 \/ Low12(FirstFreeAddr(e)) = Low12(e)
<1>0. /\ FreeAddr \in Nat /\ FreeAddr # 0 /\ e \in Nat
      /\ addr \in [Index -> 0..FreeAddr]
      /\ \A j \in Used : j \in Index /\ addr[j] # FreeAddr /\ euid[j] # e
  <2>1. FreeAddr \in Nat /\ FreeAddr # 0
    BY DEF FreeAddr
  <2>2. e \in Nat
    BY NodesFinite
  <2>. QED BY <2>1, <2>2 DEF TypeOK, Used, RecordsOf
<1>1. CASE FirstFreeAddr(e) # 0
  <2>1. PICK i \in Index : addr[i] = FreeAddr
    BY DEF Used
  <2>. QED BY <1>0, <1>1, <2>1, GoodAddr
<1>2. CASE FirstFreeAddr(e) = 0
  <2>. DEFINE H(k) == CHOOSE j \in Used : addr[j] = Candidate(e, k)
  <2>0. ASSUME NEW k \in 1..14
        PROVE  /\ Candidate(e, k) # 0 /\ Candidate(e, k) # FreeAddr
               /\ Low12(Candidate(e, k)) = Low12(e)
               /\ Candidate(e, k) = k * 4096 + Low12(e)
    <3>1. k \in Nat /\ e \in Nat
      BY <1>0
    <3>2. Low12(Candidate(e, k)) = Low12(e)
      BY <3>1, CandidateAddr
    <3>3. /\ Candidate(e, k) = k * 4096 + Low12(e)
          /\ Candidate(e, k) # 0 /\ Candidate(e, k) # FreeAddr
      BY <3>1, CandidateHigh
    <3>. QED BY <3>2, <3>3
  <2>1. ASSUME NEW k \in 1..14, k \in Index
        PROVE  H(k) \in Used /\ addr[H(k)] = Candidate(e, k)
    <3>1. Candidate(e, k) # 0 /\ Candidate(e, k) # FreeAddr
      BY <2>0
    <3>2. \E j \in Index : addr[j] = Candidate(e, k)
      <4>. DEFINE good == {i \in Index : /\ Candidate(e, i) # 0
                                         /\ \A j \in Index : addr[j] # Candidate(e, i)}
      <4>1. ASSUME good # {} PROVE FALSE
        <5>1. Min(good) \in good
          BY <4>1, LeastOf, IndexFinite
        <5>. QED BY <1>2, <4>1, <5>1 DEF FirstFreeAddr
      <4>. QED BY <2>1, <3>1, <4>1
    <3>3. \E j \in Used : addr[j] = Candidate(e, k)
      BY <3>1, <3>2 DEF Used
    <3>. QED BY <3>3
  <2>2. ASSUME NEW k \in 1..14, NEW l \in 1..14, Candidate(e, k) = Candidate(e, l)
        PROVE  k = l
    <3>1. PICK r \in Int : r = Low12(e)
      BY <1>0, Low12Type
    <3>2. k * 4096 + r = Candidate(e, k) /\ l * 4096 + r = Candidate(e, l)
      BY <2>0, <3>1
    <3>3. k * 4096 + r = l * 4096 + r
      BY <2>2, <3>2
    <3>. QED BY <3>3
  <2>3. ASSUME NEW j0 \in Used, addr[j0] = 0, MaxNodes < 16 PROVE FALSE
    <3>. DEFINE f == [k \in Index |-> IF k = 0 THEN j0 ELSE H(k)]
    <3>1. \A k \in Index : k # 0 => k \in 1..14
      BY <2>3, IndexFinite, PanConstants
    <3>2. \A k \in Index : k # 0 => /\ H(k) \in Used /\ addr[H(k)] = Candidate(e, k)
                                    /\ Candidate(e, k) # 0
      BY <2>0, <2>1, <3>1
    <3>. HIDE DEF H
    <3>3. f \in [Index -> Used]
      BY <3>2
    <3>4. ASSUME NEW k \in Index, NEW l \in Index, f[k] = f[l] PROVE k = l
      <4>1. CASE k = 0 \/ l = 0
        BY <2>3, <3>2, <3>4, <4>1
      <4>2. CASE k # 0 /\ l # 0
        <5>1. Candidate(e, k) = Candidate(e, l)
          BY <3>2, <3>4, <4>2
        <5>. QED BY <2>2, <3>1, <4>2, <5>1
      <4>. QED BY <4>1, <4>2
    <3>. HIDE DEF f
    <3>5. Cardinality(Index) <= Cardinality(Used)
      BY <3>3, <3>4, UsedFinite, IndexFinite, NotMore
    <3>6. Cardinality(Used) \in Nat
      BY UsedFinite, FS_CardinalityType
    <3>. QED BY <3>5, <3>6, UsedFinite, IndexFinite, PanConstants
  <2>4. ASSUME MaxNodes >= 16, Cardinality(Alike(e)) < 15 PROVE FALSE
    <3>. DEFINE f == [k \in 0..14 |-> IF k = 0 THEN e ELSE euid[H(k)]]
    <3>1. \A k \in 1..14 : /\ H(k) \in Used /\ addr[H(k)] = Candidate(e, k)
                           /\ Candidate(e, k) # 0
                           /\ Low12(Candidate(e, k)) = Low12(e)
      <4>1. \A k \in 1..14 : k \in Index
        BY <2>4, PanConstants DEF Index
      <4>. QED BY <2>0, <2>1, <4>1
    <3>. HIDE DEF H
    <3>2. \A k \in 1..14 : euid[H(k)] \in Alike(e) /\ euid[H(k)] # e
      <4>1. ASSUME NEW k \in 1..14
            PROVE  euid[H(k)] \in population /\ Low12(euid[H(k)]) = Low12(e)
        <5>1. H(k) \in Used /\ addr[H(k)] # 0 /\ Low12(addr[H(k)]) = Low12(e)
          BY <3>1
        <5>. QED BY <5>1 DEF Known, LowBits
      <4>. QED BY <1>0, <3>1, <4>1 DEF Alike
    <3>3. e \in Alike(e)
      BY DEF Alike
    <3>4. f \in [0..14 -> Alike(e)]
      BY <3>2, <3>3
    <3>5. ASSUME NEW k \in 0..14, NEW l \in 0..14, f[k] = f[l] PROVE k = l
      <4>1. CASE k = 0 \/ l = 0
        BY <3>2, <3>5, <4>1
      <4>2. CASE k # 0 /\ l # 0
        <5>1. H(k) = H(l)
          BY <3>1, <3>5, <4>2 DEF Unique
        <5>2. Candidate(e, k) = Candidate(e, l)
          BY <3>1, <4>2, <5>1
        <5>. QED BY <2>2, <4>2, <5>2
      <4>. QED BY <4>1, <4>2
    <3>. HIDE DEF f
    <3>6. IsFiniteSet(0..14) /\ Cardinality(0..14) = 15
      <4>1. ASSUME NEW n \in Nat
            PROVE  IsFiniteSet(0..n) /\ Cardinality(0..n) = n + 1
        BY FS_Interval
      <4>2. 14 \in Nat /\ 14 + 1 = 15
        OBVIOUS
      <4>. QED BY <4>1, <4>2, Zenon
    <3>7. Cardinality(0..14) <= Cardinality(Alike(e))
      BY <3>4, <3>5, <3>6, NodesFinite, NotMore
    <3>. QED BY <2>4, <3>6, <3>7, NodesFinite
  <2>5. MaxNodes < 16 \/ (MaxNodes >= 16 /\ Cardinality(Alike(e)) < 15)
    BY PanConstants DEF Supported
  <2>. QED BY <1>0, <1>2, <2>3, <2>4, <2>5
<1>. QED BY <1>1, <1>2

-----------------------------------------------------------------------------
(* Types *)

LEMMA Numbers ==
    /\ FreeAddr \in Nat /\ NoSlot \in Nat /\ 0 \in 0..FreeAddr /\ FreeAddr \in 0..FreeAddr
    /\ 0 \in 0..NoSlot /\ NoSlot \in 0..NoSlot /\ 0 \in 0..(WordMod - 1)
<1>1. FreeAddr \in Nat /\ NoSlot \in Nat
  BY DEF FreeAddr, NoSlot
<1>2. WordMod - 1 \in Nat
  BY PanConstants
<1>3. \A n \in Nat : 0 \in 0..n /\ n \in 0..n
  OBVIOUS
<1>. QED BY <1>1, <1>2, <1>3

LEMMA SlotType == ASSUME NEW a, NEW r PROVE FirstFreeSlot(a, r) \in 0..NoSlot
<1>1. PICK s \in 0..MaxNodes : s = FirstFreeSlot(a, r)
  BY FreeSlot
<1>2. s \in Int /\ 0 <= s /\ s <= NoSlot /\ NoSlot \in Int
  BY Numbers, PanConstants
<1>. QED BY <1>1, <1>2, InRange

\* StartLease
LEMMA LeaseType ==
    ASSUME TypeOK, NEW i \in Index, NEW r \in Roles, NEW l \in Leases,
           StartLease(i, r, l)
    PROVE  /\ lease_ends' \in [Index -> 0..(WordMod - 1)] /\ until' \in [Index -> Int]
           /\ asked' \in [Index -> Roles \cup {0}]
<1>1. up \in Nat /\ LeaseTime(l) \in Nat
  BY PanConstants DEF TypeOK, LeaseTime
<1>2. \A n \in Nat : n % WordMod \in 0..(WordMod - 1)
  BY PanConstants
<1>3. (up + LeaseTime(l)) % WordMod \in 0..(WordMod - 1) /\ up + LeaseTime(l) \in Int
  BY <1>1, <1>2
<1>. QED BY <1>3 DEF TypeOK, StartLease

LEMMA EntryType ==
    ASSUME NEW e \in Euids, NEW i \in Index, NEW a \in 0..FreeAddr,
           NEW r \in Roles \cup {0}, NEW b \in BOOLEAN
    PROVE  Entry(e, i, a, r, b) \in Nodes
BY DEF Entry, Nodes

LEMMA SaveType ==
    ASSUME TypeOK, NEW n \in Nodes, SaveNode(n)
    PROVE  /\ role' \in [Index -> Roles \cup {0}]
           /\ byIndex' \in [Index -> Nodes \cup {NoEntry}]
           /\ byEuid' \in [Euids -> Nodes \cup {NoEntry}]
<1>1. n.index \in Index /\ n.euid \in Euids /\ n.role \in Roles \cup {0}
  BY DEF Nodes
<1>. QED BY <1>1 DEF TypeOK, SaveNode

LEMMA RecordPlace ==
    ASSUME TypeOK, NEW e \in population
    PROVE  /\ RecordsOf(e) # {} => RecordFor(e) \in RecordsOf(e)
           /\ RecordsOf(e) = {} /\ Used # Index => RecordFor(e) \in Index \ Used
<1>1. RecordsOf(e) \subseteq Nat /\ Index \ Used \subseteq Nat
  BY IndexFinite DEF RecordsOf, Used
<1>2. Used # Index => Index \ Used # {}
  BY DEF Used
<1>. QED BY <1>1, <1>2, LeastOf DEF RecordFor

LEMMA SortedType ==
    ASSUME TypeOK
    PROVE  /\ Sorted \in [Index -> Nodes \cup {NoEntry}]
           /\ \A k \in Index : Sorted[k] # NoEntry =>
                \E i \in Stored : /\ Position(i) = k /\ byIndex[i] \in Nodes
                                  /\ Sorted[k] = [byIndex[i] EXCEPT !.index = k]
                                  /\ Sorted[k] \in Nodes
<1>1. ASSUME NEW k \in Index
      PROVE  \/ Sorted[k] = NoEntry
             \/ \E i \in Stored : /\ Position(i) = k /\ byIndex[i] \in Nodes
                                  /\ Sorted[k] = [byIndex[i] EXCEPT !.index = k]
                                  /\ Sorted[k] \in Nodes
  <2>1. CASE \E i \in Stored : Position(i) = k
    <3>. DEFINE i == CHOOSE j \in Stored : Position(j) = k
    <3>1. i \in Stored /\ Position(i) = k
      BY <2>1
    <3>2. Sorted[k] = [byIndex[i] EXCEPT !.index = k]
      BY <2>1 DEF Sorted
    <3>. HIDE DEF i
    <3>3. byIndex[i] \in Nodes
      BY <3>1 DEF Stored, TypeOK
    <3>4. [byIndex[i] EXCEPT !.index = k] \in Nodes
      BY <3>3 DEF Nodes
    <3>. QED BY <3>1, <3>2, <3>3, <3>4
  <2>2. CASE ~ \E i \in Stored : Position(i) = k
    BY <2>2 DEF Sorted
  <2>. QED BY <2>1, <2>2
<1>. QED BY <1>1 DEF Sorted

LEMMA TypeInit == Init => TypeOK
<1>. SUFFICES ASSUME Init PROVE TypeOK
  OBVIOUS
<1>1. 0 \in 0..MaxUp
  BY PanConstants
<1>. QED BY <1>1, Numbers DEF Init, TypeOK

LEMMA TypeRequest ==
    ASSUME TypeOK, NEW e \in population, NEW r \in Roles, NEW l \in Leases,
           RenewLease(e, r, l) \/ NewLease(e, r, l)
    PROVE  TypeOK'
<1>0. e \in Euids
  BY DEF TypeOK
<1>1. CASE RenewLease(e, r, l)
  <2>. DEFINE i == RecordFor(e)
  <2>1. i \in Index
    BY <1>1, RecordPlace DEF RenewLease, RecordsOf, Used
  <2>2. Entry(e, i, addr[i], r, FALSE) \in Nodes
    BY <1>0, <2>1, EntryType DEF TypeOK
  <2>3. FirstFreeSlot(addr[i], r) \in 0..NoSlot
    BY SlotType
  <2>4. /\ lease_ends' \in [Index -> 0..(WordMod - 1)] /\ until' \in [Index -> Int]
        /\ asked' \in [Index -> Roles \cup {0}]
    BY <1>1, <2>1, LeaseType DEF RenewLease
  <2>. HIDE DEF i
  <2>. QED BY <1>1, <2>1, <2>2, <2>3, <2>4 DEF RenewLease, TypeOK, flash, i
<1>2. CASE NewLease(e, r, l)
  <2>. DEFINE i == RecordFor(e)
              a == FirstFreeAddr(e)
  <2>1. i \in Index
    BY <1>2, RecordPlace DEF NewLease
  <2>2. a \in 0..FreeAddr
    <3>1. a # 0 => a \in 0..FreeAddr
      BY GoodAddr, NodesFinite
    <3>. QED BY <3>1, Numbers
  <2>. HIDE DEF a
  <2>3. Entry(e, i, a, r, TRUE) \in Nodes
    BY <1>0, <2>1, <2>2, EntryType
  <2>4. FirstFreeSlot(a, r) \in 0..NoSlot
    BY SlotType
  <2>5. /\ lease_ends' \in [Index -> 0..(WordMod - 1)] /\ until' \in [Index -> Int]
        /\ asked' \in [Index -> Roles \cup {0}]
    BY <1>2, <2>1, LeaseType DEF NewLease
  <2>. HIDE DEF i
  <2>. QED BY <1>0, <1>2, <2>1, <2>2, <2>3, <2>4, <2>5 DEF NewLease, TypeOK, flash, i, a
<1>. QED BY <1>1, <1>2

LEMMA TypeRestart == ASSUME TypeOK, Restart PROVE TypeOK'
<1>1. byEuid' \in [Euids -> Nodes \cup {NoEntry}]
  <2>1. ASSUME NEW e \in Euids
        PROVE  LET own == {k \in Index : Sorted[k] # NoEntry /\ Sorted[k].euid = e}
               IN  own # {} => Sorted[Max(own)] \in Nodes \cup {NoEntry}
    <3>. DEFINE own == {k \in Index : Sorted[k] # NoEntry /\ Sorted[k].euid = e}
    <3>1. own # {} => Max(own) \in Index
      BY GreatestOf
    <3>. HIDE DEF own
    <3>2. own # {} => Sorted[Max(own)] \in Nodes \cup {NoEntry}
      BY <3>1, SortedType
    <3>. QED BY <3>2 DEF own
  <2>. QED BY <2>1 DEF Restart
<1>2. \A k \in Index : Sorted[k] # NoEntry =>
         /\ Sorted[k].addr \in 0..FreeAddr /\ Sorted[k].euid \in Euids
         /\ Sorted[k].role \in Roles \cup {0}
  BY SortedType DEF Nodes
<1>3. /\ addr' \in [Index -> 0..FreeAddr] /\ euid' \in [Index -> Euids \cup {0}]
      /\ role' \in [Index -> Roles \cup {0}]
  BY <1>2, Numbers DEF Restart
<1>4. up' \in 0..MaxUp
  BY PanConstants DEF Restart
<1>. QED BY <1>1, <1>3, <1>4, SortedType, Numbers DEF Restart, TypeOK

LEMMA TypeOther ==
    ASSUME TypeOK,
           \/ \E e \in population : TableFull(e) \/ Delete(e)
           \/ PostProcess \/ Clear \/ Tick
    PROVE  TypeOK'
<1>1. ASSUME NEW e \in population, TableFull(e) PROVE TypeOK'
  <2>1. Entry(e, 0, 0, 0, FALSE) \in Nodes
    BY IndexFinite, Numbers, EntryType DEF TypeOK
  <2>. QED BY <1>1, <2>1 DEF TableFull, TypeOK, table, flash
<1>2. ASSUME NEW e \in population, Delete(e) PROVE TypeOK'
  <2>. DEFINE n == byEuid[e]
  <2>1. n \in Nodes /\ n.index \in Index /\ [n EXCEPT !.addr = FreeAddr] \in Nodes
    BY <1>2, Numbers DEF Delete, TypeOK, Nodes
  <2>2. /\ role' \in [Index -> Roles \cup {0}]
        /\ byIndex' \in [Index -> Nodes \cup {NoEntry}]
        /\ byEuid' \in [Euids -> Nodes \cup {NoEntry}]
    BY <1>2, <2>1, SaveType DEF Delete
  <2>3. /\ addr' = [addr EXCEPT ![n.index] = FreeAddr]
        /\ euid' = [euid EXCEPT ![n.index] = 0]
        /\ slot_id' = [slot_id EXCEPT ![n.index] = NoSlot]
        /\ until' = [until EXCEPT ![n.index] = -1]
        /\ asked' = [asked EXCEPT ![n.index] = 0]
        /\ UNCHANGED <<population, up, lease_ends, toSave>>
    BY <1>2 DEF Delete
  <2>. HIDE DEF n
  <2>4. addr' \in [Index -> 0..FreeAddr] /\ euid' \in [Index -> Euids \cup {0}]
    BY <2>3, Numbers DEF TypeOK
  <2>5. slot_id' \in [Index -> 0..NoSlot]
    BY <2>3, Numbers DEF TypeOK
  <2>6. until' \in [Index -> Int]
    <3>1. -1 \in Int /\ until \in [Index -> Int]
      BY DEF TypeOK
    <3>. QED BY <2>3, <3>1
  <2>7. asked' \in [Index -> Roles \cup {0}]
    BY <2>3 DEF TypeOK
  <2>. QED BY <2>2, <2>3, <2>4, <2>5, <2>6, <2>7 DEF TypeOK
<1>3. CASE PostProcess
  <2>1. toSave \in Nodes
    BY <1>3 DEF PostProcess, TypeOK
  <2>2. /\ role' \in [Index -> Roles \cup {0}]
        /\ byIndex' \in [Index -> Nodes \cup {NoEntry}]
        /\ byEuid' \in [Euids -> Nodes \cup {NoEntry}]
    BY <1>3, <2>1, SaveType DEF PostProcess, TypeOK, flash
  <2>. QED BY <1>3, <2>2 DEF PostProcess, TypeOK
<1>4. CASE Clear
  BY <1>4, Numbers DEF Clear, TypeOK
<1>5. CASE Tick
  <2>1. up' \in 0..MaxUp
    BY <1>5, PanConstants DEF Tick, TypeOK
  <2>. QED BY <1>5, <2>1 DEF Tick, TypeOK, table, flash
<1>. QED BY <1>1, <1>2, <1>3, <1>4, <1>5

LEMMA TypeStep == TypeOK /\ [MasterNext]_masterVars => TypeOK'
<1>. SUFFICES ASSUME TypeOK, [MasterNext]_masterVars PROVE TypeOK'
  OBVIOUS
<1>1. CASE UNCHANGED masterVars
  BY <1>1 DEF masterVars, table, flash, TypeOK
<1>2. CASE MasterNext
  BY <1>2, TypeRequest, TypeRestart, TypeOther DEF MasterNext
<1>. QED BY <1>1, <1>2

\* Type correctness of the master's table and its flash copy, whatever is asked of
\* it.
THEOREM PanTypeCorrect == MasterSpec => []TypeOK
BY TypeInit, TypeStep, PTL DEF MasterSpec

-----------------------------------------------------------------------------
(* The table and the flash *)

Table == Unique /\ Known /\ LowBits

\* A record in use that flash knows under its index is that of the table.
StoredUsed ==
    \A i \in Index : byIndex[i] # NoEntry /\ byIndex[i].addr # FreeAddr =>
        i \in Used /\ byIndex[i].addr = addr[i] /\ byIndex[i].euid = euid[i]

\* What is about to be saved belongs to a record in use.
Pending ==
    toSave # NoEntry =>
        /\ toSave.index \in Used
        /\ toSave.euid = euid[toSave.index] /\ toSave.addr = addr[toSave.index]

\* The entry of a new node waits to be saved.
Unsaved(i) == toSave # NoEntry /\ toSave.index = i /\ toSave.seen

KeptAt(i) ==
    /\ byIndex[i] # NoEntry
    /\ byIndex[i].euid = euid[i] /\ byIndex[i].addr = addr[i]
    /\ byIndex[i].role = role[i]

Kept == \A i \in Used : Unsaved(i) \/ KeptAt(i)

RoleKept ==
    \A i \in Used : Unsaved(i) \/ (/\ byEuid[euid[i]] # NoEntry
                                   /\ byEuid[euid[i]].role = role[i])

OwnEuid == \A e \in Euids : byEuid[e] # NoEntry => byEuid[e].euid = e

Copy == StoredUsed /\ Pending /\ Kept /\ RoleKept /\ OwnEuid

LEMMA CopyInit == ASSUME Init PROVE Table /\ Copy
<1>1. Used = {}
  BY DEF Init, Used
<1>. QED BY <1>1 DEF Init, Table, Unique, Known, LowBits, Copy, StoredUsed,
                     Pending, Kept, RoleKept, OwnEuid

LEMMA CopyRenew ==
    ASSUME TypeOK, Table, Copy, NEW e \in population, NEW r \in Roles,
           NEW l \in Leases, RenewLease(e, r, l)
    PROVE  Table' /\ Copy'
<1>1. UNCHANGED <<population, addr, euid, role, byIndex, byEuid>> /\ toSave = NoEntry
  BY DEF RenewLease, flash
<1>2. Used' = Used
  BY <1>1 DEF Used
<1>3. PICK i \in Used : euid[i] = e /\ toSave' = Entry(e, i, addr[i], r, FALSE)
  BY RecordPlace DEF RenewLease, RecordsOf
<1>4. Table'
  BY <1>1, <1>2 DEF Table, Unique, Known, LowBits
<1>5. Pending'
  BY <1>1, <1>2, <1>3 DEF Pending, Entry
<1>6. StoredUsed' /\ OwnEuid'
  BY <1>1, <1>2 DEF StoredUsed, OwnEuid, Copy
<1>7. \A j \in Used : ~Unsaved(j)
  BY <1>1 DEF Unsaved
<1>8. Kept' /\ RoleKept'
  BY <1>1, <1>2, <1>7 DEF Kept, KeptAt, RoleKept, Copy
<1>. QED BY <1>4, <1>5, <1>6, <1>8 DEF Copy

LEMMA CopyNew ==
    ASSUME TypeOK, Supported, Table, Copy, NEW e \in population, NEW r \in Roles,
           NEW l \in Leases, NewLease(e, r, l)
    PROVE  Table' /\ Copy'
<1>1. PICK i \in Index : i = RecordFor(e) /\ i \notin Used
  BY RecordPlace DEF NewLease
<1>0. PICK a : a = FirstFreeAddr(e)
  OBVIOUS
<1>2. /\ a \in 0..FreeAddr /\ a # FreeAddr /\ \A j \in Used : addr[j] # a
      /\ a = 0 \/ Low12(a) = Low12(e)
  BY <1>0, FreshAddr DEF NewLease, Table
<1>3. \A j \in Used : euid[j] # e
  BY DEF NewLease, RecordsOf
<1>4. /\ addr' = [addr EXCEPT ![i] = a] /\ euid' = [euid EXCEPT ![i] = e]
      /\ role' = [role EXCEPT ![i] = r]
      /\ toSave' = Entry(e, i, a, r, TRUE) /\ toSave = NoEntry
      /\ UNCHANGED <<population, byIndex, byEuid>>
  BY <1>0, <1>1 DEF NewLease, flash
<1>5. addr'[i] = a /\ euid'[i] = e /\ Used' = Used \cup {i}
  BY <1>1, <1>2, <1>4 DEF TypeOK, Used
<1>6. \A j \in Used : /\ addr'[j] = addr[j] /\ euid'[j] = euid[j] /\ role'[j] = role[j]
                      /\ j \in Index /\ j # i
  BY <1>1, <1>4 DEF TypeOK, Used
<1>7. Table'
  <2>1. Unique'
    BY <1>2, <1>3, <1>5, <1>6 DEF Table, Unique
  <2>2. Known' /\ LowBits'
    BY <1>2, <1>4, <1>5, <1>6 DEF Table, Known, LowBits
  <2>. QED BY <2>1, <2>2 DEF Table
<1>8. Pending'
  BY <1>4, <1>5, NoEntryFresh DEF Pending, Entry
<1>9. StoredUsed' /\ OwnEuid'
  BY <1>1, <1>4, <1>5, <1>6 DEF StoredUsed, OwnEuid, Copy
<1>10. Entry(e, i, a, r, TRUE) # NoEntry
  <2>1. Entry(e, i, a, r, TRUE) \in Nodes
    BY <1>1, <1>2, EntryType DEF TypeOK
  <2>. QED BY <2>1, NoEntryFresh
<1>11. Unsaved(i)' /\ \A j \in Used : ~Unsaved(j)
  <2>1. /\ Entry(e, i, a, r, TRUE).index = i
        /\ Entry(e, i, a, r, TRUE).seen = TRUE
    BY DEF Entry
  <2>. QED BY <1>4, <1>10, <2>1 DEF Unsaved
<1>12. Kept' /\ RoleKept'
  BY <1>4, <1>5, <1>6, <1>11 DEF Kept, KeptAt, RoleKept, Copy
<1>. QED BY <1>7, <1>8, <1>9, <1>12 DEF Copy

\* Every record is of another node: a node without one finds a free record.
LEMMA NeverFull ==
    ASSUME TypeOK, Supported, Table, NEW e \in population
    PROVE  ~TableFull(e)
<1>. SUFFICES ASSUME TableFull(e) PROVE FALSE
  OBVIOUS
<1>1. Used = Index /\ \A i \in Index : euid[i] # e
  BY DEF TableFull, RecordsOf
<1>. DEFINE rest == population \ {e}
<1>2. euid \in [Index -> rest]
  BY <1>1 DEF Table, Known, TypeOK
<1>3. \A i, j \in Index : euid[i] = euid[j] => i = j
  BY <1>1 DEF Table, Unique
<1>4. IsFiniteSet(rest) /\ Cardinality(rest) = Cardinality(population) - 1
  BY NodesFinite, FS_RemoveElement
<1>. HIDE DEF rest
<1>5. Cardinality(Index) <= Cardinality(rest)
  BY <1>2, <1>3, <1>4, IndexFinite, NotMore
<1>. QED BY <1>4, <1>5, IndexFinite, NodesFinite, PanConstants DEF Supported
LEMMA CopyPostProcess ==
    ASSUME TypeOK, Table, Copy, PostProcess
    PROVE  Table' /\ Copy'
<1>1. PICK n \in Nodes : n = toSave /\ n # NoEntry
  BY DEF PostProcess, TypeOK
<1>2. toSave' = NoEntry /\ UNCHANGED <<population, addr, euid>>
  BY DEF PostProcess
<1>3. Used' = Used
  BY <1>2 DEF Used
<1>4. Table'
  BY <1>2, <1>3 DEF Table, Unique, Known, LowBits
<1>5. Pending'
  BY <1>2 DEF Pending
<1>6. PICK i \in Index : i = n.index
  BY DEF Nodes
<1>7. i \in Used /\ n.euid = euid[i] /\ n.addr = addr[i] /\ n.euid \in Euids
  BY <1>1, <1>6 DEF Pending, Copy, Nodes
<1>8. \A j \in Used : j # i => ~Unsaved(j) /\ euid[j] # n.euid /\ j \in Index
  BY <1>1, <1>6, <1>7 DEF Unsaved, Table, Unique, Used
<1>9. CASE ~n.seen /\ byEuid[n.euid] = n
  <2>1. UNCHANGED <<role, byIndex, byEuid>>
    BY <1>1, <1>9 DEF PostProcess, flash
  <2>2. \A j \in Used : ~Unsaved(j)
    BY <1>1, <1>9 DEF Unsaved
  <2>3. StoredUsed' /\ OwnEuid'
    BY <1>2, <1>3, <2>1 DEF StoredUsed, OwnEuid, Copy
  <2>4. Kept' /\ RoleKept'
    BY <1>2, <1>3, <2>1, <2>2 DEF Kept, KeptAt, RoleKept, Copy
  <2>. QED BY <1>4, <1>5, <2>3, <2>4 DEF Copy
<1>10. CASE ~(~n.seen /\ byEuid[n.euid] = n)
  <2>1. /\ role' = [role EXCEPT ![i] = n.role]
        /\ byIndex' = [byIndex EXCEPT ![i] = n]
        /\ byEuid' = [byEuid EXCEPT ![n.euid] = n]
    BY <1>1, <1>6, <1>10 DEF PostProcess, SaveNode
  <2>2. /\ role'[i] = n.role /\ byIndex'[i] = n /\ byEuid'[n.euid] = n
        /\ \A j \in Index : j # i => role'[j] = role[j] /\ byIndex'[j] = byIndex[j]
        /\ \A e \in Euids : e # n.euid => byEuid'[e] = byEuid[e]
    BY <1>7, <2>1 DEF TypeOK
  <2>3. StoredUsed'
    BY <1>2, <1>3, <1>7, <2>2 DEF StoredUsed, Copy
  <2>4. OwnEuid'
    BY <1>7, <2>2 DEF OwnEuid, Copy
  <2>5. Kept'
    BY <1>1, <1>2, <1>3, <1>7, <1>8, <2>2 DEF Kept, KeptAt, Copy
  <2>6. RoleKept'
    <3>1. \A j \in Used : euid[j] \in Euids
      BY DEF Table, Known, TypeOK
    <3>. QED BY <1>1, <1>2, <1>3, <1>7, <1>8, <2>2, <3>1 DEF RoleKept, Copy
  <2>. QED BY <1>4, <1>5, <2>3, <2>4, <2>5, <2>6 DEF Copy
<1>. QED BY <1>9, <1>10

LEMMA CopyDelete ==
    ASSUME TypeOK, Table, Copy, NEW e \in population, Delete(e)
    PROVE  Table' /\ Copy'
<1>1. PICK n \in Nodes : n = byEuid[e] /\ n # NoEntry
  BY DEF Delete, TypeOK
<1>2. PICK m \in Nodes : m = [n EXCEPT !.addr = FreeAddr]
  BY Numbers DEF Nodes
<1>3. PICK i \in Index : i = n.index
  BY DEF Nodes
<1>4. /\ m.addr = FreeAddr /\ m.index = i /\ m.euid = e /\ m.role = n.role
      /\ e \in Euids /\ n.euid = e
  <2>1. n.euid = e /\ e \in Euids
    BY <1>1 DEF OwnEuid, Copy, TypeOK
  <2>. QED BY <1>2, <1>3, <2>1 DEF Nodes
<1>5. /\ addr' = [addr EXCEPT ![i] = FreeAddr] /\ euid' = [euid EXCEPT ![i] = 0]
      /\ SaveNode(m)
      /\ toSave = NoEntry /\ UNCHANGED <<population, toSave>>
  BY <1>1, <1>2, <1>3 DEF Delete
<1>6. /\ role' = [role EXCEPT ![i] = m.role] /\ byIndex' = [byIndex EXCEPT ![i] = m]
      /\ byEuid' = [byEuid EXCEPT ![e] = m]
  BY <1>4, <1>5 DEF SaveNode
<1>7. Used' = Used \ {i}
  BY <1>5 DEF Used, TypeOK
<1>8. \A j \in Used' : /\ j \in Used /\ j # i /\ j \in Index
                       /\ addr'[j] = addr[j] /\ euid'[j] = euid[j]
                       /\ role'[j] = role[j] /\ byIndex'[j] = byIndex[j]
                       /\ ~Unsaved(j) /\ ~Unsaved(j)'
  BY <1>5, <1>6, <1>7 DEF TypeOK, Used, Unsaved
<1>9. Table'
  BY <1>5, <1>8 DEF Table, Unique, Known, LowBits
<1>10. Pending'
  BY <1>5 DEF Pending
<1>11. StoredUsed'
  <2>1. byIndex'[i].addr = FreeAddr
    BY <1>4, <1>6 DEF TypeOK
  <2>2. ASSUME NEW j \in Index, j # i
        PROVE  /\ byIndex'[j] = byIndex[j] /\ addr'[j] = addr[j]
               /\ euid'[j] = euid[j] /\ (j \in Used => j \in Used')
    BY <1>5, <1>6, <1>7, <2>2 DEF TypeOK
  <2>. QED BY <2>1, <2>2 DEF StoredUsed, Copy
<1>12. Kept'
  BY <1>8 DEF Kept, KeptAt, Copy
<1>13. \A f \in Euids : byEuid'[f] = IF f = e THEN m ELSE byEuid[f]
  BY <1>6 DEF TypeOK
<1>14. m # NoEntry
  BY NoEntryFresh
<1>15. OwnEuid'
  BY <1>4, <1>13 DEF OwnEuid, Copy
<1>16. RoleKept'
  <2>1. ASSUME NEW j \in Used'
        PROVE  byEuid'[euid'[j]] # NoEntry /\ byEuid'[euid'[j]].role = role'[j]
    <3>1. /\ byEuid[euid[j]] # NoEntry /\ byEuid[euid[j]].role = role[j]
          /\ euid[j] \in Euids
      BY <1>8 DEF RoleKept, Copy, Table, Known, TypeOK
    <3>. QED BY <1>1, <1>4, <1>8, <1>13, <1>14, <3>1
  <2>. QED BY <2>1 DEF RoleKept
<1>. QED BY <1>9, <1>10, <1>11, <1>12, <1>15, <1>16 DEF Copy

LEMMA CopyClear ==
    ASSUME TypeOK, Clear
    PROVE  Table' /\ Copy'
<1>1. Used' = {}
  BY DEF Clear, Used
<1>2. Table' /\ Kept' /\ RoleKept'
  BY <1>1 DEF Table, Unique, Known, LowBits, Kept, RoleKept
<1>3. StoredUsed' /\ OwnEuid' /\ Pending'
  BY DEF Clear, StoredUsed, OwnEuid, Pending
<1>. QED BY <1>2, <1>3 DEF Copy

LEMMA CopyRestart ==
    ASSUME TypeOK, Table, Copy, Restart
    PROVE  Table' /\ Copy'
<1>1. \A k \in Index : Sorted[k] # NoEntry =>
        \E i \in Used : /\ Position(i) = k /\ i \in Stored
                        /\ Sorted[k] \in Nodes /\ Sorted[k].euid = euid[i]
                        /\ Sorted[k].addr = addr[i] /\ Sorted[k].addr # FreeAddr
  <2>1. ASSUME NEW k \in Index, Sorted[k] # NoEntry
        PROVE  \E i \in Used : /\ Position(i) = k /\ i \in Stored
                        /\ Sorted[k] \in Nodes /\ Sorted[k].euid = euid[i]
                        /\ Sorted[k].addr = addr[i] /\ Sorted[k].addr # FreeAddr
    <3>1. PICK i \in Stored : /\ Position(i) = k /\ byIndex[i] \in Nodes
                              /\ Sorted[k] = [byIndex[i] EXCEPT !.index = k]
                              /\ Sorted[k] \in Nodes
      BY <2>1, SortedType
    <3>2. /\ i \in Used /\ byIndex[i].addr = addr[i] /\ byIndex[i].euid = euid[i]
          /\ byIndex[i].addr # FreeAddr
      BY DEF Stored, StoredUsed, Copy
    <3>3. Sorted[k].addr = byIndex[i].addr /\ Sorted[k].euid = byIndex[i].euid
      BY <3>1 DEF Nodes
    <3>. QED BY <3>1, <3>2, <3>3
  <2>. QED BY <2>1
<1>2. Used' = {k \in Index : Sorted[k] # NoEntry}
  <2>1. \A k \in Index : addr'[k] = IF Sorted[k] = NoEntry THEN FreeAddr
                                    ELSE Sorted[k].addr
    BY DEF Restart
  <2>. QED BY <1>1, <2>1 DEF Used
<1>3. \A k \in Used' :
        \E i \in Used : /\ Position(i) = k
                        /\ addr'[k] = addr[i] /\ euid'[k] = euid[i]
  BY <1>1, <1>2 DEF Restart
<1>4. population' = population /\ toSave' = NoEntry /\ byIndex' = Sorted
  BY DEF Restart
<1>5. Table'
  <2>1. Unique'
    <3>1. ASSUME NEW k \in Used', NEW l \in Used', k # l
          PROVE  euid'[k] # euid'[l] /\ addr'[k] # addr'[l]
      <4>1. PICK i \in Used : /\ Position(i) = k
                              /\ addr'[k] = addr[i] /\ euid'[k] = euid[i]
        BY <1>3
      <4>2. PICK j \in Used : /\ Position(j) = l
                              /\ addr'[l] = addr[j] /\ euid'[l] = euid[j]
        BY <1>3
      <4>. QED BY <3>1, <4>1, <4>2 DEF Table, Unique
    <3>. QED BY <3>1 DEF Unique
  <2>2. Known' /\ LowBits'
    BY <1>3, <1>4 DEF Known, LowBits, Table
  <2>. QED BY <2>1, <2>2 DEF Table
<1>6. StoredUsed' /\ Pending' /\ Kept'
  BY <1>2, <1>4 DEF Restart, StoredUsed, Pending, Kept, KeptAt
<1>. DEFINE own(e) == {k \in Index : Sorted[k] # NoEntry /\ Sorted[k].euid = e}
<1>7. \A e \in Euids : byEuid'[e] = IF own(e) = {} THEN NoEntry
                                    ELSE Sorted[Max(own(e))]
  BY DEF Restart
<1>8. \A e : own(e) # {} => Max(own(e)) \in own(e)
  BY GreatestOf
<1>9. OwnEuid'
  BY <1>7, <1>8 DEF OwnEuid
<1>10. RoleKept'
  <2>1. ASSUME NEW k \in Used'
        PROVE  byEuid'[euid'[k]] # NoEntry /\ byEuid'[euid'[k]].role = role'[k]
    <3>1. /\ k \in Index /\ Sorted[k] # NoEntry /\ Sorted[k] \in Nodes
          /\ euid'[k] = Sorted[k].euid /\ role'[k] = Sorted[k].role
      BY <1>1, <1>2 DEF Restart
    <3>2. PICK e \in Euids : e = euid'[k] /\ k \in own(e)
      BY <3>1 DEF Nodes
    <3>3. PICK l \in own(e) : l = Max(own(e))
      BY <1>8, <3>2
    <3>4. l \in Used' /\ euid'[l] = e
      BY <1>2 DEF Restart
    <3>5. l = k
      BY <1>5, <3>2, <3>4 DEF Table, Unique
    <3>. QED BY <1>7, <3>1, <3>2, <3>3, <3>5
  <2>. QED BY <2>1 DEF RoleKept
<1>. QED BY <1>5, <1>6, <1>9, <1>10 DEF Copy
LEMMA CopyStep ==
    ASSUME TypeOK, Supported, Table, Copy, [MasterNext]_masterVars
    PROVE  Table' /\ Copy'
<1>1. CASE UNCHANGED masterVars \/ Tick
  <2>1. UNCHANGED <<population, addr, euid, role, toSave, byIndex, byEuid>>
    BY <1>1 DEF Tick, masterVars, table, flash
  <2>2. Used' = Used
    BY <2>1 DEF Used
  <2>. QED BY <2>1, <2>2 DEF Table, Unique, Known, LowBits, Copy, StoredUsed, Pending,
                             Kept, KeptAt, RoleKept, Unsaved, OwnEuid
<1>2. ASSUME NEW e \in population, TableFull(e) PROVE FALSE
  BY <1>2, NeverFull
<1>. QED
  BY <1>1, <1>2, CopyRenew, CopyNew, CopyPostProcess, CopyDelete, CopyClear, CopyRestart
     DEF MasterNext

Inv == TypeOK /\ (Supported => Table /\ Copy)

LEMMA InvCorrect == MasterSpec => []Inv
<1>1. Init => Inv
  BY TypeInit, CopyInit DEF Inv
<1>2. Inv /\ [MasterNext]_masterVars => Inv'
  <2>. SUFFICES ASSUME Inv, [MasterNext]_masterVars PROVE Inv'
    OBVIOUS
  <2>1. TypeOK /\ TypeOK'
    BY TypeStep DEF Inv
  <2>2. population' = population
    BY DEF MasterNext, masterVars, RenewLease, NewLease, TableFull, Delete,
           PostProcess, Clear, Restart, Tick
  <2>3. Supported' <=> Supported
    BY <2>2 DEF Supported, Alike
  <2>. QED BY <2>1, <2>3, CopyStep DEF Inv
<1>. QED BY <1>1, <1>2, PTL DEF MasterSpec

\* However often nodes ask, are deleted or cleared and the master restarts, a node
\* has one record and no two records share an address.
THEOREM PanOneRecord == MasterSpec => []OneRecordPerNode
<1>1. Inv => OneRecordPerNode
  BY DEF Inv, Table, Unique, OneRecordPerNode
<1>. QED BY <1>1, InvCorrect, PTL

\* Nothing but the request being saved would be lost by a restart of the master.
THEOREM PanFlashAgrees == MasterSpec => []FlashAgrees
<1>1. Inv => FlashAgrees
  BY DEF Inv, Copy, Kept, KeptAt, Unsaved, FlashAgrees
<1>. QED BY <1>1, InvCorrect, PTL

-----------------------------------------------------------------------------
(* Leases and slots *)

\* No lease ends, and the uptime does not go, beyond half the range of the clock.
NoWrap == \A l \in Leases \cup {DefaultLease} : MaxUp + l < WordMod \div 2

LeaseTrue ==
    \A i \in Index : \/ until[i] = -1
                     \/ /\ until[i] \in Nat /\ until[i] < WordMod \div 2
                        /\ lease_ends[i] = until[i]

\* A lease that runs is not taken for an expired one.
LEMMA RunningLease ==
    ASSUME NoWrap, TypeOK, LeaseTrue, NEW i \in Index, Running(i)
    PROVE  ~LeaseExpired(i)
<1>1. PICK h \in Int : h = WordMod \div 2 /\ h <= WordMod
  BY PanConstants
<1>2. up \in Nat /\ up <= MaxUp /\ up <= until[i]
  BY PanConstants DEF TypeOK, Running
<1>3. until[i] \in Nat /\ until[i] < h /\ lease_ends[i] = until[i]
  BY <1>1, <1>2, PanConstants DEF LeaseTrue
<1>4. up % WordMod = up
  BY <1>1, <1>2, <1>3, PanConstants
<1>5. Signed(up % WordMod) = up /\ Signed(lease_ends[i]) = until[i]
  BY <1>1, <1>2, <1>3, <1>4 DEF Signed
<1>. QED BY <1>2, <1>3, <1>5 DEF LeaseExpired

LEMMA LeaseInit == Init => LeaseTrue
BY DEF Init, LeaseTrue

LEMMA LeaseStep ==
    ASSUME NoWrap, TypeOK, LeaseTrue, [MasterNext]_masterVars
    PROVE  LeaseTrue'
<1>1. CASE UNCHANGED <<lease_ends, until>>
  BY <1>1 DEF LeaseTrue
<1>2. ASSUME NEW i \in Index, NEW r, NEW l \in Leases, StartLease(i, r, l)
      PROVE  LeaseTrue'
  <2>1. PICK h \in Int : h = WordMod \div 2 /\ h <= WordMod
    BY PanConstants
  <2>2. PICK t \in Nat : t = up + LeaseTime(l) /\ t < h
    <3>1. /\ LeaseTime(l) \in Nat /\ MaxUp + LeaseTime(l) < h
          /\ up \in Nat /\ up <= MaxUp /\ MaxUp \in Nat
      BY <2>1, PanConstants DEF LeaseTime, NoWrap, TypeOK
    <3>. QED BY <2>1, <3>1
  <2>3. t % WordMod = t
    BY <2>1, <2>2, PanConstants
  <2>4. lease_ends' = [lease_ends EXCEPT ![i] = t] /\ until' = [until EXCEPT ![i] = t]
    BY <1>2, <2>2, <2>3 DEF StartLease
  <2>. QED BY <2>1, <2>2, <2>4 DEF LeaseTrue, TypeOK
<1>3. ASSUME NEW e \in population, NEW r \in Roles, NEW l \in Leases,
             RenewLease(e, r, l) \/ NewLease(e, r, l)
      PROVE  LeaseTrue'
  <2>1. StartLease(RecordFor(e), r, l)
    BY <1>3 DEF RenewLease, NewLease
  <2>2. RecordFor(e) \in Index
    BY <1>3, RecordPlace DEF RenewLease, NewLease, RecordsOf, Used
  <2>. QED BY <1>2, <2>1, <2>2
<1>4. ASSUME NEW e \in population, Delete(e) PROVE LeaseTrue'
  <2>1. PICK i : until' = [until EXCEPT ![i] = -1] /\ lease_ends' = lease_ends
    BY <1>4 DEF Delete
  <2>. QED BY <2>1 DEF LeaseTrue, TypeOK
<1>5. CASE Clear \/ Restart
  BY <1>5 DEF Clear, Restart, LeaseTrue
<1>6. CASE PostProcess \/ Tick \/ UNCHANGED masterVars \/ \E e \in population : TableFull(e)
  BY <1>1, <1>6 DEF PostProcess, Tick, TableFull, masterVars, table
<1>. QED BY <1>3, <1>4, <1>5, <1>6 DEF MasterNext

\* The role of a record, or the one it is about to be saved with.
RoleAsked(i) ==
    IF toSave # NoEntry /\ toSave.index = i THEN toSave.role ELSE role[i]

\* SlotsExclusive, by the roles of the table.
SlotsApart ==
    \A i, j \in Index :
        Running(i) /\ Running(j) /\ i # j /\ RoleAsked(i) = RoleAsked(j)
            => slot_id[i] # slot_id[j]

\* The table, or what is about to be saved, has the roles that were asked for.
AskedTrue == \A i \in Used : RoleAsked(i) = asked[i]

\* The slot given to record i is that of no other running lease for the role.
LEMMA SlotsGiven ==
    ASSUME NoWrap, TypeOK, TypeOK', LeaseTrue, SlotsApart,
           NEW i \in Index, NEW a, NEW r,
           toSave = NoEntry, toSave' # NoEntry, toSave'.index = i, toSave'.role = r,
           slot_id' = [slot_id EXCEPT ![i] = FirstFreeSlot(a, r)],
           up' = up,
           \A j \in Used' : j # i => /\ j \in Used /\ addr[j] # a /\ role'[j] = role[j]
                                     /\ until'[j] = until[j]
    PROVE  SlotsApart'
<1>1. RoleAsked(i)' = r /\ \A j \in Index : j # i => RoleAsked(j)' = role'[j]
  BY DEF RoleAsked
<1>2. \A j \in Index : RoleAsked(j) = role[j]
  BY DEF RoleAsked
<1>3. ASSUME NEW j \in Index, Running(j)', j # i
      PROVE  /\ Running(j) /\ slot_id'[j] = slot_id[j] /\ RoleAsked(j)' = RoleAsked(j)
             /\ j \in Used /\ addr[j] # a
  BY <1>1, <1>2, <1>3 DEF Running, TypeOK
<1>4. ASSUME NEW j \in Index, Running(j)', j # i, RoleAsked(j)' = r
      PROVE  slot_id'[j] # slot_id'[i]
  <2>1. /\ Running(j) /\ slot_id'[j] = slot_id[j] /\ role[j] = r
        /\ j \in Used /\ addr[j] # a
    BY <1>2, <1>3, <1>4
  <2>2. ~LeaseExpired(j)
    BY <2>1, RunningLease
  <2>3. slot_id[j] \in TakenSlots(a, r)
    BY <2>1, <2>2 DEF TakenSlots
  <2>4. slot_id'[i] = FirstFreeSlot(a, r)
    BY DEF TypeOK
  <2>. QED BY <2>1, <2>3, <2>4, FreeSlot
<1>. QED BY <1>1, <1>3, <1>4 DEF SlotsApart

\* A request fills the entry to save.
LEMMA EntryFilled ==
    ASSUME TypeOK, NEW e \in population, NEW r \in Roles, NEW l \in Leases,
           RenewLease(e, r, l) \/ NewLease(e, r, l)
    PROVE  toSave' # NoEntry /\ toSave'.index = RecordFor(e) /\ toSave'.role = r
<1>1. PICK i \in Index : i = RecordFor(e)
  BY RecordPlace DEF RenewLease, NewLease, RecordsOf, Used
<1>2. PICK a \in 0..FreeAddr, b \in BOOLEAN : toSave' = Entry(e, i, a, r, b)
  <2>1. FirstFreeAddr(e) \in 0..FreeAddr
    <3>1. e \in Nat
      BY NodesFinite
    <3>2. FirstFreeAddr(e) # 0 => FirstFreeAddr(e) \in 0..FreeAddr
      BY <3>1, GoodAddr
    <3>. QED BY <3>2, Numbers
  <2>2. addr[i] \in 0..FreeAddr
    BY DEF TypeOK
  <2>3. \/ toSave' = Entry(e, i, addr[i], r, FALSE)
        \/ toSave' = Entry(e, i, FirstFreeAddr(e), r, TRUE)
    BY <1>1 DEF RenewLease, NewLease
  <2>. QED BY <2>1, <2>2, <2>3
<1>3. Entry(e, i, a, r, b) \in Nodes
  BY <1>2, EntryType DEF TypeOK
<1>. QED BY <1>1, <1>2, <1>3, NoEntryFresh DEF Entry

LEMMA SlotsInit == Init => SlotsApart
BY DEF Init, SlotsApart, Running, Used

LEMMA SlotsRequest ==
    ASSUME NoWrap, TypeOK, TypeOK', LeaseTrue, SlotsApart, Supported, Table, Copy,
           NEW e \in population, NEW r \in Roles, NEW l \in Leases,
           RenewLease(e, r, l) \/ NewLease(e, r, l)
    PROVE  SlotsApart'
<1>1. CASE RenewLease(e, r, l)
  <2>1. PICK i \in Index : i = RecordFor(e) /\ i \in Used
    BY <1>1, RecordPlace DEF RenewLease, RecordsOf, Used
  <2>2. /\ slot_id' = [slot_id EXCEPT ![i] = FirstFreeSlot(addr[i], r)]
        /\ toSave' = Entry(e, i, addr[i], r, FALSE)
        /\ until' = [until EXCEPT ![i] = up + LeaseTime(l)]
        /\ toSave = NoEntry /\ UNCHANGED <<up, addr, role>>
    BY <1>1, <2>1 DEF RenewLease, StartLease
  <2>3. PICK a : a = addr[i]
    OBVIOUS
  <2>4. Used' = Used
    BY <2>2 DEF Used
  <2>5. \A j \in Used : j # i => addr[j] # a /\ until'[j] = until[j] /\ role'[j] = role[j]
    BY <2>1, <2>2, <2>3 DEF Table, Unique, TypeOK, Used
  <2>6. toSave' # NoEntry /\ toSave'.index = i /\ toSave'.role = r
    BY <1>1, <2>1, EntryFilled
  <2>. QED BY <2>2, <2>3, <2>4, <2>5, <2>6, SlotsGiven
<1>2. CASE NewLease(e, r, l)
  <2>1. PICK i \in Index : i = RecordFor(e) /\ i \notin Used
    BY <1>2, RecordPlace DEF NewLease
  <2>2. PICK a : a = FirstFreeAddr(e)
    OBVIOUS
  <2>3. /\ slot_id' = [slot_id EXCEPT ![i] = FirstFreeSlot(a, r)]
        /\ toSave' = Entry(e, i, a, r, TRUE)
        /\ until' = [until EXCEPT ![i] = up + LeaseTime(l)]
        /\ addr' = [addr EXCEPT ![i] = a] /\ role' = [role EXCEPT ![i] = r]
        /\ toSave = NoEntry /\ up' = up
    BY <1>2, <2>1, <2>2 DEF NewLease, StartLease
  <2>4. a \in 0..FreeAddr /\ \A j \in Used : addr[j] # a
    BY <1>2, <2>2, FreshAddr DEF NewLease, Table
  <2>5. \A j \in Used' : j # i => /\ j \in Used /\ addr[j] # a
                                  /\ role'[j] = role[j] /\ until'[j] = until[j]
    BY <2>3, <2>4 DEF TypeOK, Used
  <2>6. toSave' # NoEntry /\ toSave'.index = i /\ toSave'.role = r
    BY <1>2, <2>1, EntryFilled
  <2>. QED BY <2>3, <2>5, <2>6, SlotsGiven
<1>. QED BY <1>1, <1>2

\* Saving the entry changes no role that was asked for.
LEMMA SavedRoles ==
    ASSUME TypeOK, Copy, PostProcess
    PROVE  \A j \in Index : RoleAsked(j)' = RoleAsked(j)
<1>1. PICK n \in Nodes : n = toSave /\ n # NoEntry
  BY DEF PostProcess, TypeOK
<1>2. toSave' = NoEntry /\ euid' = euid
  BY DEF PostProcess
<1>3. PICK i \in Index : i = n.index /\ i \in Used /\ n.euid = euid[i]
  BY <1>1 DEF Pending, Copy, Nodes
<1>4. \A j \in Index : j # i => role'[j] = role[j] /\ RoleAsked(j) = role[j]
  BY <1>1, <1>3 DEF PostProcess, SaveNode, RoleAsked, TypeOK
<1>5. role'[i] = n.role /\ RoleAsked(i) = n.role
  <2>1. CASE ~n.seen /\ byEuid[n.euid] = n
    <3>1. ~Unsaved(i) /\ role' = role
      BY <1>1, <2>1 DEF Unsaved, PostProcess
    <3>2. byEuid[euid[i]].role = role[i]
      BY <1>3, <3>1 DEF RoleKept, Copy
    <3>. QED BY <1>1, <1>3, <2>1, <3>1, <3>2 DEF RoleAsked
  <2>2. CASE ~(~n.seen /\ byEuid[n.euid] = n)
    BY <1>1, <1>3, <2>2 DEF PostProcess, SaveNode, RoleAsked, TypeOK
  <2>. QED BY <2>1, <2>2
<1>. QED BY <1>2, <1>4, <1>5 DEF RoleAsked

LEMMA SlotsStep ==
    ASSUME NoWrap, TypeOK, TypeOK', LeaseTrue, SlotsApart, Supported, Table, Copy,
           [MasterNext]_masterVars
    PROVE  SlotsApart'
<1>1. CASE PostProcess
  <2>1. UNCHANGED <<up, addr, slot_id, until>>
    BY <1>1 DEF PostProcess
  <2>2. \A j \in Index : RoleAsked(j)' = RoleAsked(j)
    BY <1>1, SavedRoles
  <2>3. \A j \in Index : Running(j)' <=> Running(j)
    BY <2>1 DEF Running, Used
  <2>. QED BY <2>1, <2>2, <2>3 DEF SlotsApart
<1>2. ASSUME NEW e \in population, Delete(e) PROVE SlotsApart'
  <2>1. PICK n \in Nodes : n = byEuid[e]
    BY <1>2 DEF Delete, TypeOK
  <2>2. PICK i \in Index : i = n.index
    BY DEF Nodes
  <2>3. /\ addr' = [addr EXCEPT ![i] = FreeAddr]
        /\ slot_id' = [slot_id EXCEPT ![i] = NoSlot]
        /\ until' = [until EXCEPT ![i] = -1]
        /\ toSave = NoEntry /\ UNCHANGED <<up, toSave>>
    BY <1>2, <2>1, <2>2 DEF Delete
  <2>4. role' = [role EXCEPT ![i] = n.role]
    BY <1>2, <2>1, <2>2 DEF Delete, SaveNode, Nodes
  <2>5. ASSUME NEW j \in Index, Running(j)'
        PROVE  Running(j) /\ slot_id'[j] = slot_id[j] /\ RoleAsked(j)' = RoleAsked(j)
    <3>1. j # i /\ j \in Used
      BY <2>3, <2>5 DEF Running, Used, TypeOK
    <3>. QED BY <2>3, <2>4, <2>5, <3>1 DEF Running, RoleAsked, TypeOK
  <2>. QED BY <2>5 DEF SlotsApart
<1>3. CASE Clear \/ Restart
  <2>1. \A j \in Index : ~Running(j)'
    BY <1>3 DEF Clear, Restart, Running, Used
  <2>. QED BY <2>1 DEF SlotsApart
<1>4. CASE Tick \/ UNCHANGED masterVars
  <2>1. /\ UNCHANGED <<addr, role, slot_id, toSave, until>>
        /\ up \in Nat /\ up' \in Nat /\ up <= up' /\ until \in [Index -> Int]
    BY <1>4, PanConstants DEF Tick, masterVars, table, TypeOK
  <2>2. ASSUME NEW j \in Index, Running(j)' PROVE Running(j)
    BY <2>1, <2>2 DEF Running, Used
  <2>3. \A j \in Index : RoleAsked(j)' = RoleAsked(j)
    BY <2>1 DEF RoleAsked
  <2>. QED BY <2>1, <2>2, <2>3 DEF SlotsApart
<1>5. ASSUME NEW e \in population, TableFull(e) PROVE FALSE
  BY <1>5, NeverFull
<1>. QED BY <1>1, <1>2, <1>3, <1>4, <1>5, SlotsRequest DEF MasterNext

LEMMA AskedStep ==
    ASSUME TypeOK, TypeOK', Supported, Table, Copy, AskedTrue, [MasterNext]_masterVars
    PROVE  AskedTrue'
<1>1. ASSUME NEW e \in population, NEW r \in Roles, NEW l \in Leases,
             RenewLease(e, r, l) \/ NewLease(e, r, l)
      PROVE  AskedTrue'
  <2>1. PICK i \in Index : i = RecordFor(e)
    BY <1>1, RecordPlace DEF RenewLease, NewLease, RecordsOf, Used
  <2>2. toSave' # NoEntry /\ toSave'.index = i /\ toSave'.role = r
    BY <1>1, <2>1, EntryFilled
  <2>3. asked' = [asked EXCEPT ![i] = r] /\ toSave = NoEntry
    BY <1>1, <2>1 DEF RenewLease, NewLease, StartLease
  <2>4. \A j \in Index : j # i => role'[j] = role[j] /\ addr'[j] = addr[j]
    BY <1>1, <2>1 DEF RenewLease, NewLease, TypeOK
  <2>5. RoleAsked(i)' = r /\ asked'[i] = r
    BY <2>2, <2>3 DEF RoleAsked, TypeOK
  <2>6. ASSUME NEW j \in Used', j # i PROVE RoleAsked(j)' = asked'[j]
    <3>1. j \in Used /\ role'[j] = role[j] /\ asked'[j] = asked[j]
      BY <2>3, <2>4, <2>6 DEF Used, TypeOK
    <3>. QED BY <2>2, <2>3, <2>6, <3>1 DEF AskedTrue, RoleAsked
  <2>. QED BY <2>5, <2>6 DEF AskedTrue
<1>2. CASE PostProcess
  <2>1. Used' = Used /\ asked' = asked
    BY <1>2 DEF PostProcess, Used
  <2>2. \A j \in Used : j \in Index
    BY DEF Used
  <2>. QED BY <1>2, <2>1, <2>2, SavedRoles DEF AskedTrue
<1>3. ASSUME NEW e \in population, Delete(e) PROVE AskedTrue'
  <2>1. PICK n \in Nodes : n = byEuid[e]
    BY <1>3 DEF Delete, TypeOK
  <2>2. PICK i \in Index : i = n.index
    BY DEF Nodes
  <2>3. /\ addr' = [addr EXCEPT ![i] = FreeAddr] /\ asked' = [asked EXCEPT ![i] = 0]
        /\ toSave = NoEntry /\ toSave' = NoEntry
    BY <1>3, <2>1, <2>2 DEF Delete
  <2>4. role' = [role EXCEPT ![i] = n.role]
    BY <1>3, <2>1, <2>2 DEF Delete, SaveNode, Nodes
  <2>5. ASSUME NEW j \in Used' PROVE RoleAsked(j)' = asked'[j]
    <3>1. j # i /\ j \in Used /\ role'[j] = role[j] /\ asked'[j] = asked[j]
      BY <2>3, <2>4, <2>5 DEF Used, TypeOK
    <3>. QED BY <2>3, <3>1 DEF AskedTrue, RoleAsked
  <2>. QED BY <2>5 DEF AskedTrue
<1>4. CASE Clear
  <2>1. Used' = {}
    BY <1>4 DEF Clear, Used
  <2>. QED BY <2>1 DEF AskedTrue
<1>5. CASE Restart
  BY <1>5 DEF Restart, AskedTrue, RoleAsked
<1>6. CASE Tick \/ UNCHANGED masterVars
  BY <1>6 DEF Tick, masterVars, table, AskedTrue, RoleAsked, Used
<1>7. ASSUME NEW e \in population, TableFull(e) PROVE FALSE
  BY <1>7, NeverFull
<1>. QED BY <1>1, <1>2, <1>3, <1>4, <1>5, <1>6, <1>7 DEF MasterNext

\* No record in use lost the role that was asked for.
NoneOverwritten == \A i \in Used : ~Overwritten(i)

LEMMA AskedKept == AskedTrue => NoneOverwritten
BY DEF AskedTrue, RoleAsked, NoneOverwritten, Overwritten

\* Two running leases asked for with the same role never name the same slot, as
\* long as the table holds all nodes there are and the clock that leases are
\* compared by does not pass half its range: whatever is deleted or cleared, and
\* however often the master restarts.  The exception of SlotsExclusive is not
\* used: no record loses its role.
THEOREM PanSlotsExclusive ==
    ASSUME NoWrap
    PROVE  MasterSpec => [](Supported => SlotsExclusive /\ NoneOverwritten)
<1>. DEFINE SlotsInv == Inv /\ LeaseTrue /\ (Supported => SlotsApart /\ AskedTrue)
<1>1. Init => SlotsInv
  <2>1. Init => AskedTrue
    BY DEF Init, AskedTrue, Used
  <2>. QED BY <2>1, TypeInit, CopyInit, LeaseInit, SlotsInit DEF Inv
<1>2. SlotsInv /\ [MasterNext]_masterVars => SlotsInv'
  <2>. SUFFICES ASSUME SlotsInv, [MasterNext]_masterVars PROVE SlotsInv'
    OBVIOUS
  <2>1. TypeOK /\ TypeOK'
    BY TypeStep DEF Inv
  <2>2. population' = population
    BY DEF MasterNext, masterVars, RenewLease, NewLease, TableFull, Delete,
           PostProcess, Clear, Restart, Tick
  <2>3. Supported' <=> Supported
    BY <2>2 DEF Supported, Alike
  <2>. QED BY <2>1, <2>3, CopyStep, LeaseStep, SlotsStep, AskedStep DEF Inv
<1>3. SlotsInv => (Supported => SlotsExclusive /\ NoneOverwritten)
  <2>. SUFFICES ASSUME SlotsApart, AskedTrue PROVE SlotsExclusive /\ NoneOverwritten
    OBVIOUS
  <2>1. \A i \in Index : Running(i) => RoleAsked(i) = asked[i]
    BY DEF Running, AskedTrue
  <2>. QED BY <2>1, AskedKept DEF SlotsApart, SlotsExclusive
<1>. QED BY <1>1, <1>2, <1>3, PTL DEF MasterSpec

-----------------------------------------------------------------------------
(* Nodes and master over the air *)

Req(n) == [kind |-> "req", node |-> n, slot |-> NoSlot, lease |-> LeaseOf[n]]
Resp(n, s, l) == [kind |-> "resp", node |-> n, slot |-> s, lease |-> l]
Reset == [kind |-> "reset"]

\* Record i has slot s for another l ticks.
Covers(i, s, l) == slot_id[i] = s /\ up + l <= until[i]

\* An answer on the air is what the table says.
AirTrue ==
    \/ air \in {NoFrame, Reset}
    \/ \E n \in population : air = Req(n)
    \/ \E n \in population, s \in 0..NoSlot, l \in Nat :
          air = Resp(n, s, l) /\ \E i \in RecordsOf(n) : Covers(i, s, l)

\* The callout of a lease runs.
TimerRuns == \A n \in Euids : valid[n] => left[n] \in Nat

PanInv == PanTypeOK /\ AirTrue /\ TimerRuns /\ HoldersCovered

LEMMA FrameTypes ==
    /\ Reset \in Frames
    /\ \A n \in Euids : Req(n) \in Frames
    /\ \A n \in Euids, s \in 0..NoSlot, l \in Nat : Resp(n, s, l) \in Frames
<1>1. \A n \in Euids : LeaseOf[n] \in Nat
  BY LeaseConstants, PanConstants
<1>2. NoSlot \in 0..NoSlot
  BY Numbers
<1>. QED BY <1>1, <1>2 DEF Frames, Reset, Req, Resp

LEMMA PanInvInit == Init /\ PanInit => PanInv
<1>. SUFFICES ASSUME Init, PanInit PROVE PanInv
  OBVIOUS
<1>1. 0 \in 0..ResetCycles
  BY LeaseConstants
<1>2. PanTypeOK
  BY <1>1, TypeInit, Numbers DEF PanInit, PanTypeOK
<1>3. population \subseteq Euids
  BY TypeInit DEF TypeOK
<1>. QED BY <1>2, <1>3 DEF PanInit, PanInv, AirTrue, TimerRuns, HoldersCovered, Holds

\* A step of the nodes that gives up leases at most.
LEMMA NodeStep ==
    ASSUME PanInv, UNCHANGED <<masterVars, agreed>>, PanTypeOK',
           \A n \in Euids : valid'[n] => /\ valid[n] /\ my_slot'[n] = my_slot[n]
                                         /\ left'[n] = left[n] /\ excess'[n] = excess[n],
           \/ air' \in {air, NoFrame, Reset}
           \/ \E n \in population : air' = Req(n)
    PROVE  PanInv'
<1>1. UNCHANGED <<population, up, addr, euid, slot_id, until>>
  BY DEF masterVars, table
<1>2. \A n : RecordsOf(n)' = RecordsOf(n)
  BY <1>1 DEF RecordsOf, Used
<1>3. \A i, s, l : Covers(i, s, l)' <=> Covers(i, s, l)
  BY <1>1 DEF Covers
<1>4. AirTrue'
  BY <1>1, <1>2, <1>3 DEF AirTrue, PanInv
<1>5. TimerRuns'
  BY DEF TimerRuns, PanInv
<1>6. HoldersCovered'
  BY <1>1, <1>2 DEF HoldersCovered, Holds, PanInv, PanTypeOK, TypeOK
<1>. QED BY <1>4, <1>5, <1>6 DEF PanInv

LEMMA PanNodes ==
    ASSUME PanInv, NEW n \in population,
           \/ Listen(n) \/ Blink(n) \/ Released(n) \/ LeaseExpiry(n)
    PROVE  PanInv'
<1>1. UNCHANGED <<masterVars, agreed, mpc, pan_cycles>> /\ n \in Euids
  BY DEF Listen, Blink, Released, LeaseExpiry, PanInv, PanTypeOK, TypeOK
<1>2. TypeOK'
  BY <1>1 DEF PanInv, PanTypeOK, TypeOK, masterVars, table, flash
<1>3. air' = air \/ air' = Req(n)
  BY DEF Listen, Blink, Released, LeaseExpiry, Req
<1>4. air' \in Frames \cup {NoFrame}
  BY <1>1, <1>3, FrameTypes DEF PanInv, PanTypeOK
<1>5. CASE LeaseExpiry(n)
  <2>1. /\ valid' = [valid EXCEPT ![n] = FALSE]
        /\ my_slot' = [my_slot EXCEPT ![n] = NoSlot]
        /\ left' = [left EXCEPT ![n] = -1] /\ pc' = pc
        /\ excess' = [excess EXCEPT ![n] = 0]
    BY <1>5 DEF LeaseExpiry
  <2>2. my_slot' \in [Euids -> 0..NoSlot]
    BY <2>1, Numbers DEF PanInv, PanTypeOK
  <2>3. PanTypeOK'
    BY <1>1, <1>2, <1>4, <2>1, <2>2 DEF PanInv, PanTypeOK
  <2>4. \A m \in Euids : valid'[m] => /\ valid[m] /\ my_slot'[m] = my_slot[m]
                                      /\ left'[m] = left[m] /\ excess'[m] = excess[m]
    BY <1>1, <2>1 DEF PanInv, PanTypeOK
  <2>. QED BY <1>1, <1>3, <2>3, <2>4, NodeStep
<1>6. CASE UNCHANGED <<valid, my_slot, left, excess>>
  <2>1. pc' \in [Euids -> {"idle", "wait"}]
    BY <1>1 DEF Listen, Blink, Released, LeaseExpiry, PanInv, PanTypeOK
  <2>2. PanTypeOK'
    BY <1>1, <1>2, <1>4, <1>6, <2>1 DEF PanInv, PanTypeOK
  <2>. QED BY <1>1, <1>3, <1>6, <2>2, NodeStep
<1>. QED BY <1>5, <1>6 DEF Listen, Blink, Released

LEMMA PanSilent ==
    ASSUME PanInv, BroadcastReset \/ MasterListen \/ MasterReleased \/ HearReset \/ Lost
    PROVE  PanInv'
<1>1. UNCHANGED <<masterVars, agreed>>
  BY DEF BroadcastReset, MasterListen, MasterReleased, HearReset, Lost
<1>2. TypeOK'
  BY <1>1 DEF PanInv, PanTypeOK, TypeOK, masterVars, table, flash
<1>3. air' \in {air, NoFrame, Reset} /\ air' \in Frames \cup {NoFrame}
  BY FrameTypes DEF BroadcastReset, MasterListen, MasterReleased, HearReset, Lost,
                    Reset, PanInv, PanTypeOK
<1>4. mpc' \in {"idle", "wait"} /\ pan_cycles' \in 0..ResetCycles
  BY LeaseConstants DEF BroadcastReset, MasterListen, MasterReleased, HearReset, Lost,
                        PanInv, PanTypeOK
<1>5. CASE HearReset
  <2>1. PICK R \in SUBSET Waiting :
          /\ valid' = [n \in Euids |-> valid[n] /\ n \notin R]
          /\ my_slot' = [n \in Euids |-> IF n \in R THEN NoSlot ELSE my_slot[n]]
          /\ left' = [n \in Euids |-> IF n \in R THEN -1 ELSE left[n]]
          /\ excess' = [n \in Euids |-> IF n \in R THEN 0 ELSE excess[n]]
    BY <1>5 DEF HearReset
  <2>2. pc' = pc
    BY <1>5 DEF HearReset
  <2>3. /\ my_slot' \in [Euids -> 0..NoSlot] /\ valid' \in [Euids -> BOOLEAN]
        /\ left' \in [Euids -> Nat \cup {-1}] /\ excess' \in [Euids -> {0, Turn, UsWrap}]
    BY <2>1, Numbers DEF PanInv, PanTypeOK
  <2>4. PanTypeOK'
    BY <1>1, <1>2, <1>3, <1>4, <2>2, <2>3 DEF PanInv, PanTypeOK
  <2>5. \A m \in Euids : valid'[m] => /\ valid[m] /\ my_slot'[m] = my_slot[m]
                                      /\ left'[m] = left[m] /\ excess'[m] = excess[m]
    BY <2>1
  <2>. QED BY <1>1, <1>3, <2>4, <2>5, NodeStep
<1>6. CASE UNCHANGED nodeVars
  <2>1. PanTypeOK'
    BY <1>1, <1>2, <1>3, <1>4, <1>6 DEF PanInv, PanTypeOK, nodeVars
  <2>. QED BY <1>1, <1>3, <1>6, <2>1, NodeStep DEF nodeVars
<1>. QED BY <1>5, <1>6 DEF BroadcastReset, MasterListen, MasterReleased, Lost
LEMMA AirKinds ==
    ASSUME PanInv, air # NoFrame
    PROVE  /\ air.kind = "req" => \E n \in population : air = Req(n)
           /\ air.kind = "resp" =>
                \E n \in population, s \in 0..NoSlot, l \in Nat :
                   air = Resp(n, s, l) /\ \E i \in RecordsOf(n) : Covers(i, s, l)
<1>1. /\ Reset.kind = "reset"
      /\ \A n : Req(n).kind = "req"
      /\ \A n, s, l : Resp(n, s, l).kind = "resp"
  BY DEF Reset, Req, Resp
<1>. QED BY <1>1 DEF AirTrue, PanInv

LEMMA PanResponse == ASSUME PanInv, HearResponse PROVE PanInv'
<1>1. PICK n \in population, s \in 0..NoSlot, l \in Nat :
         air = Resp(n, s, l) /\ \E i \in RecordsOf(n) : Covers(i, s, l)
  BY AirKinds DEF HearResponse
<1>2. air.node = n /\ air.slot = s /\ air.lease = l /\ n \in Euids
  BY <1>1 DEF Resp, PanInv, PanTypeOK, TypeOK
<1>3. PICK t \in Nat, x \in {0, Turn, UsWrap} :
         /\ t <= l + x
         /\ left' = [left EXCEPT ![n] = t] /\ excess' = [excess EXCEPT ![n] = x]
  <2>1. PICK rx \in 0..(Turn - 1), epoch \in 0..(Turn - 1) :
           /\ left' = [left EXCEPT ![n] = LeaseLeft(l, rx - epoch)]
           /\ excess' = [excess EXCEPT ![n] = Excess(l, rx - epoch)]
    BY <1>2 DEF HearResponse
  <2>2. PICK age \in Int : age = rx - epoch /\ -Turn <= age
    BY LeaseConstants
  <2>3. /\ LeaseLeft(l, age) \in Nat /\ LeaseLeft(l, age) <= UsWrap
        /\ l - age >= 0 => LeaseLeft(l, age) <= l - age
    BY LeaseConstants DEF LeaseLeft
  <2>4. /\ age < 0 => Excess(l, age) = Turn
        /\ age > l => Excess(l, age) = UsWrap
        /\ ~(age < 0) /\ ~(age > l) => Excess(l, age) = 0
    BY <2>2, LeaseConstants DEF Excess
  <2>5. LeaseLeft(l, age) <= l + Excess(l, age) /\ Excess(l, age) \in {0, Turn, UsWrap}
    BY <2>2, <2>3, <2>4, LeaseConstants
  <2>. QED BY <2>1, <2>2, <2>3, <2>5
<1>4. /\ valid' = [valid EXCEPT ![n] = TRUE] /\ my_slot' = [my_slot EXCEPT ![n] = s]
      /\ pc' = [pc EXCEPT ![n] = "idle"]
      /\ agreed' = [agreed EXCEPT ![n] = TRUE]
      /\ air' = NoFrame /\ UNCHANGED <<masterVars, mpc, pan_cycles>>
  BY <1>2 DEF HearResponse
<1>5. UNCHANGED <<population, up, addr, euid, slot_id, until>>
  BY <1>4 DEF masterVars, table
<1>6. TypeOK'
  BY <1>4 DEF PanInv, PanTypeOK, TypeOK, masterVars, table, flash
<1>7. PanTypeOK'
  BY <1>2, <1>3, <1>4, <1>6 DEF PanInv, PanTypeOK
<1>8. AirTrue'
  BY <1>4 DEF AirTrue
<1>9. TimerRuns'
  BY <1>3, <1>4 DEF TimerRuns, PanInv, PanTypeOK
<1>10. \A m : RecordsOf(m)' = RecordsOf(m)
  BY <1>5 DEF RecordsOf, Used
<1>11. \A m \in Euids : m # n => /\ valid'[m] = valid[m] /\ my_slot'[m] = my_slot[m]
                                 /\ left'[m] = left[m] /\ agreed'[m] = agreed[m]
                                 /\ excess'[m] = excess[m]
  BY <1>3, <1>4 DEF PanInv, PanTypeOK
<1>12. my_slot'[n] = s /\ left'[n] = t /\ excess'[n] = x
  BY <1>2, <1>3, <1>4 DEF PanInv, PanTypeOK
<1>13. PICK i \in RecordsOf(n) : slot_id[i] = s /\ up + l <= until[i]
  BY <1>1 DEF Covers
<1>14. up + t <= until[i] + x
  <2>1. up \in Nat /\ until[i] \in Int /\ x \in Nat
    BY PanConstants, LeaseConstants DEF RecordsOf, Used, PanInv, PanTypeOK, TypeOK
  <2>. QED BY <1>3, <1>13, <2>1
<1>15. HoldersCovered'
  <2>1. \A m \in population : m \in Euids
    BY DEF PanInv, PanTypeOK, TypeOK
  <2>. QED BY <1>5, <1>10, <1>11, <1>12, <1>13, <1>14, <2>1
              DEF HoldersCovered, Holds, PanInv
<1>. QED BY <1>7, <1>8, <1>9, <1>15 DEF PanInv

LEMMA PanTime == ASSUME PanInv, PanTick PROVE PanInv'
<1>1. /\ air = NoFrame /\ \A n \in Euids : left[n] # 0
      /\ left' = [n \in Euids |-> IF left[n] > 0 THEN left[n] - 1 ELSE left[n]]
      /\ up' = up + 1 /\ Tick
      /\ UNCHANGED <<pc, valid, my_slot, excess, mpc, pan_cycles, air, agreed>>
      /\ UNCHANGED <<population, addr, euid, slot_id, until>>
  BY DEF PanTick, Tick, table
<1>2. TypeOK'
  BY <1>1, TypeOther DEF PanInv, PanTypeOK
<1>3. ASSUME NEW n \in Euids
      PROVE  /\ left'[n] \in Nat \cup {-1}
             /\ valid[n] => left'[n] = left[n] - 1 /\ left'[n] \in Nat
  <2>1. left[n] \in Nat \cup {-1} /\ left[n] # 0 /\ (valid[n] => left[n] \in Nat)
    BY <1>1 DEF PanInv, PanTypeOK, TimerRuns
  <2>2. left'[n] = IF left[n] > 0 THEN left[n] - 1 ELSE left[n]
    BY <1>1
  <2>. QED BY <2>1, <2>2
<1>4. left' \in [Euids -> Nat \cup {-1}]
  BY <1>1, <1>3
<1>5. PanTypeOK'
  BY <1>1, <1>2, <1>4 DEF PanInv, PanTypeOK
<1>6. AirTrue' /\ TimerRuns'
  BY <1>1, <1>3 DEF AirTrue, TimerRuns
<1>7. \A n : RecordsOf(n)' = RecordsOf(n)
  BY <1>1 DEF RecordsOf, Used
<1>8. HoldersCovered'
  <2>1. ASSUME NEW n \in population, valid[n], my_slot[n] # NoSlot, agreed[n]
        PROVE  \E i \in RecordsOf(n) : 
                    slot_id[i] = my_slot[n] /\ up' + left'[n] <= until[i] + excess[n]
    <3>1. PICK i \in RecordsOf(n) : 
               slot_id[i] = my_slot[n] /\ up + left[n] <= until[i] + excess[n]
      BY <2>1 DEF HoldersCovered, Holds, PanInv
    <3>2. n \in Euids /\ left[n] \in Nat /\ up \in Nat
      BY <2>1, PanConstants DEF PanInv, TimerRuns, PanTypeOK, TypeOK
    <3>3. up' + left'[n] = up + left[n]
      BY <1>1, <1>3, <2>1, <3>2
    <3>. QED BY <3>1, <3>3
  <2>. QED BY <1>1, <1>7, <2>1 DEF HoldersCovered, Holds
<1>. QED BY <1>5, <1>6, <1>8 DEF PanInv

LEMMA PanSave == ASSUME PanInv, MasterPostProcess PROVE PanInv'
<1>1. /\ PostProcess /\ UNCHANGED <<population, up, addr, euid, slot_id, until>>
      /\ UNCHANGED <<pc, valid, my_slot, left, excess, mpc, pan_cycles, air, agreed>>
  BY DEF MasterPostProcess, PostProcess, panVars, nodeVars
<1>2. TypeOK'
  BY <1>1, TypeOther DEF PanInv, PanTypeOK
<1>3. PanTypeOK'
  BY <1>1, <1>2 DEF PanInv, PanTypeOK
<1>4. \A n : RecordsOf(n)' = RecordsOf(n)
  BY <1>1 DEF RecordsOf, Used
<1>5. \A i, s, l : Covers(i, s, l)' <=> Covers(i, s, l)
  BY <1>1 DEF Covers
<1>6. AirTrue'
  BY <1>1, <1>4, <1>5 DEF AirTrue, PanInv
<1>7. TimerRuns' /\ HoldersCovered'
  BY <1>1, <1>4 DEF TimerRuns, HoldersCovered, Holds, PanInv
<1>. QED BY <1>3, <1>6, <1>7 DEF PanInv

LEMMA PanRestart == ASSUME PanInv, MasterRestart PROVE PanInv'
<1>1. /\ Restart /\ mpc' = "idle" /\ pan_cycles' = 0 /\ air' = NoFrame
      /\ agreed' = [n \in Euids |-> FALSE]
      /\ UNCHANGED <<pc, valid, my_slot, left, excess, population>>
  BY DEF MasterRestart, Restart, nodeVars
<1>2. TypeOK'
  BY <1>1, TypeRestart DEF PanInv, PanTypeOK
<1>3. 0 \in 0..ResetCycles
  BY LeaseConstants
<1>4. PanTypeOK'
  BY <1>1, <1>2, <1>3 DEF PanInv, PanTypeOK
<1>5. HoldersCovered'
  BY <1>1 DEF HoldersCovered, PanInv, PanTypeOK, TypeOK
<1>. QED BY <1>1, <1>4, <1>5 DEF PanInv, AirTrue, TimerRuns
\* A request gives its node a record for the time asked for, and leaves those of
\* the others alone.
LEMMA Granted ==
    ASSUME TypeOK, NEW e \in population, NEW r \in Roles, NEW l \in Leases,
           RenewLease(e, r, l) \/ NewLease(e, r, l)
    PROVE  /\ RecordFor(e) \in RecordsOf(e)'
           /\ slot_id'[RecordFor(e)] \in 0..NoSlot
           /\ until'[RecordFor(e)] = up + LeaseTime(l)
           /\ up' = up /\ population' = population
           /\ \A m : m # e => \A j \in RecordsOf(m) :
                 j \in RecordsOf(m)' /\ slot_id'[j] = slot_id[j] /\ until'[j] = until[j]
<1>1. PICK i \in Index : i = RecordFor(e) /\ (i \in RecordsOf(e) \/ i \notin Used)
  BY RecordPlace DEF RenewLease, NewLease, RecordsOf, Used
<1>2. PICK a : a = IF RenewLease(e, r, l) THEN addr[i] ELSE FirstFreeAddr(e)
  OBVIOUS
<1>3. PICK s \in 0..NoSlot : s = FirstFreeSlot(a, r)
  BY SlotType
<1>4. /\ slot_id' = [slot_id EXCEPT ![i] = s]
      /\ until' = [until EXCEPT ![i] = up + LeaseTime(l)]
      /\ up' = up /\ population' = population
  <2>1. RenewLease(e, r, l) => RecordsOf(e) # {}
    BY DEF RenewLease
  <2>2. NewLease(e, r, l) => RecordsOf(e) = {}
    BY DEF NewLease
  <2>3. CASE RenewLease(e, r, l)
    BY <1>1, <1>2, <1>3, <2>3 DEF RenewLease, StartLease
  <2>4. CASE NewLease(e, r, l)
    <3>1. a = FirstFreeAddr(e)
      BY <1>2, <2>1, <2>2, <2>4
    <3>. QED BY <1>1, <1>3, <2>4, <3>1 DEF NewLease, StartLease
  <2>. QED BY <2>3, <2>4
<1>5. CASE RenewLease(e, r, l)
  <2>1. RecordsOf(e) # {} /\ UNCHANGED <<addr, euid>>
    BY <1>5 DEF RenewLease
  <2>2. i \in RecordsOf(e)
    BY <1>1, <2>1, RecordPlace
  <2>3. \A m : RecordsOf(m)' = RecordsOf(m)
    BY <2>1 DEF RecordsOf, Used
  <2>4. \A m : m # e => i \notin RecordsOf(m)
    BY <2>2 DEF RecordsOf
  <2>5. \A m : \A j \in RecordsOf(m) : j \in Index
    BY DEF RecordsOf, Used
  <2>. QED BY <1>1, <1>4, <2>2, <2>3, <2>4, <2>5 DEF TypeOK
<1>6. CASE NewLease(e, r, l)
  <2>1. PICK b : b = FirstFreeAddr(e)
    OBVIOUS
  <2>2. /\ RecordsOf(e) = {} /\ Used # Index
        /\ addr' = [addr EXCEPT ![i] = b] /\ euid' = [euid EXCEPT ![i] = e]
    BY <1>1, <1>6, <2>1 DEF NewLease
  <2>3. b # FreeAddr
    <3>1. PICK j \in Index : addr[j] = FreeAddr
      BY <2>2 DEF Used
    <3>2. e \in Nat
      BY NodesFinite
    <3>3. b # 0 => b # FreeAddr
      BY <2>1, <3>1, <3>2, GoodAddr
    <3>4. FreeAddr # 0
      BY DEF FreeAddr
    <3>. QED BY <3>3, <3>4
  <2>4. i \notin Used
    BY <1>1, <2>2
  <2>5. i \in RecordsOf(e)'
    BY <2>2, <2>3 DEF RecordsOf, Used, TypeOK
  <2>6. ASSUME NEW m, NEW j \in RecordsOf(m)
        PROVE  j \in Index /\ j # i /\ j \in RecordsOf(m)'
    <3>1. j \in Index /\ j # i /\ addr[j] # FreeAddr /\ euid[j] = m
      BY <2>4 DEF RecordsOf, Used
    <3>2. addr'[j] = addr[j] /\ euid'[j] = euid[j]
      BY <2>2, <3>1 DEF TypeOK
    <3>. QED BY <3>1, <3>2 DEF RecordsOf, Used
  <2>. QED BY <1>1, <1>4, <2>5, <2>6 DEF TypeOK
<1>. QED BY <1>5, <1>6

LEMMA PanRequest == ASSUME PanInv, HearRequest PROVE PanInv'
<1>1. PICK e \in population : air = Req(e)
  BY AirKinds DEF HearRequest
<1>2. PICK l \in Leases : l = LeaseOf[e] /\ air.node = e /\ air.lease = l
  BY <1>1, LeaseConstants DEF Req, PanInv, PanTypeOK, TypeOK
<1>3. /\ mpc' = "idle" /\ e \in Euids
      /\ UNCHANGED <<pc, valid, my_slot, left, excess, pan_cycles>>
  BY DEF HearRequest, nodeVars, PanInv, PanTypeOK, TypeOK
<1>4. TypeOK
  BY DEF PanInv, PanTypeOK
<1>5. CASE RenewLease(e, NetworkRole, l) \/ NewLease(e, NetworkRole, l)
  <2>1. TypeOK'
    BY <1>4, <1>5, TypeRequest, LeaseConstants
  <2>2. PICK i : i = RecordFor(e)
    OBVIOUS
  <2>3. PICK t \in Nat : t = LeaseTime(l)
    BY PanConstants DEF LeaseTime
  <2>4. /\ i \in RecordsOf(e)' /\ slot_id'[i] \in 0..NoSlot /\ until'[i] = up + t
        /\ up' = up /\ population' = population
        /\ \A m : m # e => \A j \in RecordsOf(m) :
              j \in RecordsOf(m)' /\ slot_id'[j] = slot_id[j] /\ until'[j] = until[j]
    BY <1>4, <1>5, <2>2, <2>3, Granted, LeaseConstants
  <2>5. PICK s \in 0..NoSlot : s = slot_id'[i]
    BY <2>4
  <2>6. ~TableFull(e)
    BY <1>5 DEF RenewLease, NewLease, TableFull
  <2>7. air' \in {Resp(e, s, t), NoFrame} /\ agreed' = [agreed EXCEPT ![e] = FALSE]
    BY <1>2, <2>2, <2>3, <2>5, <2>6 DEF HearRequest, Resp
  <2>8. PanTypeOK'
    <3>1. air' \in Frames \cup {NoFrame}
      BY <1>3, <2>7, FrameTypes
    <3>. QED BY <1>3, <2>1, <2>7, <3>1 DEF PanInv, PanTypeOK
  <2>9. AirTrue'
    <3>1. Covers(i, s, t)'
      <4>1. up \in Nat
        BY <1>4, PanConstants DEF TypeOK
      <4>. QED BY <2>4, <2>5, <4>1 DEF Covers
    <3>. QED BY <2>4, <2>7, <3>1 DEF AirTrue
  <2>10. HoldersCovered'
    <3>1. ASSUME NEW n \in population, valid[n], my_slot[n] # NoSlot, agreed'[n]
          PROVE  \E j \in RecordsOf(n)' :
                    slot_id'[j] = my_slot[n] /\ up + left[n] <= until'[j] + excess[n]
      <4>1. n # e /\ agreed[n] /\ n \in Euids
        BY <1>3, <1>4, <2>7, <3>1 DEF PanInv, PanTypeOK, TypeOK
      <4>. QED BY <2>4, <3>1, <4>1 DEF HoldersCovered, Holds, PanInv
    <3>. QED BY <1>3, <2>4, <3>1 DEF HoldersCovered, Holds
  <2>. QED BY <1>3, <2>8, <2>9, <2>10 DEF PanInv, TimerRuns
<1>6. CASE TableFull(e) /\ ~(RenewLease(e, NetworkRole, l) \/ NewLease(e, NetworkRole, l))
  <2>1. TypeOK'
    BY <1>4, <1>6, TypeOther
  <2>2. air' = NoFrame /\ agreed' = agreed
    BY <1>2, <1>6 DEF HearRequest, Answered
  <2>3. UNCHANGED <<population, up, addr, euid, slot_id, until>>
    BY <1>6 DEF TableFull, table
  <2>4. \A n : RecordsOf(n)' = RecordsOf(n)
    BY <2>3 DEF RecordsOf, Used
  <2>5. PanTypeOK'
    BY <1>3, <2>1, <2>2 DEF PanInv, PanTypeOK
  <2>. QED BY <1>3, <2>2, <2>3, <2>4, <2>5 DEF PanInv, AirTrue, TimerRuns,
                                               HoldersCovered, Holds
<1>. QED BY <1>2, <1>5, <1>6 DEF HearRequest, Answered

LEMMA PanStep == PanInv /\ [PanNext]_<<masterVars, panVars>> => PanInv'
<1>. SUFFICES ASSUME PanInv, [PanNext]_<<masterVars, panVars>> PROVE PanInv'
  OBVIOUS
<1>1. CASE UNCHANGED <<masterVars, panVars>>
  <2>1. PanTypeOK'
    BY <1>1 DEF PanInv, PanTypeOK, TypeOK, masterVars, table, flash, panVars, nodeVars
  <2>. QED BY <1>1, <2>1, NodeStep DEF panVars, nodeVars
<1>2. CASE PanNext
  BY <1>2, PanNodes, PanSilent, PanResponse, PanTime, PanSave, PanRestart, PanRequest
     DEF PanNext, OtherFrame, RxTimeout, ResetCb
<1>. QED BY <1>1, <1>2

LEMMA PanInvCorrect == PanSpec => []PanInv
BY PanInvInit, PanStep, PTL DEF PanSpec

\* Whatever is lost, answered late or reset, and however often the master
\* restarts: a lease that a node counts on, if it heard the master's last word, is
\* on the master's books for the same slot and for at least as long, but for the
\* excess that the subtraction in uwb_pan lets it overstay.
THEOREM PanHoldersCovered == PanSpec => []HoldersCovered
<1>1. PanInv => HoldersCovered
  BY DEF PanInv
<1>. QED BY <1>1, PanInvCorrect, PTL

\* On the air the master does nothing but what its table allows, so what is proved
\* of MasterSpec holds of the network.
THEOREM PanImplementsMaster == PanSpec => MasterSpec
<1>1. PanInv /\ [PanNext]_<<masterVars, panVars>> => [MasterNext]_masterVars
  <2>. SUFFICES ASSUME PanInv, [PanNext]_<<masterVars, panVars>>
                PROVE  [MasterNext]_masterVars
    OBVIOUS
  <2>1. CASE HearRequest
    <3>1. PICK e \in population : air = Req(e)
      BY <2>1, AirKinds DEF HearRequest
    <3>2. PICK l \in Leases : l = LeaseOf[e] /\ air.node = e /\ air.lease = l
      BY <3>1, LeaseConstants DEF Req, PanInv, PanTypeOK, TypeOK
    <3>3. \/ RenewLease(e, NetworkRole, l) \/ NewLease(e, NetworkRole, l)
          \/ TableFull(e)
      BY <2>1, <3>2 DEF HearRequest, Answered
    <3>. QED BY <3>3, LeaseConstants DEF MasterNext
  <2>2. CASE PanTick \/ MasterPostProcess \/ MasterRestart
    BY <2>2 DEF PanTick, MasterPostProcess, MasterRestart, MasterNext
  <2>3. CASE UNCHANGED masterVars
    BY <2>3
  <2>. QED BY <2>1, <2>2, <2>3
           DEF PanNext, Listen, Blink, OtherFrame, RxTimeout, ResetCb, Released,
               LeaseExpiry, BroadcastReset, MasterListen, MasterReleased,
               HearResponse, HearReset, Lost
<1>. QED BY <1>1, PanInvCorrect, PTL DEF PanSpec, MasterSpec

-----------------------------------------------------------------------------
(* No slot is shared *)

RolesAlike ==
    /\ toSave # NoEntry => toSave.role = NetworkRole
    /\ \A i \in Used : role[i] = NetworkRole
    /\ \A i \in Index : byIndex[i] # NoEntry => byIndex[i].role = NetworkRole

LEMMA RolesInit == ASSUME Init PROVE RolesAlike
<1>1. Used = {}
  BY DEF Init, Used
<1>. QED BY <1>1 DEF Init, RolesAlike

LEMMA RolesStep ==
    ASSUME PanInv, Supported, Table, RolesAlike, [PanNext]_<<masterVars, panVars>>
    PROVE  RolesAlike'
<1>0. TypeOK
  BY DEF PanInv, PanTypeOK
<1>1. CASE UNCHANGED <<addr, role, toSave, byIndex>>
  BY <1>1 DEF RolesAlike, Used
<1>2. CASE HearRequest
  <2>1. PICK e \in population : air = Req(e)
    BY <1>2, AirKinds DEF HearRequest
  <2>2. PICK l \in Leases : l = LeaseOf[e] /\ air.node = e /\ air.lease = l
    BY <2>1, LeaseConstants DEF Req, PanInv, PanTypeOK, TypeOK
  <2>3. ~TableFull(e)
    BY <1>0, NeverFull
  <2>4. RenewLease(e, NetworkRole, l) \/ NewLease(e, NetworkRole, l)
    BY <1>2, <2>2, <2>3 DEF HearRequest, Answered
  <2>5. toSave'.role = NetworkRole /\ byIndex' = byIndex
    BY <2>4 DEF RenewLease, NewLease, Entry, flash
  <2>6. \A i \in Used' : role'[i] = NetworkRole
    <3>1. PICK k \in Index : k = RecordFor(e)
      BY <1>0, <2>4, RecordPlace DEF RenewLease, NewLease, RecordsOf, Used
    <3>2. CASE UNCHANGED <<addr, role>>
      BY <3>2 DEF RolesAlike, Used
    <3>3. CASE NewLease(e, NetworkRole, l)
      <4>1. PICK a : addr' = [addr EXCEPT ![k] = a]
        BY <3>1, <3>3 DEF NewLease
      <4>2. role' = [role EXCEPT ![k] = NetworkRole]
        BY <3>1, <3>3 DEF NewLease
      <4>. QED BY <1>0, <4>1, <4>2 DEF RolesAlike, Used, TypeOK
    <3>. QED BY <2>4, <3>2, <3>3 DEF RenewLease
  <2>. QED BY <2>5, <2>6 DEF RolesAlike
<1>3. CASE MasterPostProcess
  <2>1. PICK n \in Nodes : n = toSave /\ n # NoEntry /\ n.index \in Index
    BY <1>0, <1>3 DEF MasterPostProcess, PostProcess, TypeOK, Nodes
  <2>2. n.role = NetworkRole /\ toSave' = NoEntry /\ addr' = addr
    BY <1>3, <2>1 DEF MasterPostProcess, PostProcess, RolesAlike
  <2>3. \/ UNCHANGED <<role, byIndex>>
        \/ /\ role' = [role EXCEPT ![n.index] = n.role]
           /\ byIndex' = [byIndex EXCEPT ![n.index] = n]
    BY <1>3, <2>1 DEF MasterPostProcess, PostProcess, SaveNode, flash
  <2>. QED BY <1>0, <2>1, <2>2, <2>3 DEF RolesAlike, Used, TypeOK
<1>4. CASE MasterRestart
  <2>1. \A k \in Index : Sorted[k] # NoEntry => Sorted[k].role = NetworkRole
    <3>1. ASSUME NEW k \in Index, Sorted[k] # NoEntry
          PROVE  Sorted[k].role = NetworkRole
      <4>1. PICK i \in Stored : /\ byIndex[i] \in Nodes
                                /\ Sorted[k] = [byIndex[i] EXCEPT !.index = k]
        BY <1>0, <3>1, SortedType
      <4>2. byIndex[i].role = NetworkRole
        BY DEF Stored, RolesAlike
      <4>. QED BY <4>1, <4>2 DEF Nodes
    <3>. QED BY <3>1
  <2>2. \A k \in Used' : k \in Index /\ Sorted[k] # NoEntry
    BY <1>4 DEF MasterRestart, Restart, Used
  <2>. QED BY <1>4, <2>1, <2>2 DEF MasterRestart, Restart, RolesAlike
<1>. QED
  BY <1>1, <1>2, <1>3, <1>4
     DEF PanNext, Listen, Blink, OtherFrame, RxTimeout, ResetCb, Released, LeaseExpiry,
         BroadcastReset, MasterListen, MasterReleased, HearResponse, HearReset, Lost,
         PanTick, Tick, masterVars, table, flash

\* The node heard the master's last word on its lease, and does not overstay it.
UpToDate(n) == Holds(n) /\ agreed[n] /\ excess[n] = 0

\* Two such nodes do not send in the same slot.
NoSlotShared ==
    \A m, n \in population :
        m # n /\ UpToDate(m) /\ UpToDate(n) => my_slot[m] # my_slot[n]

LEMMA SharedCovered ==
    ASSUME PanInv, RolesAlike, SlotsExclusive, NoneOverwritten
    PROVE  NoSlotShared
<1>1. ASSUME NEW n \in population, UpToDate(n)
      PROVE  \E i \in Index : /\ euid[i] = n /\ slot_id[i] = my_slot[n]
                              /\ Running(i) /\ asked[i] = NetworkRole
  <2>0. Holds(n) /\ agreed[n] /\ excess[n] = 0
    BY <1>1 DEF UpToDate
  <2>1. PICK i \in RecordsOf(n) :
           slot_id[i] = my_slot[n] /\ up + left[n] <= until[i] + excess[n]
    BY <2>0 DEF PanInv, HoldersCovered
  <2>2. i \in Used /\ i \in Index /\ euid[i] = n
    BY DEF RecordsOf, Used
  <2>3. left[n] \in Nat /\ up \in Nat /\ until[i] \in Int
    BY <2>0, <2>2, PanConstants DEF PanInv, TimerRuns, Holds, PanTypeOK, TypeOK
  <2>4. Running(i)
    BY <2>0, <2>1, <2>2, <2>3 DEF Running
  <2>5. asked[i] = NetworkRole
    BY <2>2 DEF NoneOverwritten, Overwritten, RolesAlike
  <2>. QED BY <2>1, <2>2, <2>4, <2>5
<1>2. ASSUME NEW m \in population, NEW n \in population, m # n,
             UpToDate(m), UpToDate(n)
      PROVE  my_slot[m] # my_slot[n]
  <2>1. PICK i \in Index : /\ euid[i] = m /\ slot_id[i] = my_slot[m]
                           /\ Running(i) /\ asked[i] = NetworkRole
    BY <1>1, <1>2
  <2>2. PICK j \in Index : /\ euid[j] = n /\ slot_id[j] = my_slot[n]
                           /\ Running(j) /\ asked[j] = NetworkRole
    BY <1>1, <1>2
  <2>3. ~Overwritten(i) /\ ~Overwritten(j)
    BY <2>1, <2>2 DEF NoneOverwritten, Running
  <2>. QED BY <1>2, <2>1, <2>2, <2>3 DEF SlotsExclusive
<1>. QED BY <1>2 DEF NoSlotShared

\* As long as no lease passes half the range of the master's clock, and there are
\* no more nodes than its table holds, no slot is shared by two nodes that heard
\* the master's last word and whose leases the radio's clock did not lengthen
\* (uwb_pan and panmaster together, without the shell's commands).
THEOREM PanNoSlotShared ==
    ASSUME NoWrap PROVE PanSpec => [](Supported => NoSlotShared)
<1>1. Init => (Supported => RolesAlike)
  BY RolesInit
<1>2. /\ PanInv /\ Inv /\ (Supported => RolesAlike)
      /\ [PanNext]_<<masterVars, panVars>> /\ [MasterNext]_masterVars
      => (Supported => RolesAlike)'
  <2>. SUFFICES ASSUME PanInv, Inv, Supported => RolesAlike,
                       [PanNext]_<<masterVars, panVars>>, [MasterNext]_masterVars
                PROVE  (Supported => RolesAlike)'
    OBVIOUS
  <2>1. population' = population
    BY DEF MasterNext, masterVars, RenewLease, NewLease, TableFull, Delete,
           PostProcess, Clear, Restart, Tick
  <2>2. Supported' <=> Supported
    BY <2>1 DEF Supported, Alike
  <2>. QED BY <2>2, RolesStep DEF Inv
<1>3. PanInv /\ (Supported => RolesAlike)
      /\ (Supported => SlotsExclusive /\ NoneOverwritten)
        => (Supported => NoSlotShared)
  BY SharedCovered
<1>. QED BY <1>1, <1>2, <1>3, PanInvCorrect, PanImplementsMaster, InvCorrect,
            PanSlotsExclusive, PTL DEF PanSpec, MasterSpec

-----------------------------------------------------------------------------
(* Firmware broadcast.  That an upload which goes on without erasing goes  *)
(* on over the same version holds because versions grow and packets are    *)
(* heard in the order they are sent: where a node holds anything of the    *)
(* newest version, the packet on the air is of the newest version too, so  *)
(* nothing older can still be written beside it.                           *)

(* Part of OtaConstants: there is a first cell, and it is not the last. *)
LEMMA FirstCell == 0 \in Cells /\ Size - 1 \in Cells /\ Size - 1 # 0
BY OtaConstants DEF Cells

Values == {mixed, erased} \cup Versions
Areas == [Cells -> Values]

(* Writing flash gives an area again (flash_area_write). *)
LEMMA WrittenArea ==
    ASSUME NEW f \in Areas, NEW p \in Packet, NEW S
    PROVE  /\ Written(f, p, S) \in Areas
           /\ \A c \in Cells : Written(f, p, S)[c] \in {f[c], p.ver, mixed}
<1>1. p.ver \in Versions
  BY DEF Packet
<1>. QED BY <1>1 DEF Written, Areas, Values

LEMMA BlankArea == Blank \in Areas
BY DEF Blank, Areas, Values

(* What a node has of an image when it starts to write is an area. *)
LEMMA ReadyArea ==
    ASSUME OtaTypeOK, NEW n \in Receivers, NEW p
    PROVE  Ready(n, p) \in Areas
BY BlankArea DEF OtaTypeOK, Ready, Areas, Values

(* A restart keeps the types of what a node has. *)
LEMMA BootType ==
    ASSUME OtaTypeOK, NEW n \in Receivers, NEW f \in Areas, Boot(n, f)
    PROVE  /\ area' \in [Receivers -> Areas] /\ running' \in [Receivers -> Versions]
           /\ known' \in [Receivers -> BOOLEAN] /\ up_off' \in [Receivers -> 0..Size]
           /\ pending' \in [Receivers -> BOOLEAN]
<1>1. 0 \in 0..Size
  BY OtaConstants
<1>2. CASE pending[n] /\ Whole(f)
  <2>1. f[0] \in Versions
    BY <1>2 DEF Whole
  <2>2. [c \in Cells |-> running[n]] \in Areas
    BY DEF OtaTypeOK, Areas, Values
  <2>. QED BY <1>1, <1>2, <2>1, <2>2 DEF Boot, OtaTypeOK, Areas, Values
<1>3. CASE ~(pending[n] /\ Whole(f))
  BY <1>1, <1>3 DEF Boot, OtaTypeOK, Areas, Values
<1>. QED BY <1>2, <1>3

-----------------------------------------------------------------------------
(* A packet that comes in leaves an area, whatever was there before. *)
LEMMA UploadArea ==
    ASSUME OtaTypeOK, NEW n \in Receivers, packet # NoPacket, NEW S
    PROVE  Written(Ready(n, packet), packet, S) \in Areas
<1>1. packet \in Packet
  BY DEF OtaTypeOK
<1>. QED BY <1>1, ReadyArea, WrittenArea

(* What a crash while the flash is erased leaves is an area. *)
LEMMA ErasingArea ==
    ASSUME OtaTypeOK, NEW n \in Receivers, NEW k
    PROVE  [c \in Cells |-> IF c <= k THEN erased ELSE area[n][c]] \in Areas
BY DEF OtaTypeOK, Areas, Values

(* What txim_ev_cb sends is a packet within the flash area. *)
LEMMA SentIsPacket ==
    ASSUME OtaTypeOK, SendNext
    PROVE  packet' \in Packet
<1>1. ver \in Versions /\ From \in 0..Size /\ From < Size
  BY OtaConstants DEF OtaTypeOK, SendNext, From
<1>2. Length \in 1..Size /\ From + Length <= Size
  BY <1>1, OtaConstants DEF From, Length, OtaTypeOK
<1>. QED BY <1>1, <1>2, OtaConstants DEF SendNext, Packet, Cells

(* Every step keeps the types; that a packet is on the air while somebody may *)
(* still hear it is needed for the uploads.                                   *)
HeardOnAir == packet = NoPacket => to = {}

LEMMA OtaTypeStep ==
    ASSUME OtaTypeOK, HeardOnAir, [OtaNext]_otaVars
    PROVE  OtaTypeOK' /\ HeardOnAir'
<1>. USE OtaConstants
<1>a. /\ ver \in Versions /\ off \in 0..Size /\ reset \in 0..Repeats
      /\ resend_end \in -1..EndRepeats /\ armed \in BOOLEAN
      /\ packet \in Packet \cup {NoPacket} /\ to \subseteq Receivers
      /\ area \in [Receivers -> Areas] /\ known \in [Receivers -> BOOLEAN]
      /\ up_off \in [Receivers -> 0..Size] /\ pending \in [Receivers -> BOOLEAN]
      /\ running \in [Receivers -> Versions] /\ faults \in 0..MaxFaults
  BY DEF OtaTypeOK, Areas, Values
<1>b. Fault => faults' \in 0..MaxFaults
  BY <1>a DEF Fault
<1>c. ASSUME area' \in [Receivers -> Areas] PROVE area' \in [Receivers -> [Cells -> {mixed, erased} \cup Versions]]
  BY <1>c DEF Areas, Values
<1>1. CASE Load
  <2>1. ver' \in Versions
    BY <1>a, <1>1 DEF Load, Versions
  <2>. QED BY <1>1, <2>1 DEF Load, OtaTypeOK, HeardOnAir, recvVars
<1>2. CASE Txim
  <2>1. reset' \in 0..Repeats /\ faults' \in 0..MaxFaults
    BY <1>a, <1>b, <1>2 DEF Txim
  <2>. QED BY <1>2, <2>1 DEF Txim, OtaTypeOK, HeardOnAir, recvVars
<1>3. CASE SendNext
  <2>1. From \in 0..Size /\ From < Size
    BY <1>a, <1>3 DEF SendNext, From
  <2>2. Length \in 1..Size /\ From + Length <= Size
    BY <1>a, <2>1 DEF From, Length
  <2>3. packet' \in Packet
    BY <1>3, SentIsPacket
  <2>4. off' \in 0..Size /\ reset' \in 0..Repeats /\ resend_end' \in -1..EndRepeats
    BY <1>a, <1>3, <2>1, <2>2 DEF SendNext
  <2>5. packet' # NoPacket \/ to' = {}
    BY NoPacketAssumption, <2>3
  <2>. QED BY <1>3, <2>3, <2>4, <2>5 DEF SendNext, OtaTypeOK, HeardOnAir, recvVars
<1>4. CASE SendEnd
  <2>1. From \in 0..Size
    BY <1>a DEF From
  <2>2. [ver |-> ver, off |-> Size - 1, len |-> 1] \in Packet
    BY <1>a DEF Packet, Cells
  <2>3. /\ packet' \in Packet \cup {NoPacket} /\ off' \in 0..Size
        /\ to' \subseteq Receivers /\ armed' \in BOOLEAN
    <3>1. CASE resend_end' > 0
      <4>1. packet' = [ver |-> ver, off |-> Size - 1, len |-> 1] /\ to' = Receivers
        BY <1>4, <3>1 DEF SendEnd
      <4>2. off' = Size /\ armed' = armed
        BY <1>4, <3>1 DEF SendEnd
      <4>. QED BY <1>a, <2>2, <4>1, <4>2
    <3>2. CASE ~(resend_end' > 0)
      <4>1. armed' = FALSE /\ off' = From /\ packet' = packet /\ to' = to
        BY <1>4, <3>2 DEF SendEnd
      <4>. QED BY <1>a, <2>1, <4>1
    <3>. QED BY <3>1, <3>2
  <2>4. resend_end' \in -1..EndRepeats /\ faults' \in 0..MaxFaults
    BY <1>a, <1>b, <1>4 DEF SendEnd
  <2>5. packet' = NoPacket => to' = {}
    BY <1>4, <2>2, NoPacketAssumption DEF SendEnd, HeardOnAir
  <2>. QED BY <1>4, <2>3, <2>4, <2>5 DEF SendEnd, OtaTypeOK, HeardOnAir, recvVars
<1>5. ASSUME NEW n \in Receivers, Upload(n) PROVE OtaTypeOK' /\ HeardOnAir'
  <2>1. packet \in Packet
    BY <1>a, <1>5 DEF Upload, HeardOnAir
  <2>2. Written(Ready(n, packet), packet, Covered(packet)) \in Areas
    BY <1>5, UploadArea DEF Upload, HeardOnAir
  <2>3. packet.off + packet.len \in 0..Size
    BY <2>1 DEF Packet, Cells
  <2>4. area' \in [Receivers -> Areas]
    BY <1>a, <1>5, <2>2 DEF Upload
  <2>5. known' \in [Receivers -> BOOLEAN] /\ up_off' \in [Receivers -> 0..Size]
    BY <1>a, <1>5, <2>3 DEF Upload
  <2>6. pending' \in [Receivers -> BOOLEAN]
    <3>1. (up_off'[n] = Size /\ Whole(Written(Ready(n, packet), packet, Covered(packet)))) \in BOOLEAN
      OBVIOUS
    <3>2. \/ pending' = pending
          \/ pending' = [pending EXCEPT ![n] = (up_off'[n] = Size /\ Whole(Written(Ready(n, packet), packet, Covered(packet))))]
      BY <1>5 DEF Upload
    <3>. QED BY <1>a, <3>1, <3>2
  <2>7. to' \subseteq Receivers /\ (packet' = NoPacket => to' = {})
    BY <1>a, <1>5 DEF Upload, HeardOnAir
  <2>. QED BY <1>a, <1>5, <1>c, <2>4, <2>5, <2>6, <2>7 DEF Upload, OtaTypeOK, HeardOnAir, sendVars
<1>6. ASSUME NEW n \in Receivers, Lose(n) PROVE OtaTypeOK' /\ HeardOnAir'
  BY <1>b, <1>6 DEF Lose, OtaTypeOK, HeardOnAir, sendVars, recvVars
<1>7. ASSUME NEW n \in Receivers, Reboot(n) PROVE OtaTypeOK' /\ HeardOnAir'
  <2>1. area[n] \in Areas
    BY <1>a
  <2>2. area' \in [Receivers -> Areas]
    BY <1>7, <2>1, BootType DEF Reboot
  <2>. QED BY <1>7, <1>c, <2>1, <2>2, BootType DEF Reboot, OtaTypeOK, HeardOnAir, sendVars
<1>8. ASSUME NEW n \in Receivers, Crash(n) PROVE OtaTypeOK' /\ HeardOnAir'
  <2>1. area[n] \in Areas
    BY <1>a
  <2>2. area' \in [Receivers -> Areas]
    BY <1>8, <2>1, BootType DEF Crash
  <2>. QED BY <1>8, <1>b, <1>c, <2>1, <2>2, BootType DEF Crash, OtaTypeOK, HeardOnAir, sendVars
<1>9. ASSUME NEW n \in Receivers, CrashInUpload(n) PROVE OtaTypeOK' /\ HeardOnAir'
  <2>1. packet # NoPacket
    BY <1>9 DEF CrashInUpload, HeardOnAir
  <2>2. PICK f \in Areas : Boot(n, f)
    BY <1>9, <2>1, ErasingArea, UploadArea DEF CrashInUpload
  <2>3. area' \in [Receivers -> Areas]
    BY <2>2, BootType
  <2>4. to' \subseteq Receivers /\ packet' = packet
    BY <1>a, <1>9 DEF CrashInUpload
  <2>. QED BY <1>9, <1>b, <1>c, <2>1, <2>2, <2>3, <2>4, BootType DEF CrashInUpload, OtaTypeOK, HeardOnAir, sendVars
<1>10. CASE UNCHANGED otaVars
  BY <1>10 DEF OtaTypeOK, HeardOnAir, otaVars, sendVars, recvVars
<1>. QED BY <1>1, <1>2, <1>3, <1>4, <1>5, <1>6, <1>7, <1>8, <1>9, <1>10 DEF OtaNext

LEMMA OtaInitType == OtaInit => OtaTypeOK /\ HeardOnAir
<1>1. SUFFICES ASSUME OtaInit PROVE OtaTypeOK /\ HeardOnAir
  OBVIOUS
<1>2. 0 \in Versions /\ 0 \in 0..Size /\ 0 \in 0..Repeats /\ 0 \in -1..EndRepeats
      /\ 0 \in 0..MaxFaults
  BY OtaConstants DEF Versions
<1>3. area \in [Receivers -> [Cells -> {mixed, erased} \cup Versions]]
  BY <1>1 DEF OtaInit, Blank
<1>4. known \in [Receivers -> BOOLEAN] /\ pending \in [Receivers -> BOOLEAN]
  BY <1>1 DEF OtaInit
<1>. QED BY <1>1, <1>2, <1>3, <1>4 DEF OtaInit, OtaTypeOK, HeardOnAir

(* Every variable keeps its type, whatever is lost and wherever a node crashes: *)
(* offsets stay in the flash area, and a cell holds a version, nothing, or a    *)
(* mixture (bcast_ota_get_packet, bota_upload).                                 *)
THEOREM OtaTypeCorrect == OtaSpec => []OtaTypeOK
<1>1. OtaInit => OtaTypeOK /\ HeardOnAir
  BY OtaInitType
<1>2. OtaTypeOK /\ HeardOnAir /\ [OtaNext]_otaVars => OtaTypeOK' /\ HeardOnAir'
  BY OtaTypeStep
<1>. QED BY <1>1, <1>2, PTL DEF OtaSpec

-----------------------------------------------------------------------------
(* The node holds something of the version, in flash or as what it runs. *)
Has(n, v) == (\E c \in Cells : area[n][c] = v) \/ running[n] = v

(* Nothing is newer than what the sender has. *)
NoneNewer == \A n \in Receivers, v \in Versions : Has(n, v) => v <= ver

(* Where something of the sender's version is, the packet on the air is of it. *)
NewestOnAir ==
    /\ packet # NoPacket => 0 < packet.ver /\ packet.ver <= ver
    /\ armed => ver > 0
    /\ \A n \in Receivers : Has(n, ver) /\ ver > 0 => packet # NoPacket /\ packet.ver = ver

(* Before the first packet there is nothing in the flash areas. *)
BlankAtFirst ==
    packet = NoPacket => \A n \in Receivers : area[n] = Blank /\ ~pending[n] /\ running[n] = 0

OtaInv ==
    OtaTypeOK /\ HeardOnAir /\ NoneNewer /\ NewestOnAir /\ BlankAtFirst /\ ContinuesClean

(* What an area becomes: clean for version v. *)
Clean(f, v) == f[0] = v => \A c \in Cells : f[c] \in {erased, v}

(* An upload of the sender's version leaves the area clean, however much of it *)
(* is written, provided that its first cell is written if any is.              *)
LEMMA UploadClean ==
    ASSUME OtaTypeOK, packet \in Packet, NEW n \in Receivers, Clean(area[n], ver),
           packet.ver = ver, NEW S \in SUBSET Covered(packet)
    PROVE  Clean(Written(Ready(n, packet), packet, S), ver)
<1>. DEFINE R == Ready(n, packet)
            W == Written(R, packet, S)
<1>0. area[n] \in Areas /\ R \in Areas /\ W \in Areas /\ packet.ver \in Versions /\ packet.off \in Cells /\ packet.len \in 1..Size
  BY ReadyArea, WrittenArea DEF OtaTypeOK, Packet, Areas, Values
<1>w. \A c \in Cells : R[c] \in {erased, ver} => W[c] \in {erased, ver}
  BY <1>0 DEF Written
<1>1. CASE packet.off = 0
  <2>1. \A c \in Cells : R[c] \in {erased, ver}
    <3>1. CASE Erases(n, packet)
      BY <3>1 DEF Ready, Blank
    <3>2. CASE ~Erases(n, packet)
      BY <1>1, <3>2 DEF Ready, Erases, Clean
    <3>. QED BY <3>1, <3>2
  <2>. QED BY <1>w, <2>1 DEF Clean
<1>2. CASE packet.off # 0
  <2>1. R = area[n]
    BY <1>2 DEF Ready, Erases
  <2>2. 0 \notin S /\ 0 \in Cells
    BY <1>0, <1>2, FirstCell DEF Covered, Cells
  <2>3. W[0] = area[n][0]
    BY <2>1, <2>2 DEF Written
  <2>. QED BY <1>w, <2>1, <2>3 DEF Clean
<1>. QED BY <1>1, <1>2

(* A write brings no version into the area but that of the packet. *)
LEMMA UploadValues ==
    ASSUME OtaTypeOK, packet \in Packet, NEW n \in Receivers, NEW S, NEW v \in Versions,
           NEW c \in Cells, Written(Ready(n, packet), packet, S)[c] = v, v # packet.ver
    PROVE  area[n][c] = v
<1>1. v # mixed /\ v # erased
  BY OtaConstants DEF Versions, mixed, erased
<1>2. Ready(n, packet)[c] = v
  BY <1>1, ReadyArea, WrittenArea
<1>. QED BY <1>1, <1>2 DEF Ready, Blank

(* A step of one node that brings in no version but that of the packet, and *)
(* leaves its area clean, keeps the invariant.                              *)
LEMMA NodeKeeps ==
    ASSUME OtaInv, OtaTypeOK', HeardOnAir', packet # NoPacket, NEW n \in Receivers,
           UNCHANGED <<ver, armed, packet>>,
           \A m \in Receivers : m # n => area'[m] = area[m] /\ running'[m] = running[m],
           \A v \in Versions : Has(n, v)' => Has(n, v) \/ v = packet.ver,
           Clean(area[n]', ver)
    PROVE  OtaInv'
<1>1. packet \in Packet /\ packet.ver \in Versions /\ packet.ver <= ver /\ ver \in Versions
  BY DEF OtaInv, OtaTypeOK, NewestOnAir, Packet
<1>2. \A m \in Receivers : m # n => \A v : Has(m, v)' => Has(m, v)
  BY DEF Has
<1>3. NoneNewer'
  BY <1>1, <1>2 DEF OtaInv, NoneNewer
<1>4. NewestOnAir'
  <2>1. ASSUME NEW m \in Receivers, Has(m, ver)', ver > 0 PROVE packet.ver = ver
    BY <1>1, <1>2, <2>1 DEF OtaInv, NewestOnAir
  <2>. QED BY <2>1 DEF OtaInv, NewestOnAir
<1>5. ContinuesClean'
  BY DEF OtaInv, ContinuesClean, Clean
<1>. QED BY <1>3, <1>4, <1>5 DEF OtaInv, BlankAtFirst

(* A restart that finds a clean area leaves one, and no new version. *)
LEMMA BootKeeps ==
    ASSUME OtaTypeOK, NEW n \in Receivers, NEW f \in Areas, Boot(n, f), Clean(f, ver),
           NEW w, \A v \in Versions, c \in Cells : f[c] = v => Has(n, v) \/ v = w
    PROVE  /\ Clean(area[n]', ver)
           /\ \A m \in Receivers : m # n => area'[m] = area[m] /\ running'[m] = running[m]
           /\ \A v \in Versions : Has(n, v)' => Has(n, v) \/ v = w
<1>1. CASE pending[n] /\ Whole(f)
  <2>1. /\ running' = [running EXCEPT ![n] = f[0]]
        /\ area' = [area EXCEPT ![n] = [c \in Cells |-> running[n]]]
    BY <1>1 DEF Boot
  <2>2. running'[n] = f[0] /\ area'[n] = [c \in Cells |-> running[n]]
    BY <2>1 DEF OtaTypeOK
  <2>3. ASSUME NEW v \in Versions, Has(n, v)' PROVE Has(n, v) \/ v = w
    BY <2>2, <2>3, FirstCell DEF Has
  <2>. QED BY <2>1, <2>2, <2>3, FirstCell DEF Clean, OtaTypeOK
<1>2. CASE ~(pending[n] /\ Whole(f))
  <2>1. area' = [area EXCEPT ![n] = f] /\ running' = running
    BY <1>2 DEF Boot
  <2>2. area'[n] = f
    BY <2>1 DEF OtaTypeOK
  <2>3. ASSUME NEW v \in Versions, Has(n, v)' PROVE Has(n, v) \/ v = w
    BY <2>1, <2>2, <2>3 DEF Has
  <2>. QED BY <2>1, <2>2, <2>3 DEF OtaTypeOK
<1>. QED BY <1>1, <1>2

(* What an upload, finished or not, leaves in flash is clean: it is of the     *)
(* sender's version, or there was nothing of that version to be mixed with it. *)
LEMMA WrittenClean ==
    ASSUME OtaInv, packet # NoPacket, NEW n \in Receivers, NEW S \in SUBSET Covered(packet)
    PROVE  Clean(Written(Ready(n, packet), packet, S), ver)
<1>1. packet \in Packet /\ ver \in Versions /\ packet.ver > 0 /\ packet.ver <= ver /\ packet.ver \in Versions
  BY DEF OtaInv, OtaTypeOK, NewestOnAir, Packet
<1>2. Clean(area[n], ver)
  BY DEF OtaInv, ContinuesClean, Clean
<1>3. CASE packet.ver = ver
  BY <1>1, <1>2, <1>3, UploadClean DEF OtaInv
<1>4. CASE packet.ver # ver
  <2>1. ver > 0
    BY <1>1 DEF Versions
  <2>2. area[n][0] # ver
    BY <1>4, <2>1, FirstCell DEF OtaInv, NewestOnAir, Has
  <2>. QED BY <1>1, <1>4, <2>2, FirstCell, UploadValues DEF OtaInv, Clean
<1>. QED BY <1>3, <1>4

LEMMA OtaStep ==
    ASSUME OtaInv, [OtaNext]_otaVars
    PROVE  OtaInv'
<1>. USE DEF OtaInv
<1>t. OtaTypeOK' /\ HeardOnAir'
  BY OtaTypeStep
<1>p. packet # NoPacket => packet \in Packet /\ packet.ver \in Versions
  BY DEF OtaTypeOK, Packet
<1>v. ver \in Versions /\ ver' \in Versions
  BY <1>t DEF OtaTypeOK
<1>0. ASSUME UNCHANGED <<area, running>> PROVE \A n \in Receivers : \A v : Has(n, v)' <=> Has(n, v)
  BY <1>0 DEF Has
<1>1. CASE Load
  <2>1. ver' = ver + 1 /\ UNCHANGED <<armed, packet, area, running, pending>>
    BY <1>1 DEF Load, recvVars
  <2>2. ASSUME NEW n \in Receivers
        PROVE  running'[n] # ver' /\ \A c \in Cells : area'[n][c] # ver'
    <3>1. running[n] # ver + 1 /\ \A c \in Cells : area[n][c] # ver + 1
      BY <1>v, <2>1 DEF NoneNewer, Has, Versions
    <3>. QED BY <2>1, <3>1
  <2>3. NoneNewer'
    BY <1>0, <1>v, <2>1 DEF NoneNewer, Versions
  <2>4. NewestOnAir'
    BY <1>p, <1>v, <2>1, <2>2 DEF NewestOnAir, Has, Versions
  <2>5. ContinuesClean'
    BY <2>2, FirstCell DEF ContinuesClean
  <2>. QED BY <1>t, <2>1, <2>3, <2>4, <2>5 DEF BlankAtFirst
<1>2. CASE Txim
  <2>1. UNCHANGED <<ver, packet, area, running, pending>> /\ ver > 0
    BY <1>2 DEF Txim, recvVars
  <2>. QED BY <1>0, <1>t, <2>1 DEF NoneNewer, NewestOnAir, BlankAtFirst, ContinuesClean
<1>3. CASE SendNext
  <2>1. /\ UNCHANGED <<ver, armed, area, running, pending>>
        /\ packet' # NoPacket /\ packet'.ver = ver /\ ver > 0
    <3>1. packet' # NoPacket
      BY <1>3, <1>t, NoPacketAssumption, SentIsPacket
    <3>. QED BY <1>3, <3>1 DEF SendNext, recvVars, NewestOnAir
  <2>. QED BY <1>0, <1>t, <1>v, <2>1 DEF NoneNewer, NewestOnAir, BlankAtFirst, ContinuesClean, Versions
<1>4. CASE SendEnd
  <2>1. /\ UNCHANGED <<ver, area, running, pending>> /\ ver > 0
        /\ armed' => armed
    BY <1>4 DEF SendEnd, recvVars, NewestOnAir
  <2>2. \/ packet' = packet
        \/ packet' # NoPacket /\ packet'.ver = ver
    <3>1. [ver |-> ver, off |-> Size - 1, len |-> 1] \in Packet
      BY <1>v, OtaConstants DEF Packet, Cells
    <3>2. CASE resend_end' > 0
      <4>1. packet' = [ver |-> ver, off |-> Size - 1, len |-> 1]
        BY <1>4, <3>2 DEF SendEnd
      <4>. QED BY <3>1, <4>1, NoPacketAssumption
    <3>3. CASE ~(resend_end' > 0)
      BY <1>4, <3>3 DEF SendEnd
    <3>. QED BY <3>2, <3>3
  <2>. QED BY <1>0, <1>t, <1>v, <2>1, <2>2 DEF NoneNewer, NewestOnAir, BlankAtFirst, ContinuesClean, Versions
<1>5. ASSUME NEW n \in Receivers, Upload(n) PROVE OtaInv'
  <2>. DEFINE W == Written(Ready(n, packet), packet, Covered(packet))
  <2>1. packet # NoPacket /\ UNCHANGED <<ver, armed, packet, running>>
    BY <1>5 DEF Upload, HeardOnAir, sendVars
  <2>2. CASE Accepts(n, packet)
    <3>1. area' = [area EXCEPT ![n] = W]
      BY <1>5, <2>2 DEF Upload
    <3>2. area'[n] = W /\ \A m \in Receivers : m # n => area'[m] = area[m]
      BY <3>1 DEF OtaTypeOK
    <3>3. \A v \in Versions : Has(n, v)' => Has(n, v) \/ v = packet.ver
      <4>. HIDE DEF W
      <4>1. \A v \in Versions, c \in Cells : W[c] = v => area[n][c] = v \/ v = packet.ver
        BY <1>p, <2>1, UploadValues DEF W
      <4>. QED BY <2>1, <3>2, <4>1 DEF Has
    <3>4. Clean(W, ver)
      BY <2>1, WrittenClean
    <3>. QED BY <1>t, <2>1, <3>2, <3>3, <3>4, NodeKeeps
  <2>3. CASE ~Accepts(n, packet)
    <3>1. UNCHANGED <<area, pending>>
      BY <1>5, <2>3 DEF Upload
    <3>. QED BY <1>0, <1>t, <2>1, <3>1 DEF NoneNewer, NewestOnAir, BlankAtFirst, ContinuesClean
  <2>. QED BY <2>2, <2>3
<1>6. ASSUME NEW n \in Receivers, Lose(n) PROVE OtaInv'
  <2>1. UNCHANGED <<ver, armed, packet, area, running, pending>>
    BY <1>6 DEF Lose, sendVars, recvVars
  <2>. QED BY <1>0, <1>t, <2>1 DEF NoneNewer, NewestOnAir, BlankAtFirst, ContinuesClean
<1>7. ASSUME NEW n \in Receivers, pending[n], Boot(n, area[n]), UNCHANGED <<ver, armed, packet>>
      PROVE OtaInv'
  <2>1. packet # NoPacket
    BY <1>7 DEF BlankAtFirst
  <2>2. area[n] \in Areas /\ Clean(area[n], ver)
    BY DEF OtaTypeOK, Areas, Values, ContinuesClean, Clean
  <2>3. \A v \in Versions, c \in Cells : area[n][c] = v => Has(n, v) \/ v = packet.ver
    BY DEF Has
  <2>. QED BY <1>7, <1>t, <2>1, <2>2, <2>3, BootKeeps, NodeKeeps
<1>8. ASSUME NEW n \in Receivers, ~pending[n], Boot(n, area[n]), UNCHANGED <<ver, armed, packet>>
      PROVE OtaInv'
  <2>1. UNCHANGED <<area, running>> /\ (\A m \in Receivers : pending'[m] => pending[m])
    BY <1>8 DEF Boot, OtaTypeOK
  <2>. QED BY <1>0, <1>8, <1>t, <2>1 DEF NoneNewer, NewestOnAir, BlankAtFirst, ContinuesClean
<1>9. ASSUME NEW n \in Receivers, CrashInUpload(n) PROVE OtaInv'
  <2>1. packet # NoPacket /\ UNCHANGED <<ver, armed, packet>>
    BY <1>9 DEF CrashInUpload, HeardOnAir, sendVars
  <2>2. ASSUME NEW f \in Areas, Boot(n, f), Clean(f, ver),
               \A v \in Versions, c \in Cells : f[c] = v => Has(n, v) \/ v = packet.ver
        PROVE  OtaInv'
    BY <1>t, <2>1, <2>2, BootKeeps, NodeKeeps
  <2>3. PICK k \in Cells :
          \/ /\ Erases(n, packet)
             /\ Boot(n, [c \in Cells |-> IF c <= k THEN erased ELSE area[n][c]])
          \/ Boot(n, Written(Ready(n, packet), packet, {c \in Covered(packet) : c <= k}))
    BY <1>9 DEF CrashInUpload
  <2>4. CASE /\ Erases(n, packet)
             /\ Boot(n, [c \in Cells |-> IF c <= k THEN erased ELSE area[n][c]])
    <3>. DEFINE f == [c \in Cells |-> IF c <= k THEN erased ELSE area[n][c]]
    <3>1. \A v \in Versions, c \in Cells : f[c] = v => Has(n, v) \/ v = packet.ver
      BY DEF Has, Versions, erased
    <3>2. f[0] = erased
      BY FirstCell DEF Cells
    <3>3. Clean(f, ver)
      BY <1>v, <3>2 DEF Clean, Versions, erased
    <3>. QED BY <2>2, <2>4, <3>1, <3>3, ErasingArea
  <2>5. CASE Boot(n, Written(Ready(n, packet), packet, {c \in Covered(packet) : c <= k}))
    <3>. DEFINE S == {c \in Covered(packet) : c <= k}
                f == Written(Ready(n, packet), packet, S)
    <3>1. f \in Areas
      BY <2>1, UploadArea
    <3>2. Clean(f, ver)
      BY <2>1, WrittenClean
    <3>3. \A v \in Versions, c \in Cells : f[c] = v => Has(n, v) \/ v = packet.ver
      BY <1>p, <2>1, UploadValues DEF Has
    <3>. HIDE DEF f, S
    <3>4. Boot(n, f)
      BY <2>5 DEF f, S
    <3>. QED BY <2>2, <3>1, <3>2, <3>3, <3>4
  <2>. QED BY <2>3, <2>4, <2>5
<1>10. CASE UNCHANGED otaVars
  BY <1>0, <1>10, <1>t DEF otaVars, sendVars, recvVars, NoneNewer, NewestOnAir, BlankAtFirst, ContinuesClean
<1>11. \A n \in Receivers : Reboot(n) \/ Crash(n) => OtaInv'
  BY <1>7, <1>8 DEF Reboot, Crash, sendVars
<1>. QED BY <1>1, <1>2, <1>3, <1>4, <1>5, <1>6, <1>9, <1>10, <1>11 DEF OtaNext

(* For any nodes, sizes and faults: a node whose header is of the version now *)
(* sent holds nothing of another version, so the next transfer of it may go   *)
(* on without erasing (bota_upload).                                          *)
THEOREM OtaContinuesClean == OtaSpec => []ContinuesClean
<1>1. OtaInit => OtaInv
  <2>1. SUFFICES ASSUME OtaInit PROVE OtaInv
    OBVIOUS
  <2>2. OtaTypeOK /\ HeardOnAir
    BY <2>1, OtaInitType
  <2>3. 0 \in Versions /\ ver = 0 /\ \A n \in Receivers : area[n] = Blank /\ running[n] = 0 /\ ~pending[n]
    BY <2>1, <2>2 DEF OtaInit, OtaTypeOK
  <2>4. ContinuesClean
    BY <2>3, FirstCell DEF ContinuesClean, Blank
  <2>5. NoneNewer
    BY <2>3 DEF NoneNewer, Has, Blank, erased, Versions
  <2>. QED BY <2>1, <2>2, <2>3, <2>4, <2>5 DEF OtaInv, NewestOnAir, BlankAtFirst, OtaInit
<1>2. OtaInv /\ [OtaNext]_otaVars => OtaInv'
  BY OtaStep
<1>3. OtaInv => ContinuesClean
  BY DEF OtaInv
<1>. QED BY <1>1, <1>2, <1>3, PTL DEF OtaSpec

-----------------------------------------------------------------------------
(* The composition *)

\* On the air the network keeps PanInv; alone, the master changes its own table.
NetworkInv == PanTypeOK /\ (instance = "air" => PanInv) /\ OtaTypeOK /\ HeardOnAir

LEMMA NetworkInit == MCInit => NetworkInv
<1>. SUFFICES ASSUME MCInit PROVE NetworkInv
  OBVIOUS
<1>1. Init /\ PanInit /\ OtaInit
  BY DEF MCInit
<1>2. PanInv
  BY <1>1, PanInvInit
<1>3. OtaTypeOK /\ HeardOnAir
  BY <1>1, OtaInitType
<1>. QED BY <1>2, <1>3 DEF NetworkInv, PanInv

LEMMA NetworkStep == NetworkInv /\ [MCNext]_vars => NetworkInv'
<1>. SUFFICES ASSUME NetworkInv, [MCNext]_vars PROVE NetworkInv'
  OBVIOUS
<1>1. CASE instance = "table" /\ Pan(TableNext /\ UNCHANGED panVars)
  <2>1. MasterNext /\ UNCHANGED <<panVars, otaVars, instance>>
    BY <1>1 DEF Pan, TableNext, MasterNext
  <2>2. TypeOK'
    BY <2>1, TypeStep DEF NetworkInv, PanTypeOK
  <2>3. PanTypeOK'
    BY <2>1, <2>2 DEF NetworkInv, PanTypeOK, panVars, nodeVars
  <2>4. OtaTypeOK' /\ HeardOnAir'
    BY <2>1, OtaTypeStep DEF NetworkInv
  <2>. QED BY <1>1, <2>1, <2>3, <2>4 DEF NetworkInv
<1>2. CASE instance = "air" /\ Pan(PanNext)
  <2>1. PanNext /\ UNCHANGED <<otaVars, instance>>
    BY <1>2 DEF Pan
  <2>2. PanInv'
    BY <1>2, <2>1, PanStep DEF NetworkInv
  <2>3. OtaTypeOK' /\ HeardOnAir'
    BY <2>1, OtaTypeStep DEF NetworkInv
  <2>. QED BY <2>2, <2>3 DEF NetworkInv, PanInv
<1>3. CASE Ota(OtaNext)
  <2>1. instance = "ota" /\ OtaNext /\ UNCHANGED <<masterVars, panVars, instance>>
    BY <1>3 DEF Ota
  <2>2. OtaTypeOK' /\ HeardOnAir'
    BY <2>1, OtaTypeStep DEF NetworkInv
  <2>3. PanTypeOK'
    BY <2>1 DEF NetworkInv, PanTypeOK, TypeOK, masterVars, table, flash, panVars, nodeVars
  <2>. QED BY <2>1, <2>2, <2>3 DEF NetworkInv
<1>4. CASE UNCHANGED vars
  <2>1. UNCHANGED <<masterVars, panVars, otaVars, instance>>
    BY <1>4 DEF vars
  <2>2. OtaTypeOK' /\ HeardOnAir'
    BY <2>1, OtaTypeStep DEF NetworkInv
  <2>3. PanTypeOK'
    BY <2>1 DEF NetworkInv, PanTypeOK, TypeOK, masterVars, table, flash, panVars, nodeVars
  <2>4. instance = "air" => PanInv'
    BY <2>1, PanStep DEF NetworkInv
  <2>. QED BY <2>1, <2>2, <2>3, <2>4 DEF NetworkInv
<1>. QED BY <1>1, <1>2, <1>3, <1>4 DEF MCNext

(* TypesOK: whatever is lost, deleted, restarted or interrupted, every record of   *)
(* the table and of the flash, every frame, and every cell of an image is one the  *)
(* code can make sense of.                                                         *)
THEOREM NetworkTypes == MCSpec => []TypesOK
<1>1. NetworkInv => TypesOK
  BY DEF NetworkInv, TypesOK
<1>. QED BY <1>1, NetworkInit, NetworkStep, PTL DEF MCSpec
=============================================================================

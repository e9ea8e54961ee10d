-------------------------- MODULE CoherenceProofs --------------------------
(***************************************************************************)
(* Proofs about the MSI directory, for any finite number of cores and of    *)
(* addresses: the single-writer rule, the absence of stale copies, and the  *)
(* conservation of copies in the statistics.                               *)
(***************************************************************************)
EXTENDS Coherence, FiniteSetTheorems, TLAPS

(* The moves a single core/address pair can make: the disjuncts of Next. *)
Move(c, a) ==
    \/ ReadMiss(c, a)
    \/ ReadHit(c, a)
    \/ WriteMiss(c, a)
    \/ WriteHitShared(c, a)
    \/ WriteHitModified(c, a)
    \/ InvalidateOtherCores(c, a)
    \/ BroadcastUpdate(c, a)

(* OtherHolders is finite, so the invalidations counter stays a number. *)
LEMMA OtherHoldersFinite ==
    ASSUME NEW c \in Cores, NEW a \in Addrs
    PROVE  /\ IsFiniteSet(OtherHolders(c, a))
           /\ Cardinality(OtherHolders(c, a)) \in Nat
<1>1. OtherHolders(c, a) \subseteq Cores
  BY DEF OtherHolders
<1>2. QED
  BY <1>1, CoherenceAssumption, FS_Subset, FS_CardinalityType

(* Every reachable state of the directory is well typed. *)
THEOREM TypeCorrect == Spec => []TypeOK
<1>1. Init => TypeOK
  BY DEF Init, TypeOK, CoherenceState, CoherenceStats, Counters
<1>2. TypeOK /\ [Next]_vars => TypeOK'
  <2> SUFFICES ASSUME TypeOK, [Next]_vars PROVE TypeOK'
    OBVIOUS
  <2>1. CASE UNCHANGED vars
    BY <2>1 DEF vars, TypeOK
  <2>2. ASSUME NEW c \in Cores, NEW a \in Addrs, Move(c, a)
        PROVE  TypeOK'
    <3> USE DEF TypeOK, CoherenceState, CoherenceStats, Counters
    <3>0. Invalidations(c, a) \in Nat
      BY OtherHoldersFinite DEF Invalidations
    <3>i. PICK i \in Nat : i = Invalidations(c, a)
      BY <3>0
    <3>a. ASSUME NEW s \in CoherenceState
          PROVE  [directory EXCEPT ![a] = Exclusive(c, s)]
                   \in [Addrs -> [Cores -> CoherenceState]]
      BY <3>a DEF Exclusive
    <3>b. directory[a][c] \in CoherenceState
      OBVIOUS
    <3>1. CASE ReadMiss(c, a)
      BY <3>1 DEF ReadMiss, SharedRow
    <3>2. CASE ReadHit(c, a)
      BY <3>2 DEF ReadHit
    <3>3. CASE WriteMiss(c, a)
      <4>1. directory' \in [Addrs -> [Cores -> CoherenceState]]
        BY <3>3, <3>a, <3>b, Zenon DEF WriteMiss, CoherenceState
      <4>2. stats' = [stats EXCEPT !["write_misses"] = @ + 1, !["invalidations"] = i]
        BY <3>3, <3>i, Zenon DEF WriteMiss
      <4>3. latest' \in [Addrs -> SUBSET Cores]
        BY <3>3 DEF WriteMiss
      <4>4. stats' \in CoherenceStats
        BY <4>2
      <4> QED
        BY <4>1, <4>3, <4>4, Zenon
    <3>4. CASE WriteHitShared(c, a)
      <4>1. directory' \in [Addrs -> [Cores -> CoherenceState]]
        BY <3>4, <3>a, <3>b, Zenon DEF WriteHitShared, CoherenceState
      <4>2. stats' = [stats EXCEPT !["write_hits"] = @ + 1, !["invalidations"] = i]
        BY <3>4, <3>i, Zenon DEF WriteHitShared
      <4>3. latest' \in [Addrs -> SUBSET Cores]
        BY <3>4 DEF WriteHitShared
      <4>4. stats' \in CoherenceStats
        BY <4>2
      <4> QED
        BY <4>1, <4>3, <4>4, Zenon
    <3>5. CASE WriteHitModified(c, a)
      BY <3>5 DEF WriteHitModified
    <3>6. CASE InvalidateOtherCores(c, a)
      <4>1. directory' \in [Addrs -> [Cores -> CoherenceState]]
        BY <3>6, <3>a, <3>b, Zenon DEF InvalidateOtherCores, CoherenceState
      <4>2. stats' = [stats EXCEPT !["invalidations"] = i]
        BY <3>6, <3>i, Zenon DEF InvalidateOtherCores
      <4>3. latest' \in [Addrs -> SUBSET Cores]
        BY <3>6 DEF InvalidateOtherCores
      <4>4. stats' \in CoherenceStats
        BY <4>2
      <4> QED
        BY <4>1, <4>3, <4>4, Zenon
    <3>7. CASE BroadcastUpdate(c, a)
      <4>1. directory' \in [Addrs -> [Cores -> CoherenceState]]
        BY <3>7, <3>a, <3>b, Zenon DEF BroadcastUpdate, CoherenceState
      <4>2. stats' = [stats EXCEPT !["broadcasts"] = @ + 1, !["invalidations"] = i]
        BY <3>7, <3>i, Zenon DEF BroadcastUpdate
      <4>3. latest' \in [Addrs -> SUBSET Cores]
        BY <3>7 DEF BroadcastUpdate
      <4>4. stats' \in CoherenceStats
        BY <4>2
      <4> QED
        BY <4>1, <4>3, <4>4, Zenon
    <3>8. QED
      BY <2>2, <3>1, <3>2, <3>3, <3>4, <3>5, <3>6, <3>7 DEF Move
  <2>3. QED
    BY <2>1, <2>2 DEF Next, Move
<1>3. QED
  BY <1>1, <1>2, PTL DEF Spec

----------------------------------------------------------------------------
(* SingleWriter is inductive by itself once the types are known. *)
THEOREM SingleWriterHolds == Spec => []SingleWriter
<1>1. Init => SingleWriter
  BY DEF Init, SingleWriter
<1>2. TypeOK /\ SingleWriter /\ [Next]_vars => SingleWriter'
  <2> SUFFICES ASSUME TypeOK, SingleWriter, [Next]_vars PROVE SingleWriter'
    OBVIOUS
  <2>1. CASE UNCHANGED vars
    BY <2>1 DEF vars, SingleWriter
  <2>2. ASSUME NEW c \in Cores, NEW a \in Addrs, Move(c, a)
        PROVE  SingleWriter'
    <3> USE DEF SingleWriter, TypeOK
    <3>1. CASE ReadMiss(c, a)
      BY <3>1 DEF ReadMiss, SharedRow
    <3>2. CASE ReadHit(c, a)
      BY <3>2 DEF ReadHit
    <3>3. CASE WriteMiss(c, a)
      BY <3>3 DEF WriteMiss, Exclusive
    <3>4. CASE WriteHitShared(c, a)
      BY <3>4 DEF WriteHitShared, Exclusive
    <3>5. CASE WriteHitModified(c, a)
      BY <3>5 DEF WriteHitModified
    <3>6. CASE InvalidateOtherCores(c, a)
      BY <3>6 DEF InvalidateOtherCores, Exclusive
    <3>7. CASE BroadcastUpdate(c, a)
      BY <3>7 DEF BroadcastUpdate, Exclusive
    <3>8. QED
      BY <2>2, <3>1, <3>2, <3>3, <3>4, <3>5, <3>6, <3>7 DEF Move
  <2>3. QED
    BY <2>1, <2>2 DEF Next, Move
<1>3. QED
  BY <1>1, <1>2, TypeCorrect, PTL DEF Spec

(* NoStaleCopy needs SingleWriter: a write hit in MODIFIED state leaves the  *)
(* other rows alone, which is sound only because nobody else has a copy.    *)
THEOREM NoStaleCopyHolds == Spec => []NoStaleCopy
<1>1. Init => NoStaleCopy
  BY DEF Init, NoStaleCopy
<1>2. TypeOK /\ SingleWriter /\ NoStaleCopy /\ [Next]_vars => NoStaleCopy'
  <2> SUFFICES ASSUME TypeOK, SingleWriter, NoStaleCopy, [Next]_vars
               PROVE  NoStaleCopy'
    OBVIOUS
  <2>1. CASE UNCHANGED vars
    BY <2>1 DEF vars, NoStaleCopy
  <2>2. ASSUME NEW c \in Cores, NEW a \in Addrs, Move(c, a)
        PROVE  NoStaleCopy'
    <3> USE DEF NoStaleCopy, TypeOK
    <3>1. CASE ReadMiss(c, a)
      BY <3>1 DEF ReadMiss, SharedRow
    <3>2. CASE ReadHit(c, a)
      BY <3>2 DEF ReadHit
    <3>3. CASE WriteMiss(c, a)
      BY <3>3 DEF WriteMiss, Exclusive
    <3>4. CASE WriteHitShared(c, a)
      BY <3>4 DEF WriteHitShared, Exclusive
    <3>5. CASE WriteHitModified(c, a)
      BY <3>5 DEF WriteHitModified, SingleWriter
    <3>6. CASE InvalidateOtherCores(c, a)
      BY <3>6 DEF InvalidateOtherCores, Exclusive
    <3>7. CASE BroadcastUpdate(c, a)
      BY <3>7 DEF BroadcastUpdate, Exclusive
    <3>8. QED
      BY <2>2, <3>1, <3>2, <3>3, <3>4, <3>5, <3>6, <3>7 DEF Move
  <2>3. QED
    BY <2>1, <2>2 DEF Next, Move
<1>3. QED
  BY <1>1, <1>2, TypeCorrect, SingleWriterHolds, PTL DEF Spec

----------------------------------------------------------------------------
(* The copies of address a held by cores other than c. *)
OtherCopies(c, a) == {<<a, d>> : d \in OtherHolders(c, a)}

(* There are finitely many copies, so they can be counted. *)
LEMMA CopiesFinite == IsFiniteSet(Copies) /\ Cardinality(Copies) \in Nat
<1>1. IsFiniteSet(Addrs \X Cores)
  BY CoherenceAssumption, FS_Product
<1>2. Copies \subseteq Addrs \X Cores
  BY DEF Copies
<1>3. QED
  BY <1>1, <1>2, FS_Subset, FS_CardinalityType

(* There are as many other copies of a as other holders of a. *)
LEMMA OtherCopiesCount ==
    ASSUME NEW c \in Cores, NEW a \in Addrs
    PROVE  /\ IsFiniteSet(OtherCopies(c, a))
           /\ Cardinality(OtherCopies(c, a)) = Cardinality(OtherHolders(c, a))
<1> DEFINE f == [d \in OtherHolders(c, a) |-> <<a, d>>]
<1>1. f \in Bijection(OtherHolders(c, a), OtherCopies(c, a))
  <2>1. f \in Injection(OtherHolders(c, a), OtherCopies(c, a))
    BY DEF Injection, IsInjective, OtherCopies
  <2>2. f \in Surjection(OtherHolders(c, a), OtherCopies(c, a))
    BY DEF Surjection, OtherCopies
  <2>3. QED
    BY <2>1, <2>2 DEF Bijection
<1>2. ExistsBijection(OtherHolders(c, a), OtherCopies(c, a))
  BY <1>1 DEF ExistsBijection
<1>3. QED
  BY <1>2, OtherHoldersFinite, FS_Bijection

(* What making c the only possible holder of a does to the set of copies:   *)
(* the other holders' copies go, and c's appears if c had none and gets one.*)
LEMMA ExclusiveCopies ==
    ASSUME TypeOK, NEW c \in Cores, NEW a \in Addrs, NEW s \in CoherenceState,
           directory' = [directory EXCEPT ![a] = Exclusive(c, s)],
           directory[a][c] # "INVALID" => s # "INVALID"
    PROVE  Cardinality(Copies') + Cardinality(OtherHolders(c, a))
             = Cardinality(Copies)
                 + (IF directory[a][c] = "INVALID" /\ s # "INVALID" THEN 1 ELSE 0)
<1> DEFINE rest == Copies \ OtherCopies(c, a)
<1>1. /\ IsFiniteSet(Copies)
      /\ Cardinality(Copies) \in Nat
  BY CopiesFinite
<1>2. OtherCopies(c, a) \subseteq Copies
  BY DEF OtherCopies, OtherHolders, Copies
<1>3. /\ IsFiniteSet(rest)
      /\ Cardinality(rest) = Cardinality(Copies) - Cardinality(OtherHolders(c, a))
      /\ Cardinality(OtherHolders(c, a)) \in Nat
  <2>1. Copies \cap OtherCopies(c, a) = OtherCopies(c, a)
    BY <1>2
  <2>2. /\ IsFiniteSet(rest)
        /\ Cardinality(rest)
             = Cardinality(Copies) - Cardinality(Copies \cap OtherCopies(c, a))
    BY <1>1, FS_Difference
  <2>3. QED
    BY <2>1, <2>2, OtherCopiesCount, OtherHoldersFinite
<1>4. Cardinality(rest) \in Nat
  BY <1>3, FS_CardinalityType
<1>5. ASSUME NEW b \in Addrs, NEW d \in Cores
      PROVE  <<b, d>> \in Copies'
               <=> ( (<<b, d>> \in rest /\ <<b, d>> # <<a, c>>)
                     \/ (<<b, d>> = <<a, c>> /\ s # "INVALID") )
  <2>1. CASE b # a
    BY <2>1 DEF Copies, OtherCopies, TypeOK
  <2>2. CASE b = a /\ d # c
    BY <2>2 DEF Copies, OtherCopies, OtherHolders, Exclusive, TypeOK
  <2>3. CASE b = a /\ d = c
    BY <2>3 DEF Copies, Exclusive, TypeOK
  <2>4. QED
    BY <2>1, <2>2, <2>3
<1>6. /\ Copies' \subseteq Addrs \X Cores
      /\ rest \subseteq Addrs \X Cores
      /\ <<a, c>> \in rest <=> directory[a][c] # "INVALID"
  BY DEF Copies, OtherCopies, OtherHolders
<1>7. CASE s # "INVALID"
  <2>1. Copies' = rest \union {<<a, c>>}
    BY <1>5, <1>6, <1>7
  <2>2. Cardinality(Copies') = IF <<a, c>> \in rest THEN Cardinality(rest)
                                                   ELSE Cardinality(rest) + 1
    BY <2>1, <1>3, FS_AddElement
  <2>3. QED
    BY <2>2, <1>1, <1>3, <1>4, <1>6, <1>7
<1>8. CASE s = "INVALID"
  <2>1. Copies' = rest
    BY <1>5, <1>6, <1>8
  <2>2. QED
    BY <2>1, <1>1, <1>3, <1>4, <1>8
<1>9. QED
  BY <1>7, <1>8

(* A read miss makes exactly one copy: the downgrade of an owner keeps his.  *)
LEMMA ReadMissCopies ==
    ASSUME TypeOK, NEW c \in Cores, NEW a \in Addrs, ReadMiss(c, a)
    PROVE  Cardinality(Copies') = Cardinality(Copies) + 1
<1>1. Copies' = Copies \union {<<a, c>>}
  BY DEF Copies, ReadMiss, SharedRow, TypeOK
<1>2. <<a, c>> \notin Copies
  BY DEF Copies, ReadMiss
<1>3. QED
  BY <1>1, <1>2, CopiesFinite, FS_AddElement

(* The statistics account for every copy, whatever the history. *)
THEOREM CopiesAccountedHolds == Spec => []CopiesAccounted
<1>1. Init => CopiesAccounted
  <2> SUFFICES ASSUME Init PROVE CopiesAccounted
    OBVIOUS
  <2>1. Copies = {}
    BY DEF Init, Copies
  <2>2. QED
    BY <2>1, FS_EmptySet DEF Init, CopiesAccounted, Counters
<1>2. TypeOK /\ TypeOK' /\ CopiesAccounted /\ [Next]_vars => CopiesAccounted'
  <2> SUFFICES ASSUME TypeOK, TypeOK', CopiesAccounted, [Next]_vars
               PROVE  CopiesAccounted'
    OBVIOUS
  <2>1. CASE UNCHANGED vars
    BY <2>1 DEF vars, CopiesAccounted, Copies
  <2>2. ASSUME NEW c \in Cores, NEW a \in Addrs, Move(c, a)
        PROVE  CopiesAccounted'
    <3> DEFINE others == Cardinality(OtherHolders(c, a))
               n == Cardinality(Copies)
               n1 == Cardinality(Copies')
    <3>0. /\ others \in Nat
          /\ n \in Nat
          /\ stats \in [Counters -> Nat]
          /\ stats' \in [Counters -> Nat]
          /\ n + stats["invalidations"]
               = stats["read_misses"] + stats["write_misses"]
      BY OtherHoldersFinite, CopiesFinite
         DEF TypeOK, CoherenceStats, CopiesAccounted
    <3>t. directory[a][c] \in CoherenceState
      BY DEF TypeOK
    <3>n. Cardinality(Copies') \in Nat
      <4>1. IsFiniteSet(Addrs \X Cores)
        BY CoherenceAssumption, FS_Product
      <4>2. Copies' \subseteq Addrs \X Cores
        BY DEF Copies
      <4>3. QED
        BY <4>1, <4>2, FS_Subset, FS_CardinalityType
    <3> SUFFICES n1 + stats'["invalidations"]
                   = stats'["read_misses"] + stats'["write_misses"]
      BY DEF CopiesAccounted
    <3>1. CASE ReadMiss(c, a)
      <4>1. n1 = n + 1
        BY <3>1, ReadMissCopies
      <4>2. QED
        BY <3>1, <3>0, <4>1 DEF ReadMiss, Counters
    <3>2. CASE ReadHit(c, a)
      <4>1. Copies' = Copies
        BY <3>2 DEF ReadHit, Copies
      <4>2. QED
        BY <3>2, <3>0, <4>1 DEF ReadHit, Counters
    <3>3. CASE WriteMiss(c, a)
      <4>1. n1 + others = n + 1
        BY <3>3, ExclusiveCopies DEF WriteMiss, CoherenceState
      <4>2. stats'["invalidations"] = stats["invalidations"] + others
        BY <3>3, <3>0 DEF WriteMiss, Invalidations, Counters
      <4>3. /\ stats'["write_misses"] = stats["write_misses"] + 1
            /\ stats'["read_misses"] = stats["read_misses"]
        BY <3>3, <3>0 DEF WriteMiss, Counters
      <4>4. QED
        BY <3>0, <3>n, <4>1, <4>2, <4>3 DEF Counters
    <3>4. CASE WriteHitShared(c, a)
      <4>0. n1 + others = n + (IF directory[a][c] = "INVALID" /\ "MODIFIED" # "INVALID"
                               THEN 1 ELSE 0)
        BY <3>4, ExclusiveCopies DEF WriteHitShared, CoherenceState
      <4>1. n1 + others = n
        BY <3>4, <3>0, <4>0 DEF WriteHitShared
      <4>2. stats'["invalidations"] = stats["invalidations"] + others
        BY <3>4, <3>0 DEF WriteHitShared, Invalidations, Counters
      <4>3. /\ stats'["write_misses"] = stats["write_misses"]
            /\ stats'["read_misses"] = stats["read_misses"]
        BY <3>4, <3>0 DEF WriteHitShared, Counters
      <4>4. QED
        BY <3>0, <3>n, <4>1, <4>2, <4>3 DEF Counters
    <3>5. CASE WriteHitModified(c, a)
      <4>1. Copies' = Copies
        BY <3>5 DEF WriteHitModified, Copies
      <4>2. QED
        BY <3>5, <3>0, <4>1 DEF WriteHitModified, Counters
    <3>6. CASE InvalidateOtherCores(c, a)
      <4>0. n1 + others = n + (IF directory[a][c] = "INVALID" /\ directory[a][c] # "INVALID"
                               THEN 1 ELSE 0)
        BY <3>6, <3>t, ExclusiveCopies DEF InvalidateOtherCores
      <4>1. n1 + others = n
        BY <3>6, <3>0, <4>0 DEF InvalidateOtherCores
      <4>2. stats'["invalidations"] = stats["invalidations"] + others
        BY <3>6, <3>0 DEF InvalidateOtherCores, Invalidations, Counters
      <4>3. /\ stats'["write_misses"] = stats["write_misses"]
            /\ stats'["read_misses"] = stats["read_misses"]
        BY <3>6, <3>0 DEF InvalidateOtherCores, Counters
      <4>4. QED
        BY <3>0, <3>n, <4>1, <4>2, <4>3 DEF Counters
    <3>7. CASE BroadcastUpdate(c, a)
      <4>0. n1 + others = n + (IF directory[a][c] = "INVALID" /\ directory[a][c] # "INVALID"
                               THEN 1 ELSE 0)
        BY <3>7, <3>t, ExclusiveCopies DEF BroadcastUpdate
      <4>1. n1 + others = n
        BY <3>7, <3>0, <4>0 DEF BroadcastUpdate
      <4>2. stats'["invalidations"] = stats["invalidations"] + others
        BY <3>7, <3>0 DEF BroadcastUpdate, Invalidations, Counters
      <4>3. /\ stats'["write_misses"] = stats["write_misses"]
            /\ stats'["read_misses"] = stats["read_misses"]
        BY <3>7, <3>0 DEF BroadcastUpdate, Counters
      <4>4. QED
        BY <3>0, <3>n, <4>1, <4>2, <4>3 DEF Counters
    <3>8. QED
      BY <2>2, <3>1, <3>2, <3>3, <3>4, <3>5, <3>6, <3>7 DEF Move
  <2>3. QED
    BY <2>1, <2>2 DEF Next, Move
<1>3. QED
  BY <1>1, <1>2, TypeCorrect, PTL DEF Spec

=============================================================================

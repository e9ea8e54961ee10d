------------------------ MODULE CacheHierarchyProofs ------------------------
(***************************************************************************)
(* Proofs about the caches, for any number of cores, blocks, sets and ways,  *)
(* any geometry and any program: the sets of both levels stay well formed,   *)
(* and a clean line of L2 always equals DDR.  The second part is about the   *)
(* programs that keep the discipline of CacheDiscipline.tla: for them the   *)
(* caches implement one flat memory.  The third is about the instructions   *)
(* of LoadStore.tla that work on the caches and past them: the two memories *)
(* stay apart, and under the same discipline all of it implements one array *)
(* of bytes.  Each theorem rests only on the assumptions its proof cites.   *)
(***************************************************************************)
EXTENDS LoadStoreDiscipline, FiniteSetTheorems, TLAPS

----------------------------------------------------------------------------
(***************************************************************************)
(* Lemmas about one set of one cache of CacheHierarchy.tla, for any number   *)
(* of ways: what find_entry, update_lru and allocate_entry return, and that *)
(* a set stays well formed.                                                 *)
(***************************************************************************)

(* The ways of a set are numbered from 1. *)
WaysOK(W) == IsFiniteSet(W) /\ W = 1 .. Cardinality(W) /\ W # {}

(* A set of W ways that serves the blocks of `own'. *)
SetOK(s, W, own) == s \in CacheSet(W) /\ WellFormedSet(s, own)

(* A nonempty set of ways has a lowest one, where the search for an invalid   *)
(* way stops.                                                               *)
LEMMA LowestWay ==
    ASSUME NEW W, WaysOK(W), NEW T \in SUBSET W, T # {}
    PROVE  \E w \in T : \A u \in T : w <= u
<1> DEFINE Upto(x) == {y \in T : y <= x}
           U == {Upto(x) : x \in T}
<1>1. W \subseteq Nat /\ IsFiniteSet(T)
    BY FS_Subset, FS_CardinalityType DEF WaysOK
<1>2. IsWellFoundedOn(StrictSubsetOrdering(T), FiniteSubsetsOf(T))
    BY FS_StrictSubsetOrderingWellFounded
<1>3. U \subseteq FiniteSubsetsOf(T) /\ U # {}
    <2>1. U \subseteq SUBSET T /\ U # {}
        OBVIOUS
    <2>2. FiniteSubsetsOf(T) = SUBSET T
        BY <1>1, FS_FiniteSubsetsOfFinite
    <2> HIDE DEF U
    <2> QED BY <2>1, <2>2
<1>4. PICK D \in U : \A E \in U : ~(<<E, D>> \in StrictSubsetOrdering(T))
    <2> HIDE DEF U
    <2> QED BY <1>2, <1>3, WFMin
<1>5. PICK w \in T : D = Upto(w)
    OBVIOUS
<1>6. ASSUME NEW u \in T, ~(w <= u) PROVE FALSE
    <2>1. Upto(u) \in U /\ Upto(u) \subseteq T /\ D \subseteq T
        BY <1>5
    <2>2. Upto(u) \subseteq D /\ w \in D /\ w \notin Upto(u)
        <3>1. \A y \in T : y \in Nat
            BY <1>1
        <3>2. w \in Nat /\ u \in Nat /\ u < w
            BY <1>6, <3>1
        <3>3. \A y \in T : (y <= u => y <= w) /\ w <= w /\ ~(w <= u)
            BY <3>1, <3>2
        <3> QED BY <1>5, <3>3
    <2>3. <<Upto(u), D>> \in StrictSubsetOrdering(T)
        <3> HIDE DEF Upto
        <3> QED BY <2>1, <2>2 DEF StrictSubsetOrdering
    <2> QED BY <1>4, <2>1, <2>3
<1> QED BY <1>6

(* The LRU list names every way once, so one of them is at its end. *)
LEMMA LruWayInSet ==
    ASSUME NEW W, WaysOK(W), NEW own, NEW s, SetOK(s, W, own)
    PROVE  LruWay(s) \in W
<1> DEFINE n == Cardinality(W)
           Places == 0 .. n - 1
<1>1. n \in Nat \ {0} /\ s.age \in [W -> Nat]
    BY FS_CardinalityType, FS_EmptySet DEF WaysOK, SetOK, CacheSet
<1>2. s.age \in Injection(W, Places)
    BY <1>1 DEF SetOK, CacheSet, WellFormedSet, Injection, IsInjective
<1>3. IsFiniteSet(Places) /\ Cardinality(Places) = n
    BY <1>1, FS_Interval
<1>4. s.age \in Surjection(W, Places)
    BY <1>2, <1>3, FS_Injection DEF WaysOK
<1>5. PICK w \in W : s.age[w] = n - 1
    BY <1>1, <1>4 DEF Surjection
<1>6. \A u \in W : s.age[u] <= s.age[w]
    BY <1>1, <1>2, <1>5 DEF Injection
<1> QED BY <1>1, <1>5, <1>6 DEF LruWay

(* allocate_entry returns a way of the set. *)
LEMMA AllocatedWay ==
    ASSUME NEW W, WaysOK(W), NEW own, NEW s, SetOK(s, W, own)
    PROVE  AllocateEntry(s) \in W
<1> DEFINE free == {w \in DOMAIN s.lines : s.lines[w].block = NoBlock}
<1>1. free \in SUBSET W
    BY DEF SetOK, CacheSet
<1>2. CASE free = {}
    BY <1>2, LruWayInSet DEF AllocateEntry
<1>3. CASE free # {}
    <2>1. \E w \in free : \A u \in free : w <= u
        BY <1>1, <1>3, LowestWay
    <2> QED BY <1>1, <1>3, <2>1 DEF AllocateEntry
<1> QED BY <1>2, <1>3

(* find_entry returns the one way that holds a block. *)
LEMMA FoundWay ==
    ASSUME NEW W, WaysOK(W), NEW own, NEW s, SetOK(s, W, own),
           NEW b \in Blocks, NEW w \in W, s.lines[w].block = b
    PROVE  Hit(s, b) /\ FindEntry(s, b) = w
<1>1. DOMAIN s.lines = W /\ W \subseteq Nat
    BY FS_CardinalityType DEF WaysOK, SetOK, CacheSet
<1>2. \A u \in W : s.lines[u].block = b => u = w
    BY HierarchyAssumption, <1>1 DEF SetOK, WellFormedSet
<1>3. Hit(s, b)
    BY <1>1 DEF Hit
<1>4. \A u \in W : (s.lines[u].block = b /\ \A x \in W : s.lines[x].block = b => u <= x) <=> u = w
    BY <1>1, <1>2
<1>5. FindEntry(s, b) = CHOOSE u \in W : u = w
    BY <1>1, <1>4, Zenon DEF FindEntry
<1> QED BY <1>3, <1>5

(* A block that is found is in the way that find_entry returns. *)
LEMMA HitWay ==
    ASSUME NEW W, WaysOK(W), NEW own, NEW s, SetOK(s, W, own),
           NEW b \in Blocks, Hit(s, b)
    PROVE  /\ FindEntry(s, b) \in W
           /\ s.lines[FindEntry(s, b)] \in Line
           /\ s.lines[FindEntry(s, b)].block = b
           /\ b \in own
<1>1. s.lines \in [W -> Line]
    BY DEF SetOK, CacheSet
<1>2. PICK w \in W : s.lines[w].block = b
    BY <1>1 DEF Hit
<1>3. b \in own
    BY <1>1, <1>2, HierarchyAssumption DEF SetOK, WellFormedSet
<1> QED BY <1>1, <1>2, <1>3, FoundWay

(* update_lru moves a way to the front of a list that stays a list. *)
LEMMA UpdateLruKeeps ==
    ASSUME NEW W, WaysOK(W), NEW own, NEW s, SetOK(s, W, own), NEW w \in W
    PROVE  SetOK(UpdateLru(s, w), W, own) /\ UpdateLru(s, w).lines = s.lines
<1> DEFINE t == UpdateLru(s, w)
           New(u) == IF u = w THEN 0
                     ELSE IF s.age[u] < s.age[w] THEN s.age[u] + 1 ELSE s.age[u]
<1>1. /\ s.lines \in [W -> Line] /\ s.age \in [W -> Nat] /\ Cardinality(W) \in Nat
      /\ s = [lines |-> s.lines, age |-> s.age]
    BY FS_CardinalityType DEF WaysOK, SetOK, CacheSet
<1>2. t = [lines |-> s.lines, age |-> [u \in W |-> New(u)]]
    BY <1>1 DEF UpdateLru
<1>3. \A u \in W : New(u) \in Nat /\ New(u) < Cardinality(W)
    BY <1>1 DEF SetOK, WellFormedSet
<1>4. \A u, v \in W : u # v => New(u) # New(v)
    BY <1>1 DEF SetOK, WellFormedSet
<1>5. t \in CacheSet(W)
    BY <1>1, <1>2, <1>3 DEF CacheSet
<1>6. WellFormedSet(t, own)
    BY <1>1, <1>2, <1>3, <1>4 DEF SetOK, WellFormedSet
<1> QED BY <1>2, <1>5, <1>6 DEF SetOK

(* A line put into a way keeps the set well formed if no other way has its    *)
(* block.                                                                   *)
LEMMA PutLineKeeps ==
    ASSUME NEW W, NEW own, NEW s, SetOK(s, W, own), NEW w \in W, NEW line \in Line,
           line.block = NoBlock => ~line.dirty,
           line.block # NoBlock =>
               /\ line.block \in own
               /\ \A u \in W \ {w} : s.lines[u].block # line.block
    PROVE  LET t == [s EXCEPT !.lines[w] = line]
           IN  SetOK(t, W, own) /\ t.lines = [s.lines EXCEPT ![w] = line]
<1> DEFINE t == [s EXCEPT !.lines[w] = line]
<1>1. /\ s.lines \in [W -> Line] /\ s.age \in [W -> Nat]
      /\ s = [lines |-> s.lines, age |-> s.age]
    BY DEF SetOK, CacheSet
<1>2. t = [lines |-> [s.lines EXCEPT ![w] = line], age |-> s.age]
    BY <1>1
<1>3. t \in CacheSet(W)
    BY <1>1, <1>2 DEF CacheSet
<1>4. WellFormedSet(t, own)
    BY <1>1, <1>2 DEF SetOK, WellFormedSet
<1> QED BY <1>2, <1>3, <1>4 DEF SetOK

(* The line of a block is changed and stays the line of that block. *)
LEMMA ChangeLineKeeps ==
    ASSUME NEW W, WaysOK(W), NEW own, NEW s, SetOK(s, W, own),
           NEW b \in Blocks, Hit(s, b), NEW line \in Line, line.block = b
    PROVE  LET t == [s EXCEPT !.lines[FindEntry(s, b)] = line]
           IN  /\ SetOK(t, W, own)
               /\ t.lines = [s.lines EXCEPT ![FindEntry(s, b)] = line]
<1>1. /\ FindEntry(s, b) \in W /\ b \in own
      /\ s.lines[FindEntry(s, b)].block = b /\ DOMAIN s.lines = W
    BY HitWay DEF SetOK, CacheSet
<1>2. \A u \in W \ {FindEntry(s, b)} : s.lines[u].block # b
    BY <1>1, HierarchyAssumption DEF SetOK, WellFormedSet
<1>3. line.block # NoBlock
    BY HierarchyAssumption
<1>4. PICK w \in W : w = FindEntry(s, b)
    BY <1>1
<1> QED BY <1>1, <1>2, <1>3, <1>4, PutLineKeeps

(* A block that missed is installed in the way that was allocated for it. *)
LEMMA InstallKeeps ==
    ASSUME NEW W, WaysOK(W), NEW own, NEW s, SetOK(s, W, own), NEW w \in W,
           NEW line \in Line, line.block \in own, line.block \in Blocks,
           ~Hit(s, line.block)
    PROVE  /\ SetOK(Install(s, w, line), W, own)
           /\ Install(s, w, line).lines = [s.lines EXCEPT ![w] = line]
<1>1. \A u \in W : s.lines[u].block # line.block
    BY DEF Hit, SetOK, CacheSet
<1> DEFINE t == [s EXCEPT !.lines[w] = line]
<1>2. SetOK(t, W, own) /\ t.lines = [s.lines EXCEPT ![w] = line]
    BY <1>1, PutLineKeeps, HierarchyAssumption
<1>3. Install(s, w, line) = UpdateLru(t, w)
    BY DEF Install
<1> HIDE DEF t
<1>4. SetOK(UpdateLru(t, w), W, own) /\ UpdateLru(t, w).lines = t.lines
    BY ONLY <1>2, WaysOK(W), w \in W, UpdateLruKeeps
<1> QED BY ONLY <1>2, <1>3, <1>4

(* What an invalid way keeps is a line like any other. *)
LEMMA NoLineOK ==
    ASSUME Blocks # {} PROVE NoLine \in Line
BY HierarchyAssumption DEF NoLine, Line

(* invalidate leaves the rest of the set alone. *)
LEMMA InvalidateKeeps ==
    ASSUME NEW W, WaysOK(W), NEW own, NEW s, SetOK(s, W, own), NEW b \in Blocks
    PROVE  SetOK(Invalidate(s, b), W, own)
<1>1. CASE ~Hit(s, b)
    BY <1>1 DEF Invalidate
<1>2. CASE Hit(s, b)
    <2>1. NoLine \in Line /\ NoLine.block = NoBlock /\ ~NoLine.dirty
        BY NoLineOK DEF NoLine
    <2> QED BY <1>2, <2>1, HitWay, PutLineKeeps DEF Invalidate
<1> QED BY <1>1, <1>2

(* What a lookup finds after a line of block b has been put into way w. *)
LEMMA PutView ==
    ASSUME NEW W, WaysOK(W), NEW own, NEW s, SetOK(s, W, own), NEW t, SetOK(t, W, own),
           NEW w \in W, NEW line, t.lines = [s.lines EXCEPT ![w] = line],
           NEW b \in Blocks, line.block = b
    PROVE  /\ Hit(t, b) /\ LineOf(t, b) = line
           /\ \A e \in Blocks \ {b} :
                /\ Hit(t, e) <=> Hit(s, e) /\ s.lines[w].block # e
                /\ Hit(t, e) => LineOf(t, e) = LineOf(s, e)
           /\ s.lines[w].block \in Blocks =>
                /\ Hit(s, s.lines[w].block)
                /\ LineOf(s, s.lines[w].block) = s.lines[w]
<1>1. s.lines \in [W -> Line] /\ t.lines \in [W -> Line]
    BY DEF SetOK, CacheSet
<1>2. /\ w \in W /\ b \in Blocks
      /\ t.lines[w] = line /\ t.lines[w].block = b
      /\ \A u \in W \ {w} : t.lines[u] = s.lines[u]
      /\ DOMAIN s.lines = W /\ DOMAIN t.lines = W
      /\ WaysOK(W) /\ SetOK(s, W, own) /\ SetOK(t, W, own)
    BY <1>1
<1>3. Hit(t, b) /\ LineOf(t, b) = line
    <2>1. Hit(t, b) /\ FindEntry(t, b) = w
        BY ONLY <1>2, FoundWay
    <2> QED BY ONLY <1>2, <2>1 DEF LineOf
<1>4. s.lines[w].block \in Blocks =>
        Hit(s, s.lines[w].block) /\ FindEntry(s, s.lines[w].block) = w
    BY ONLY <1>2, FoundWay
<1>5. ASSUME NEW e \in Blocks \ {b}
      PROVE  /\ Hit(t, e) <=> Hit(s, e) /\ s.lines[w].block # e
             /\ Hit(t, e) => LineOf(t, e) = LineOf(s, e)
    <2>1. CASE \E u \in W \ {w} : s.lines[u].block = e
        <3>1. PICK u \in W \ {w} : s.lines[u].block = e
            BY <2>1
        <3>2. u \in W /\ e \in Blocks /\ t.lines[u] = s.lines[u] /\ t.lines[u].block = e
            BY ONLY <1>2, <3>1, e \in Blocks \ {b}
        <3>3. /\ Hit(t, e) /\ FindEntry(t, e) = u
              /\ Hit(s, e) /\ FindEntry(s, e) = u
            BY ONLY <1>2, <3>1, <3>2, FoundWay
        <3>4. s.lines[w].block # e
            BY ONLY <1>2, <1>4, <3>1, <3>2, <3>3
        <3> QED BY ONLY <3>2, <3>3, <3>4 DEF LineOf
    <2>2. CASE ~\E u \in W \ {w} : s.lines[u].block = e
        <3>1. ~Hit(t, e) /\ (Hit(s, e) => s.lines[w].block = e)
            BY ONLY <1>2, <2>2, e \in Blocks \ {b} DEF Hit
        <3> QED BY <3>1
    <2> QED BY <2>1, <2>2
<1> QED BY <1>3, <1>4, <1>5 DEF LineOf

(* What a lookup finds after a block has been invalidated. *)
LEMMA InvalidateView ==
    ASSUME NEW W, WaysOK(W), NEW own, NEW s, SetOK(s, W, own), NEW b \in Blocks
    PROVE  /\ ~Hit(Invalidate(s, b), b)
           /\ \A e \in Blocks \ {b} :
                /\ Hit(Invalidate(s, b), e) <=> Hit(s, e)
                /\ Hit(Invalidate(s, b), e) =>
                     LineOf(Invalidate(s, b), e) = LineOf(s, e)
<1>1. CASE ~Hit(s, b)
    BY <1>1 DEF Invalidate
<1>2. CASE Hit(s, b)
    <2> DEFINE w == FindEntry(s, b)
               t == Invalidate(s, b)
    <2>1. /\ w \in W /\ s.lines[w].block = b /\ s.lines \in [W -> Line]
          /\ s = [lines |-> s.lines, age |-> s.age]
        BY <1>2, HitWay DEF SetOK, CacheSet
    <2>2. t.lines = [s.lines EXCEPT ![w] = NoLine] /\ NoLine.block = NoBlock
        BY <1>2, <2>1 DEF Invalidate, NoLine
    <2>3. /\ DOMAIN s.lines = W /\ DOMAIN t.lines = W /\ t.lines[w].block = NoBlock
          /\ \A u \in W \ {w} : t.lines[u] = s.lines[u]
        BY <2>1, <2>2
    <2> HIDE DEF t
    <2>4. \A u \in W \ {w} : s.lines[u].block # b
        BY <2>1, HierarchyAssumption DEF SetOK, WellFormedSet
    <2> HIDE DEF w
    <2>5. ~Hit(t, b)
        BY <2>1, <2>3, <2>4, HierarchyAssumption DEF Hit
    <2>6. ASSUME NEW e \in Blocks \ {b}
          PROVE  /\ Hit(t, e) <=> Hit(s, e)
                 /\ Hit(t, e) => FindEntry(t, e) = FindEntry(s, e) /\ LineOf(t, e) = LineOf(s, e)
        <3>1. WaysOK(W) /\ SetOK(s, W, own) /\ SetOK(t, W, own) /\ e \in Blocks
            BY InvalidateKeeps DEF t
        <3>2. Hit(t, e) <=> Hit(s, e)
            BY <2>1, <2>3, HierarchyAssumption DEF Hit
        <3>3. ASSUME Hit(t, e)
              PROVE  FindEntry(t, e) = FindEntry(s, e) /\ LineOf(t, e) = LineOf(s, e)
            <4>1. PICK u \in W \ {w} : t.lines[u].block = e
                BY <2>3, <3>3, HierarchyAssumption DEF Hit
            <4>2. u \in W /\ t.lines[u] = s.lines[u]
                BY <2>3, <4>1
            <4>3. FindEntry(t, e) = u /\ FindEntry(s, e) = u
                BY ONLY <3>1, <4>1, <4>2, FoundWay
            <4> QED BY ONLY <4>2, <4>3 DEF LineOf
        <3> QED BY <3>2, <3>3
    <2> QED BY <2>5, <2>6 DEF t
<1> QED BY <1>1, <1>2

(* What a lookup finds after the line of block b has been changed. *)
LEMMA ChangeView ==
    ASSUME NEW W, WaysOK(W), NEW own, NEW s, SetOK(s, W, own),
           NEW b \in Blocks, Hit(s, b), NEW line \in Line, line.block = b,
           NEW t, t = [s EXCEPT !.lines[FindEntry(s, b)] = line]
    PROVE  /\ SetOK(t, W, own)
           /\ Hit(t, b) /\ LineOf(t, b) = line
           /\ \A e \in Blocks \ {b} :
                /\ Hit(t, e) <=> Hit(s, e)
                /\ Hit(t, e) => LineOf(t, e) = LineOf(s, e)
<1>1. SetOK(t, W, own) /\ t.lines = [s.lines EXCEPT ![FindEntry(s, b)] = line]
    BY ChangeLineKeeps
<1>2. PICK w \in W : w = FindEntry(s, b) /\ s.lines[w].block = b
    BY HitWay
<1>3. t.lines = [s.lines EXCEPT ![w] = line]
    BY <1>1, <1>2
<1>4. /\ Hit(t, b) /\ LineOf(t, b) = line
      /\ \A e \in Blocks \ {b} :
            /\ Hit(t, e) <=> Hit(s, e) /\ s.lines[w].block # e
            /\ Hit(t, e) => LineOf(t, e) = LineOf(s, e)
    BY ONLY <1>1, <1>3, WaysOK(W), SetOK(s, W, own), w \in W, b \in Blocks,
            line.block = b, PutView
<1> QED BY ONLY <1>1, <1>2, <1>4

(* A store into a line. *)
LEMMA PutWordView ==
    ASSUME NEW W, WaysOK(W), NEW own, NEW s, SetOK(s, W, own),
           NEW b \in Blocks, Hit(s, b), NEW x \in Words, NEW v \in Values,
           NEW d \in BOOLEAN, NEW t, t = PutWord(s, b, x, v, d)
    PROVE  /\ SetOK(t, W, own)
           /\ Hit(t, b)
           /\ LineOf(t, b) = [block |-> b, dirty |-> d,
                              data |-> [LineOf(s, b).data EXCEPT ![x] = v]]
           /\ \A e \in Blocks \ {b} :
                /\ Hit(t, e) <=> Hit(s, e)
                /\ Hit(t, e) => LineOf(t, e) = LineOf(s, e)
<1> DEFINE w == FindEntry(s, b)
           old == s.lines[w]
           line == [block |-> b, dirty |-> d, data |-> [old.data EXCEPT ![x] = v]]
<1>1. /\ w \in W /\ s.lines \in [W -> Line] /\ s = [lines |-> s.lines, age |-> s.age]
      /\ old \in Line /\ old.block = b /\ old = LineOf(s, b)
      /\ old = [block |-> b, dirty |-> old.dirty, data |-> old.data]
    BY HitWay DEF SetOK, CacheSet, LineOf, Line
<1>2. line \in Line /\ line.block = b
    BY <1>1 DEF Line
<1>3. t = [s EXCEPT !.lines[w] = line]
    <2> DEFINE k == [s EXCEPT !.lines[w].data[x] = v]
               mid == [block |-> b, dirty |-> old.dirty, data |-> [old.data EXCEPT ![x] = v]]
    <2>1. t = [k EXCEPT !.lines[w].dirty = d]
        BY DEF PutWord
    <2>2. k = [s EXCEPT !.lines = [s.lines EXCEPT ![w] = [old EXCEPT !.data[x] = v]]]
        OBVIOUS
    <2>3. [old EXCEPT !.data[x] = v] = mid
        BY <1>1
    <2> HIDE DEF k
    <2>4. k = [lines |-> [s.lines EXCEPT ![w] = mid], age |-> s.age]
        BY <1>1, <2>2, <2>3
    <2>5. k = [lines |-> k.lines, age |-> k.age] /\ k.age = s.age
          /\ k.lines = [s.lines EXCEPT ![w] = mid] /\ k.lines[w] = mid
        BY <1>1, <2>4
    <2>6. t = [lines |-> [k.lines EXCEPT ![w] = [k.lines[w] EXCEPT !.dirty = d]],
               age |-> s.age]
        BY <2>1, <2>5
    <2>7. [mid EXCEPT !.dirty = d] = line
        OBVIOUS
    <2> HIDE DEF mid, line
    <2>8. [k.lines EXCEPT ![w] = line] = [s.lines EXCEPT ![w] = line]
        BY <1>1, <2>5
    <2>9. t = [lines |-> [s.lines EXCEPT ![w] = line], age |-> s.age]
        BY <2>5, <2>6, <2>7, <2>8
    <2> QED BY <1>1, <2>9
<1> QED BY <1>1, <1>2, <1>3, ChangeView

(* Setting the dirty bit leaves the rest of a line. *)
LEMMA DirtyBitSet ==
    ASSUME NEW l, NEW d, l = [block |-> l.block, dirty |-> l.dirty, data |-> l.data]
    PROVE  [l EXCEPT !.dirty = d] = [block |-> l.block, dirty |-> d, data |-> l.data]
OBVIOUS

(* Set s with the line of block b marked as clean, as a flush leaves it. *)
Cleaned(s, b) == [s EXCEPT !.lines[FindEntry(s, b)].dirty = FALSE]

(* A flush changes the line of its block and nothing else. *)
LEMMA CleanedLine ==
    ASSUME NEW W, WaysOK(W), NEW own, NEW s, SetOK(s, W, own),
           NEW b \in Blocks, Hit(s, b),
           NEW line, line = [block |-> b, dirty |-> FALSE, data |-> LineOf(s, b).data]
    PROVE  /\ line \in Line /\ line.block = b
           /\ Cleaned(s, b) = [s EXCEPT !.lines[FindEntry(s, b)] = line]
<1> DEFINE w == FindEntry(s, b)
           old == s.lines[w]
<1>1. /\ w \in W /\ s = [lines |-> s.lines, age |-> s.age] /\ old = LineOf(s, b)
      /\ old \in Line /\ old.block = b
      /\ old = [block |-> old.block, dirty |-> old.dirty, data |-> old.data]
    BY HitWay DEF SetOK, CacheSet, LineOf, Line
<1>2. line \in Line /\ line.block = b
    BY <1>1 DEF Line
<1>3. [old EXCEPT !.dirty = FALSE] = line
    <2>1. [old EXCEPT !.dirty = FALSE]
            = [block |-> old.block, dirty |-> FALSE, data |-> old.data]
        BY ONLY <1>1, DirtyBitSet
    <2> QED BY ONLY <1>1, <2>1,
                    line = [block |-> b, dirty |-> FALSE, data |-> LineOf(s, b).data]
<1> QED BY <1>1, <1>2, <1>3 DEF Cleaned

(* What a lookup finds after the line of block b has been marked as clean. *)
LEMMA CleanedView ==
    ASSUME NEW W, WaysOK(W), NEW own, NEW s, SetOK(s, W, own),
           NEW b \in Blocks, Hit(s, b),
           NEW t, t = Cleaned(s, b)
    PROVE  /\ SetOK(t, W, own)
           /\ Hit(t, b)
           /\ LineOf(t, b) = [block |-> b, dirty |-> FALSE, data |-> LineOf(s, b).data]
           /\ \A e \in Blocks \ {b} :
                /\ Hit(t, e) <=> Hit(s, e)
                /\ Hit(t, e) => LineOf(t, e) = LineOf(s, e)
<1> DEFINE line == [block |-> b, dirty |-> FALSE, data |-> LineOf(s, b).data]
<1>1. line \in Line /\ line.block = b /\ t = [s EXCEPT !.lines[FindEntry(s, b)] = line]
    BY CleanedLine
<1> HIDE DEF line
<1>2. /\ SetOK(t, W, own) /\ Hit(t, b) /\ LineOf(t, b) = line
      /\ \A e \in Blocks \ {b} :
            /\ Hit(t, e) <=> Hit(s, e)
            /\ Hit(t, e) => LineOf(t, e) = LineOf(s, e)
    BY ONLY <1>1, WaysOK(W), SetOK(s, W, own), b \in Blocks, Hit(s, b), ChangeView
<1> QED BY ONLY <1>2 DEF line

(* The same of the lines themselves. *)
LEMMA CleanedSet ==
    ASSUME NEW W, WaysOK(W), NEW own, NEW s, SetOK(s, W, own),
           NEW b \in Blocks, Hit(s, b),
           NEW t, t = Cleaned(s, b)
    PROVE  /\ SetOK(t, W, own)
           /\ t.lines = [s.lines EXCEPT ![FindEntry(s, b)] = LineOf(t, b)]
           /\ LineOf(t, b) = [block |-> b, dirty |-> FALSE, data |-> LineOf(s, b).data]
<1> DEFINE line == [block |-> b, dirty |-> FALSE, data |-> LineOf(s, b).data]
<1>1. line \in Line /\ line.block = b /\ t = [s EXCEPT !.lines[FindEntry(s, b)] = line]
    BY CleanedLine
<1> HIDE DEF line
<1>2. t.lines = [s.lines EXCEPT ![FindEntry(s, b)] = line]
    BY ONLY <1>1, WaysOK(W), SetOK(s, W, own), b \in Blocks, Hit(s, b), ChangeLineKeeps
<1>3. SetOK(t, W, own) /\ LineOf(t, b) = line
    BY CleanedView DEF line
<1> QED BY <1>2, <1>3 DEF line

----------------------------------------------------------------------------

Own1(i) == {b \in Blocks : Index1[b] = i}
Own2(i) == {b \in Blocks : Index2[b] = i}

Block == [Words -> Values]

(* A clean line of set s holds what memory d has. *)
CleanSet(s, d) ==
    \A w \in Ways2 :
        s.lines[w].block # NoBlock /\ ~s.lines[w].dirty
            => s.lines[w].data = d[s.lines[w].block]

(* L2 and DDR, as an operation of an L1 finds and leaves them. *)
BelowOK(m) ==
    /\ m = [l2 |-> m.l2, ddr |-> m.ddr]
    /\ m.l2 \in [Sets2 -> CacheSet(Ways2)]
    /\ m.ddr \in [Blocks -> Block]
    /\ \A i \in Sets2 : SetOK(m.l2[i], Ways2, Own2(i)) /\ CleanSet(m.l2[i], m.ddr)

AboveOK(q) ==
    /\ q \in [Ports -> [Sets1 -> CacheSet(Ways1)]]
    /\ \A p \in Ports, i \in Sets1 : WellFormedSet(q[p][i], Own1(i))

HierarchyInv ==
    /\ AboveOK(l1)
    /\ BelowOK(Below)
    /\ out \in Flat!Access \union {NoAccess}

(* What an L1 is given when it misses on a block. *)
Shared(m, b) == IF Hit(m.l2[Index2[b]], b) THEN L2Data(m, b) ELSE m.ddr[b]

(* A line that can make way for one of block b: DDR, whose contents are d,     *)
(* has what it holds.                                                       *)
Replaceable(line, b, d) == line.block \in {NoBlock, b} \/ line.data = d[line.block]

(* Both levels have ways. *)
LEMMA WaysNumbered == WaysOK(Ways1) /\ WaysOK(Ways2)
BY HierarchyAssumption DEF WaysOK

(* get_set_index gives every block a set of its own level. *)
LEMMA SetOfBlock ==
    ASSUME NEW b \in Blocks
    PROVE  /\ Index1[b] \in Sets1 /\ b \in Own1(Index1[b])
           /\ Index2[b] \in Sets2 /\ b \in Own2(Index2[b])
BY DEF Sets1, Sets2, Own1, Own2

(* The parts of a line. *)
LEMMA LineFields ==
    ASSUME NEW l \in Line
    PROVE  /\ l.block \in Blocks \union {NoBlock}
           /\ l.dirty \in BOOLEAN
           /\ l.data \in Block
           /\ l = [block |-> l.block, dirty |-> l.dirty, data |-> l.data]
BY DEF Line, Block

(* Those parts make a line. *)
LEMMA LineMade ==
    ASSUME NEW b \in Blocks, NEW d \in BOOLEAN, NEW f \in Block
    PROVE  [block |-> b, dirty |-> d, data |-> f] \in Line
BY DEF Line, Block

(* n is m with way w of set i of L2 taken by a line of block b, through set t, *)
(* and with DDR given d for the block; a clean line is a copy of d.         *)
IsPut(m, n, i, w, t, line, b, d) ==
    /\ i \in Sets2 /\ w \in Ways2
    /\ SetOK(t, Ways2, Own2(i))
    /\ line \in Line
    /\ t.lines = [m.l2[i].lines EXCEPT ![w] = line]
    /\ b \in Blocks /\ line.block = b
    /\ d \in Block /\ (~line.dirty => line.data = d)
    /\ n = [l2 |-> [m.l2 EXCEPT ![i] = t], ddr |-> [m.ddr EXCEPT ![b] = d]]

(* What is where after such a put. *)
LEMMA PutFacts ==
    ASSUME NEW m, BelowOK(m), NEW n, NEW i, NEW w, NEW t, NEW line, NEW b, NEW d,
           IsPut(m, n, i, w, t, line, b, d)
    PROVE  /\ n = [l2 |-> n.l2, ddr |-> n.ddr]
           /\ n.l2 \in [Sets2 -> CacheSet(Ways2)] /\ n.ddr \in [Blocks -> Block]
           /\ n.l2[i] = t /\ \A j \in Sets2 \ {i} : n.l2[j] = m.l2[j]
           /\ n.ddr[b] = d /\ \A e \in Blocks \ {b} : n.ddr[e] = m.ddr[e]
           /\ t.lines[w] = line /\ \A u \in Ways2 \ {w} : t.lines[u] = m.l2[i].lines[u]
           /\ DOMAIN t.lines = Ways2 /\ DOMAIN m.l2[i].lines = Ways2
           /\ SetOK(m.l2[i], Ways2, Own2(i))
           /\ b \in Own2(i) /\ Index2[b] = i
           /\ \A u \in Ways2 \ {w} : t.lines[u].block # b
<1>1. /\ m.l2 \in [Sets2 -> CacheSet(Ways2)] /\ m.ddr \in [Blocks -> Block]
      /\ i \in Sets2 /\ SetOK(m.l2[i], Ways2, Own2(i))
    BY DEF BelowOK, IsPut
<1>2. m.l2[i].lines \in [Ways2 -> Line]
    BY <1>1 DEF SetOK, CacheSet
<1>3. t.lines[w] = line /\ \A u \in Ways2 \ {w} : t.lines[u] = m.l2[i].lines[u]
    BY <1>2 DEF IsPut
<1>4. /\ t \in CacheSet(Ways2) /\ b \in Own2(i)
      /\ \A u \in Ways2 \ {w} : t.lines[u].block # b
    BY <1>3, HierarchyAssumption DEF IsPut, SetOK, CacheSet, WellFormedSet
<1>5. DOMAIN t.lines = Ways2 /\ DOMAIN m.l2[i].lines = Ways2
    BY <1>2, <1>4 DEF CacheSet
<1>6. /\ n = [l2 |-> n.l2, ddr |-> n.ddr]
      /\ n.l2 \in [Sets2 -> CacheSet(Ways2)] /\ n.ddr \in [Blocks -> Block]
      /\ n.l2[i] = t /\ \A j \in Sets2 \ {i} : n.l2[j] = m.l2[j]
      /\ n.ddr[b] = d /\ \A e \in Blocks \ {b} : n.ddr[e] = m.ddr[e]
    BY <1>1, <1>4 DEF IsPut
<1> QED BY <1>1, <1>3, <1>4, <1>5, <1>6 DEF Own2

(* Of the blocks of L2, an operation on block b adds no other. *)
AddsOnly(m, n, b) ==
    \A e \in Blocks \ {b} : Hit(n.l2[Index2[e]], e) => Hit(m.l2[Index2[e]], e)

(* Such a put keeps L2 and DDR consistent. *)
LEMMA PutBelow ==
    ASSUME NEW m, BelowOK(m), NEW n, NEW i, NEW w, NEW t, NEW line, NEW b, NEW d,
           IsPut(m, n, i, w, t, line, b, d)
    PROVE  BelowOK(n)
<1>1. CleanSet(t, n.ddr)
    <2> SUFFICES ASSUME NEW u \in Ways2, t.lines[u].block # NoBlock, ~t.lines[u].dirty
                 PROVE  t.lines[u].data = n.ddr[t.lines[u].block]
        BY DEF CleanSet
    <2>1. CASE u = w
        <3>1. t.lines[u] = line /\ n.ddr[b] = d
            BY <2>1, PutFacts
        <3> QED BY <3>1 DEF IsPut
    <2>2. CASE u # w
        <3>1. t.lines[u] = m.l2[i].lines[u] /\ t.lines[u].block # b
            BY <2>2, PutFacts
        <3>2. t.lines[u].block \in Blocks
            BY DEF IsPut, SetOK, WellFormedSet, CacheSet, Own2
        <3>3. n.ddr[t.lines[u].block] = m.ddr[t.lines[u].block]
            BY <3>1, <3>2, PutFacts
        <3> QED BY <3>1, <3>3 DEF BelowOK, CleanSet, IsPut
    <2> QED BY <2>1, <2>2
<1>2. ASSUME NEW j \in Sets2 \ {i}
      PROVE  SetOK(m.l2[j], Ways2, Own2(j)) /\ CleanSet(m.l2[j], n.ddr)
    <2>1. SetOK(m.l2[j], Ways2, Own2(j)) /\ CleanSet(m.l2[j], m.ddr)
        BY DEF BelowOK
    <2>2. ASSUME NEW u \in Ways2, m.l2[j].lines[u].block # NoBlock
          PROVE  n.ddr[m.l2[j].lines[u].block] = m.ddr[m.l2[j].lines[u].block]
        <3>1. m.l2[j].lines[u].block \in Own2(j)
            BY <2>1, <2>2 DEF SetOK, WellFormedSet, CacheSet
        <3>2. Index2[b] = i
            BY PutFacts
        <3>3. m.l2[j].lines[u].block \in Blocks \ {b}
            BY <3>1, <3>2 DEF Own2
        <3> QED BY <3>3, PutFacts
    <2> QED BY <2>1, <2>2 DEF CleanSet
<1>3. ASSUME NEW j \in Sets2
      PROVE  SetOK(n.l2[j], Ways2, Own2(j)) /\ CleanSet(n.l2[j], n.ddr)
    <2>1. CASE j = i
        BY <1>1, <2>1, PutFacts DEF IsPut
    <2>2. CASE j # i
        BY <1>2, <2>2, PutFacts
    <2> QED BY <2>1, <2>2
<1>4. /\ n = [l2 |-> n.l2, ddr |-> n.ddr]
      /\ n.l2 \in [Sets2 -> CacheSet(Ways2)] /\ n.ddr \in [Blocks -> Block]
    BY PutFacts
<1> QED BY <1>3, <1>4 DEF BelowOK

(* Of what an L1 would be given it changes only block b, if DDR has the line *)
(* it displaces.                                                            *)
LEMMA PutShared ==
    ASSUME NEW m, BelowOK(m), NEW n, NEW i, NEW w, NEW t, NEW line, NEW b, NEW d,
           IsPut(m, n, i, w, t, line, b, d),
           Replaceable(m.l2[i].lines[w], b, m.ddr)
    PROVE  /\ Hit(n.l2[Index2[b]], b)
           /\ LineOf(n.l2[Index2[b]], b) = line
           /\ Shared(n, b) = line.data
           /\ \A e \in Blocks \ {b} : Shared(n, e) = Shared(m, e)
           /\ AddsOnly(m, n, b)
<1>1. /\ n.l2[i] = t /\ Index2[b] = i /\ t.lines[w] = line
      /\ SetOK(t, Ways2, Own2(i)) /\ SetOK(m.l2[i], Ways2, Own2(i))
      /\ w \in Ways2 /\ b \in Blocks /\ WaysOK(Ways2) /\ line.block = b
    <2>1. w \in Ways2 /\ b \in Blocks /\ line.block = b /\ SetOK(t, Ways2, Own2(i))
        BY DEF IsPut
    <2> QED BY <2>1, PutFacts, WaysNumbered
<1>2. Hit(t, b) /\ FindEntry(t, b) = w
    BY ONLY <1>1, FoundWay
<1>3. ASSUME NEW e \in Blocks \ {b} PROVE Shared(n, e) = Shared(m, e)
    <2>1. CASE Index2[e] # i
        <3>1. n.l2[Index2[e]] = m.l2[Index2[e]] /\ n.ddr[e] = m.ddr[e]
            BY <2>1, SetOfBlock, PutFacts
        <3> QED BY <3>1 DEF Shared, L2Data
    <2>2. CASE Index2[e] = i /\ \E u \in Ways2 \ {w} : m.l2[i].lines[u].block = e
        <3>1. PICK u \in Ways2 \ {w} : m.l2[i].lines[u].block = e
            BY <2>2
        <3>2. t.lines[u] = m.l2[i].lines[u] /\ e \in Blocks /\ u \in Ways2
            BY <3>1, PutFacts
        <3>3. /\ Hit(t, e) /\ FindEntry(t, e) = u
              /\ Hit(m.l2[i], e) /\ FindEntry(m.l2[i], e) = u
            BY ONLY <1>1, <3>1, <3>2, FoundWay
        <3> QED BY ONLY <1>1, <2>2, <3>2, <3>3 DEF Shared, L2Data, LineOf
    <2>3. CASE Index2[e] = i /\ ~\E u \in Ways2 \ {w} : m.l2[i].lines[u].block = e
        <3>1. ~Hit(t, e) /\ n.ddr[e] = m.ddr[e]
            BY <1>1, <2>3, PutFacts DEF Hit
        <3>2. CASE ~Hit(m.l2[i], e)
            BY ONLY <1>1, <2>3, <3>1, <3>2 DEF Shared
        <3>3. CASE Hit(m.l2[i], e)
            <4>1. m.l2[i].lines[w].block = e /\ e \in Blocks
                BY <2>3, <3>3, PutFacts DEF Hit
            <4>2. m.l2[i].lines[w].data = m.ddr[e]
                BY <4>1, HierarchyAssumption DEF Replaceable
            <4>3. FindEntry(m.l2[i], e) = w
                BY ONLY <1>1, <4>1, FoundWay
            <4> QED BY ONLY <1>1, <2>3, <3>1, <3>3, <4>2, <4>3 DEF Shared, L2Data, LineOf
        <3> QED BY <3>2, <3>3
    <2> QED BY <2>1, <2>2, <2>3
<1>4. AddsOnly(m, n, b)
    <2> SUFFICES ASSUME NEW e \in Blocks \ {b}, Hit(n.l2[Index2[e]], e)
                 PROVE  Hit(m.l2[Index2[e]], e)
        BY DEF AddsOnly
    <2>1. CASE Index2[e] # i
        BY <2>1, SetOfBlock, PutFacts
    <2>2. CASE Index2[e] = i
        <3>1. PICK u \in Ways2 : t.lines[u].block = e
            BY <1>1, <2>2, PutFacts DEF Hit
        <3>2. m.l2[i].lines[u].block = e /\ DOMAIN m.l2[i].lines = Ways2
            BY <1>1, <3>1, PutFacts
        <3> QED BY <2>2, <3>1, <3>2 DEF Hit
    <2> QED BY <2>1, <2>2
<1> QED BY ONLY <1>1, <1>2, <1>3, <1>4 DEF Shared, L2Data, LineOf

(* A set put back where it is changes nothing. *)
LEMMA L2Function ==
    ASSUME NEW m, BelowOK(m), NEW i \in Sets2
    PROVE  DOMAIN m.l2 = Sets2 /\ m.l2 = [m.l2 EXCEPT ![i] = m.l2[i]]
BY DEF BelowOK

(* Lookups of L2. *)
LEMMA L2Line ==
    ASSUME NEW m, BelowOK(m), NEW b \in Blocks, Hit(m.l2[Index2[b]], b)
    PROVE  /\ LineOf(m.l2[Index2[b]], b) \in Line
           /\ LineOf(m.l2[Index2[b]], b).block = b
           /\ L2Data(m, b) \in Block
           /\ ~LineOf(m.l2[Index2[b]], b).dirty => L2Data(m, b) = m.ddr[b]
<1>1. SetOK(m.l2[Index2[b]], Ways2, Own2(Index2[b]))
    BY SetOfBlock DEF BelowOK
<1>2. /\ FindEntry(m.l2[Index2[b]], b) \in Ways2
      /\ LineOf(m.l2[Index2[b]], b) \in Line
      /\ LineOf(m.l2[Index2[b]], b).block = b
    BY <1>1, WaysNumbered, HitWay DEF LineOf
<1>3. b # NoBlock
    BY HierarchyAssumption
<1>4. CleanSet(m.l2[Index2[b]], m.ddr)
    BY SetOfBlock DEF BelowOK
<1>5. L2Data(m, b) \in Block
    BY <1>2, LineFields DEF L2Data
<1> QED BY <1>2, <1>3, <1>4, <1>5 DEF CleanSet, LineOf, L2Data

(* The eviction from L2 writes back what is dirty, so the way is free. *)
LEMMA L2EvictKeeps ==
    ASSUME NEW m, BelowOK(m), NEW b \in Blocks
    PROVE  /\ BelowOK(L2Evict(m, b))
           /\ L2Evict(m, b).l2 = m.l2
           /\ \A e \in Blocks : Shared(L2Evict(m, b), e) = Shared(m, e)
           /\ LET old == m.l2[Index2[b]].lines[AllocateEntry(m.l2[Index2[b]])]
              IN  Replaceable(old, b, L2Evict(m, b).ddr)
<1> DEFINE i == Index2[b]
           s == m.l2[i]
           w == AllocateEntry(s)
           old == s.lines[w]
<1>1. /\ i \in Sets2 /\ SetOK(s, Ways2, Own2(i)) /\ DOMAIN m.l2 = Sets2
      /\ m = [l2 |-> m.l2, ddr |-> m.ddr] /\ m.l2 = [m.l2 EXCEPT ![i] = s]
    <2>1. i \in Sets2
        BY SetOfBlock
    <2>2. m.l2 = [m.l2 EXCEPT ![i] = s] /\ DOMAIN m.l2 = Sets2
        BY <2>1, L2Function
    <2> QED BY <2>1, <2>2 DEF BelowOK
<1>2. w \in Ways2 /\ s.lines \in [Ways2 -> Line]
    BY <1>1, WaysNumbered, AllocatedWay DEF SetOK, CacheSet
<1>3. CASE ~old.dirty
    <2>1. L2Evict(m, b) = m
        BY <1>3 DEF L2Evict
    <2>2. Replaceable(old, b, m.ddr)
        BY <1>1, <1>2, <1>3 DEF BelowOK, CleanSet, Replaceable
    <2> QED BY <2>1, <2>2
<1>4. CASE old.dirty
    <2>1. old \in Line /\ old.block \in Blocks /\ old.data \in Block
        <3>1. old \in Line
            BY <1>2
        <3>2. old.block # NoBlock
            BY <1>1, <1>2, <1>4 DEF SetOK, WellFormedSet
        <3> HIDE DEF old
        <3> QED BY <3>1, <3>2, LineFields
    <2>2. s.lines = [s.lines EXCEPT ![w] = old]
        BY <1>2
    <2>3. L2Evict(m, b) = [l2 |-> m.l2, ddr |-> [m.ddr EXCEPT ![old.block] = old.data]]
        BY <1>1, <1>4 DEF L2Evict
    <2> HIDE DEF s, w, old, i
    <2> DEFINE n == [l2 |-> [m.l2 EXCEPT ![i] = s],
                     ddr |-> [m.ddr EXCEPT ![old.block] = old.data]]
    <2>4. Replaceable(m.l2[i].lines[w], old.block, m.ddr)
        BY DEF old, s, Replaceable
    <2>5. IsPut(m, n, i, w, s, old, old.block, old.data)
        BY <1>1, <1>2, <2>1, <2>2 DEF IsPut, s
    <2>6. n = L2Evict(m, b) /\ n.l2 = m.l2 /\ n.ddr[old.block] = old.data
        BY <1>1, <2>1, <2>3 DEF BelowOK
    <2> HIDE DEF n
    <2>7. /\ BelowOK(n)
          /\ Hit(n.l2[Index2[old.block]], old.block)
          /\ Shared(n, old.block) = old.data
          /\ LineOf(n.l2[Index2[old.block]], old.block) = old
          /\ \A e \in Blocks \ {old.block} : Shared(n, e) = Shared(m, e)
        BY ONLY <2>4, <2>5, BelowOK(m), PutBelow, PutShared
    <2>8. Shared(n, old.block) = Shared(m, old.block)
        BY <2>6, <2>7 DEF Shared, L2Data
    <2>9. \A e \in Blocks : Shared(n, e) = Shared(m, e)
        BY <2>7, <2>8
    <2> QED BY <2>6, <2>7, <2>9 DEF s, w, old, i, Replaceable
<1> QED BY <1>3, <1>4

(* A lookup of L2 leaves the block in it and changes what no L1 is given. *)
LEMMA L2AccessKeeps ==
    ASSUME NEW m, BelowOK(m), NEW b \in Blocks
    PROVE  /\ BelowOK(L2Access(m, b))
           /\ Hit(L2Access(m, b).l2[Index2[b]], b)
           /\ L2Data(L2Access(m, b), b) = Shared(m, b)
           /\ \A e \in Blocks : Shared(L2Access(m, b), e) = Shared(m, e)
           /\ AddsOnly(m, L2Access(m, b), b)
<1> DEFINE i == Index2[b]
           s == m.l2[i]
<1>1. /\ i \in Sets2 /\ b \in Own2(i) /\ b # NoBlock
      /\ SetOK(s, Ways2, Own2(i)) /\ WaysOK(Ways2)
      /\ s.lines \in [Ways2 -> Line]
      /\ m = [l2 |-> m.l2, ddr |-> m.ddr] /\ m.ddr \in [Blocks -> Block]
    BY SetOfBlock, WaysNumbered, HierarchyAssumption DEF BelowOK, SetOK, CacheSet
<1>2. CASE Hit(s, b)
    <2> DEFINE w == FindEntry(s, b)
               line == s.lines[w]
               t == UpdateLru(s, w)
               n == [l2 |-> [m.l2 EXCEPT ![i] = t],
                     ddr |-> [m.ddr EXCEPT ![b] = m.ddr[b]]]
    <2>1. w \in Ways2 /\ line \in Line /\ line.block = b
        BY ONLY <1>1, <1>2, HitWay, b \in Blocks
    <2>2. SetOK(t, Ways2, Own2(i)) /\ t.lines = s.lines
        BY ONLY <1>1, <2>1, UpdateLruKeeps
    <2>3. t.lines = [m.l2[i].lines EXCEPT ![w] = line] /\ line = m.l2[i].lines[w]
        BY <1>1, <2>1, <2>2
    <2>4. ~line.dirty => line.data = m.ddr[b]
        BY <1>1, <2>1 DEF BelowOK, CleanSet
    <2>5. L2Access(m, b) = n
        BY <1>1, <1>2 DEF L2Access
    <2>6. m.ddr[b] \in Block /\ Replaceable(m.l2[i].lines[w], b, m.ddr)
        BY <1>1, <2>1 DEF Replaceable
    <2> HIDE DEF i, s, w, line, t
    <2>7. IsPut(m, n, i, w, t, line, b, m.ddr[b])
        BY <1>1, <2>1, <2>2, <2>3, <2>4, <2>6 DEF IsPut
    <2> HIDE DEF n
    <2>8. /\ BelowOK(n)
          /\ Hit(n.l2[Index2[b]], b)
          /\ LineOf(n.l2[Index2[b]], b) = line
          /\ \A e \in Blocks \ {b} : Shared(n, e) = Shared(m, e)
          /\ AddsOnly(m, n, b)
        BY ONLY <2>6, <2>7, BelowOK(m), PutBelow, PutShared
    <2>9. L2Data(n, b) = Shared(m, b) /\ Shared(n, b) = Shared(m, b)
        BY <1>2, <2>8 DEF Shared, L2Data, LineOf, s, i, w, line
    <2> QED BY <2>5, <2>8, <2>9
<1>3. CASE ~Hit(s, b)
    <2> DEFINE w == AllocateEntry(s)
               m1 == L2Evict(m, b)
               line == [block |-> b, dirty |-> FALSE, data |-> m1.ddr[b]]
               t == Install(s, w, line)
               n == [l2 |-> [m1.l2 EXCEPT ![i] = t],
                     ddr |-> [m1.ddr EXCEPT ![b] = m1.ddr[b]]]
    <2>1. /\ BelowOK(m1) /\ m1.l2 = m.l2
          /\ \A e \in Blocks : Shared(m1, e) = Shared(m, e)
          /\ Replaceable(s.lines[w], b, m1.ddr)
        BY L2EvictKeeps
    <2>2. w \in Ways2 /\ m1.ddr \in [Blocks -> Block]
          /\ m1 = [l2 |-> m1.l2, ddr |-> m1.ddr]
        <3>1. w \in Ways2
            BY ONLY <1>1, AllocatedWay
        <3> HIDE DEF w, m1
        <3> QED BY <2>1, <3>1 DEF BelowOK
    <2> HIDE DEF m1
    <2>3. line \in Line /\ line.block = b /\ ~line.dirty /\ line.data = m1.ddr[b]
        BY <2>2, LineMade
    <2>4. L2Access(m, b) = n
        BY <1>3, <2>2 DEF L2Access, m1
    <2> HIDE DEF line, i, s, w
    <2>5. SetOK(t, Ways2, Own2(i)) /\ t.lines = [s.lines EXCEPT ![w] = line]
        <3>1. line.block \in Own2(i) /\ line.block \in Blocks /\ ~Hit(s, line.block)
            BY <1>1, <1>3, <2>3
        <3> QED BY ONLY <1>1, <2>2, <2>3, <3>1, InstallKeeps
    <2>6. t.lines = [m1.l2[i].lines EXCEPT ![w] = line] /\ m1.ddr[b] \in Block
          /\ Replaceable(m1.l2[i].lines[w], b, m1.ddr)
        BY <2>1, <2>2, <2>5 DEF s, Replaceable
    <2> HIDE DEF t
    <2>7. IsPut(m1, n, i, w, t, line, b, m1.ddr[b])
        BY <1>1, <2>2, <2>3, <2>5, <2>6 DEF IsPut
    <2> HIDE DEF n
    <2>8. /\ BelowOK(n)
          /\ Hit(n.l2[Index2[b]], b)
          /\ LineOf(n.l2[Index2[b]], b) = line
          /\ \A e \in Blocks \ {b} : Shared(n, e) = Shared(m1, e)
          /\ AddsOnly(m1, n, b)
        BY ONLY <2>1, <2>6, <2>7, PutBelow, PutShared
    <2>9. Shared(m, b) = m1.ddr[b]
        BY <1>3, <2>1 DEF Shared, s, i
    <2>10. L2Data(n, b) = Shared(m, b) /\ Shared(n, b) = Shared(m, b)
        BY <2>3, <2>8, <2>9 DEF Shared, L2Data
    <2>11. AddsOnly(m, n, b)
        BY <2>1, <2>8 DEF AddsOnly
    <2> QED BY <2>1, <2>4, <2>8, <2>10, <2>11
<1> QED BY <1>2, <1>3

(* f gives words of a block new values. *)
WordsOf(f) == f = [x \in DOMAIN f |-> f[x]] /\ DOMAIN f \subseteq Words
                /\ \A x \in DOMAIN f : f[x] \in Values

(* Words put into a block leave a block. *)
LEMMA OverlayBlock ==
    ASSUME NEW g \in Block, NEW f, WordsOf(f)
    PROVE  Overlay(g, f) \in Block
BY DEF Overlay, WordsOf, Block

(* All words of a block put into another make it that block. *)
LEMMA OverlayWhole ==
    ASSUME NEW g \in Block, NEW f \in Block
    PROVE  WordsOf(f) /\ Overlay(g, f) = f
BY DEF Overlay, WordsOf, Block

(* The update of a line and of DDR by a write to L2, part by part. *)
LEMMA WrittenLine ==
    ASSUME NEW m, m = [l2 |-> m.l2, ddr |-> m.ddr],
           NEW i, NEW w, NEW line, NEW b, NEW d
    PROVE  [m EXCEPT !.l2[i].lines[w] = line, !.ddr[b] = d]
             = [l2  |-> [m.l2 EXCEPT ![i] = [m.l2[i] EXCEPT !.lines[w] = line]],
                ddr |-> [m.ddr EXCEPT ![b] = d]]
<1> DEFINE P == [m.l2 EXCEPT ![i] = [m.l2[i] EXCEPT !.lines[w] = line]]
           k == [m EXCEPT !.l2[i].lines[w] = line]
<1>1. [m EXCEPT !.l2[i].lines[w] = line, !.ddr[b] = d] = [k EXCEPT !.ddr[b] = d]
    OBVIOUS
<1>2. k = [m EXCEPT !.l2 = P]
    OBVIOUS
<1> HIDE DEF P, k
<1>3. k = [l2 |-> P, ddr |-> m.ddr]
    BY <1>2
<1>4. k = [l2 |-> k.l2, ddr |-> k.ddr] /\ k.l2 = P /\ k.ddr = m.ddr
    BY <1>3
<1>5. [k EXCEPT !.ddr[b] = d] = [l2 |-> P, ddr |-> [m.ddr EXCEPT ![b] = d]]
    BY ONLY <1>4
<1> QED BY <1>1, <1>5 DEF P

(* A write to L2 changes the words of one block, wherever they are kept. *)
LEMMA L2WriteKeeps ==
    ASSUME NEW m, BelowOK(m), NEW b \in Blocks, NEW f, WordsOf(f)
    PROVE  /\ BelowOK(L2Write(m, b, f))
           /\ Shared(L2Write(m, b, f), b) = Overlay(Shared(m, b), f)
           /\ \A e \in Blocks \ {b} : Shared(L2Write(m, b, f), e) = Shared(m, e)
           /\ AddsOnly(m, L2Write(m, b, f), b)
<1> DEFINE i == Index2[b]
           m1 == L2Access(m, b)
           s == m1.l2[i]
           w == FindEntry(s, b)
           through == {x \in DOMAIN f : <<b, x>> \in WriteThrough}
           g == [x \in through |-> f[x]]
           line == [block |-> b,
                    dirty |-> LineOf(s, b).dirty \/ through # DOMAIN f,
                    data  |-> Overlay(L2Data(m1, b), f)]
           t == [s EXCEPT !.lines[w] = line]
           d == Overlay(m1.ddr[b], g)
           n == [l2 |-> [m1.l2 EXCEPT ![i] = t], ddr |-> [m1.ddr EXCEPT ![b] = d]]
<1>1. /\ BelowOK(m1) /\ Hit(s, b)
      /\ L2Data(m1, b) = Shared(m, b)
      /\ \A e \in Blocks : Shared(m1, e) = Shared(m, e)
      /\ AddsOnly(m, m1, b)
    BY L2AccessKeeps
<1> HIDE DEF m1
<1>2. /\ i \in Sets2 /\ SetOK(s, Ways2, Own2(i)) /\ WaysOK(Ways2)
      /\ m1.ddr[b] \in Block /\ m1 = [l2 |-> m1.l2, ddr |-> m1.ddr]
      /\ m1.l2 \in [Sets2 -> CacheSet(Ways2)] /\ m1.ddr \in [Blocks -> Block]
    BY <1>1, SetOfBlock, WaysNumbered DEF BelowOK
<1>3. /\ LineOf(s, b) \in Line /\ LineOf(s, b).block = b
      /\ L2Data(m1, b) \in Block
      /\ ~LineOf(s, b).dirty => L2Data(m1, b) = m1.ddr[b]
    BY <1>1, L2Line
<1>4. L2Write(m, b, f) = n
    <2>1. L2Write(m, b, f) = [m1 EXCEPT !.l2[i].lines[w] = line, !.ddr[b] = d]
        BY Zenon DEF L2Write, m1
    <2> HIDE DEF line, d, w, i, s
    <2> QED BY ONLY <1>2, <2>1, WrittenLine DEF n, t, s
<1>5. d \in Block
    <2>1. WordsOf(g)
        BY DEF WordsOf
    <2> HIDE DEF g
    <2> QED BY <1>2, <2>1, OverlayBlock
<1>6. ~line.dirty => line.data = d
    <2> SUFFICES ASSUME ~LineOf(s, b).dirty, through = DOMAIN f
                 PROVE  Overlay(L2Data(m1, b), f) = Overlay(m1.ddr[b], g)
        OBVIOUS
    <2>1. DOMAIN g = DOMAIN f /\ \A x \in DOMAIN f : g[x] = f[x]
        OBVIOUS
    <2> HIDE DEF g, s, through
    <2> QED BY <1>3, <2>1 DEF Overlay
<1> HIDE DEF through, g, d
<1>7. line \in Line /\ line.block = b /\ line.data = Overlay(Shared(m, b), f)
    <2>1. Overlay(L2Data(m1, b), f) \in Block
        BY <1>3, OverlayBlock
    <2>2. (LineOf(s, b).dirty \/ through # DOMAIN f) \in BOOLEAN
        OBVIOUS
    <2> QED BY <1>1, <2>1, <2>2, LineMade
<1> HIDE DEF line, s
<1>8. SetOK(t, Ways2, Own2(i)) /\ t.lines = [s.lines EXCEPT ![w] = line] /\ w \in Ways2
    BY <1>1, <1>2, <1>7, ChangeLineKeeps, HitWay
<1>9. Replaceable(m1.l2[i].lines[w], b, m1.ddr)
    BY <1>3 DEF Replaceable, LineOf, s
<1>10. IsPut(m1, n, i, w, t, line, b, d)
    BY <1>2, <1>5, <1>6, <1>7, <1>8 DEF IsPut, s
<1> HIDE DEF n
<1>11. /\ BelowOK(n) /\ Shared(n, b) = line.data
       /\ \A e \in Blocks \ {b} : Shared(n, e) = Shared(m1, e)
       /\ AddsOnly(m1, n, b)
    BY ONLY <1>1, <1>9, <1>10, PutBelow, PutShared
<1>12. AddsOnly(m, n, b)
    BY <1>1, <1>11 DEF AddsOnly
<1> QED BY <1>1, <1>4, <1>7, <1>11, <1>12

(* What an operation on one block of an L1, which makes set t of s and memory *)
(* n of m, does to another block e: at most it writes it back and drops it.  *)
Quiet(s, m, t, n, e) ==
    /\ Hit(t, e) => Hit(s, e) /\ LineOf(t, e) = LineOf(s, e)
    /\ Hit(n.l2[Index2[e]], e) => Hit(m.l2[Index2[e]], e) \/ Hit(s, e)
    /\ Shared(n, e) = IF Hit(s, e) /\ ~Hit(t, e) /\ LineOf(s, e).dirty
                      THEN LineOf(s, e).data ELSE Shared(m, e)

(* A lookup in an L1 has the block there, as it was or as L2 has it. *)
LEMMA LookupKeeps ==
    ASSUME NEW m, BelowOK(m), NEW own \in SUBSET Blocks, NEW s, SetOK(s, Ways1, own),
           NEW b \in own
    PROVE  LET r == Lookup(s, m, b)
           IN  /\ SetOK(r.set, Ways1, own) /\ BelowOK(r.mem)
               /\ Hit(r.set, b)
               /\ LineOf(r.set, b) =
                    IF Hit(s, b) THEN LineOf(s, b)
                    ELSE [block |-> b, dirty |-> FALSE, data |-> Shared(m, b)]
               /\ Shared(r.mem, b) = Shared(m, b)
               /\ \A e \in Blocks \ {b} : Quiet(s, m, r.set, r.mem, e)
<1> DEFINE r == Lookup(s, m, b)
<1>1. CASE Hit(s, b)
    <2> DEFINE w == FindEntry(s, b)
    <2>1. w \in Ways1 /\ WaysOK(Ways1)
        BY <1>1, HitWay, WaysNumbered
    <2>2. SetOK(UpdateLru(s, w), Ways1, own) /\ UpdateLru(s, w).lines = s.lines
        BY ONLY <2>1, SetOK(s, Ways1, own), UpdateLruKeeps
    <2>3. r = [set |-> UpdateLru(s, w), mem |-> m]
        BY <1>1 DEF Lookup
    <2> HIDE DEF r
    <2>4. r.set.lines = s.lines /\ r.mem = m /\ SetOK(r.set, Ways1, own)
        BY <2>2, <2>3
    <2>5. \A e : (Hit(r.set, e) <=> Hit(s, e)) /\ LineOf(r.set, e) = LineOf(s, e)
        BY <2>4 DEF Hit, LineOf, FindEntry
    <2> QED BY <1>1, <2>4, <2>5 DEF Quiet, r
<1>2. CASE ~Hit(s, b)
    <2> DEFINE w   == AllocateEntry(s)
               old == s.lines[w]
               m1  == IF old.dirty THEN L2Write(m, old.block, old.data) ELSE m
               m2  == L2Access(m1, b)
               line == [block |-> b, dirty |-> FALSE, data |-> L2Data(m2, b)]
               t   == Install(s, w, line)
    <2>1. /\ WaysOK(Ways1) /\ SetOK(s, Ways1, own) /\ b \in own /\ b \in Blocks
          /\ s.lines \in [Ways1 -> Line] /\ w \in Ways1
        BY WaysNumbered, AllocatedWay DEF SetOK, CacheSet
    <2>2. old \in Line /\ (old.dirty => old.block \in Blocks) /\ old.block # b
        BY <1>2, <2>1 DEF SetOK, WellFormedSet, Hit
    <2>3. r = [set |-> t, mem |-> m2]
        BY <1>2 DEF Lookup
    <2> HIDE DEF r, w, old
    <2>4. /\ BelowOK(m1)
          /\ \A e \in Blocks : Shared(m1, e) =
                IF old.dirty /\ e = old.block THEN old.data ELSE Shared(m, e)
          /\ AddsOnly(m, m1, old.block)
        <3>1. CASE ~old.dirty
            BY <3>1 DEF AddsOnly
        <3>2. CASE old.dirty
            <4>1. old.block \in Blocks /\ old.data \in Block
                BY <2>2, <3>2, LineFields
            <4>2. Shared(m, old.block) \in Block
                BY <4>1, L2Line DEF Shared, BelowOK
            <4>3. WordsOf(old.data) /\ Overlay(Shared(m, old.block), old.data) = old.data
                BY <4>1, <4>2, OverlayWhole
            <4>4. /\ BelowOK(L2Write(m, old.block, old.data))
                  /\ Shared(L2Write(m, old.block, old.data), old.block) = old.data
                  /\ \A e \in Blocks \ {old.block} :
                        Shared(L2Write(m, old.block, old.data), e) = Shared(m, e)
                  /\ AddsOnly(m, L2Write(m, old.block, old.data), old.block)
                BY <4>1, <4>3, L2WriteKeeps
            <4> QED BY <3>2, <4>4
        <3> QED BY <3>1, <3>2
    <2> HIDE DEF m1
    <2>5. /\ BelowOK(m2) /\ L2Data(m2, b) = Shared(m1, b)
          /\ Hit(m2.l2[Index2[b]], b)
          /\ \A e \in Blocks : Shared(m2, e) = Shared(m1, e)
          /\ AddsOnly(m1, m2, b)
        BY <2>1, <2>4, L2AccessKeeps
    <2> HIDE DEF m2
    <2>6. /\ line \in Line /\ line.block = b /\ ~line.dirty
          /\ line = [block |-> b, dirty |-> FALSE, data |-> Shared(m, b)]
        <3>1. L2Data(m2, b) \in Block /\ L2Data(m2, b) = Shared(m, b)
            BY <2>1, <2>2, <2>4, <2>5, L2Line
        <3> QED BY <2>1, <3>1, LineMade
    <2> HIDE DEF line
    <2>7. SetOK(t, Ways1, own) /\ t.lines = [s.lines EXCEPT ![w] = line]
        <3>1. line.block \in own /\ line.block \in Blocks /\ ~Hit(s, line.block)
            BY <1>2, <2>1, <2>6
        <3>2. line \in Line
            BY <2>6
        <3> QED BY ONLY <2>1, <3>1, <3>2, InstallKeeps
    <2> HIDE DEF t
    <2>8. /\ Hit(t, b) /\ LineOf(t, b) = line
          /\ \A e \in Blocks \ {b} :
                /\ Hit(t, e) <=> Hit(s, e) /\ old.block # e
                /\ Hit(t, e) => LineOf(t, e) = LineOf(s, e)
          /\ old.block \in Blocks => Hit(s, old.block) /\ LineOf(s, old.block) = old
        BY ONLY <2>1, <2>6, <2>7, PutView DEF old
    <2>9. \A e \in Blocks \ {b} : Quiet(s, m, t, m2, e)
        BY <2>4, <2>5, <2>8 DEF Quiet, AddsOnly
    <2>10. Shared(m2, b) = Shared(m, b)
        BY <2>1, <2>2, <2>4, <2>5
    <2> QED BY <1>2, <2>3, <2>5, <2>6, <2>7, <2>8, <2>9, <2>10 DEF r
<1> QED BY <1>1, <1>2

----------------------------------------------------------------------------
(* The operations of a core: what each leaves of block b in the L1 of port p,  *)
(* and in memory.                                                           *)

Effect(p, b, s, m) ==
    /\ SetOK(s, Ways1, Own1(Index1[b]))
    /\ BelowOK(m)
    /\ \A e \in Blocks \ {b} : Quiet(SetAt(p, b), Below, s, m, e)

(* The line a core works on: its own, or one it fetches. *)
Held(p, b) ==
    IF Hit(SetAt(p, b), b) THEN LineOf(SetAt(p, b), b)
    ELSE [block |-> b, dirty |-> FALSE, data |-> Shared(Below, b)]

Word1(x, v) == [y \in {x} |-> v]

(* What an operation on block b of port p finds. *)
LEMMA Start ==
    ASSUME HierarchyInv, NEW p \in Ports, NEW b \in Blocks
    PROVE  /\ SetOK(SetAt(p, b), Ways1, Own1(Index1[b]))
           /\ Own1(Index1[b]) \in SUBSET Blocks /\ b \in Own1(Index1[b])
           /\ WaysOK(Ways1) /\ BelowOK(Below)
           /\ Shared(Below, b) \in Block
<1>1. Index1[b] \in Sets1 /\ b \in Own1(Index1[b])
    BY SetOfBlock
<1>2. BelowOK(Below)
    BY DEF HierarchyInv
<1>3. Shared(Below, b) \in Block
    BY <1>2, L2Line DEF Shared, BelowOK
<1> QED BY <1>1, <1>2, <1>3, WaysNumbered DEF HierarchyInv, AboveOK, SetOK, SetAt, Own1

(* The line a core works on is one of that block. *)
LEMMA HeldLine ==
    ASSUME HierarchyInv, NEW p \in Ports, NEW b \in Blocks
    PROVE  Held(p, b) \in Line /\ Held(p, b).block = b /\ Held(p, b).data \in Block
<1>1. CASE Hit(SetAt(p, b), b)
    BY <1>1, Start, HitWay, LineFields DEF Held, LineOf
<1>2. CASE ~Hit(SetAt(p, b), b)
    BY <1>2, Start, LineMade DEF Held
<1> QED BY <1>1, <1>2

(* One word put into a block. *)
LEMMA OverlayWord ==
    ASSUME NEW g \in Block, NEW x \in Words, NEW v \in Values
    PROVE  WordsOf(Word1(x, v)) /\ Overlay(g, Word1(x, v)) = [g EXCEPT ![x] = v]
BY DEF WordsOf, Word1, Overlay, Block

(* Loads and fetches. *)
LEMMA ReadEffect ==
    ASSUME HierarchyInv, NEW p \in Ports, NEW b \in Blocks
    PROVE  LET r == Lookup(SetAt(p, b), Below, b)
           IN  /\ Effect(p, b, r.set, r.mem)
               /\ Hit(r.set, b) /\ LineOf(r.set, b) = Held(p, b)
               /\ Shared(r.mem, b) = Shared(Below, b)
<1> DEFINE s == SetAt(p, b)
<1>1. /\ SetOK(s, Ways1, Own1(Index1[b])) /\ Own1(Index1[b]) \in SUBSET Blocks
      /\ b \in Own1(Index1[b]) /\ BelowOK(Below)
    BY Start
<1> HIDE DEF s
<1>2. LET r == Lookup(s, Below, b)
      IN  /\ SetOK(r.set, Ways1, Own1(Index1[b])) /\ BelowOK(r.mem)
          /\ Hit(r.set, b)
          /\ LineOf(r.set, b) =
               IF Hit(s, b) THEN LineOf(s, b)
               ELSE [block |-> b, dirty |-> FALSE, data |-> Shared(Below, b)]
          /\ Shared(r.mem, b) = Shared(Below, b)
          /\ \A e \in Blocks \ {b} : Quiet(s, Below, r.set, r.mem, e)
    BY ONLY <1>1, LookupKeeps
<1> QED BY <1>2 DEF s, Effect, Held

(* Stores, atomics and store-conditionals that work in the L1, and their way  *)
(* through to L2.                                                           *)
LEMMA WriteInL1Effect ==
    ASSUME HierarchyInv, NEW p \in Ports, NEW b \in Blocks,
           NEW x \in Words, NEW v \in Values, NEW d \in BOOLEAN
    PROVE  LET r == Lookup(SetAt(p, b), Below, b)
               t == PutWord(r.set, b, x, v, d)
               n == L2Write(r.mem, b, Word1(x, v))
           IN  /\ Effect(p, b, t, r.mem) /\ Effect(p, b, t, n)
               /\ Hit(t, b)
               /\ LineOf(t, b) = [block |-> b, dirty |-> d,
                                  data |-> [Held(p, b).data EXCEPT ![x] = v]]
               /\ Shared(r.mem, b) = Shared(Below, b)
               /\ Shared(n, b) = [Shared(Below, b) EXCEPT ![x] = v]
<1> DEFINE r == Lookup(SetAt(p, b), Below, b)
           own == Own1(Index1[b])
           t == PutWord(r.set, b, x, v, d)
           n == L2Write(r.mem, b, Word1(x, v))
<1>1. /\ Effect(p, b, r.set, r.mem)
      /\ Hit(r.set, b) /\ LineOf(r.set, b) = Held(p, b)
      /\ Shared(r.mem, b) = Shared(Below, b)
    BY ReadEffect
<1>2. /\ WaysOK(Ways1) /\ own \in SUBSET Blocks
      /\ Shared(Below, b) \in Block
    BY Start
<1> HIDE DEF r, own
<1>3. SetOK(r.set, Ways1, own) /\ BelowOK(r.mem)
    BY <1>1 DEF Effect, own
<1>4. /\ SetOK(t, Ways1, own) /\ Hit(t, b)
      /\ LineOf(t, b) = [block |-> b, dirty |-> d,
                         data |-> [LineOf(r.set, b).data EXCEPT ![x] = v]]
      /\ \A e \in Blocks \ {b} :
            /\ Hit(t, e) <=> Hit(r.set, e)
            /\ Hit(t, e) => LineOf(t, e) = LineOf(r.set, e)
    BY ONLY <1>1, <1>2, <1>3, b \in Blocks, x \in Words, v \in Values, d \in BOOLEAN,
            PutWordView
<1> HIDE DEF t
<1>5. /\ BelowOK(n)
      /\ Shared(n, b) = [Shared(Below, b) EXCEPT ![x] = v]
      /\ \A e \in Blocks \ {b} : Shared(n, e) = Shared(r.mem, e)
      /\ AddsOnly(r.mem, n, b)
    <2>1. WordsOf(Word1(x, v))
          /\ Overlay(Shared(Below, b), Word1(x, v)) = [Shared(Below, b) EXCEPT ![x] = v]
        BY <1>2, OverlayWord
    <2>2. /\ BelowOK(n)
          /\ Shared(n, b) = Overlay(Shared(r.mem, b), Word1(x, v))
          /\ \A e \in Blocks \ {b} : Shared(n, e) = Shared(r.mem, e)
          /\ AddsOnly(r.mem, n, b)
        BY ONLY <1>3, <2>1, b \in Blocks, L2WriteKeeps
    <2> HIDE DEF n
    <2> QED BY ONLY <1>1, <2>1, <2>2
<1> HIDE DEF n
<1>6. Effect(p, b, t, r.mem) /\ Effect(p, b, t, n)
    BY <1>1, <1>3, <1>4, <1>5 DEF Effect, Quiet, AddsOnly, own
<1> QED BY <1>1, <1>4, <1>5, <1>6 DEF r, t, n

(* Stores and atomics that work in L2. *)
LEMMA WriteBelowEffect ==
    ASSUME HierarchyInv, NEW p \in Ports, NEW b \in Blocks,
           NEW x \in Words, NEW v \in Values,
           NEW m \in {Below, L2Access(Below, b)}
    PROVE  LET t == Invalidate(SetAt(p, b), b)
               n == L2Write(m, b, Word1(x, v))
           IN  /\ Effect(p, b, t, n)
               /\ ~Hit(t, b)
               /\ Shared(n, b) = [Shared(Below, b) EXCEPT ![x] = v]
<1> DEFINE s == SetAt(p, b)
           t == Invalidate(s, b)
           n == L2Write(m, b, Word1(x, v))
           own == Own1(Index1[b])
<1>1. /\ SetOK(s, Ways1, own) /\ WaysOK(Ways1) /\ BelowOK(Below)
      /\ Shared(Below, b) \in Block
    BY Start
<1> HIDE DEF s, own
<1>2. /\ BelowOK(m) /\ AddsOnly(Below, m, b)
      /\ \A e \in Blocks : Shared(m, e) = Shared(Below, e)
    BY <1>1, L2AccessKeeps DEF AddsOnly
<1>3. /\ SetOK(t, Ways1, own) /\ ~Hit(t, b)
      /\ \A e \in Blocks \ {b} :
            /\ Hit(t, e) <=> Hit(s, e)
            /\ Hit(t, e) => LineOf(t, e) = LineOf(s, e)
    BY ONLY <1>1, b \in Blocks, InvalidateKeeps, InvalidateView
<1> HIDE DEF t
<1>4. /\ BelowOK(n)
      /\ Shared(n, b) = [Shared(Below, b) EXCEPT ![x] = v]
      /\ \A e \in Blocks \ {b} : Shared(n, e) = Shared(Below, e)
      /\ AddsOnly(m, n, b)
    <2>1. WordsOf(Word1(x, v))
          /\ Overlay(Shared(Below, b), Word1(x, v)) = [Shared(Below, b) EXCEPT ![x] = v]
        BY <1>1, OverlayWord
    <2> QED BY <1>2, <2>1, L2WriteKeeps
<1> HIDE DEF n
<1>5. Effect(p, b, t, n)
    BY <1>2, <1>3, <1>4 DEF Effect, Quiet, AddsOnly, s, own
<1> QED BY <1>3, <1>4, <1>5 DEF s, t, n

(* A dirty line of an L1 written back to L2. *)
LEMMA FlushL1Effect ==
    ASSUME HierarchyInv, NEW p \in Ports, NEW b \in Blocks, Hit(SetAt(p, b), b)
    PROVE  LET s == SetAt(p, b)
               t == [s EXCEPT !.lines[FindEntry(s, b)].dirty = FALSE]
               n == L2Write(Below, b, LineOf(s, b).data)
           IN  /\ Effect(p, b, t, n)
               /\ Hit(t, b)
               /\ LineOf(t, b) = [block |-> b, dirty |-> FALSE, data |-> LineOf(s, b).data]
               /\ Shared(n, b) = LineOf(s, b).data
<1> DEFINE s == SetAt(p, b)
           t == [s EXCEPT !.lines[FindEntry(s, b)].dirty = FALSE]
           f == LineOf(s, b).data
           n == L2Write(Below, b, f)
           own == Own1(Index1[b])
<1>1. /\ SetOK(s, Ways1, own) /\ WaysOK(Ways1) /\ BelowOK(Below)
      /\ Shared(Below, b) \in Block
    BY Start
<1>2. f \in Block
    BY HeldLine DEF Held
<1> HIDE DEF s, own
<1>3. /\ SetOK(t, Ways1, own) /\ Hit(t, b)
      /\ LineOf(t, b) = [block |-> b, dirty |-> FALSE, data |-> f]
      /\ \A e \in Blocks \ {b} :
            /\ Hit(t, e) <=> Hit(s, e)
            /\ Hit(t, e) => LineOf(t, e) = LineOf(s, e)
    <2>1. Hit(s, b)
        BY DEF s
    <2>2. t = Cleaned(s, b)
        BY DEF Cleaned
    <2> HIDE DEF t
    <2>3. SetOK(s, Ways1, own) /\ WaysOK(Ways1)
        BY <1>1
    <2>4. LineOf(t, b) = [block |-> b, dirty |-> FALSE, data |-> LineOf(s, b).data]
        BY ONLY <2>1, <2>2, <2>3, b \in Blocks, CleanedView
    <2>5. /\ SetOK(t, Ways1, own) /\ Hit(t, b)
          /\ \A e \in Blocks \ {b} :
                /\ Hit(t, e) <=> Hit(s, e)
                /\ Hit(t, e) => LineOf(t, e) = LineOf(s, e)
        BY ONLY <2>1, <2>2, <2>3, b \in Blocks, CleanedView
    <2> QED BY ONLY <2>4, <2>5 DEF f
<1> HIDE DEF t, f
<1>4. /\ BelowOK(n) /\ Shared(n, b) = f
      /\ \A e \in Blocks \ {b} : Shared(n, e) = Shared(Below, e)
      /\ AddsOnly(Below, n, b)
    <2>1. WordsOf(f) /\ Overlay(Shared(Below, b), f) = f
        BY <1>1, <1>2, OverlayWhole
    <2>2. /\ BelowOK(n)
          /\ Shared(n, b) = Overlay(Shared(Below, b), f)
          /\ \A e \in Blocks \ {b} : Shared(n, e) = Shared(Below, e)
          /\ AddsOnly(Below, n, b)
        BY ONLY <1>1, <2>1, b \in Blocks, L2WriteKeeps
    <2> QED BY ONLY <2>1, <2>2
<1> HIDE DEF n
<1>5. Effect(p, b, t, n)
    BY <1>3, <1>4 DEF Effect, Quiet, AddsOnly, s, own
<1> QED BY <1>3, <1>4, <1>5 DEF s, t, f, n

(* A dirty line of L2 written back to DDR. *)
LEMMA FlushL2Effect ==
    ASSUME HierarchyInv, NEW b \in Blocks, FlushL2(b)
    PROVE  BelowOK(Below') /\ \A e \in Blocks : Shared(Below', e) = Shared(Below, e)
<1> DEFINE i == Index2[b]
           s == l2[i]
           w == FindEntry(s, b)
           t == [s EXCEPT !.lines[w].dirty = FALSE]
           d == LineOf(s, b).data
           line == [block |-> b, dirty |-> FALSE, data |-> d]
           n == [l2 |-> [l2 EXCEPT ![i] = t], ddr |-> [ddr EXCEPT ![b] = d]]
<1>1. /\ BelowOK(Below) /\ Below.l2 = l2 /\ Below.ddr = ddr
      /\ i \in Sets2 /\ SetOK(s, Ways2, Own2(i)) /\ WaysOK(Ways2)
      /\ Hit(s, b)
    BY SetOfBlock, WaysNumbered DEF HierarchyInv, FlushL2, BelowOK, Below
<1>2. /\ w \in Ways2 /\ d \in Block /\ L2Data(Below, b) = d /\ LineOf(s, b).block = b
    BY <1>1, HitWay, L2Line DEF L2Data
<1>3. Below' = n
    BY DEF FlushL2, Below
<1>4. /\ SetOK(t, Ways2, Own2(i)) /\ LineOf(t, b) = line
      /\ t.lines = [s.lines EXCEPT ![w] = line]
    <2> HIDE DEF s, i, line, w
    <2>1. /\ SetOK(t, Ways2, Own2(i)) /\ LineOf(t, b) = line
          /\ t.lines = [s.lines EXCEPT ![w] = LineOf(t, b)]
        <3>1. t = Cleaned(s, b)
            BY DEF Cleaned, w
        <3> HIDE DEF t
        <3> QED BY ONLY <1>1, <3>1, b \in Blocks, CleanedSet DEF w, line
    <2> QED BY ONLY <2>1
<1>5. line \in Line /\ line.block = b /\ line.data = d /\ ~line.dirty
    BY <1>2, LineMade
<1> HIDE DEF t, line
<1>6. IsPut(Below, n, i, w, t, line, b, d)
    BY <1>1, <1>2, <1>4, <1>5 DEF IsPut
<1>7. Replaceable(Below.l2[i].lines[w], b, Below.ddr)
    BY <1>1, <1>2 DEF Replaceable, LineOf
<1> HIDE DEF n
<1>8. /\ BelowOK(n) /\ Shared(n, b) = d
      /\ \A e \in Blocks \ {b} : Shared(n, e) = Shared(Below, e)
    <2> HIDE DEF d, i, s, w
    <2> QED BY ONLY <1>1, <1>5, <1>6, <1>7, PutBelow, PutShared
<1>9. Shared(Below, b) = d
    BY <1>1, <1>2 DEF Shared
<1> QED BY <1>3, <1>8, <1>9

----------------------------------------------------------------------------
(* The steps. *)

(* Such an operation keeps the invariant. *)
LEMMA CommitKeeps ==
    ASSUME HierarchyInv, NEW p \in Ports, NEW b \in Blocks, NEW s, NEW m,
           Effect(p, b, s, m), NEW access \in Flat!Access \union {NoAccess},
           Commit(p, b, s, m, access)
    PROVE  HierarchyInv' /\ Below' = m
<1>1. /\ l1 \in [Ports -> [Sets1 -> CacheSet(Ways1)]]
      /\ \A q \in Ports, i \in Sets1 : WellFormedSet(l1[q][i], Own1(i))
    BY DEF HierarchyInv, AboveOK
<1>2. Index1[b] \in Sets1 /\ s \in CacheSet(Ways1) /\ WellFormedSet(s, Own1(Index1[b]))
    BY SetOfBlock DEF Effect, SetOK
<1>3. l1' = [l1 EXCEPT ![p] = [l1[p] EXCEPT ![Index1[b]] = s]]
    BY DEF Commit
<1>4. AboveOK(l1')
    <2>1. l1' \in [Ports -> [Sets1 -> CacheSet(Ways1)]]
        BY <1>1, <1>2, <1>3
    <2>2. ASSUME NEW q \in Ports, NEW i \in Sets1
          PROVE  WellFormedSet(l1'[q][i], Own1(i))
        <3>1. l1'[q][i] = IF q = p /\ i = Index1[b] THEN s ELSE l1[q][i]
            BY <1>1, <1>3
        <3> QED BY <1>1, <1>2, <3>1
    <2> QED BY <2>1, <2>2 DEF AboveOK
<1>5. Below' = m /\ BelowOK(m)
    BY DEF Commit, Below, Effect, BelowOK
<1>6. out' \in Flat!Access \union {NoAccess}
    BY DEF Commit
<1> QED BY <1>4, <1>5, <1>6 DEF HierarchyInv

(* What an action reports is an access of the flat memory. *)
LEMMA ReportOK ==
    ASSUME NEW c \in Cores, NEW op \in {"load", "fetch", "store", "amo"},
           NEW a \in Addrs, NEW v \in Values
    PROVE  Report(c, op, a, v) \in Flat!Access
BY DEF Report, Flat!Access

(* An address is a block and a word of it. *)
LEMMA AddrParts ==
    ASSUME NEW a \in Addrs
    PROVE  a[1] \in Blocks /\ a[2] \in Words /\ a = <<a[1], a[2]>>
BY DEF Addrs

(* A core has a port for data and one for instructions. *)
LEMMA PortOf ==
    ASSUME NEW c \in Cores
    PROVE  <<"D", c>> \in Ports /\ <<"I", c>> \in Ports
BY DEF Ports

(* Empty caches are consistent with any image in memory. *)
LEMMA InitHolds == Init => HierarchyInv
<1> SUFFICES ASSUME Init PROVE HierarchyInv
    OBVIOUS
<1>1. ASSUME NEW W, WaysOK(W), NEW own, Blocks # {}
      PROVE  SetOK(EmptySet(W), W, own)
    <2>1. NoLine \in Line /\ NoLine.block = NoBlock /\ ~NoLine.dirty
        BY <1>1, NoLineOK DEF NoLine
    <2>2. Cardinality(W) \in Nat /\ \A w \in W : w \in Nat /\ w - 1 \in Nat
                             /\ w - 1 < Cardinality(W)
        BY <1>1, FS_CardinalityType DEF WaysOK
    <2>3. \A w, u \in W : w # u => w - 1 # u - 1
        BY <2>2
    <2> HIDE DEF NoLine
    <2> QED BY <2>1, <2>2, <2>3 DEF SetOK, EmptySet, CacheSet, WellFormedSet
<1>2. AboveOK(l1)
    <2>1. ASSUME NEW i \in Sets1 PROVE SetOK(EmptySet(Ways1), Ways1, Own1(i))
        BY <1>1, WaysNumbered DEF Sets1
    <2> QED BY <2>1 DEF Init, AboveOK, SetOK
<1>3. BelowOK(Below)
    <2>1. ASSUME NEW i \in Sets2
          PROVE  SetOK(EmptySet(Ways2), Ways2, Own2(i))
        BY <1>1, WaysNumbered DEF Sets2
    <2>2. ASSUME NEW d PROVE CleanSet(EmptySet(Ways2), d)
        BY DEF CleanSet, EmptySet, NoLine
    <2>3. /\ Below = [l2 |-> Below.l2, ddr |-> Below.ddr]
          /\ Below.l2 = [i \in Sets2 |-> EmptySet(Ways2)]
          /\ Below.ddr \in [Blocks -> Block]
        BY HierarchyAssumption DEF Init, Below, Block
    <2>4. Below.l2 \in [Sets2 -> CacheSet(Ways2)]
        BY <2>1, <2>3 DEF SetOK
    <2> QED BY <2>1, <2>2, <2>3, <2>4 DEF BelowOK
<1> QED BY <1>2, <1>3 DEF HierarchyInv, Init

(* A step that makes set s and memory m of an operation on block b of port p. *)
Moves(p, b, s, m, access) ==
    /\ p \in Ports /\ b \in Blocks
    /\ Effect(p, b, s, m)
    /\ access \in Flat!Access \union {NoAccess}
    /\ Commit(p, b, s, m, access)

(* The five shapes a step has: the core works on the line it holds, reading   *)
(* it or writing a word of it, with the word put through to L2 or not, ...    *)
Reads(p, c, op, a) ==
    \E s, m :
        /\ Moves(p, a[1], s, m, Report(c, op, a, Held(p, a[1]).data[a[2]]))
        /\ Hit(s, a[1]) /\ LineOf(s, a[1]) = Held(p, a[1])
        /\ Shared(m, a[1]) = Shared(Below, a[1])

WritesLine(p, a, v, dirty, through, access) ==
    \E s, m :
        /\ Moves(p, a[1], s, m, access)
        /\ Hit(s, a[1])
        /\ LineOf(s, a[1]) = [block |-> a[1], dirty |-> dirty,
                              data |-> [Held(p, a[1]).data EXCEPT ![a[2]] = v]]
        /\ Shared(m, a[1]) = IF through THEN [Shared(Below, a[1]) EXCEPT ![a[2]] = v]
                             ELSE Shared(Below, a[1])

(* ... or it works below and loses the line, ... *)
PassesLine(p, a, v, access) ==
    \E s, m :
        /\ Moves(p, a[1], s, m, access)
        /\ ~Hit(s, a[1])
        /\ Shared(m, a[1]) = [Shared(Below, a[1]) EXCEPT ![a[2]] = v]

(* ... or a dirty line is written back, from an L1 or from L2. *)
WritesBack(p, b) ==
    \E s, m :
        /\ Moves(p, b, s, m, out)
        /\ Hit(s, b)
        /\ LineOf(s, b) = [block |-> b, dirty |-> FALSE, data |-> Held(p, b).data]
        /\ Shared(m, b) = Held(p, b).data
        /\ Hit(SetAt(p, b), b) /\ LineOf(SetAt(p, b), b).dirty

WritesBackL2 ==
    /\ BelowOK(Below') /\ \A e \in Blocks : Shared(Below', e) = Shared(Below, e)
    /\ UNCHANGED <<l1, out>>

(* A core gets a value, from its line and from below. *)
LEMMA HeldWord ==
    ASSUME HierarchyInv, NEW p \in Ports, NEW a \in Addrs
    PROVE  Held(p, a[1]).data[a[2]] \in Values /\ Shared(Below, a[1])[a[2]] \in Values
BY AddrParts, HeldLine, Start DEF Block

(* Loads and fetches are reads. *)
LEMMA ReadStep ==
    ASSUME HierarchyInv, NEW p \in Ports, NEW c \in Cores, NEW op \in {"load", "fetch"},
           NEW a \in Addrs, ReadThrough(p, c, op, a)
    PROVE  Reads(p, c, op, a)
<1> DEFINE r == Lookup(SetAt(p, a[1]), Below, a[1])
<1>1. a[1] \in Blocks
    BY AddrParts
<1>2. /\ Effect(p, a[1], r.set, r.mem)
      /\ Hit(r.set, a[1]) /\ LineOf(r.set, a[1]) = Held(p, a[1])
      /\ Shared(r.mem, a[1]) = Shared(Below, a[1])
    BY <1>1, ReadEffect
<1>3. Commit(p, a[1], r.set, r.mem, Report(c, op, a, LineOf(r.set, a[1]).data[a[2]]))
    BY DEF ReadThrough
<1>4. Report(c, op, a, Held(p, a[1]).data[a[2]]) \in Flat!Access
    BY HeldWord, ReportOK
<1> HIDE DEF r
<1> QED BY <1>1, <1>2, <1>3, <1>4 DEF Reads, Moves

(* A word of the line, changed in the L1 and perhaps put through to L2. *)
LEMMA WriteLineStep ==
    ASSUME HierarchyInv, NEW p \in Ports, NEW a \in Addrs, NEW v \in Values,
           NEW d \in BOOLEAN, NEW through \in BOOLEAN, NEW access \in Flat!Access,
           LET r == Lookup(SetAt(p, a[1]), Below, a[1])
           IN  Commit(p, a[1], PutWord(r.set, a[1], a[2], v, d),
                      IF through THEN L2Write(r.mem, a[1], Word1(a[2], v)) ELSE r.mem,
                      access)
    PROVE  WritesLine(p, a, v, d, through, access)
<1> DEFINE r == Lookup(SetAt(p, a[1]), Below, a[1])
           t == PutWord(r.set, a[1], a[2], v, d)
           n == L2Write(r.mem, a[1], Word1(a[2], v))
           m == IF through THEN n ELSE r.mem
<1>1. a[1] \in Blocks /\ a[2] \in Words
    BY AddrParts
<1>2. /\ Effect(p, a[1], t, r.mem) /\ Effect(p, a[1], t, n)
      /\ Hit(t, a[1])
      /\ LineOf(t, a[1]) = [block |-> a[1], dirty |-> d,
                            data |-> [Held(p, a[1]).data EXCEPT ![a[2]] = v]]
      /\ Shared(r.mem, a[1]) = Shared(Below, a[1])
      /\ Shared(n, a[1]) = [Shared(Below, a[1]) EXCEPT ![a[2]] = v]
    BY <1>1, WriteInL1Effect
<1>3. Commit(p, a[1], t, m, access)
    OBVIOUS
<1> HIDE DEF r, t, n
<1> QED BY <1>1, <1>2, <1>3 DEF WritesLine, Moves

(* A word written below, and the line of the own L1 lost. *)
LEMMA PassLineStep ==
    ASSUME HierarchyInv, NEW p \in Ports, NEW a \in Addrs, NEW v \in Values,
           NEW m \in {Below, L2Access(Below, a[1])}, NEW access \in Flat!Access,
           Commit(p, a[1], Invalidate(SetAt(p, a[1]), a[1]),
                  L2Write(m, a[1], Word1(a[2], v)), access)
    PROVE  PassesLine(p, a, v, access)
<1> DEFINE t == Invalidate(SetAt(p, a[1]), a[1])
           n == L2Write(m, a[1], Word1(a[2], v))
<1>1. a[1] \in Blocks /\ a[2] \in Words
    BY AddrParts
<1>2. /\ Effect(p, a[1], t, n) /\ ~Hit(t, a[1])
      /\ Shared(n, a[1]) = [Shared(Below, a[1]) EXCEPT ![a[2]] = v]
    BY <1>1, WriteBelowEffect
<1>3. Commit(p, a[1], t, n, access)
    OBVIOUS
<1> HIDE DEF t, n
<1> QED BY <1>1, <1>2, <1>3 DEF PassesLine, Moves

(* What the actions are. *)
LEMMA StoreBackStep ==
    ASSUME HierarchyInv, NEW c \in Cores, NEW a \in Addrs, NEW v \in Values,
           StoreBack(c, a, v)
    PROVE  WritesLine(<<"D", c>>, a, v, TRUE, FALSE, Report(c, "store", a, v))
<1>1. <<"D", c>> \in Ports /\ Report(c, "store", a, v) \in Flat!Access
    BY PortOf, ReportOK
<1> QED BY <1>1, WriteLineStep DEF StoreBack

(* Cache::write to a word that goes through, or of the page table. *)
LEMMA StoreDirectStep ==
    ASSUME HierarchyInv, NEW c \in Cores, NEW a \in Addrs, NEW v \in Values,
           StoreDirect(c, a, v)
    PROVE  PassesLine(<<"D", c>>, a, v, Report(c, "store", a, v))
<1>1. <<"D", c>> \in Ports /\ Report(c, "store", a, v) \in Flat!Access
    BY PortOf, ReportOK
<1> QED BY <1>1, PassLineStep DEF StoreDirect, Word1

(* The atomic operations that work in L2. *)
LEMMA AmoStep ==
    ASSUME HierarchyInv, NEW c \in Cores, NEW a \in Addrs, NEW v \in Values, Amo(c, a, v)
    PROVE  PassesLine(<<"D", c>>, a, v, Report(c, "amo", a, Shared(Below, a[1])[a[2]]))
<1>1. <<"D", c>> \in Ports /\ a[1] \in Blocks
    BY PortOf, AddrParts
<1>2. Report(c, "amo", a, Shared(Below, a[1])[a[2]]) \in Flat!Access
    BY <1>1, HeldWord, ReportOK
<1>3. L2Data(L2Access(Below, a[1]), a[1]) = Shared(Below, a[1])
    BY <1>1, L2AccessKeeps DEF HierarchyInv
<1> QED BY <1>1, <1>2, <1>3, PassLineStep DEF Amo, Word1

(* The line a word is written to is the one the lookup found. *)
LEMMA LookedUp ==
    ASSUME HierarchyInv, NEW p \in Ports, NEW a \in Addrs
    PROVE  /\ LineOf(Lookup(SetAt(p, a[1]), Below, a[1]).set, a[1]) = Held(p, a[1])
           /\ Held(p, a[1]).dirty \in BOOLEAN
BY AddrParts, ReadEffect, HeldLine, LineFields

(* AMOMIN.W and its like. *)
LEMMA AmoMinMaxStep ==
    ASSUME HierarchyInv, NEW c \in Cores, NEW a \in Addrs, NEW v \in Values,
           AmoMinMax(c, a, v)
    PROVE  WritesLine(<<"D", c>>, a, v,
                      Held(<<"D", c>>, a[1]).dirty \/ a \notin WriteThrough,
                      a \in WriteThrough,
                      Report(c, "amo", a, Held(<<"D", c>>, a[1]).data[a[2]]))
<1> DEFINE p == <<"D", c>>
<1>1. p \in Ports
    BY PortOf
<1> HIDE DEF p
<1>2. Report(c, "amo", a, Held(p, a[1]).data[a[2]]) \in Flat!Access
    BY <1>1, HeldWord, ReportOK
<1> DEFINE d == Held(p, a[1]).dirty \/ a \notin WriteThrough
           through == a \in WriteThrough
           access == Report(c, "amo", a, Held(p, a[1]).data[a[2]])
<1>3. LET r == Lookup(SetAt(p, a[1]), Below, a[1])
      IN  Commit(p, a[1], PutWord(r.set, a[1], a[2], v, d),
                 IF through THEN L2Write(r.mem, a[1], Word1(a[2], v)) ELSE r.mem,
                 access)
    <2>1. LineOf(Lookup(SetAt(p, a[1]), Below, a[1]).set, a[1]) = Held(p, a[1])
        BY <1>1, LookedUp
    <2> QED BY <2>1, Zenon DEF AmoMinMax, Word1, p
<1>4. d \in BOOLEAN /\ through \in BOOLEAN /\ access \in Flat!Access
    BY <1>1, <1>2
<1> HIDE DEF d, through, access
<1>5. WritesLine(p, a, v, d, through, access)
    BY ONLY <1>1, <1>3, <1>4, HierarchyInv, a \in Addrs, v \in Values, WriteLineStep
<1> QED BY ONLY <1>5 DEF d, through, access, p

(* SC.W. *)
LEMMA StoreConditionalStep ==
    ASSUME HierarchyInv, NEW c \in Cores, NEW a \in Addrs, NEW v \in Values,
           StoreConditional(c, a, v)
    PROVE  WritesLine(<<"D", c>>, a, v,
                      Held(<<"D", c>>, a[1]).dirty \/ a \notin WriteThrough,
                      a \in WriteThrough, Report(c, "store", a, v))
<1> DEFINE p == <<"D", c>>
<1>1. p \in Ports /\ Report(c, "store", a, v) \in Flat!Access
    BY PortOf, ReportOK
<1> HIDE DEF p
<1> DEFINE d == Held(p, a[1]).dirty \/ a \notin WriteThrough
           through == a \in WriteThrough
           access == Report(c, "store", a, v)
<1>3. LET r == Lookup(SetAt(p, a[1]), Below, a[1])
      IN  Commit(p, a[1], PutWord(r.set, a[1], a[2], v, d),
                 IF through THEN L2Write(r.mem, a[1], Word1(a[2], v)) ELSE r.mem,
                 access)
    <2>1. LineOf(Lookup(SetAt(p, a[1]), Below, a[1]).set, a[1]) = Held(p, a[1])
        BY <1>1, LookedUp
    <2> QED BY <2>1, Zenon DEF StoreConditional, Word1, p
<1>4. d \in BOOLEAN /\ through \in BOOLEAN /\ access \in Flat!Access
    BY <1>1
<1> HIDE DEF d, through, access
<1>5. WritesLine(p, a, v, d, through, access)
    BY ONLY <1>1, <1>3, <1>4, HierarchyInv, a \in Addrs, v \in Values, WriteLineStep
<1> QED BY ONLY <1>5 DEF d, through, access, p

(* flush of a data cache. *)
LEMMA FlushL1Step ==
    ASSUME HierarchyInv, NEW c \in Cores, NEW b \in Blocks, FlushL1(c, b)
    PROVE  WritesBack(<<"D", c>>, b)
<1> DEFINE p == <<"D", c>>
           s == SetAt(p, b)
           t == [s EXCEPT !.lines[FindEntry(s, b)].dirty = FALSE]
           n == L2Write(Below, b, LineOf(s, b).data)
<1>1. p \in Ports
    BY PortOf
<1> HIDE DEF p
<1>2. Hit(s, b) /\ LineOf(s, b).dirty /\ Commit(p, b, t, n, out)
    BY DEF FlushL1, p
<1>3. /\ Effect(p, b, t, n) /\ Hit(t, b)
      /\ LineOf(t, b) = [block |-> b, dirty |-> FALSE, data |-> Held(p, b).data]
      /\ Shared(n, b) = Held(p, b).data
    BY <1>1, <1>2, FlushL1Effect DEF Held
<1>4. out \in Flat!Access \union {NoAccess}
    BY DEF HierarchyInv
<1> HIDE DEF t, n
<1> QED BY <1>1, <1>2, <1>3, <1>4 DEF WritesBack, Moves, p

(* flush of L2. *)
LEMMA FlushL2Step ==
    ASSUME HierarchyInv, NEW b \in Blocks, FlushL2(b)
    PROVE  WritesBackL2
BY FlushL2Effect DEF FlushL2, WritesBackL2

(* Every step keeps the invariant. *)
LEMMA StepHolds == HierarchyInv /\ [Next]_vars => HierarchyInv'
<1> SUFFICES ASSUME HierarchyInv, [Next]_vars PROVE HierarchyInv'
    OBVIOUS
<1>1. ASSUME NEW p, NEW b, NEW s, NEW m, NEW access, Moves(p, b, s, m, access)
      PROVE  HierarchyInv'
    BY <1>1, CommitKeeps DEF Moves
<1>2. ASSUME NEW c \in Cores, NEW a \in Addrs, Load(c, a) PROVE HierarchyInv'
    BY <1>1, <1>2, PortOf, ReadStep DEF Load, Reads
<1>3. ASSUME NEW c \in Cores, NEW a \in Addrs, Fetch(c, a) PROVE HierarchyInv'
    BY <1>1, <1>3, PortOf, ReadStep DEF Fetch, Reads
<1>4. ASSUME NEW c \in Cores, NEW a \in Addrs, NEW v \in Values, StoreBack(c, a, v)
      PROVE  HierarchyInv'
    BY <1>1, <1>4, StoreBackStep DEF WritesLine
<1>5. ASSUME NEW c \in Cores, NEW a \in Addrs, NEW v \in Values, StoreDirect(c, a, v)
      PROVE  HierarchyInv'
    BY <1>1, <1>5, StoreDirectStep DEF PassesLine
<1>6. ASSUME NEW c \in Cores, NEW a \in Addrs, NEW v \in Values, Amo(c, a, v)
      PROVE  HierarchyInv'
    BY <1>1, <1>6, AmoStep DEF PassesLine
<1>7. ASSUME NEW c \in Cores, NEW a \in Addrs, NEW v \in Values, AmoMinMax(c, a, v)
      PROVE  HierarchyInv'
    BY <1>1, <1>7, AmoMinMaxStep DEF WritesLine
<1>8. ASSUME NEW c \in Cores, NEW a \in Addrs, NEW v \in Values, StoreConditional(c, a, v)
      PROVE  HierarchyInv'
    BY <1>1, <1>8, StoreConditionalStep DEF WritesLine
<1>9. ASSUME NEW c \in Cores, NEW b \in Blocks, FlushL1(c, b) PROVE HierarchyInv'
    BY <1>1, <1>9, FlushL1Step DEF WritesBack
<1>10. ASSUME NEW b \in Blocks, FlushL2(b) PROVE HierarchyInv'
    BY <1>10, FlushL2Step DEF HierarchyInv, WritesBackL2
<1>11. CASE UNCHANGED vars
    BY <1>11 DEF vars, HierarchyInv, Below
<1> QED BY <1>2, <1>3, <1>4, <1>5, <1>6, <1>7, <1>8, <1>9, <1>10, <1>11 DEF Next

(* So the invariant holds in every reachable state. *)
LEMMA InvariantHolds == Spec => []HierarchyInv
BY InitHolds, StepHolds, PTL DEF Spec

(* Cache::find_entry, update_lru and allocate_entry agree on every set of    *)
(* every cache: the LRU list names each way once, no block has two ways, an *)
(* invalid way is never written back, and no block is in a foreign set.     *)
THEOREM SetsWellFormedHolds == Spec => []SetsWellFormed
<1>1. HierarchyInv => SetsWellFormed
    <2> SUFFICES ASSUME HierarchyInv PROVE SetsWellFormed
        OBVIOUS
    <2>1. TypeOK
        BY DEF HierarchyInv, AboveOK, BelowOK, Below, TypeOK, Block
    <2>2. \A p \in Ports, i \in Sets1 :
            WellFormedSet(l1[p][i], {b \in Blocks : Index1[b] = i})
        BY DEF HierarchyInv, AboveOK, Own1
    <2>3. \A i \in Sets2 : WellFormedSet(l2[i], {b \in Blocks : Index2[b] = i})
        BY DEF HierarchyInv, BelowOK, Below, SetOK, Own2
    <2> QED BY <2>1, <2>2, <2>3 DEF SetsWellFormed
<1> QED BY <1>1, InvariantHolds, PTL

(* A clean line of L2 equals DDR, write-through words included, so           *)
(* evict_lru_entry may drop it without writing it back.                     *)
THEOREM CleanL2IsInDdrHolds == Spec => []CleanL2IsInDdr
<1>1. HierarchyInv => CleanL2IsInDdr
    <2> SUFFICES ASSUME HierarchyInv, NEW b \in Blocks, Hit(l2[Index2[b]], b),
                        ~LineOf(l2[Index2[b]], b).dirty
                 PROVE  LineOf(l2[Index2[b]], b).data = ddr[b]
        BY DEF CleanL2IsInDdr
    <2>1. BelowOK(Below) /\ Below.l2 = l2 /\ Below.ddr = ddr
        BY DEF HierarchyInv, Below
    <2> QED BY <2>1, L2Line DEF L2Data
<1> QED BY <1>1, InvariantHolds, PTL

----------------------------------------------------------------------------
(***************************************************************************)
(* The caches implement one flat memory, for any number of cores, blocks,    *)
(* sets and ways, under the discipline of CacheDiscipline.tla.  The proof    *)
(* follows one block at a time through the shapes of a step derived above    *)
(* from the code of the caches.                                             *)
(***************************************************************************)

(* The line of block b in the cache of port p, and what L2 or DDR has. *)
Has(p, b) == Hit(SetAt(p, b), b)
LineAt(p, b) == LineOf(SetAt(p, b), b)
SharedAt(b) == Shared(Below, b)
InL2(b) == Hit(Below.l2[Index2[b]], b)

HasDirty(p, b) == Has(p, b) /\ LineAt(p, b).dirty

(* No port has a block its core does not ask for, only the one that writes    *)
(* it has it dirty, and a clean line is a copy of what is below.             *)
LineGood(p, b) ==
    Has(p, b) =>
        /\ Caches(p, b)
        /\ LineAt(p, b).dirty => p[1] = "D" /\ WritesInL1(p[2], b)
        /\ ~LineAt(p, b).dirty => LineAt(p, b).data = SharedAt(b)

BlockGood(b) == \A p \in Ports : LineGood(p, b)

(* The words of block b that the program sees. *)
Content(b) ==
    IF DirtyIn(b) # {}
    THEN LineAt(<<"D", CHOOSE c \in DirtyIn(b) : TRUE>>, b).data
    ELSE SharedAt(b)

FlatInv == HierarchyInv /\ \A b \in Blocks : BlockGood(b)

(* The parts of a port. *)
LEMMA Port ==
    ASSUME NEW p \in Ports
    PROVE  p[2] \in Cores /\ p = <<p[1], p[2]>> /\ p[1] \in {"D", "I"}
BY DEF Ports

(* A port that has a block dirty has it alone. *)
LEMMA DirtyAlone ==
    ASSUME NEW b \in Blocks, BlockGood(b), NEW p \in Ports, HasDirty(p, b)
    PROVE  /\ p = <<"D", p[2]>> /\ p[2] \in Cores
           /\ \A q \in Ports \ {p} : ~Caches(q, b) /\ ~Has(q, b)
<1>1. /\ p = <<"D", p[2]>> /\ p[2] \in Cores /\ WritesInL1(p[2], b)
    BY Port DEF BlockGood, LineGood, HasDirty
<1>2. \A q \in Ports \ {p} : ~Caches(q, b)
    BY <1>1, DisciplineAssumption
<1> QED BY <1>1, <1>2 DEF BlockGood, LineGood

(* What the program sees is what the dirty line has, or else what is below. *)
ContentIs(b) ==
    /\ \A p \in Ports : HasDirty(p, b) => Content(b) = LineAt(p, b).data
    /\ (\A p \in Ports : ~HasDirty(p, b)) => Content(b) = SharedAt(b)

(* A good block has the content that ContentIs says. *)
LEMMA ContentOfBlock ==
    ASSUME NEW b \in Blocks
    PROVE  BlockGood(b) => ContentIs(b)
<1> SUFFICES ASSUME BlockGood(b) PROVE ContentIs(b)
    OBVIOUS
<1>1. \A c : c \in DirtyIn(b) <=> c \in Cores /\ HasDirty(<<"D", c>>, b)
    BY DEF DirtyIn, HasDirty, Has, LineAt, SetAt
<1>2. ASSUME NEW p \in Ports, HasDirty(p, b)
      PROVE  Content(b) = LineAt(p, b).data
    <2>1. /\ p = <<"D", p[2]>> /\ p[2] \in Cores
          /\ \A q \in Ports \ {p} : ~Has(q, b)
        BY <1>2, DirtyAlone
    <2>2. p[2] \in DirtyIn(b)
        BY <1>1, <1>2, <2>1
    <2> DEFINE c == CHOOSE d \in DirtyIn(b) : TRUE
    <2>3. c \in DirtyIn(b)
        BY <2>2
    <2> HIDE DEF c
    <2>4. <<"D", c>> \in Ports /\ Has(<<"D", c>>, b)
        BY <1>1, <2>3, PortOf DEF HasDirty
    <2>5. <<"D", c>> = p
        BY <2>1, <2>4
    <2> QED BY <2>2, <2>5 DEF Content, c
<1>3. ASSUME \A p \in Ports : ~HasDirty(p, b) PROVE Content(b) = SharedAt(b)
    <2>1. DirtyIn(b) = {}
        BY <1>1, <1>3, PortOf
    <2> QED BY <2>1 DEF Content
<1> QED BY <1>2, <1>3 DEF ContentIs

(* The same after a step. *)
LEMMA ContentOfBlockNext ==
    ASSUME NEW b \in Blocks
    PROVE  BlockGood(b)' => ContentIs(b)'
<1>1. BlockGood(b) => ContentIs(b)
    BY ContentOfBlock
<1> QED BY <1>1, PTL

----------------------------------------------------------------------------
(* What a step on block b through port p does. *)

(* Only one set of one cache changes. *)
LEMMA SetsAfter ==
    ASSUME HierarchyInv, NEW p \in Ports, NEW b \in Blocks, NEW s, NEW m, NEW access,
           Moves(p, b, s, m, access), NEW e \in Blocks
    PROVE  /\ \A q \in Ports \ {p} : SetAt(q, e)' = SetAt(q, e)
           /\ SetAt(p, e)' = IF Index1[e] = Index1[b] THEN s ELSE SetAt(p, e)
           /\ Below' = m
<1>1. l1 \in [Ports -> [Sets1 -> CacheSet(Ways1)]]
    BY DEF HierarchyInv, AboveOK
<1>2. Index1[b] \in Sets1 /\ Index1[e] \in Sets1
    BY SetOfBlock
<1>3. l1' = [l1 EXCEPT ![p] = [l1[p] EXCEPT ![Index1[b]] = s]]
    BY DEF Moves, Commit
<1>4. \A q \in Ports : l1'[q][Index1[e]] =
        IF q = p /\ Index1[e] = Index1[b] THEN s ELSE l1[q][Index1[e]]
    BY <1>1, <1>2, <1>3
<1>5. Below' = m
    BY CommitKeeps DEF Moves
<1> QED BY <1>4, <1>5 DEF SetAt

(* Block b itself. *)
LEMMA OwnBlock ==
    ASSUME HierarchyInv, NEW p \in Ports, NEW b \in Blocks, NEW s, NEW m, NEW access,
           Moves(p, b, s, m, access)
    PROVE  /\ \A q \in Ports \ {p} :
                (Has(q, b)' <=> Has(q, b)) /\ LineAt(q, b)' = LineAt(q, b)
           /\ Has(p, b)' <=> Hit(s, b)
           /\ LineAt(p, b)' = LineOf(s, b)
           /\ SharedAt(b)' = Shared(m, b)
<1>1. /\ \A q \in Ports \ {p} : SetAt(q, b)' = SetAt(q, b)
      /\ SetAt(p, b)' = s /\ Below' = m
    BY SetsAfter
<1>2. ASSUME NEW q \in Ports \ {p}
      PROVE  (Has(q, b)' <=> Has(q, b)) /\ LineAt(q, b)' = LineAt(q, b)
    BY <1>1 DEF Has, LineAt
<1>3. (Has(p, b)' <=> Hit(s, b)) /\ LineAt(p, b)' = LineOf(s, b)
    BY <1>1 DEF Has, LineAt
<1>4. SharedAt(b)' = Shared(m, b)
    BY <1>1 DEF SharedAt
<1> QED BY <1>2, <1>3, <1>4

(* Any other block e, at most displaced. *)
LEMMA OtherBlock ==
    ASSUME HierarchyInv, NEW p \in Ports, NEW b \in Blocks, NEW s, NEW m, NEW access,
           Moves(p, b, s, m, access), NEW e \in Blocks \ {b}
    PROVE  /\ \A q \in Ports \ {p} :
                (Has(q, e)' <=> Has(q, e)) /\ LineAt(q, e)' = LineAt(q, e)
           /\ Has(p, e)' => Has(p, e) /\ LineAt(p, e)' = LineAt(p, e)
           /\ SharedAt(e)' = IF HasDirty(p, e) /\ ~Has(p, e)'
                             THEN LineAt(p, e).data ELSE SharedAt(e)
           /\ InL2(e)' => InL2(e) \/ Has(p, e)
<1>1. /\ \A q \in Ports \ {p} : SetAt(q, e)' = SetAt(q, e)
      /\ SetAt(p, e)' = IF Index1[e] = Index1[b] THEN s ELSE SetAt(p, e)
      /\ Below' = m
    BY SetsAfter
<1>2. ASSUME NEW q \in Ports \ {p}
      PROVE  (Has(q, e)' <=> Has(q, e)) /\ LineAt(q, e)' = LineAt(q, e)
    BY <1>1 DEF Has, LineAt
<1>3. Quiet(SetAt(p, b), Below, s, m, e)
    BY DEF Moves, Effect
<1>4. SharedAt(e)' = Shared(m, e) /\ (InL2(e)' <=> Hit(m.l2[Index2[e]], e))
    BY <1>1 DEF SharedAt, InL2
<1>5. CASE Index1[e] = Index1[b]
    <2>1. SetAt(p, e) = SetAt(p, b) /\ SetAt(p, e)' = s
        BY <1>1, <1>5 DEF SetAt
    <2>2. (Has(p, e)' <=> Hit(s, e)) /\ LineAt(p, e)' = LineOf(s, e)
        BY <2>1 DEF Has, LineAt
    <2> QED BY <1>2, <1>3, <1>4, <2>1, <2>2 DEF Quiet, Has, LineAt, HasDirty, SharedAt, InL2
<1>6. CASE Index1[e] # Index1[b]
    <2>1. SetAt(p, e)' = SetAt(p, e)
        BY <1>1, <1>6
    <2>2. (Has(p, e)' <=> Has(p, e)) /\ LineAt(p, e)' = LineAt(p, e)
        BY <2>1 DEF Has, LineAt
    <2>3. ~Hit(SetAt(p, b), e)
        <3>1. /\ SetOK(SetAt(p, b), Ways1, Own1(Index1[b])) /\ WaysOK(Ways1)
              /\ e \in Blocks
            BY Start
        <3>2. e \notin Own1(Index1[b])
            BY <1>6 DEF Own1
        <3> QED BY ONLY <3>1, <3>2, HitWay
    <2> QED BY <1>2, <1>3, <1>4, <2>2, <2>3 DEF Quiet, HasDirty, SharedAt, InL2
<1> QED BY <1>5, <1>6

(* Another block stays good, and the program sees no change of it. *)
LEMMA OtherBlockKeeps ==
    ASSUME FlatInv, NEW p \in Ports, NEW b \in Blocks, NEW s, NEW m, NEW access,
           Moves(p, b, s, m, access), NEW e \in Blocks \ {b}
    PROVE  BlockGood(e)' /\ Content(e)' = Content(e)
<1>1. HierarchyInv /\ BlockGood(e) /\ e \in Blocks
    BY DEF FlatInv
<1>2. /\ \A q \in Ports \ {p} :
            (Has(q, e)' <=> Has(q, e)) /\ LineAt(q, e)' = LineAt(q, e)
      /\ Has(p, e)' => Has(p, e) /\ LineAt(p, e)' = LineAt(p, e)
      /\ SharedAt(e)' = IF HasDirty(p, e) /\ ~Has(p, e)'
                        THEN LineAt(p, e).data ELSE SharedAt(e)
    BY <1>1, OtherBlock
<1>3. HasDirty(p, e) => \A q \in Ports \ {p} : ~Has(q, e)
    BY <1>1, DirtyAlone
<1>4. \A q \in Ports : Has(q, e)' => Has(q, e) /\ LineAt(q, e)' = LineAt(q, e)
    BY <1>2
<1>5. ASSUME NEW q \in Ports PROVE LineGood(q, e)'
    <2>1. ASSUME Has(q, e)' PROVE SharedAt(e)' = SharedAt(e)
        BY <1>2, <1>3, <1>4, <2>1
    <2>2. LineGood(q, e)
        BY <1>1 DEF BlockGood
    <2> QED BY <1>4, <2>1, <2>2 DEF LineGood
<1>6. BlockGood(e)'
    BY <1>5 DEF BlockGood
<1>7. ContentIs(e) /\ ContentIs(e)'
    BY <1>1, <1>6, ContentOfBlock, ContentOfBlockNext
<1>8. \A q \in Ports : HasDirty(q, e)' <=> HasDirty(q, e) /\ Has(q, e)'
    BY <1>4 DEF HasDirty
<1>9. CASE \E q \in Ports : HasDirty(q, e)
    <2>1. PICK q \in Ports : HasDirty(q, e)
        BY <1>9
    <2>2. \A r \in Ports \ {q} : ~Has(r, e)
        BY <1>1, <2>1, DirtyAlone
    <2>3. Content(e) = LineAt(q, e).data
        BY <1>7, <2>1 DEF ContentIs
    <2>4. CASE Has(q, e)'
        <3>1. HasDirty(q, e)' /\ LineAt(q, e)' = LineAt(q, e)
            BY <1>4, <1>8, <2>1, <2>4
        <3>2. Content(e)' = LineAt(q, e)'.data
            BY <1>7, <3>1 DEF ContentIs
        <3> QED BY <1>6, <2>3, <3>1, <3>2
    <2>5. CASE ~Has(q, e)'
        <3>1. q = p
            BY <1>2, <2>1, <2>5 DEF HasDirty
        <3>2. \A r \in Ports : ~HasDirty(r, e)'
            BY <1>4, <1>8, <2>2, <2>5
        <3>3. Content(e)' = SharedAt(e)'
            BY <1>7, <3>2 DEF ContentIs
        <3> QED BY <1>2, <1>6, <2>1, <2>3, <2>5, <3>1, <3>3
    <2> QED BY <2>4, <2>5
<1>10. CASE ~\E q \in Ports : HasDirty(q, e)
    <2>1. Content(e) = SharedAt(e) /\ SharedAt(e)' = SharedAt(e)
        BY <1>2, <1>7, <1>10 DEF ContentIs
    <2>2. Content(e)' = SharedAt(e)'
        BY <1>7, <1>8, <1>10 DEF ContentIs
    <2> QED BY <1>6, <2>1, <2>2
<1> QED BY <1>9, <1>10

----------------------------------------------------------------------------
(* What the shapes of a step do to the contents of the blocks. *)

(* The step leaves g as the words of block b. *)
ChangesTo(b, g) ==
    /\ FlatInv'
    /\ Content(b)' = g
    /\ \A e \in Blocks \ {b} : Content(e)' = Content(e)

(* If block b is good after the step, every block is. *)
LEMMA MovesTo ==
    ASSUME FlatInv, NEW p \in Ports, NEW b \in Blocks, NEW s, NEW m, NEW access,
           Moves(p, b, s, m, access), BlockGood(b)', NEW g, Content(b)' = g
    PROVE  ChangesTo(b, g) /\ out' = access
<1>1. \A e \in Blocks \ {b} : BlockGood(e)' /\ Content(e)' = Content(e)
    BY OtherBlockKeeps
<1>2. HierarchyInv'
    BY CommitKeeps DEF Moves, FlatInv
<1>3. \A e \in Blocks : BlockGood(e)'
    BY <1>1
<1>4. FlatInv'
    BY <1>2, <1>3 DEF FlatInv
<1> QED BY <1>1, <1>4 DEF ChangesTo, Moves, Commit

(* A core that may have a block in its cache works on what the program sees. *)
LEMMA HeldContent ==
    ASSUME FlatInv, NEW p \in Ports, NEW b \in Blocks, Caches(p, b)
    PROVE  /\ Held(p, b).data = Content(b)
           /\ Held(p, b).dirty <=> HasDirty(p, b)
           /\ ~HasDirty(p, b) => Content(b) = SharedAt(b)
           /\ \A q \in Ports \ {p} : ~HasDirty(q, b)
           /\ Has(p, b) => Held(p, b) = LineAt(p, b)
           /\ ~Has(p, b) => ~Held(p, b).dirty
<1>1. BlockGood(b) /\ ContentIs(b)
    BY ContentOfBlock DEF FlatInv
<1>2. \A q \in Ports \ {p} : ~HasDirty(q, b)
    BY <1>1, DirtyAlone
<1>3. Has(p, b) => Held(p, b) = LineAt(p, b)
    BY DEF Has, Held, LineAt
<1>4. ~Has(p, b) => ~Held(p, b).dirty /\ Held(p, b).data = SharedAt(b)
    BY DEF Has, Held, SharedAt
<1>5. Held(p, b).dirty <=> HasDirty(p, b)
    BY <1>3, <1>4 DEF HasDirty
<1>6. ~HasDirty(p, b) => Content(b) = SharedAt(b)
    BY <1>1, <1>2 DEF ContentIs
<1>7. CASE HasDirty(p, b)
    <2>1. Content(b) = LineAt(p, b).data
        BY <1>1, <1>7 DEF ContentIs
    <2> QED BY <1>2, <1>3, <1>4, <1>5, <1>6, <1>7, <2>1 DEF HasDirty
<1>8. CASE ~HasDirty(p, b)
    <2>1. Has(p, b) => LineAt(p, b).data = SharedAt(b)
        BY <1>1, <1>8 DEF BlockGood, LineGood, HasDirty
    <2> QED BY <1>2, <1>3, <1>4, <1>5, <1>6, <1>8, <2>1
<1> QED BY <1>7, <1>8

(* Block b after a step that leaves it in the cache of p. *)
LEMMA LineLeft ==
    ASSUME FlatInv, NEW p \in Ports, NEW b \in Blocks, NEW s, NEW m, NEW access,
           Moves(p, b, s, m, access), Caches(p, b), Hit(s, b),
           LineOf(s, b).dirty => p[1] = "D" /\ WritesInL1(p[2], b),
           ~LineOf(s, b).dirty => LineOf(s, b).data = Shared(m, b),
           \A q \in Ports \ {p} : Has(q, b) => Shared(m, b) = SharedAt(b)
    PROVE  BlockGood(b)' /\ Content(b)' = LineOf(s, b).data
<1>1. /\ \A q \in Ports \ {p} :
            (Has(q, b)' <=> Has(q, b)) /\ LineAt(q, b)' = LineAt(q, b)
      /\ Has(p, b)' <=> Hit(s, b)
      /\ LineAt(p, b)' = LineOf(s, b)
      /\ SharedAt(b)' = Shared(m, b)
    BY OwnBlock DEF FlatInv
<1>2. BlockGood(b) /\ \A q \in Ports \ {p} : ~HasDirty(q, b)
    BY HeldContent DEF FlatInv
<1>3. LineGood(p, b)'
    BY <1>1 DEF LineGood
<1>4. ASSUME NEW q \in Ports \ {p} PROVE LineGood(q, b)'
    <2>1. LineGood(q, b) /\ ~HasDirty(q, b)
        BY <1>2 DEF BlockGood
    <2> QED BY <1>1, <2>1 DEF LineGood, HasDirty
<1>5. BlockGood(b)'
    BY <1>3, <1>4 DEF BlockGood
<1>6. ContentIs(b)'
    BY <1>5, ContentOfBlockNext
<1>7. CASE LineOf(s, b).dirty
    <2>1. HasDirty(p, b)'
        BY <1>1, <1>7 DEF HasDirty
    <2> QED BY <1>1, <1>5, <1>6, <2>1 DEF ContentIs
<1>8. CASE ~LineOf(s, b).dirty
    <2>1. \A q \in Ports : ~HasDirty(q, b)'
        BY <1>1, <1>2, <1>8 DEF HasDirty
    <2> QED BY <1>1, <1>5, <1>6, <1>8, <2>1 DEF ContentIs
<1> QED BY <1>7, <1>8

(* A read gets what the program sees and changes nothing of it. *)
LEMMA ReadsTo ==
    ASSUME FlatInv, NEW p \in Ports, NEW c, NEW op, NEW a \in Addrs,
           Reads(p, c, op, a), Caches(p, a[1])
    PROVE  /\ ChangesTo(a[1], Content(a[1]))
           /\ out' = Report(c, op, a, Content(a[1])[a[2]])
<1> DEFINE b == a[1]
<1>1. b \in Blocks
    BY AddrParts
<1>2. PICK s, m :
        /\ Moves(p, b, s, m, Report(c, op, a, Held(p, b).data[a[2]]))
        /\ Hit(s, b) /\ LineOf(s, b) = Held(p, b) /\ Shared(m, b) = Shared(Below, b)
    BY DEF Reads
<1> HIDE DEF b
<1>3. /\ Held(p, b).data = Content(b)
      /\ Held(p, b).dirty <=> HasDirty(p, b)
      /\ ~HasDirty(p, b) => Content(b) = SharedAt(b)
    BY <1>1, HeldContent DEF b
<1>4. HasDirty(p, b) => p[1] = "D" /\ WritesInL1(p[2], b)
    BY <1>1 DEF FlatInv, BlockGood, LineGood, HasDirty
<1>5. BlockGood(b)' /\ Content(b)' = Content(b)
    <2>1. LineOf(s, b).dirty => p[1] = "D" /\ WritesInL1(p[2], b)
        BY <1>2, <1>3, <1>4
    <2>2. ~LineOf(s, b).dirty => LineOf(s, b).data = Shared(m, b)
        BY <1>2, <1>3 DEF SharedAt
    <2>3. Shared(m, b) = SharedAt(b) /\ Caches(p, b)
        BY <1>2 DEF SharedAt, b
    <2>4. BlockGood(b)' /\ Content(b)' = LineOf(s, b).data
        BY <1>1, <1>2, <2>1, <2>2, <2>3, LineLeft
    <2> QED BY <1>2, <1>3, <2>4
<1>6. /\ ChangesTo(b, Content(b))
      /\ out' = Report(c, op, a, Held(p, b).data[a[2]])
    BY <1>1, <1>2, <1>5, MovesTo
<1> QED BY <1>3, <1>5, <1>6 DEF b

(* A word written in the L1 is written, and replaces what the program saw. *)
LEMMA WritesLineTo ==
    ASSUME FlatInv, NEW c \in Cores, NEW a \in Addrs, NEW v, NEW dirty, NEW through,
           NEW access, WritesLine(<<"D", c>>, a, v, dirty, through, access),
           IF dirty /\ ~Held(<<"D", c>>, a[1]).dirty THEN WritesInL1(c, a[1])
           ELSE WritesInL1(c, a[1]) \/ WritesBoth(c, a[1]),
           ~dirty => through /\ ~Held(<<"D", c>>, a[1]).dirty
    PROVE  /\ ChangesTo(a[1], [Content(a[1]) EXCEPT ![a[2]] = v])
           /\ out' = access
           /\ Held(<<"D", c>>, a[1]).data = Content(a[1])
<1> DEFINE b == a[1]
           p == <<"D", c>>
           x == a[2]
<1>1. b \in Blocks /\ p \in Ports /\ p[1] = "D" /\ p[2] = c
    BY AddrParts, PortOf
<1>2. PICK s, m :
        /\ Moves(p, b, s, m, access)
        /\ Hit(s, b)
        /\ LineOf(s, b) = [block |-> b, dirty |-> dirty,
                           data |-> [Held(p, b).data EXCEPT ![x] = v]]
        /\ Shared(m, b) = IF through THEN [Shared(Below, b) EXCEPT ![x] = v]
                          ELSE Shared(Below, b)
    BY DEF WritesLine
<1>3. /\ WritesInL1(c, b) \/ WritesBoth(c, b)
      /\ Caches(p, b)
      /\ ~dirty => through /\ ~Held(p, b).dirty
    BY <1>1 DEF Caches
<1>4. \A q \in Ports \ {p} : ~Caches(q, b)
    BY <1>1, <1>3, DisciplineAssumption
<1>5. dirty => WritesInL1(c, b) \/ Held(p, b).dirty
    OBVIOUS
<1> HIDE DEF b, p, x
<1>6. /\ Held(p, b).data = Content(b)
      /\ Held(p, b).dirty <=> HasDirty(p, b)
      /\ ~HasDirty(p, b) => Content(b) = SharedAt(b)
    BY <1>1, <1>3, HeldContent
<1>7. \A q \in Ports \ {p} : ~Has(q, b)
    BY <1>1, <1>4 DEF FlatInv, BlockGood, LineGood
<1>8. /\ LineOf(s, b).dirty = dirty
      /\ LineOf(s, b).data = [Content(b) EXCEPT ![x] = v]
    BY <1>2, <1>6
<1>9. ~dirty => Shared(m, b) = [Content(b) EXCEPT ![x] = v]
    BY <1>2, <1>3, <1>6 DEF SharedAt
<1>10. LineOf(s, b).dirty => WritesInL1(c, b)
    <2>1. HasDirty(p, b) => WritesInL1(c, b)
        BY <1>1 DEF FlatInv, BlockGood, LineGood, HasDirty
    <2> QED BY <1>6, <1>8, <1>5, <2>1
<1>11. BlockGood(b)' /\ Content(b)' = LineOf(s, b).data
    BY <1>1, <1>2, <1>3, <1>7, <1>8, <1>9, <1>10, LineLeft
<1>12. ChangesTo(b, [Content(b) EXCEPT ![x] = v]) /\ out' = access
    BY <1>1, <1>2, <1>8, <1>11, MovesTo
<1> QED BY <1>6, <1>12 DEF b, p, x

(* So is a word written below it. *)
LEMMA PassesLineTo ==
    ASSUME FlatInv, NEW c \in Cores, NEW a \in Addrs, NEW v, NEW access,
           PassesLine(<<"D", c>>, a, v, access), WritesBelow(c, a[1])
    PROVE  /\ ChangesTo(a[1], [Content(a[1]) EXCEPT ![a[2]] = v])
           /\ out' = access
           /\ Shared(Below, a[1]) = Content(a[1])
<1> DEFINE b == a[1]
           p == <<"D", c>>
           x == a[2]
<1>1. b \in Blocks /\ p \in Ports
    BY AddrParts, PortOf
<1>2. PICK s, m :
        /\ Moves(p, b, s, m, access)
        /\ ~Hit(s, b)
        /\ Shared(m, b) = [Shared(Below, b) EXCEPT ![x] = v]
    BY DEF PassesLine
<1>3. ~WritesInL1(c, b) /\ \A q \in Ports \ {p} : ~Caches(q, b)
    BY <1>1, DisciplineAssumption
<1>4. BlockGood(b) /\ ContentIs(b)
    BY <1>1, ContentOfBlock DEF FlatInv
<1>5. \A q \in Ports \ {p} : ~Has(q, b)
    BY <1>3, <1>4 DEF BlockGood, LineGood
<1>6. ~HasDirty(p, b)
    BY <1>1, <1>3, <1>4 DEF BlockGood, LineGood, HasDirty
<1> HIDE DEF b, p, x
<1>7. Content(b) = SharedAt(b)
    BY <1>4, <1>5, <1>6 DEF ContentIs, HasDirty
<1>8. /\ \A q \in Ports : ~Has(q, b)'
      /\ SharedAt(b)' = Shared(m, b)
    BY <1>1, <1>2, <1>5, OwnBlock DEF FlatInv
<1>9. BlockGood(b)'
    BY <1>8 DEF BlockGood, LineGood
<1>10. Content(b)' = SharedAt(b)'
    <2>1. ContentIs(b)'
        BY <1>1, <1>9, ContentOfBlockNext
    <2> QED BY <1>8, <2>1 DEF ContentIs, HasDirty
<1>11. Content(b)' = [Content(b) EXCEPT ![x] = v]
    BY <1>2, <1>7, <1>8, <1>10 DEF SharedAt
<1>12. ChangesTo(b, [Content(b) EXCEPT ![x] = v]) /\ out' = access
    BY <1>1, <1>2, <1>9, <1>11, MovesTo
<1> QED BY <1>7, <1>12 DEF b, p, x, SharedAt

(* A write-back from an L1 moves a content and keeps it. *)
LEMMA WritesBackTo ==
    ASSUME FlatInv, NEW c \in Cores, NEW b \in Blocks, WritesBack(<<"D", c>>, b)
    PROVE  ChangesTo(b, Content(b)) /\ out' = out
<1> DEFINE p == <<"D", c>>
<1>1. p \in Ports
    BY PortOf
<1> HIDE DEF p
<1>2. PICK s, m :
        /\ Moves(p, b, s, m, out)
        /\ Hit(s, b)
        /\ LineOf(s, b) = [block |-> b, dirty |-> FALSE, data |-> Held(p, b).data]
        /\ Shared(m, b) = Held(p, b).data
        /\ Hit(SetAt(p, b), b) /\ LineOf(SetAt(p, b), b).dirty
    BY DEF WritesBack, p
<1>3. HasDirty(p, b) /\ BlockGood(b)
    BY <1>2 DEF HasDirty, Has, LineAt, FlatInv
<1>4. Caches(p, b) /\ \A q \in Ports \ {p} : ~Has(q, b)
    BY <1>1, <1>3, DirtyAlone DEF BlockGood, LineGood, HasDirty
<1>5. Held(p, b).data = Content(b)
    BY <1>1, <1>4, HeldContent
<1>6. ~LineOf(s, b).dirty /\ LineOf(s, b).data = Shared(m, b)
    BY <1>2
<1>7. BlockGood(b)' /\ Content(b)' = LineOf(s, b).data
    BY <1>1, <1>2, <1>4, <1>6, LineLeft
<1>8. Content(b)' = Content(b)
    BY <1>2, <1>5, <1>6, <1>7
<1> QED BY <1>1, <1>2, <1>7, <1>8, MovesTo

(* So does a write-back from L2. *)
LEMMA WritesBackL2To ==
    ASSUME FlatInv, WritesBackL2, HierarchyInv'
    PROVE  FlatInv' /\ out' = out /\ \A b \in Blocks : Content(b)' = Content(b)
<1>1. \A p \in Ports, b \in Blocks : SetAt(p, b)' = SetAt(p, b)
    BY DEF WritesBackL2, SetAt
<1>2. \A b \in Blocks : SharedAt(b)' = SharedAt(b)
    BY DEF WritesBackL2, SharedAt
<1>3. \A p \in Ports, b \in Blocks :
        (Has(p, b)' <=> Has(p, b)) /\ LineAt(p, b)' = LineAt(p, b)
    BY <1>1 DEF Has, LineAt
<1>4. ASSUME NEW b \in Blocks PROVE BlockGood(b)' /\ Content(b)' = Content(b)
    <2>1. BlockGood(b)'
        BY <1>2, <1>3 DEF FlatInv, BlockGood, LineGood
    <2>2. ContentIs(b) /\ ContentIs(b)'
        BY <2>1, ContentOfBlock, ContentOfBlockNext DEF FlatInv
    <2> QED BY <1>2, <1>3, <2>1, <2>2 DEF ContentIs, HasDirty
<1> QED BY <1>4 DEF FlatInv, WritesBackL2

----------------------------------------------------------------------------
(* The steps of the flat memory. *)

(* The content of a block is a block. *)
LEMMA ContentOK ==
    ASSUME FlatInv, NEW b \in Blocks
    PROVE  Content(b) \in Block
<1>1. ContentIs(b) /\ BelowOK(Below)
    BY ContentOfBlock DEF FlatInv, HierarchyInv
<1>2. SharedAt(b) \in Block
    BY <1>1, L2Line DEF SharedAt, Shared, BelowOK
<1>3. ASSUME NEW p \in Ports, HasDirty(p, b) PROVE LineAt(p, b).data \in Block
    BY <1>3, HeldLine DEF FlatInv, HasDirty, Has, LineAt, Held
<1> QED BY <1>1, <1>2, <1>3 DEF ContentIs

MemoryIsContent == LogicalMem = [a \in Addrs |-> Content(a[1])[a[2]]]

(* LogicalMem, through which the caches are read as a flat memory, has the
   contents of the blocks. *)
LEMMA MemoryHasContent == MemoryIsContent
<1>1. ASSUME NEW a \in Addrs
      PROVE  Content(a[1])[a[2]]
               = IF DirtyIn(a[1]) # {}
                 THEN LineOf(l1[<<"D", CHOOSE c \in DirtyIn(a[1]) : TRUE>>][Index1[a[1]]],
                             a[1]).data[a[2]]
                 ELSE IF Hit(l2[Index2[a[1]]], a[1])
                 THEN LineOf(l2[Index2[a[1]]], a[1]).data[a[2]]
                 ELSE ddr[a[1]][a[2]]
    BY DEF Content, LineAt, SetAt, SharedAt, Shared, L2Data, Below
<1> QED BY <1>1, Zenon DEF LogicalMem, MemoryIsContent

(* The same after a step. *)
LEMMA MemoryHasContentNext == MemoryIsContent'
BY MemoryHasContent, PTL

(* Contents that stay are a memory that stays. *)
LEMMA NothingChanges ==
    ASSUME \A b \in Blocks : Content(b)' = Content(b)
    PROVE  LogicalMem' = LogicalMem
<1>1. \A a \in Addrs : Content(a[1])'[a[2]] = Content(a[1])[a[2]]
    BY AddrParts
<1> QED BY <1>1, MemoryHasContent, MemoryHasContentNext DEF MemoryIsContent

(* A word changed in a content is a word changed in memory. *)
LEMMA WordChanges ==
    ASSUME FlatInv, NEW a \in Addrs, NEW v,
           ChangesTo(a[1], [Content(a[1]) EXCEPT ![a[2]] = v])
    PROVE  LogicalMem' = [LogicalMem EXCEPT ![a] = v]
<1>1. a[1] \in Blocks /\ a[2] \in Words /\ a = <<a[1], a[2]>>
    BY AddrParts
<1>2. Content(a[1]) \in Block
    BY <1>1, ContentOK
<1>3. \A d \in Addrs : Content(d[1])'[d[2]] = IF d = a THEN v ELSE Content(d[1])[d[2]]
    <2> SUFFICES ASSUME NEW d \in Addrs
                 PROVE  Content(d[1])'[d[2]] = IF d = a THEN v ELSE Content(d[1])[d[2]]
        OBVIOUS
    <2>1. d[1] \in Blocks /\ d[2] \in Words /\ d = <<d[1], d[2]>>
        BY AddrParts
    <2>2. CASE d[1] # a[1]
        BY <2>1, <2>2 DEF ChangesTo
    <2>3. CASE d[1] = a[1]
        <3>1. Content(d[1])' = [Content(a[1]) EXCEPT ![a[2]] = v]
            BY <2>3 DEF ChangesTo
        <3>2. d = a <=> d[2] = a[2]
            BY <1>1, <2>1, <2>3
        <3> QED BY <1>2, <2>1, <2>3, <3>1, <3>2 DEF Block
    <2> QED BY <2>2, <2>3
<1>4. LogicalMem' = [d \in Addrs |-> IF d = a THEN v ELSE Content(d[1])[d[2]]]
    BY <1>3, MemoryHasContentNext DEF MemoryIsContent
<1> QED BY <1>4, MemoryHasContent DEF MemoryIsContent

(* A word of the memory. *)
LEMMA WordOfBlock ==
    ASSUME NEW a \in Addrs
    PROVE  LogicalMem[a] = Content(a[1])[a[2]]
BY MemoryHasContent DEF MemoryIsContent

FlatStep == FlatInv' /\ (Flat!Next \/ UNCHANGED Flat!vars)

(* A read of the caches is a read of the flat memory. *)
LEMMA ReadIsFlat ==
    ASSUME FlatInv, NEW p \in Ports, NEW c \in Cores, NEW op \in {"load", "fetch"},
           NEW a \in Addrs, Reads(p, c, op, a), Caches(p, a[1])
    PROVE  FlatStep
<1>1. /\ ChangesTo(a[1], Content(a[1]))
      /\ out' = Report(c, op, a, Content(a[1])[a[2]])
    BY ReadsTo
<1>2. \A b \in Blocks : Content(b)' = Content(b)
    BY <1>1 DEF ChangesTo
<1>3. LogicalMem' = LogicalMem
    BY <1>2, NothingChanges
<1>4. Flat!Read(c, op, a)
    BY <1>1, <1>3, WordOfBlock DEF Flat!Read, Report
<1> QED BY <1>1, <1>4 DEF FlatStep, ChangesTo, Flat!Next

(* A write is a write, and an atomic operation one that is atomic. *)
LEMMA WriteIsFlat ==
    ASSUME FlatInv, NEW c \in Cores, NEW a \in Addrs, NEW v \in Values,
           ChangesTo(a[1], [Content(a[1]) EXCEPT ![a[2]] = v]),
           \/ out' = Report(c, "store", a, v)
           \/ out' = Report(c, "amo", a, Content(a[1])[a[2]])
    PROVE  FlatStep
<1>1. LogicalMem' = [LogicalMem EXCEPT ![a] = v]
    BY WordChanges
<1>2. Flat!Write(c, a, v) \/ Flat!ReadModifyWrite(c, a, v)
    BY <1>1, WordOfBlock DEF Flat!Write, Flat!ReadModifyWrite, Report
<1> QED BY <1>2 DEF FlatStep, ChangesTo, Flat!Next

(* What the discipline says of an access the program makes. *)
LEMMA Disciplined ==
    ASSUME NEW c \in Cores, NEW a \in Addrs
    PROVE  /\ <<c, "load", a>> \in Accesses => Caches(<<"D", c>>, a[1])
           /\ <<c, "fetch", a>> \in Accesses => Caches(<<"I", c>>, a[1])
           /\ <<c, "store", a>> \in Accesses =>
                IF a \in Direct THEN WritesBelow(c, a[1]) ELSE WritesInL1(c, a[1])
           /\ <<c, "amo", a>> \in Accesses => WritesBelow(c, a[1])
           /\ \A op \in {"amominmax", "sc"} : <<c, op, a>> \in Accesses =>
                IF a \in WriteThrough THEN WritesBoth(c, a[1]) ELSE WritesInL1(c, a[1])
<1>1. a[2] \in Words /\ a = <<a[1], a[2]>>
    BY AddrParts
<1>2. \A op, ops, words : op \in ops /\ <<c, op, a>> \in Accesses /\ a \in words
                            => Makes(c, ops, a[1], words)
    BY <1>1, Zenon DEF Makes
<1>3. <<"D", c>>[1] = "D" /\ <<"D", c>>[2] = c /\ <<"I", c>>[1] = "I" /\ <<"I", c>>[2] = c
    OBVIOUS
<1>4. /\ <<c, "load", a>> \in Accesses => Makes(c, {"load"}, a[1], Addrs)
      /\ <<c, "fetch", a>> \in Accesses => Makes(c, {"fetch"}, a[1], Addrs)
      /\ <<c, "amo", a>> \in Accesses => Makes(c, {"amo"}, a[1], Addrs)
    BY <1>2, Zenon
<1>5. <<c, "store", a>> \in Accesses =>
        IF a \in Direct THEN Makes(c, {"store"}, a[1], Direct)
        ELSE Makes(c, {"store"}, a[1], Addrs \ Direct)
    BY <1>2
<1>6. ASSUME NEW op \in {"amominmax", "sc"}, <<c, op, a>> \in Accesses
      PROVE  IF a \in WriteThrough
             THEN Makes(c, {"amominmax", "sc"}, a[1], WriteThrough)
             ELSE Makes(c, {"amominmax", "sc"}, a[1], Addrs \ WriteThrough)
    BY <1>2, <1>6
<1> QED BY <1>3, <1>4, <1>5, <1>6 DEF Caches, WritesInL1, WritesBoth, WritesBelow

(* Every step of the caches is one of the flat memory, or none. *)
LEMMA StepIsFlat == FlatInv /\ [Next]_vars => FlatStep
<1> SUFFICES ASSUME FlatInv, [Next]_vars PROVE FlatStep
    OBVIOUS
<1>0. HierarchyInv /\ HierarchyInv'
    BY StepHolds DEF FlatInv
<1>1. ASSUME NEW c \in Cores, NEW a \in Addrs, Load(c, a) PROVE FlatStep
    <2>1. <<"D", c>> \in Ports /\ Caches(<<"D", c>>, a[1])
        BY <1>1, PortOf, Disciplined DEF Load
    <2>2. Reads(<<"D", c>>, c, "load", a)
        BY <1>0, <1>1, <2>1, ReadStep DEF Load
    <2> QED BY <2>1, <2>2, ReadIsFlat
<1>2. ASSUME NEW c \in Cores, NEW a \in Addrs, Fetch(c, a) PROVE FlatStep
    <2>1. <<"I", c>> \in Ports /\ Caches(<<"I", c>>, a[1])
        BY <1>2, PortOf, Disciplined DEF Fetch
    <2>2. Reads(<<"I", c>>, c, "fetch", a)
        BY <1>0, <1>2, <2>1, ReadStep DEF Fetch
    <2> QED BY <2>1, <2>2, ReadIsFlat
<1>3. ASSUME NEW c \in Cores, NEW a \in Addrs, NEW v \in Values, StoreBack(c, a, v)
      PROVE  FlatStep
    <2>1. WritesInL1(c, a[1])
        BY <1>3, Disciplined DEF StoreBack, Direct
    <2>2. WritesLine(<<"D", c>>, a, v, TRUE, FALSE, Report(c, "store", a, v))
        BY <1>0, <1>3, StoreBackStep
    <2>3. /\ ChangesTo(a[1], [Content(a[1]) EXCEPT ![a[2]] = v])
          /\ out' = Report(c, "store", a, v)
        BY <2>1, <2>2, WritesLineTo
    <2> QED BY <2>3, WriteIsFlat
<1>4. ASSUME NEW c \in Cores, NEW a \in Addrs, NEW v \in Values, StoreDirect(c, a, v)
      PROVE  FlatStep
    <2>1. WritesBelow(c, a[1])
        BY <1>4, Disciplined DEF StoreDirect, Direct
    <2>2. PassesLine(<<"D", c>>, a, v, Report(c, "store", a, v))
        BY <1>0, <1>4, StoreDirectStep
    <2>3. /\ ChangesTo(a[1], [Content(a[1]) EXCEPT ![a[2]] = v])
          /\ out' = Report(c, "store", a, v)
        BY <2>1, <2>2, PassesLineTo
    <2> QED BY <2>3, WriteIsFlat
<1>5. ASSUME NEW c \in Cores, NEW a \in Addrs, NEW v \in Values, Amo(c, a, v)
      PROVE  FlatStep
    <2>1. WritesBelow(c, a[1])
        BY <1>5, Disciplined DEF Amo
    <2>2. PassesLine(<<"D", c>>, a, v, Report(c, "amo", a, Shared(Below, a[1])[a[2]]))
        BY <1>0, <1>5, AmoStep
    <2>3. /\ ChangesTo(a[1], [Content(a[1]) EXCEPT ![a[2]] = v])
          /\ out' = Report(c, "amo", a, Shared(Below, a[1])[a[2]])
          /\ Shared(Below, a[1]) = Content(a[1])
        BY <2>1, <2>2, PassesLineTo
    <2> QED BY <2>3, WriteIsFlat
<1>6. ASSUME NEW c \in Cores, NEW a \in Addrs, NEW v \in Values, AmoMinMax(c, a, v)
      PROVE  FlatStep
    <2> DEFINE held == Held(<<"D", c>>, a[1])
    <2>1. IF a \in WriteThrough THEN WritesBoth(c, a[1]) ELSE WritesInL1(c, a[1])
        BY <1>6, Disciplined DEF AmoMinMax
    <2>2. WritesLine(<<"D", c>>, a, v, held.dirty \/ a \notin WriteThrough,
                     a \in WriteThrough, Report(c, "amo", a, held.data[a[2]]))
        BY <1>0, <1>6, AmoMinMaxStep
    <2>3. /\ ChangesTo(a[1], [Content(a[1]) EXCEPT ![a[2]] = v])
          /\ out' = Report(c, "amo", a, held.data[a[2]])
          /\ held.data = Content(a[1])
        BY <2>1, <2>2, WritesLineTo
    <2> QED BY <2>3, WriteIsFlat
<1>7. ASSUME NEW c \in Cores, NEW a \in Addrs, NEW v \in Values,
             StoreConditional(c, a, v)
      PROVE  FlatStep
    <2> DEFINE held == Held(<<"D", c>>, a[1])
    <2>1. IF a \in WriteThrough THEN WritesBoth(c, a[1]) ELSE WritesInL1(c, a[1])
        BY <1>7, Disciplined DEF StoreConditional
    <2>2. WritesLine(<<"D", c>>, a, v, held.dirty \/ a \notin WriteThrough,
                     a \in WriteThrough, Report(c, "store", a, v))
        BY <1>0, <1>7, StoreConditionalStep
    <2>3. /\ ChangesTo(a[1], [Content(a[1]) EXCEPT ![a[2]] = v])
          /\ out' = Report(c, "store", a, v)
        BY <2>1, <2>2, WritesLineTo
    <2> QED BY <2>3, WriteIsFlat
<1>8. ASSUME NEW c \in Cores, NEW b \in Blocks, FlushL1(c, b) PROVE FlatStep
    <2>1. ChangesTo(b, Content(b)) /\ out' = out
        BY <1>0, <1>8, FlushL1Step, WritesBackTo
    <2>2. LogicalMem' = LogicalMem
        BY <2>1, NothingChanges DEF ChangesTo
    <2> QED BY <2>1, <2>2 DEF FlatStep, ChangesTo, Flat!vars
<1>9. ASSUME NEW b \in Blocks, FlushL2(b) PROVE FlatStep
    <2>1. FlatInv' /\ out' = out /\ \A e \in Blocks : Content(e)' = Content(e)
        BY <1>0, <1>9, FlushL2Step, WritesBackL2To
    <2>2. LogicalMem' = LogicalMem
        BY <2>1, NothingChanges
    <2> QED BY <2>1, <2>2 DEF FlatStep, Flat!vars
<1>10. CASE UNCHANGED vars
    <2>1. WritesBackL2
        BY <1>0, <1>10 DEF vars, WritesBackL2, HierarchyInv, Below
    <2>2. FlatInv' /\ out' = out /\ \A e \in Blocks : Content(e)' = Content(e)
        BY <1>0, <2>1, WritesBackL2To
    <2>3. LogicalMem' = LogicalMem
        BY <2>2, NothingChanges
    <2> QED BY <2>2, <2>3 DEF FlatStep, Flat!vars
<1> QED BY <1>1, <1>2, <1>3, <1>4, <1>5, <1>6, <1>7, <1>8, <1>9, <1>10 DEF Next

(* The caches start as the flat memory does. *)
LEMMA StartIsFlat == Init => FlatInv /\ Flat!Init
<1> SUFFICES ASSUME Init PROVE FlatInv /\ Flat!Init
    OBVIOUS
<1>1. ASSUME NEW W, NEW b \in Blocks PROVE ~Hit(EmptySet(W), b)
    BY HierarchyAssumption DEF Hit, EmptySet, NoLine
<1>2. ASSUME NEW p \in Ports, NEW b \in Blocks PROVE ~Has(p, b)
    <2>1. SetAt(p, b) = EmptySet(Ways1)
        BY SetOfBlock DEF Init, SetAt
    <2> QED BY <1>1, <2>1 DEF Has
<1>3. ASSUME NEW b \in Blocks PROVE SharedAt(b) = InitDdr[b]
    <2>1. l2[Index2[b]] = EmptySet(Ways2) /\ ddr = InitDdr
        BY SetOfBlock DEF Init
    <2> QED BY <1>1, <2>1 DEF SharedAt, Shared, Below
<1>4. FlatInv
    BY <1>2, InitHolds DEF FlatInv, BlockGood, LineGood
<1>5. ASSUME NEW b \in Blocks PROVE Content(b) = InitDdr[b]
    <2>1. ContentIs(b)
        BY <1>4, ContentOfBlock DEF FlatInv
    <2> QED BY <1>2, <1>3, <2>1 DEF ContentIs, HasDirty
<1>6. LogicalMem = [a \in Addrs |-> InitDdr[a[1]][a[2]]]
    BY <1>5, AddrParts, MemoryHasContent DEF MemoryIsContent
<1> QED BY <1>4, <1>6 DEF Flat!Init, Init

(* So every block stays good. *)
LEMMA FlatInvHolds == Spec => []FlatInv
<1>1. Init => FlatInv
    BY StartIsFlat
<1>2. FlatInv /\ [Next]_vars => FlatInv'
    BY StepIsFlat DEF FlatStep
<1> QED BY <1>1, <1>2, PTL DEF Spec

(* Under the discipline, a clean line of an L1 is what a miss would fetch:   *)
(* allocate_entry may drop it without a write-back, and a core never reads  *)
(* a stale copy from it.                                                    *)
THEOREM CleanL1IsBelowHolds == Spec => []CleanL1IsBelow
<1>1. FlatInv => CleanL1IsBelow
    BY DEF FlatInv, BlockGood, LineGood, Has, LineAt, SharedAt, Shared, L2Data,
           CleanL1IsBelow, SharedData, Below
<1> QED BY <1>1, FlatInvHolds, PTL

(* Under the discipline, the read, write, atomic and flush operations of the  *)
(* caches implement one flat memory: every core reads the word written last. *)
THEOREM FlatMemoryImplemented == Spec => ImplementsFlatMemory
<1>1. Init => Flat!Init
    BY StartIsFlat
<1>2. FlatInv /\ [Next]_vars => [Flat!Next]_(Flat!vars)
    BY StepIsFlat DEF FlatStep
<1> QED BY <1>1, <1>2, FlatInvHolds, PTL DEF Spec, ImplementsFlatMemory, Flat!Spec

----------------------------------------------------------------------------
(***************************************************************************)
(* The instructions of LoadStore.tla, for any program and any memory it      *)
(* touches: they put no value into a word or a register that does not fit,  *)
(* and the memory past the caches and the memory under them stay apart.      *)
(***************************************************************************)

(* A digit put below a number. *)
LEMMA DigitBelow ==
    ASSUME NEW B \in Nat, NEW M \in Nat, NEW x \in 0 .. B - 1, NEW y \in 0 .. M - 1
    PROVE  x + B * y \in 0 .. B * M - 1
OBVIOUS

(* The numbers of values of one, two and four bytes, each a product. *)
LEMMA SizesOK ==
    /\ ByteSize \in Nat \ {0} /\ HalfSize \in Nat \ {0} /\ WordSize \in Nat \ {0}
    /\ \A k \in 0 .. 4 : Weight(k) \in Nat \ {0} /\ Weight(k) <= WordSize
    /\ WordSize = ByteSize * (ByteSize * HalfSize)
<1>1. ByteSize \in Nat /\ ByteSize >= 1
    BY LoadStoreAssumption
<1>2. HalfSize \in Nat /\ HalfSize >= ByteSize
    BY <1>1 DEF HalfSize
<1> DEFINE H == HalfSize
           T == H * ByteSize
           W == H * H
<1>3. T \in Nat /\ T >= H
    BY <1>1, <1>2
<1>4. W \in Nat /\ W >= T /\ W = WordSize
    BY <1>1, <1>2 DEF WordSize
<1>5. W = ByteSize * (ByteSize * H)
    BY <1>1 DEF HalfSize
<1>6. ASSUME NEW k \in 0 .. 4 PROVE Weight(k) \in {1, ByteSize, H, T, W}
    <2>1. k \in {0, 1, 2, 3, 4}
        BY <1>6
    <2> QED BY <2>1, <1>4 DEF Weight
<1> HIDE DEF H, T, W
<1>7. H = HalfSize
    BY DEF H
<1> QED BY <1>1, <1>2, <1>3, <1>4, <1>5, <1>6, <1>7

(* A byte cut out of a word. *)
LEMMA ByteOfOK ==
    ASSUME NEW w \in Nat, NEW k \in 0 .. 3
    PROVE  ByteOf(w, k) \in 0 .. ByteSize - 1
<1>1. Weight(k) \in Nat \ {0} /\ ByteSize \in Nat \ {0}
    BY SizesOK
<1>2. w \div Weight(k) \in Int
    BY <1>1
<1> QED BY <1>1, <1>2 DEF ByteOf

(* Four bytes make a word. *)
LEMMA WordOfOK ==
    ASSUME NEW b \in [0 .. 3 -> 0 .. ByteSize - 1]
    PROVE  WordOf(b) \in Values
<1> DEFINE B == ByteSize
           D == 0 .. B - 1
<1>1. B \in Nat /\ B * 1 = B /\ b[0] \in D /\ b[1] \in D /\ b[2] \in D /\ b[3] \in D
    BY SizesOK
<1>2. b[2] + B * b[3] \in 0 .. B * B - 1
    BY <1>1, DigitBelow
<1> DEFINE y == b[2] + B * b[3]
           M == B * B
<1>3. M \in Nat
    BY <1>1
<1> HIDE DEF y, M, D, B
<1>4. b[1] + B * y \in 0 .. B * M - 1 /\ B * M \in Nat
    BY <1>1, <1>2, <1>3, DigitBelow DEF y, M, D
<1> DEFINE z == b[1] + B * y
           N == B * M
<1> HIDE DEF z, N
<1>5. b[0] + B * z \in 0 .. B * N - 1
    BY <1>1, <1>4, DigitBelow DEF z, N, D
<1>6. B * N = WordSize
    BY SizesOK DEF N, M, B, HalfSize
<1>7. WordOf(b) = b[0] + B * z
    BY DEF WordOf, z, y, B
<1> QED BY <1>5, <1>6, <1>7, LoadStoreAssumption

(* The instructions that load and those that store. *)
LoadOps == {"lb", "lbu", "lh", "lhu", "lw"}
StoreOps == {"sb", "sh", "sw"}

(* A value of the width of the access is extended to a value of a register. *)
LEMMA ExtendOK ==
    ASSUME NEW op \in LoadOps, NEW v \in 0 .. Weight(Width(op)) - 1
    PROVE  Extend(op, v) \in Values
<1> DEFINE n == Weight(Width(op))
<1>1. Width(op) \in 0 .. 4
    BY DEF Width
<1>2. n \in Nat /\ n <= WordSize /\ WordSize \in Nat
    BY <1>1, SizesOK
<1> HIDE DEF n
<1>3. v \in 0 .. n - 1
    BY DEF n
<1>4. v \in 0 .. WordSize - 1 /\ v + (WordSize - n) \in 0 .. WordSize - 1
    BY <1>2, <1>3
<1> QED BY <1>4, LoadStoreAssumption DEF Extend, n

(* The widths of the loads. *)
LEMMA LoadWidths ==
    ASSUME NEW op \in LoadOps
    PROVE  \/ Width(op) = 1 /\ Weight(Width(op)) = ByteSize
           \/ Width(op) = 2 /\ Weight(Width(op)) = HalfSize
           \/ Width(op) = 4 /\ Weight(Width(op)) = WordSize
BY DEF LoadOps, Width, Weight

(* The two halves of a word. *)
LEMMA HalvesOK ==
    ASSUME NEW w \in Values
    PROVE  w % HalfSize \in 0 .. HalfSize - 1 /\ w \div HalfSize \in 0 .. HalfSize - 1
<1>1. HalfSize \in Nat \ {0} /\ w \in 0 .. HalfSize * HalfSize - 1
    BY SizesOK, LoadStoreAssumption DEF WordSize
<1> QED BY <1>1

(* What is cut out of a word fits the width of the access. *)
LEMMA PartOK ==
    ASSUME NEW op \in LoadOps, NEW w \in Values, NEW a \in Nat
    PROVE  Part(op, w, a) \in 0 .. Weight(Width(op)) - 1
<1>1. w \in Nat /\ w \in 0 .. WordSize - 1
    BY LoadStoreAssumption
<1>2. a % 4 \in 0 .. 3 /\ ByteOf(w, a % 4) \in 0 .. ByteSize - 1
    <2>1. a % 4 \in 0 .. 3
        OBVIOUS
    <2> QED BY <1>1, <2>1, ByteOfOK
<1>3. CASE Width(op) = 1
    BY <1>2, <1>3, LoadWidths, SizesOK DEF Part, Weight
<1>4. CASE Width(op) = 4
    BY <1>1, <1>4, LoadWidths, SizesOK DEF Part, Weight
<1>5. CASE Width(op) = 2
    BY <1>5, HalvesOK, SizesOK DEF Part, Weight
<1> QED BY <1>3, <1>4, <1>5, LoadWidths

(* SB and SH make a word of a word. *)
LEMMA MergeOK ==
    ASSUME NEW op \in StoreOps, NEW w \in Values, NEW a \in Nat, NEW v \in Values
    PROVE  Merge(op, w, a, v) \in Values
<1>1. w \in Nat /\ v \in Nat /\ Values = 0 .. WordSize - 1
    BY LoadStoreAssumption
<1>2. CASE Width(op) = 1
    <2> DEFINE b == [k \in 0 .. 3 |-> IF k = a % 4 THEN v % ByteSize ELSE ByteOf(w, k)]
    <2>1. v % ByteSize \in 0 .. ByteSize - 1
        BY <1>1, SizesOK
    <2>2. b \in [0 .. 3 -> 0 .. ByteSize - 1]
        BY <1>1, <2>1, ByteOfOK
    <2> HIDE DEF b
    <2>3. WordOf(b) \in Values
        BY <2>2, WordOfOK
    <2> QED BY <1>2, <2>3 DEF Merge, b
<1>3. CASE Width(op) # 1
    <2> DEFINE H == HalfSize
               q == w \div H
               r == w % H
               u == v % H
    <2>1. /\ H \in Nat /\ q \in 0 .. H - 1 /\ r \in 0 .. H - 1 /\ u \in 0 .. H - 1
          /\ w = r + H * q
        <3>1. H \in Nat \ {0}
            BY SizesOK
        <3>2. w = r + H * q
            BY <1>1, <3>1
        <3> QED BY <3>1, <3>2, HalvesOK
    <2>2. WordSize = H * H
        BY DEF WordSize
    <2> HIDE DEF H, q, r, u
    <2>3. u + H * q \in 0 .. H * H - 1 /\ r + H * u \in 0 .. H * H - 1
        BY <2>1, DigitBelow
    <2>4. (w - r) + u = u + H * q /\ r + u * H = r + H * u
        BY <2>1
    <2>5. (w - r) + u \in Values /\ r + u * H \in Values
        BY <1>1, <2>2, <2>3, <2>4
    <2> QED BY <1>3, <2>5 DEF Merge, H, r, u
<1> QED BY <1>2, <1>3

(* What a load past the caches finds fits its width. *)
LEMMA ReadMemoryOK ==
    ASSUME NEW op \in LoadOps, NEW a \in Nat,
           memory \in [Bytes -> 0 .. ByteSize - 1],
           a + Width(op) <= MemorySize => a .. a + Width(op) - 1 \subseteq Bytes
    PROVE  ReadMemory(Width(op), a) \in 0 .. Weight(Width(op)) - 1
<1> DEFINE n == Width(op)
           B == ByteSize
           b == [k \in 0 .. 3 |-> IF k < n THEN memory[a + k] ELSE 0]
<1>1. n \in {1, 2, 4} /\ B \in Nat \ {0} /\ Weight(n) \in Nat \ {0}
    BY LoadWidths, SizesOK
<1>2. CASE a + n > MemorySize
    BY <1>1, <1>2 DEF ReadMemory
<1>3. CASE ~(a + n > MemorySize)
    <2>1. \A k \in 0 .. 3 : k < n => memory[a + k] \in 0 .. B - 1
        <3> SUFFICES ASSUME NEW k \in 0 .. 3, k < n PROVE a + k \in Bytes
            OBVIOUS
        <3>1. a + n <= MemorySize /\ a + k \in a .. a + n - 1
            BY <1>1, <1>3 DEF MemorySize
        <3> QED BY <3>1
    <2>2. b \in [0 .. 3 -> 0 .. B - 1] /\ \A k \in 0 .. 3 : ~(k < n) => b[k] = 0
        BY <1>1, <2>1
    <2>3. ReadMemory(n, a) = WordOf(b)
        BY <1>3 DEF ReadMemory
    <2> HIDE DEF b
    <2>4. WordOf(b) \in 0 .. WordSize - 1
        BY <2>2, WordOfOK, LoadStoreAssumption
    <2>5. n = 1 => WordOf(b) \in 0 .. B - 1
        BY <1>1, <2>2 DEF WordOf
    <2>6. n = 2 => WordOf(b) \in 0 .. B * B - 1
        <3> SUFFICES ASSUME n = 2 PROVE WordOf(b) \in 0 .. B * B - 1
            OBVIOUS
        <3>1. b[2] = 0 /\ b[3] = 0 /\ b[0] \in 0 .. B - 1 /\ b[1] \in 0 .. B - 1
            BY <2>2
        <3>2. WordOf(b) = b[0] + B * b[1]
            BY <1>1, <3>1 DEF WordOf
        <3> QED BY <1>1, <3>1, <3>2, DigitBelow
    <2> QED BY <2>3, <2>4, <2>5, <2>6, LoadWidths DEF HalfSize
<1> QED BY <1>2, <1>3

----------------------------------------------------------------------------
(* An uncached block stays out of the caches and of DDR. *)
StaysOut(b) ==
    /\ ddr[b] = InitDdr[b]
    /\ ~InL2(b)
    /\ \A p \in Ports : ~Has(p, b)

DoneOK ==
    \/ done = NoInstruction
    \/ /\ done.instr \in program
       /\ done.rd \in 0 .. 255 \union Values
       /\ done.advance \in {0, 4, 8}

MemoryOK ==
    /\ memory \in [Bytes -> 0 .. ByteSize - 1]
    /\ \A a \in Bytes : HasDataCache(DefaultRegions, a) => memory[a] = InitBytes[a]

UartOK == uart \in [dr : 0 .. ByteSize - 1, lcr : 0 .. ByteSize - 1]

CachesOK == HierarchyInv /\ \A b \in UncachedBlocks : StaysOut(b)

MachineInv ==
    /\ CachesOK
    /\ program \in Programs
    /\ MemoryOK
    /\ UartOK
    /\ DoneOK

(* An instruction of a program. *)
LEMMA InstructionOK ==
    ASSUME program \in Programs, NEW i \in program
    PROVE  /\ i.core \in Cores /\ i.addr \in Nat /\ i.rs2 \in Values
           /\ InMemory(i) =>
                /\ At(i.addr) \in Addrs
                /\ At(i.addr)[1] \in Blocks
                /\ i.addr \in At(i.addr)[1] .. At(i.addr)[1] + BlockSize - 1
           /\ InMemory(i) /\ ~Cached(i) /\ i.addr + Width(i.op) <= MemorySize =>
                i.addr .. i.addr + Width(i.op) - 1 \subseteq Bytes
           /\ Funct5(i.op) \notin {-1, 5} /\ InMemory(i) => Cached(i)
           /\ ~Cached(i) => \A a \in i.addr .. i.addr + Width(i.op) - 1 :
                                ~HasDataCache(DefaultRegions, a)
<1>1. i \in UNION Programs
    OBVIOUS
<1>2. /\ i.core \in Cores /\ i.addr \in Nat /\ i.rs2 \in Values
      /\ InMemory(i) => At(i.addr) \in Addrs
      /\ InMemory(i) /\ ~Cached(i) /\ i.addr + Width(i.op) <= MemorySize =>
            i.addr .. i.addr + Width(i.op) - 1 \subseteq Bytes
    BY <1>1, LoadStoreAssumption
<1>3. /\ Funct5(i.op) \notin {-1, 5} /\ InMemory(i) => Cached(i)
      /\ ~Cached(i) => \A a \in i.addr .. i.addr + Width(i.op) - 1 :
                            ~HasDataCache(DefaultRegions, a)
    BY <1>1, ApartAssumption
<1>4. ASSUME NEW a \in Nat PROVE a \in At(a)[1] .. At(a)[1] + BlockSize - 1
    <2>1. At(a)[1] = a - (a % 64)
        BY DEF At, BlockSize
    <2> QED BY <2>1 DEF BlockSize
<1>5. InMemory(i) => /\ At(i.addr)[1] \in Blocks
                     /\ i.addr \in At(i.addr)[1] .. At(i.addr)[1] + BlockSize - 1
    BY <1>2, <1>4, AddrParts
<1> QED BY <1>2, <1>3, <1>5

(* A cached instruction works on a block that is not uncached. *)
LEMMA CachedBlock ==
    ASSUME program \in Programs, NEW i \in program, InMemory(i), Cached(i)
    PROVE  At(i.addr)[1] \in Blocks \ UncachedBlocks
BY InstructionOK DEF UncachedBlocks, Cached

(* A step of the caches on one block brings no other into them. *)
LEMMA OthersStayOut ==
    ASSUME HierarchyInv, NEW p \in Ports, NEW b \in Blocks, NEW s, NEW m, NEW access,
           Moves(p, b, s, m, access), NEW e \in Blocks \ {b}, StaysOut(e)
    PROVE  StaysOut(e)'
<1>1. /\ \A q \in Ports \ {p} : Has(q, e)' <=> Has(q, e)
      /\ Has(p, e)' => Has(p, e)
      /\ SharedAt(e)' = IF HasDirty(p, e) /\ ~Has(p, e)'
                        THEN LineAt(p, e).data ELSE SharedAt(e)
      /\ InL2(e)' => InL2(e) \/ Has(p, e)
    BY OtherBlock
<1>2. ~InL2(e) /\ \A q \in Ports : ~Has(q, e)
    BY DEF StaysOut
<1>3. ~InL2(e)' /\ \A q \in Ports : ~Has(q, e)'
    BY <1>1, <1>2
<1>4. SharedAt(e)' = SharedAt(e)
    BY <1>1, <1>2 DEF HasDirty
<1>5. ~InL2(e) => SharedAt(e) = ddr[e]
    BY DEF SharedAt, Shared, InL2, Below
<1>6. ~InL2(e)' => SharedAt(e)' = ddr'[e]
    BY DEF SharedAt, Shared, InL2, Below
<1>7. ddr'[e] = InitDdr[e]
    BY <1>2, <1>3, <1>4, <1>5, <1>6 DEF StaysOut
<1> QED BY <1>3, <1>7 DEF StaysOut

(* So such a step keeps what is uncached out. *)
LEMMA MoveKeepsCaches ==
    ASSUME CachesOK, NEW p, NEW b \in Blocks \ UncachedBlocks, NEW s, NEW m, NEW access,
           Moves(p, b, s, m, access)
    PROVE  CachesOK'
<1>1. p \in Ports /\ b \in Blocks /\ HierarchyInv
    BY DEF Moves, CachesOK
<1>2. HierarchyInv'
    BY <1>1, CommitKeeps DEF Moves
<1>3. ASSUME NEW e \in UncachedBlocks PROVE StaysOut(e)'
    <2>1. e \in Blocks \ {b} /\ StaysOut(e)
        BY DEF UncachedBlocks, CachesOK
    <2> QED BY <1>1, <2>1, OthersStayOut
<1> QED BY <1>2, <1>3 DEF CachesOK

(* An instruction that does not touch the caches. *)
LEMMA NoMoveKeepsCaches ==
    ASSUME CachesOK, UNCHANGED <<l1, l2, ddr>>, out' = NoAccess
    PROVE  CachesOK'
<1>1. HierarchyInv'
    BY DEF CachesOK, HierarchyInv, Below
<1>2. \A b \in UncachedBlocks : StaysOut(b)'
    BY DEF CachesOK, StaysOut, InL2, Has, SetAt, Below
<1> QED BY <1>1, <1>2 DEF CachesOK

(* An instruction is done. *)
LEMMA FinishOK ==
    ASSUME program \in Programs, NEW i \in program, NEW v \in 0 .. 255 \union Values,
           NEW advance \in {0, 4, 8}, Finish(i, v, advance)
    PROVE  DoneOK' /\ program' \in Programs
BY DEF Finish, DoneOK

(* What a step reports is what out holds afterwards. *)
LEMMA Reported ==
    ASSUME NEW p, NEW b, NEW s, NEW m, NEW c, NEW op, NEW a, NEW v,
           Moves(p, b, s, m, Report(c, op, a, v))
    PROVE  out'.val = v
BY DEF Moves, Commit, Report

----------------------------------------------------------------------------
(* The instructions, one by one. *)

(* An instruction through the caches that leaves value v in rd. *)
LEMMA CachedStep ==
    ASSUME MachineInv, NEW i \in program, InMemory(i), Cached(i),
           NEW p, NEW s, NEW m, NEW access, Moves(p, At(i.addr)[1], s, m, access),
           NEW v \in 0 .. 255 \union Values, Finish(i, v, 4),
           UNCHANGED <<memory, uart>>
    PROVE  MachineInv'
<1>1. program \in Programs /\ CachesOK /\ MemoryOK /\ UartOK
    BY DEF MachineInv
<1>2. CachesOK'
    BY <1>1, CachedBlock, MoveKeepsCaches
<1>3. DoneOK' /\ program' \in Programs
    BY <1>1, FinishOK
<1>4. MemoryOK' /\ UartOK'
    BY <1>1 DEF MemoryOK, UartOK
<1> QED BY <1>2, <1>3, <1>4 DEF MachineInv

(* A load of any kind is a read that reports a value of a word. *)
LEMMA LoadReads ==
    ASSUME MachineInv, NEW i \in program, InMemory(i), Load(i.core, At(i.addr))
    PROVE  /\ out'.val \in Values
           /\ \E p, s, m, access : Moves(p, At(i.addr)[1], s, m, access)
<1> DEFINE c == i.core
           p == <<"D", c>>
           a == At(i.addr)
<1>1. HierarchyInv /\ c \in Cores /\ a \in Addrs
    BY InstructionOK DEF MachineInv, CachesOK
<1> HIDE DEF a, c
<1>2. p \in Ports /\ ReadThrough(p, c, "load", a)
    BY <1>1, PortOf DEF Load, a, c
<1> HIDE DEF p
<1>3. Reads(p, c, "load", a)
    BY <1>1, <1>2, ReadStep
<1> DEFINE v == Held(p, a[1]).data[a[2]]
<1>4. v \in Values
    BY <1>1, <1>2, HeldWord
<1>5. PICK s, m : Moves(p, a[1], s, m, Report(c, "load", a, v))
    BY <1>3 DEF Reads
<1> HIDE DEF v
<1>6. out'.val = v
    BY <1>5, Reported
<1> QED BY <1>4, <1>5, <1>6 DEF a

(* LB, LBU, LH, LHU and LW through the caches. *)
LEMMA LoadCachedStep ==
    ASSUME MachineInv, NEW i \in program, LoadCached(i)
    PROVE  MachineInv'
<1>1. /\ i.op \in LoadOps /\ InMemory(i) /\ Cached(i)
      /\ Load(i.core, At(i.addr))
      /\ Finish(i, Extend(i.op, Part(i.op, out'.val, i.addr)), 4)
      /\ UNCHANGED <<memory, uart>>
    BY DEF LoadCached, LoadOps
<1>2. i.addr \in Nat
    BY InstructionOK DEF MachineInv
<1>3. /\ out'.val \in Values
      /\ \E p, s, m, access : Moves(p, At(i.addr)[1], s, m, access)
    BY <1>1, LoadReads
<1> DEFINE w == out'.val
           v == Extend(i.op, Part(i.op, w, i.addr))
<1> HIDE DEF w
<1>4. v \in Values
    BY <1>1, <1>2, <1>3, PartOK, ExtendOK DEF w
<1>5. Finish(i, v, 4)
    BY <1>1 DEF w
<1> HIDE DEF v
<1> QED BY <1>1, <1>3, <1>4, <1>5, CachedStep

(* LR.W. *)
LEMMA LoadReservedStep ==
    ASSUME MachineInv, NEW i \in program, LoadReserved(i)
    PROVE  MachineInv'
<1>1. /\ i.op = "lr" /\ InMemory(i) /\ Load(i.core, At(i.addr))
      /\ Finish(i, out'.val, 4) /\ UNCHANGED <<memory, uart>>
    BY DEF LoadReserved
<1>2. Cached(i)
    BY <1>1, InstructionOK DEF MachineInv, Funct5
<1>3. /\ out'.val \in Values
      /\ \E p, s, m, access : Moves(p, At(i.addr)[1], s, m, access)
    BY <1>1, LoadReads
<1> QED BY <1>1, <1>2, <1>3, CachedStep

(* SW through the caches. *)
LEMMA StoreWordCachedStep ==
    ASSUME MachineInv, NEW i \in program, StoreWordCached(i)
    PROVE  MachineInv'
<1> DEFINE c == i.core
           a == At(i.addr)
           access == Report(c, "store", a, i.rs2)
<1>1. /\ InMemory(i) /\ Cached(i) /\ Finish(i, 0, 4) /\ UNCHANGED <<memory, uart>>
      /\ StoreBack(c, a, i.rs2) \/ StoreDirect(c, a, i.rs2)
    BY DEF StoreWordCached
<1>2. HierarchyInv /\ c \in Cores /\ a \in Addrs /\ i.rs2 \in Values
    BY <1>1, InstructionOK DEF MachineInv, CachesOK
<1> HIDE DEF access, c
<1>3. \E p, s, m : Moves(p, a[1], s, m, access)
    <2>1. CASE StoreBack(c, a, i.rs2)
        BY <1>2, <2>1, StoreBackStep DEF WritesLine, access
    <2>2. CASE StoreDirect(c, a, i.rs2)
        BY <1>2, <2>2, StoreDirectStep DEF PassesLine, access
    <2> QED BY <1>1, <2>1, <2>2
<1>4. 0 \in 0 .. 255 \union Values
    OBVIOUS
<1> QED BY <1>1, <1>3, <1>4, CachedStep

(* The atomics that work in L2. *)
LEMMA ReadModifyWriteStep ==
    ASSUME MachineInv, NEW i \in program, ReadModifyWrite(i)
    PROVE  MachineInv'
<1> DEFINE c == i.core
           a == At(i.addr)
           old == Shared(Below, a[1])[a[2]]
<1>1. /\ Funct5(i.op) \in {0, 1, 4, 8, 12} /\ InMemory(i)
      /\ Finish(i, out'.val, 4) /\ UNCHANGED <<memory, uart>>
    BY DEF ReadModifyWrite
<1>2. PICK v \in Values : Amo(c, a, v)
    BY DEF ReadModifyWrite
<1>3. HierarchyInv /\ c \in Cores /\ a \in Addrs /\ Cached(i)
    BY <1>1, InstructionOK DEF MachineInv, CachesOK
<1> HIDE DEF c
<1>4. old \in Values
    BY <1>3, PortOf, HeldWord
<1> HIDE DEF old
<1>5. PassesLine(<<"D", c>>, a, v, Report(c, "amo", a, old))
    BY <1>2, <1>3, AmoStep DEF old
<1>6. PICK s, m : Moves(<<"D", c>>, a[1], s, m, Report(c, "amo", a, old))
    BY <1>5 DEF PassesLine
<1>7. out'.val = old
    BY <1>6, Reported
<1> QED BY <1>1, <1>3, <1>4, <1>6, <1>7, CachedStep

(* Those that work in the L1. *)
LEMMA MinMaxStep ==
    ASSUME MachineInv, NEW i \in program, MinMax(i)
    PROVE  MachineInv'
<1> DEFINE c == i.core
           a == At(i.addr)
           p == <<"D", c>>
           old == Held(p, a[1]).data[a[2]]
<1>1. /\ Funct5(i.op) \in {16, 20, 24, 28} /\ InMemory(i)
      /\ Finish(i, out'.val, 4) /\ UNCHANGED <<memory, uart>>
    BY DEF MinMax
<1>2. PICK v \in Values : AmoMinMax(c, a, v)
    BY DEF MinMax
<1>3. HierarchyInv /\ c \in Cores /\ a \in Addrs /\ Cached(i)
    BY <1>1, InstructionOK DEF MachineInv, CachesOK
<1> HIDE DEF c
<1>4. old \in Values
    BY <1>3, PortOf, HeldWord
<1>5. WritesLine(p, a, v, Held(p, a[1]).dirty \/ a \notin WriteThrough,
                 a \in WriteThrough, Report(c, "amo", a, old))
    BY <1>2, <1>3, AmoMinMaxStep
<1> HIDE DEF old, p
<1>6. PICK s, m : Moves(p, a[1], s, m, Report(c, "amo", a, old))
    BY <1>5 DEF WritesLine
<1>7. out'.val = old
    BY <1>6, Reported
<1> QED BY <1>1, <1>3, <1>4, <1>6, <1>7, CachedStep

(* SC.W. *)
LEMMA StoreConditionallyStep ==
    ASSUME MachineInv, NEW i \in program, StoreConditionally(i)
    PROVE  MachineInv'
<1> DEFINE c == i.core
           a == At(i.addr)
           access == Report(c, "store", a, i.rs2)
<1>1. /\ i.op = "sc" /\ InMemory(i) /\ StoreConditional(c, a, i.rs2)
      /\ Finish(i, 0, 4) /\ UNCHANGED <<memory, uart>>
    BY DEF StoreConditionally
<1>2. HierarchyInv /\ c \in Cores /\ a \in Addrs /\ i.rs2 \in Values /\ Cached(i)
    BY <1>1, InstructionOK DEF MachineInv, CachesOK, Funct5
<1> HIDE DEF access, c
<1>3. \E p, s, m : Moves(p, a[1], s, m, access)
    BY <1>1, <1>2, StoreConditionalStep DEF WritesLine, access
<1>4. 0 \in 0 .. 255 \union Values
    OBVIOUS
<1> QED BY <1>1, <1>2, <1>3, <1>4, CachedStep

(* SB and SH to a word that goes through, or of the page table: the word is   *)
(* read through the L1, and written below it.                               *)
LEMMA PartBelowEffect ==
    ASSUME HierarchyInv, NEW p \in Ports, NEW b \in Blocks,
           NEW x \in Words, NEW v \in Values
    PROVE  LET r == Lookup(SetAt(p, b), Below, b)
               t == Invalidate(r.set, b)
               n == L2Write(r.mem, b, Word1(x, v))
           IN  /\ Effect(p, b, t, n) /\ ~Hit(t, b)
               /\ Shared(n, b) = [Shared(Below, b) EXCEPT ![x] = v]
<1> DEFINE r == Lookup(SetAt(p, b), Below, b)
           own == Own1(Index1[b])
           t == Invalidate(r.set, b)
           n == L2Write(r.mem, b, Word1(x, v))
<1>1. Effect(p, b, r.set, r.mem) /\ Shared(r.mem, b) = Shared(Below, b)
    BY ReadEffect
<1>2. WaysOK(Ways1) /\ Shared(Below, b) \in Block
    BY Start
<1> HIDE DEF r, own
<1>3. SetOK(r.set, Ways1, own) /\ BelowOK(r.mem)
    BY <1>1 DEF Effect, own
<1>4. /\ SetOK(t, Ways1, own) /\ ~Hit(t, b)
      /\ \A e \in Blocks \ {b} :
            /\ Hit(t, e) <=> Hit(r.set, e)
            /\ Hit(t, e) => LineOf(t, e) = LineOf(r.set, e)
    BY ONLY <1>2, <1>3, b \in Blocks, InvalidateKeeps, InvalidateView
<1> HIDE DEF t
<1>5. /\ BelowOK(n) /\ AddsOnly(r.mem, n, b)
      /\ \A e \in Blocks \ {b} : Shared(n, e) = Shared(r.mem, e)
      /\ Shared(n, b) = [Shared(Below, b) EXCEPT ![x] = v]
    <2>1. WordsOf(Word1(x, v))
          /\ Overlay(Shared(Below, b), Word1(x, v)) = [Shared(Below, b) EXCEPT ![x] = v]
        BY <1>2, OverlayWord
    <2>2. /\ BelowOK(n) /\ AddsOnly(r.mem, n, b)
          /\ \A e \in Blocks \ {b} : Shared(n, e) = Shared(r.mem, e)
          /\ Shared(n, b) = Overlay(Shared(r.mem, b), Word1(x, v))
        BY ONLY <1>3, <2>1, b \in Blocks, L2WriteKeeps
    <2> HIDE DEF n
    <2> QED BY ONLY <1>1, <2>1, <2>2
<1> HIDE DEF n
<1>6. Effect(p, b, t, n)
    BY <1>1, <1>3, <1>4, <1>5 DEF Effect, Quiet, AddsOnly, own
<1> QED BY <1>4, <1>5, <1>6 DEF r, t, n

(* SB and SH through the caches. *)
LEMMA StorePartCachedStep ==
    ASSUME MachineInv, NEW i \in program, StorePartCached(i)
    PROVE  MachineInv'
<1> DEFINE c == i.core
           p == <<"D", c>>
           a == At(i.addr)
           b == a[1]
           x == a[2]
           r == Lookup(SetAt(p, b), Below, b)
           v == Merge(i.op, LineOf(r.set, b).data[x], i.addr, i.rs2)
           access == Report(c, "store", <<b, x>>, v)
           n == L2Write(r.mem, b, Word1(x, v))
<1>1. /\ i.op \in StoreOps /\ InMemory(i) /\ Cached(i)
      /\ \/ Commit(p, b, Invalidate(r.set, b), n, access)
         \/ Commit(p, b, PutWord(r.set, b, x, v, TRUE), r.mem, access)
      /\ Finish(i, 0, 4) /\ UNCHANGED <<memory, uart>>
    BY DEF StorePartCached, StoreOps, Word1
<1>2. HierarchyInv /\ c \in Cores /\ a \in Addrs /\ i.addr \in Nat /\ i.rs2 \in Values
    BY <1>1, InstructionOK DEF MachineInv, CachesOK
<1>3. b \in Blocks /\ x \in Words /\ a = <<b, x>> /\ p \in Ports
    BY <1>2, AddrParts, PortOf
<1>4. v \in Values
    <2>1. Held(p, b).data[x] \in Values /\ LineOf(r.set, b) = Held(p, b)
        BY <1>2, <1>3, HeldWord, LookedUp
    <2> QED BY <1>1, <1>2, <2>1, MergeOK
<1> HIDE DEF v
<1>5. access \in Flat!Access
    BY <1>2, <1>3, <1>4, ReportOK
<1>6. \E s, m : Moves(p, b, s, m, access)
    <2>1. CASE Commit(p, b, Invalidate(r.set, b), n, access)
        <3>1. Effect(p, b, Invalidate(r.set, b), n)
            BY <1>2, <1>3, <1>4, PartBelowEffect
        <3> HIDE DEF access, n, r
        <3> QED BY <1>3, <1>5, <2>1, <3>1 DEF Moves
    <2>2. CASE Commit(p, b, PutWord(r.set, b, x, v, TRUE), r.mem, access)
        <3>1. Effect(p, b, PutWord(r.set, b, x, v, TRUE), r.mem)
            BY <1>2, <1>3, <1>4, WriteInL1Effect
        <3> HIDE DEF access, n, r
        <3> QED BY <1>3, <1>5, <2>2, <3>1 DEF Moves
    <2> QED BY <1>1, <2>1, <2>2
<1>7. 0 \in 0 .. 255 \union Values
    OBVIOUS
<1> HIDE DEF access, n, r, p
<1> QED BY <1>1, <1>6, <1>7, CachedStep

(* An instruction that leaves the caches alone. *)
LEMMA OtherStep ==
    ASSUME MachineInv, NEW i \in program, UNCHANGED <<l1, l2, ddr>>, out' = NoAccess,
           MemoryOK', UartOK', NEW v \in 0 .. 255 \union Values,
           NEW advance \in {0, 4, 8}, Finish(i, v, advance)
    PROVE  MachineInv'
<1>1. program \in Programs /\ CachesOK
    BY DEF MachineInv
<1>2. CachesOK' /\ DoneOK' /\ program' \in Programs
    BY <1>1, NoMoveKeepsCaches, FinishOK
<1> QED BY <1>2 DEF MachineInv

(* Loads past the caches. *)
LEMMA LoadUncachedStep ==
    ASSUME MachineInv, NEW i \in program, LoadUncached(i)
    PROVE  MachineInv'
<1> DEFINE v == Extend(i.op, ReadMemory(Width(i.op), i.addr))
<1>1. /\ i.op \in LoadOps /\ InMemory(i) /\ ~Cached(i) /\ Finish(i, v, 4)
      /\ UNCHANGED <<l1, l2, ddr, memory, uart>> /\ out' = NoAccess
    BY DEF LoadUncached, LoadOps
<1>2. i.addr \in Nat /\ (i.addr + Width(i.op) <= MemorySize =>
            i.addr .. i.addr + Width(i.op) - 1 \subseteq Bytes)
    BY <1>1, InstructionOK DEF MachineInv
<1>3. memory \in [Bytes -> 0 .. ByteSize - 1]
    BY DEF MachineInv, MemoryOK
<1>4. v \in Values
    BY <1>1, <1>2, <1>3, ReadMemoryOK, ExtendOK
<1> HIDE DEF v
<1>5. MemoryOK' /\ UartOK'
    BY <1>1 DEF MachineInv, MemoryOK, UartOK
<1> QED BY <1>1, <1>4, <1>5, OtherStep

(* Stores past the caches change no byte that is cached. *)
LEMMA WriteMemoryOK ==
    ASSUME MemoryOK, NEW a \in Nat, NEW n \in {1, 2, 4}, NEW v \in Nat,
           \A x \in a .. a + n - 1 : ~HasDataCache(DefaultRegions, x),
           memory' = WriteMemory(n, a, v)
    PROVE  MemoryOK'
<1>1. CASE a + n > MemorySize
    BY <1>1 DEF WriteMemory, MemoryOK
<1>2. CASE ~(a + n > MemorySize)
    <2>1. memory' = [x \in Bytes |-> IF x - a \in 0 .. n - 1 THEN ByteOf(v, x - a)
                                     ELSE memory[x]]
        BY <1>2 DEF WriteMemory
    <2>2. ASSUME NEW x \in Bytes
          PROVE  /\ memory'[x] \in 0 .. ByteSize - 1
                 /\ HasDataCache(DefaultRegions, x) => memory'[x] = InitBytes[x]
        <3>1. CASE x - a \in 0 .. n - 1
            <4>1. x - a \in 0 .. 3
                BY <3>1
            <4>2. memory'[x] \in 0 .. ByteSize - 1
                BY <2>1, <3>1, <4>1, ByteOfOK
            <4>3. x \in a .. a + n - 1
                <5>1. PICK b \in Blocks, y \in Words, k \in 0 .. 3 : x = b + 4 * y + k
                    BY DEF Bytes
                <5>2. b \in Nat /\ y \in Nat
                    BY LoadStoreAssumption
                <5> QED BY <3>1, <5>1, <5>2
            <4> QED BY <4>2, <4>3
        <3>2. CASE x - a \notin 0 .. n - 1
            BY <2>1, <3>2 DEF MemoryOK
        <3> QED BY <3>1, <3>2
    <2> QED BY <2>1, <2>2 DEF MemoryOK
<1> QED BY <1>1, <1>2

(* SB, SH and SW past the caches. *)
LEMMA StoreUncachedStep ==
    ASSUME MachineInv, NEW i \in program, StoreUncached(i)
    PROVE  MachineInv'
<1>1. /\ i.op \in StoreOps /\ InMemory(i) /\ ~Cached(i) /\ Finish(i, 0, 4)
      /\ memory' = WriteMemory(Width(i.op), i.addr, i.rs2)
      /\ UNCHANGED <<l1, l2, ddr, uart>> /\ out' = NoAccess
    BY DEF StoreUncached, StoreOps
<1>2. /\ i.addr \in Nat /\ i.rs2 \in Nat /\ Width(i.op) \in {1, 2, 4}
      /\ \A x \in i.addr .. i.addr + Width(i.op) - 1 : ~HasDataCache(DefaultRegions, x)
    BY <1>1, InstructionOK, LoadStoreAssumption DEF MachineInv, Width
<1>3. MemoryOK'
    BY <1>1, <1>2, WriteMemoryOK DEF MachineInv
<1>4. UartOK' /\ 0 \in 0 .. 255 \union Values
    BY <1>1 DEF MachineInv, UartOK
<1> QED BY <1>1, <1>3, <1>4, OtherStep

(* An atomic that does nothing. *)
LEMMA NoAtomicStep ==
    ASSUME MachineInv, NEW i \in program, NoAtomic(i)
    PROVE  MachineInv'
<1> DEFINE advance == IF InMemory(i) THEN 8 ELSE 4
<1>1. /\ Finish(i, 0, advance) /\ out' = NoAccess
      /\ UNCHANGED <<l1, l2, ddr, memory, uart>>
    BY DEF NoAtomic
<1>2. advance \in {0, 4, 8} /\ 0 \in 0 .. 255 \union Values
    OBVIOUS
<1> HIDE DEF advance
<1>3. MemoryOK' /\ UartOK'
    BY <1>1 DEF MachineInv, MemoryOK, UartOK
<1> QED BY <1>1, <1>2, <1>3, OtherStep

(* An access fault. *)
LEMMA AccessFaultStep ==
    ASSUME MachineInv, NEW i \in program, AccessFault(i)
    PROVE  MachineInv'
<1>1. /\ Finish(i, 0, 0) /\ out' = NoAccess
      /\ UNCHANGED <<l1, l2, ddr, memory, uart>>
    BY DEF AccessFault, HandleException
<1>2. 0 \in 0 .. 255 \union Values
    OBVIOUS
<1>3. MemoryOK' /\ UartOK'
    BY <1>1 DEF MachineInv, MemoryOK, UartOK
<1> QED BY <1>1, <1>2, <1>3, OtherStep

(* The registers of the UART hold bytes, which are words too. *)
LEMMA UartReadOK ==
    ASSUME UartOK, NEW offset
    PROVE  UartRead(offset) \in 0 .. 255 \union Values
<1>1. uart.dr \in 0 .. ByteSize - 1
    BY DEF UartOK
<1>2. ByteSize \in Nat /\ WordSize \in Nat /\ ByteSize <= WordSize
    <2>1. Weight(1) = ByteSize /\ Weight(1) <= WordSize
        BY SizesOK DEF Weight
    <2> QED BY <2>1, SizesOK
<1>3. uart.dr \in Values
    BY <1>1, <1>2, LoadStoreAssumption
<1>4. 96 \in 0 .. 255 /\ 144 \in 0 .. 255 /\ 0 \in 0 .. 255
    OBVIOUS
<1> QED BY <1>3, <1>4 DEF UartRead

(* Loads from the UART and the CLINT. *)
LEMMA LoadDeviceStep ==
    ASSUME MachineInv, NEW i \in program, LoadDevice(i)
    PROVE  MachineInv'
<1> DEFINE S == IF i.addr = CORE_ID THEN {IF i.op = "lw" THEN i.core ELSE 0}
                ELSE IF HasDevice(i.addr) THEN {UartRead(i.addr - UART_BASE)}
                ELSE IF AtClint(i.addr) /\ i.op = "lw" THEN Values
                ELSE {0}
<1>1. out' = NoAccess /\ UNCHANGED <<l1, l2, ddr, memory, uart>>
    BY DEF LoadDevice
<1>2. PICK v \in S : Finish(i, v, 4)
    BY DEF LoadDevice
<1>3. i.core \in Values /\ UartOK /\ 0 \in 0 .. 255
    <2>1. i.core \in Cores /\ UartOK
        BY InstructionOK DEF MachineInv
    <2>2. Cores \subseteq Values
        BY LoadStoreAssumption
    <2>3. 0 \in 0 .. 255
        OBVIOUS
    <2> QED BY <2>1, <2>2, <2>3
<1>4. v \in 0 .. 255 \union Values
    <2>1. UartRead(i.addr - UART_BASE) \in 0 .. 255 \union Values
        BY <1>3, UartReadOK
    <2> QED BY <1>2, <1>3, <2>1
<1>5. MemoryOK' /\ UartOK'
    BY <1>1 DEF MachineInv, MemoryOK, UartOK
<1> HIDE DEF S
<1> QED BY <1>1, <1>2, <1>4, <1>5, OtherStep

(* Stores to them: the registers of the UART take bytes. *)
LEMMA StoreDeviceStep ==
    ASSUME MachineInv, NEW i \in program, StoreDevice(i)
    PROVE  MachineInv'
<1>1. /\ out' = NoAccess /\ UNCHANGED <<l1, l2, ddr, memory>> /\ Finish(i, 0, 4)
      /\ uart' = IF HasDevice(i.addr)
                 THEN UartWrite(i.addr - UART_BASE,
                                IF i.op = "sw" THEN i.rs2 % ByteSize ELSE i.rs2)
                 ELSE uart
    BY DEF StoreDevice
<1>2. i.rs2 \in Nat /\ ByteSize \in Nat \ {0} /\ UartOK
    BY InstructionOK, LoadStoreAssumption DEF MachineInv
<1>3. ASSUME NEW v \in Nat, NEW offset
      PROVE  UartWrite(offset, v) \in [dr : 0 .. ByteSize - 1, lcr : 0 .. ByteSize - 1]
    <2>1. v % ByteSize \in 0 .. ByteSize - 1
        BY <1>2
    <2>2. uart.dr \in 0 .. ByteSize - 1 /\ uart.lcr \in 0 .. ByteSize - 1
        BY <1>2 DEF UartOK
    <2> QED BY <2>1, <2>2, Zenon DEF UartWrite
<1> DEFINE v == IF i.op = "sw" THEN i.rs2 % ByteSize ELSE i.rs2
<1>4. v \in Nat /\ 0 \in 0 .. 255 \union Values
    BY <1>2
<1> HIDE DEF v
<1>5. UartOK'
    <2>1. CASE HasDevice(i.addr)
        <3>1. uart' = UartWrite(i.addr - UART_BASE, v)
            BY <1>1, <2>1 DEF v
        <3> QED BY <1>3, <1>4, <3>1 DEF UartOK
    <2>2. CASE ~HasDevice(i.addr)
        BY <1>1, <1>2, <2>2 DEF UartOK
    <2> QED BY <2>1, <2>2
<1>6. MemoryOK'
    BY <1>1 DEF MachineInv, MemoryOK
<1> QED BY <1>1, <1>4, <1>5, <1>6, OtherStep

----------------------------------------------------------------------------
(* Memory as it is loaded and empty caches. *)
LEMMA MachineInitHolds == MachineInit => MachineInv
<1> SUFFICES ASSUME MachineInit PROVE MachineInv
    OBVIOUS
<1>1. HierarchyInv /\ program \in Programs
    BY InitHolds DEF MachineInit
<1>2. ASSUME NEW b \in UncachedBlocks PROVE StaysOut(b)
    <2>1. b \in Blocks /\ b # NoBlock
        BY HierarchyAssumption DEF UncachedBlocks
    <2>2. ddr[b] = InitDdr[b]
        BY DEF MachineInit, Init
    <2>3. \A W : ~Hit(EmptySet(W), b)
        BY <2>1 DEF Hit, EmptySet, NoLine
    <2>4. l2[Index2[b]] = EmptySet(Ways2) /\
          \A p \in Ports : SetAt(p, b) = EmptySet(Ways1)
        BY <2>1, SetOfBlock DEF MachineInit, Init, SetAt
    <2> QED BY <2>2, <2>3, <2>4 DEF StaysOut, InL2, Has, Below
<1>3. MemoryOK
    <2>1. ASSUME NEW a \in Bytes
          PROVE  ByteOf(InitDdr[At(a)[1]][At(a)[2]], a % 4) \in 0 .. ByteSize - 1
        <3>1. PICK b \in Blocks, x \in Words, k \in 0 .. 3 : a = b + 4 * x + k
            BY DEF Bytes
        <3>2. b \in Nat /\ b % 64 = 0 /\ x \in 0 .. 15
            BY LoadStoreAssumption DEF BlockSize
        <3>3. a \in Nat /\ a % 64 = 4 * x + k /\ a % 4 = k
            BY <3>1, <3>2
        <3>4. a - (a % 64) = b /\ (a % 64) \div 4 = x
            BY <3>1, <3>2, <3>3
        <3>5. At(a) = <<b, x>>
            BY <3>4 DEF At, BlockSize
        <3>6. InitDdr[At(a)[1]][At(a)[2]] \in Nat
            BY <3>5, HierarchyAssumption, LoadStoreAssumption
        <3> QED BY <3>3, <3>6, ByteOfOK
    <2> QED BY <2>1 DEF MachineInit, MemoryOK, InitBytes
<1>4. UartOK
    BY SizesOK DEF MachineInit, UartOK
<1> QED BY <1>1, <1>2, <1>3, <1>4 DEF MachineInv, CachesOK, DoneOK, MachineInit

(* Every step keeps the invariant. *)
LEMMA MachineStepHolds == MachineInv /\ [MachineNext]_machineVars => MachineInv'
<1> SUFFICES ASSUME MachineInv, [MachineNext]_machineVars PROVE MachineInv'
    OBVIOUS
<1>1. CASE MachineNext
    <2>1. PICK i \in program :
            \/ LoadCached(i) \/ LoadUncached(i) \/ StoreWordCached(i)
            \/ StorePartCached(i) \/ StoreUncached(i) \/ ReadModifyWrite(i)
            \/ MinMax(i) \/ LoadReserved(i) \/ StoreConditionally(i) \/ NoAtomic(i)
            \/ LoadDevice(i) \/ StoreDevice(i) \/ AccessFault(i)
        BY <1>1 DEF MachineNext
    <2> QED BY <2>1, LoadCachedStep, LoadUncachedStep, StoreWordCachedStep,
               StorePartCachedStep, StoreUncachedStep, ReadModifyWriteStep, MinMaxStep,
               LoadReservedStep, StoreConditionallyStep, NoAtomicStep, LoadDeviceStep,
               StoreDeviceStep, AccessFaultStep
<1>2. CASE UNCHANGED machineVars
    <2>1. UNCHANGED <<l1, l2, ddr, out, program, memory, uart, done>>
        BY <1>2 DEF machineVars, vars
    <2>2. HierarchyInv' /\ \A b \in UncachedBlocks : StaysOut(b)'
        BY <2>1 DEF MachineInv, CachesOK, HierarchyInv, StaysOut, InL2, Has, SetAt, Below
    <2>3. MemoryOK' /\ UartOK' /\ DoneOK' /\ program' \in Programs
        BY <2>1 DEF MachineInv, MemoryOK, UartOK, DoneOK
    <2> QED BY <2>2, <2>3 DEF MachineInv, CachesOK
<1> QED BY <1>1, <1>2

(* So it holds in every reachable state. *)
LEMMA MachineInvHolds == MachineSpec => []MachineInv
BY MachineInitHolds, MachineStepHolds, PTL DEF MachineSpec

(* Core::step, by whichever way an access goes, puts no value into memory, a  *)
(* register or the UART that does not fit.                                  *)
THEOREM MachineTypeCorrect == MachineSpec => []MachineTypeOK
<1>1. MachineInv => MachineTypeOK
    <2> SUFFICES ASSUME MachineInv PROVE MachineTypeOK
        OBVIOUS
    <2>1. TypeOK
        BY DEF MachineInv, CachesOK, HierarchyInv, AboveOK, BelowOK, Below, TypeOK, Block
    <2> QED BY <2>1 DEF MachineInv, MemoryOK, UartOK, DoneOK, MachineTypeOK
<1> QED BY <1>1, MachineInvHolds, PTL

(* The simulator's memory and DDR with the caches above it: neither is changed *)
(* where the other is read, through every displacement.                     *)
THEOREM MemoriesApartHolds == MachineSpec => []MemoriesApart
<1>1. MachineInv => MemoriesApart
    BY DEF MachineInv, CachesOK, StaysOut, InL2, Has, Below, MemoryOK, MemoriesApart
<1> QED BY <1>1, MachineInvHolds, PTL

----------------------------------------------------------------------------
(***************************************************************************)
(* The instructions implement one array of bytes, for any program that keeps *)
(* the discipline of CacheDiscipline.tla, on any number of cores.  First,    *)
(* how a word and its bytes hang together.                                   *)
(***************************************************************************)

(* A number put on top of a digit is got back by dividing. *)
LEMMA DigitsApart ==
    ASSUME NEW M \in Nat \ {0}, NEW x \in 0 .. M - 1, NEW y \in Int
    PROVE  (x + M * y) \div M = y /\ (x + M * y) % M = x
<1> DEFINE z == x + M * y
           q == z \div M
           r == z % M
<1>1. z \in Int
    OBVIOUS
<1> HIDE DEF z
<1>2. q \in Int /\ r \in 0 .. M - 1 /\ z = M * q + r
    BY <1>1
<1> HIDE DEF q, r
<1>3. M * (y - q) = r - x
    BY <1>1, <1>2 DEF z
<1>4. ~(y - q >= 1)
    <2> SUFFICES ASSUME y - q >= 1 PROVE FALSE
        OBVIOUS
    <2>1. M * (y - q) >= M
        BY <1>2
    <2> QED BY <1>2, <1>3, <2>1
<1>5. ~(y - q <= -1)
    <2> SUFFICES ASSUME y - q <= -1 PROVE FALSE
        OBVIOUS
    <2>1. M * (y - q) <= -M
        BY <1>2
    <2> QED BY <1>2, <1>3, <2>1
<1>6. y = q
    BY <1>2, <1>4, <1>5
<1>7. r = x
    BY <1>2, <1>3, <1>6
<1> QED BY <1>6, <1>7 DEF q, r, z

(* The bytes and the halves of a word made of bytes. *)
LEMMA BytesOfWord ==
    ASSUME NEW b \in [0 .. 3 -> 0 .. ByteSize - 1], NEW w, w = WordOf(b)
    PROVE  /\ \A k \in 0 .. 3 : ByteOf(w, k) = b[k]
           /\ w % HalfSize = b[0] + ByteSize * b[1]
           /\ w \div HalfSize = b[2] + ByteSize * b[3]
<1> DEFINE B == ByteSize
           H == HalfSize
           D == 0 .. B - 1
           z == b[3]
           y == b[2] + B * z
           x == b[1] + B * y
           low == b[0] + B * b[1]
           third == low + H * b[2]
<1>1. /\ B \in Nat \ {0} /\ H \in Nat \ {0} /\ H = B * B
      /\ b[0] \in D /\ b[1] \in D /\ b[2] \in D /\ z \in D
    BY SizesOK DEF HalfSize
<1>2. w = b[0] + B * x
    BY DEF WordOf
<1> HIDE DEF B, H
<1>3. x \in Nat /\ y \in Nat /\ z \in Nat
    BY <1>1
<1>4. low \in 0 .. H - 1
    BY <1>1, DigitBelow
<1>5. third \in 0 .. H * B - 1 /\ H * B \in Nat \ {0}
    <2> HIDE DEF low
    <2> QED BY <1>1, <1>4, DigitBelow
<1>6. w = low + H * y
    BY <1>1, <1>2
<1>7. w = third + (H * B) * z
    BY <1>1, <1>6
<1> HIDE DEF low, third, x
<1>8. w \div B = x /\ w % B = b[0]
    BY <1>1, <1>2, <1>3, DigitsApart
<1>9. w \div H = y /\ w % H = low
    <2> HIDE DEF y, z
    <2>1. H \in Nat \ {0}
        BY <1>1
    <2> QED BY <1>3, <1>4, <1>6, <2>1, DigitsApart
<1>10. w \div (H * B) = z
    <2> DEFINE N == H * B
    <2> HIDE DEF N, z
    <2>1. N \in Nat \ {0} /\ third \in 0 .. N - 1 /\ w = third + N * z
        BY <1>5, <1>7 DEF N
    <2> QED BY <1>3, <2>1, DigitsApart DEF N
<1> HIDE DEF y
<1>11. x % B = b[1]
    <2>1. B \in Nat \ {0} /\ b[1] \in 0 .. B - 1 /\ y \in Int
        BY <1>1, <1>3
    <2> QED BY <2>1, DigitsApart DEF x
<1>12. y % B = b[2] /\ z % B = z
    <2>1. y % B = b[2]
        BY <1>1, <1>3, DigitsApart DEF y
    <2>2. (z + B * 0) % B = z /\ z + B * 0 = z
        BY <1>1, DigitsApart
    <2> QED BY <2>1, <2>2
<1>13. w \in Nat /\ w \div 1 = w
    BY <1>1, <1>2, <1>3
<1>14. ASSUME NEW k \in 0 .. 3 PROVE ByteOf(w, k) = b[k]
    <2>1. k \in {0, 1, 2, 3}
        OBVIOUS
    <2>2. k = 0 => ByteOf(w, k) = b[k]
        BY <1>8, <1>13 DEF ByteOf, Weight, B
    <2>3. k = 1 => ByteOf(w, k) = b[k]
        BY <1>8, <1>11 DEF ByteOf, Weight, B
    <2>4. k = 2 => ByteOf(w, k) = b[k]
        BY <1>9, <1>12 DEF ByteOf, Weight, B, H
    <2>5. k = 3 => ByteOf(w, k) = b[k]
        BY <1>10, <1>12 DEF ByteOf, Weight, B, H
    <2> QED BY <2>1, <2>2, <2>3, <2>4, <2>5
<1> QED BY <1>9, <1>14 DEF low, y, B, H

(* A word is made of its bytes. *)
LEMMA WordOfBytes ==
    ASSUME NEW w \in Values
    PROVE  LET b == [k \in 0 .. 3 |-> ByteOf(w, k)]
           IN  b \in [0 .. 3 -> 0 .. ByteSize - 1] /\ WordOf(b) = w
<1> DEFINE B == ByteSize
           b == [k \in 0 .. 3 |-> ByteOf(w, k)]
           x == w \div B
           y == x \div B
           z == y \div B
           c == [k \in 0 .. 3 |-> IF k = 0 THEN w % B ELSE IF k = 1 THEN x % B
                                  ELSE IF k = 2 THEN y % B ELSE z]
<1>1. B \in Nat \ {0} /\ w \in Nat /\ w < WordSize /\ WordSize = B * (B * (B * B))
    BY SizesOK, LoadStoreAssumption DEF HalfSize
<1> HIDE DEF B
<1>2. x \in Nat /\ w % B \in 0 .. B - 1 /\ w = (w % B) + B * x
    BY <1>1
<1> HIDE DEF x
<1>3. y \in Nat /\ x % B \in 0 .. B - 1 /\ x = (x % B) + B * y
    BY <1>1, <1>2
<1> HIDE DEF y
<1>4. z \in Nat /\ y % B \in 0 .. B - 1 /\ y = (y % B) + B * z
    BY <1>1, <1>3
<1> HIDE DEF z
<1>5. z < B
    <2> DEFINE M == B * B
               N == B * M
    <2>0. M \in Nat \ {0} /\ N \in Nat \ {0}
        BY <1>1
    <2>1. w < B * N
        BY <1>1
    <2> HIDE DEF N
    <2>2. x < N
        <3> SUFFICES ASSUME x >= N PROVE FALSE
            BY <1>2, <2>0
        <3>1. B * x >= B * N
            BY <1>1, <1>2, <2>0
        <3> QED BY <1>1, <1>2, <2>0, <2>1, <3>1
    <2> HIDE DEF M
    <2>3. y < M
        <3> SUFFICES ASSUME y >= M PROVE FALSE
            BY <1>3, <2>0
        <3>1. B * y >= B * M
            BY <1>1, <1>3, <2>0
        <3> QED BY <1>1, <1>3, <2>0, <2>2, <3>1 DEF N
    <2> SUFFICES ASSUME z >= B PROVE FALSE
        BY <1>1, <1>4
    <2>4. B * z >= B * B
        BY <1>1, <1>4
    <2> QED BY <1>1, <1>4, <2>0, <2>3, <2>4 DEF M
<1>6. c \in [0 .. 3 -> 0 .. ByteSize - 1]
    BY <1>1, <1>2, <1>3, <1>4, <1>5 DEF B
<1>7. WordOf(c) = w
    BY <1>2, <1>3, <1>4 DEF WordOf, B
<1> HIDE DEF c
<1>8. \A k \in 0 .. 3 : ByteOf(w, k) = c[k]
    BY <1>6, <1>7, BytesOfWord
<1>9. b = c
    BY <1>6, <1>8
<1> QED BY <1>6, <1>7, <1>9

(* The sizes as ByteMemory has them. *)
LEMMA SizesAgree ==
    /\ \A op : Memory!Width(op) = Width(op)
    /\ \A k \in 0 .. 4 : Memory!Weight(k) = Weight(k)
<1>1. ASSUME NEW op PROVE Memory!Width(op) = Width(op)
    BY DEF Memory!Width, Width
<1>2. ASSUME NEW k \in 0 .. 4 PROVE Memory!Weight(k) = Weight(k)
    <2>1. k \in {0, 1, 2, 3, 4}
        OBVIOUS
    <2>2. ByteSize \in Nat
        BY SizesOK
    <2> QED BY <2>1, <2>2 DEF Memory!Weight, Weight, WordSize, HalfSize
<1> QED BY <1>1, <1>2

(* What a value of n bytes is extended to. *)
LEMMA ExtendAgrees ==
    ASSUME NEW i, i.op \in LoadOps \union {"lr"}, NEW v \in 0 .. Weight(Width(i.op)) - 1
    PROVE  Memory!Extended(i, v) = Extend(i.op, v)
<1> DEFINE n == Weight(Width(i.op))
           W == WordSize
<1>1. /\ Width(i.op) \in 0 .. 4
      /\ Memory!Width(i.op) = Width(i.op)
      /\ Memory!Weight(Width(i.op)) = n
      /\ Memory!Weight(4) = W
    <2>1. Width(i.op) \in 0 .. 4 /\ 4 \in 0 .. 4
        BY DEF Width
    <2>2. Weight(4) = WordSize
        BY DEF Weight
    <2> QED BY <2>1, <2>2, SizesAgree
<1>2. n \in Nat \ {0} /\ n <= W /\ W \in Nat \ {0}
    BY <1>1, SizesOK
<1>3. CASE ~(i.op \in {"lb", "lh"} /\ v >= n \div 2)
    <2>1. Extend(i.op, v) = v
        BY <1>3 DEF Extend
    <2>2. i.op \in {"lb", "lh"} => Memory!Extended(i, v) = v % W
        BY <1>1, <1>3 DEF Memory!Extended, Memory!Signed
    <2>3. (v + W * 0) % W = v /\ v + W * 0 = v
        <3> HIDE DEF n, W
        <3>1. v \in 0 .. W - 1
            BY <1>2 DEF n
        <3> QED BY <1>2, <3>1, DigitsApart
    <2> QED BY <2>1, <2>2, <2>3 DEF Memory!Extended
<1>4. CASE i.op \in {"lb", "lh"} /\ v >= n \div 2
    <2>1. Extend(i.op, v) = v + (W - n)
        BY <1>4 DEF Extend
    <2>2. Memory!Extended(i, v) = (v - n) % W
        BY <1>1, <1>4 DEF Memory!Extended, Memory!Signed
    <2> HIDE DEF W, n
    <2>3. v + (W - n) \in 0 .. W - 1
        BY <1>2 DEF n
    <2>4. ((v + (W - n)) + W * (-1)) % W = v + (W - n)
        <3> DEFINE u == v + (W - n)
        <3> HIDE DEF u
        <3>1. u \in 0 .. W - 1
            BY <2>3 DEF u
        <3>2. (u + W * (-1)) % W = u
            BY <1>2, <3>1, DigitsApart
        <3> QED BY <3>2 DEF u
    <2>5. (v + (W - n)) + W * (-1) = v - n
        BY <1>2 DEF n
    <2> QED BY <2>1, <2>2, <2>4, <2>5
<1> QED BY <1>3, <1>4

(* A cached load cuts out the bytes it is about. *)
LEMMA PartIsBytes ==
    ASSUME NEW op, NEW w \in Values, NEW a \in Nat, a % Width(op) = 0
    PROVE  Part(op, w, a)
             = WordOf([k \in 0 .. 3 |-> IF k < Width(op) THEN ByteOf(w, (a % 4) + k) ELSE 0])
<1> DEFINE b == [k \in 0 .. 3 |-> ByteOf(w, k)]
           o == a % 4
           f == [k \in 0 .. 3 |-> IF k < Width(op) THEN ByteOf(w, o + k) ELSE 0]
           B == ByteSize
<1>1. b \in [0 .. 3 -> 0 .. B - 1] /\ WordOf(b) = w /\ B \in Nat
    BY WordOfBytes, SizesOK
<1>2. w % HalfSize = b[0] + B * b[1] /\ w \div HalfSize = b[2] + B * b[3]
    BY <1>1, BytesOfWord
<1>3. /\ b[0] \in Nat /\ b[1] \in Nat /\ b[2] \in Nat /\ b[3] \in Nat
      /\ o \in 0 .. 3
    BY <1>1
<1>4. \A k \in 0 .. 3 : b[k] = ByteOf(w, k)
    OBVIOUS
<1>5. CASE Width(op) = 1
    <2>1. f[0] = b[o] /\ f[1] = 0 /\ f[2] = 0 /\ f[3] = 0 /\ b[o] \in Nat
        BY <1>1, <1>3, <1>4, <1>5
    <2> HIDE DEF f, b
    <2>2. WordOf(f) = b[o]
        BY <1>1, <2>1 DEF WordOf, B
    <2> QED BY <1>3, <1>4, <1>5, <2>2 DEF Part, f
<1>6. CASE Width(op) = 2
    <2>1. o \in {0, 2}
        BY <1>6
    <2>2. f[0] = b[o] /\ f[1] = b[o + 1] /\ f[2] = 0 /\ f[3] = 0
        BY <1>4, <1>6, <2>1
    <2> HIDE DEF f, b
    <2>3. WordOf(f) = b[o] + B * b[o + 1]
        BY <1>1, <1>3, <2>1, <2>2 DEF WordOf, B
    <2> QED BY <1>2, <1>6, <2>1, <2>3 DEF Part, f
<1>7. CASE Width(op) = 4
    <2>1. o = 0
        BY <1>7
    <2>2. f = b
        BY <1>4, <1>7, <2>1
    <2> QED BY <1>1, <1>7, <2>2 DEF Part
<1>8. Width(op) \in {1, 2, 4}
    BY DEF Width
<1> QED BY <1>5, <1>6, <1>7, <1>8

(* SB and SH replace the bytes they are about and no other. *)
LEMMA MergeBytes ==
    ASSUME NEW op \in {"sb", "sh"}, NEW w \in Values, NEW v \in Values, NEW a \in Nat,
           a % Width(op) = 0, NEW k \in 0 .. 3
    PROVE  ByteOf(Merge(op, w, a, v), k)
             = IF k - (a % 4) \in 0 .. Width(op) - 1 THEN ByteOf(v, k - (a % 4))
               ELSE ByteOf(w, k)
<1> DEFINE b == [j \in 0 .. 3 |-> ByteOf(w, j)]
           d == [j \in 0 .. 3 |-> ByteOf(v, j)]
           o == a % 4
           B == ByteSize
           H == HalfSize
           f == [j \in 0 .. 3 |-> IF j - o \in 0 .. Width(op) - 1 THEN d[j - o] ELSE b[j]]
<1>1. /\ b \in [0 .. 3 -> 0 .. B - 1] /\ WordOf(b) = w
      /\ d \in [0 .. 3 -> 0 .. B - 1] /\ WordOf(d) = v
      /\ B \in Nat \ {0} /\ H = B * B
      /\ v \in Nat /\ w \in Nat /\ o \in 0 .. 3
    <2>1. v \in Nat /\ w \in Nat /\ o \in 0 .. 3
        BY LoadStoreAssumption
    <2> QED BY <2>1, WordOfBytes, SizesOK DEF HalfSize
<1>2. /\ w % H = b[0] + B * b[1] /\ w \div H = b[2] + B * b[3]
      /\ v % H = d[0] + B * d[1]
    BY <1>1, BytesOfWord
<1>3. f \in [0 .. 3 -> 0 .. B - 1]
    <2> SUFFICES ASSUME NEW j \in 0 .. 3, j - o \in 0 .. Width(op) - 1 PROVE j - o \in 0 .. 3
        BY <1>1
    <2> QED BY DEF Width
<1>4. Merge(op, w, a, v) = WordOf(f)
    <2>1. CASE op = "sb"
        <3>1. Width(op) = 1
            BY <2>1 DEF Width
        <3>2. v % B = d[0]
            <4>1. v \div 1 = v
                BY <1>1
            <4> QED BY <4>1 DEF ByteOf, Weight
        <3>3. f = [j \in 0 .. 3 |-> IF j = o THEN v % B ELSE ByteOf(w, j)]
            <4> SUFFICES ASSUME NEW j \in 0 .. 3
                         PROVE  f[j] = IF j = o THEN v % B ELSE ByteOf(w, j)
                OBVIOUS
            <4>1. j - o \in 0 .. 0 <=> j = o
                BY <1>1
            <4> HIDE DEF d, o
            <4>2. j = o => j - o = 0
                BY <1>1
            <4> QED BY <3>1, <3>2, <4>1, <4>2
        <3> QED BY <3>1, <3>3 DEF Merge
    <2>2. CASE op = "sh" /\ o = 0
        <3>1. f[0] = d[0] /\ f[1] = d[1] /\ f[2] = b[2] /\ f[3] = b[3] /\ Width(op) = 2
            BY <2>2 DEF Width
        <3>2. Merge(op, w, a, v) = (w - (w % H)) + (v % H)
            BY <2>2 DEF Merge, Width
        <3> HIDE DEF f, b, d
        <3>3. w - (w % H) = H * (b[2] + B * b[3])
            <4>1. w = b[0] + B * (b[1] + B * (b[2] + B * b[3]))
                BY <1>1 DEF WordOf
            <4> QED BY <1>1, <1>2, <4>1
        <3>4. Merge(op, w, a, v) = H * (b[2] + B * b[3]) + (d[0] + B * d[1])
            BY <1>2, <3>2, <3>3
        <3> QED BY <1>1, <3>1, <3>4 DEF WordOf
    <2>3. CASE op = "sh" /\ o # 0
        <3>0. Width(op) = 2
            BY <2>3 DEF Width
        <3>1. o = 2
            BY <2>3, <3>0
        <3>2. f[0] = b[0] /\ f[1] = b[1] /\ f[2] = d[0] /\ f[3] = d[1]
            BY <3>0, <3>1
        <3>3. Merge(op, w, a, v) = (w % H) + (v % H) * H
            BY <2>3 DEF Merge, Width
        <3> HIDE DEF f, b, d
        <3>4. Merge(op, w, a, v) = (b[0] + B * b[1]) + (d[0] + B * d[1]) * H
            BY <1>2, <3>3
        <3> QED BY <1>1, <3>2, <3>4 DEF WordOf
    <2> QED BY <2>1, <2>2, <2>3
<1>5. ByteOf(WordOf(f), k) = f[k]
    <2> HIDE DEF f
    <2> QED BY <1>3, BytesOfWord
<1>6. k - o \in 0 .. Width(op) - 1 => k - o \in 0 .. 3
    BY DEF Width
<1> QED BY <1>4, <1>5, <1>6

----------------------------------------------------------------------------
(* The bytes of the memory. *)

Start4(a) == a - (a % 4)

(* A byte lies in a word that the caches know. *)
LEMMA ByteOK ==
    ASSUME NEW a \in Bytes
    PROVE  /\ a \in Nat /\ a < MemorySize
           /\ a % 4 \in 0 .. 3 /\ At(a) \in Addrs
           /\ \A d \in Nat : At(d) = At(a) <=> Start4(d) = Start4(a)
<1>1. PICK b \in Blocks, x \in Words, k \in 0 .. 3 : a = b + 4 * x + k
    BY DEF Bytes
<1>2. b \in Nat /\ b % 64 = 0 /\ x \in 0 .. 15 /\ b + 64 <= MemorySize
    BY LoadStoreAssumption DEF BlockSize
<1>3. a \in Nat /\ a % 64 = 4 * x + k /\ a % 4 = k
    BY <1>1, <1>2
<1>4. a - (a % 64) = b /\ (a % 64) \div 4 = x /\ Start4(a) = b + 4 * x
    BY <1>1, <1>2, <1>3 DEF Start4
<1>5. At(a) = <<b, x>>
    BY <1>4 DEF At, BlockSize
<1>6. a < MemorySize
    BY <1>1, <1>2 DEF MemorySize
<1>7. ASSUME NEW d \in Nat PROVE At(d) = At(a) <=> Start4(d) = Start4(a)
    <2>1. At(d) = At(a) <=> d - (d % 64) = b /\ (d % 64) \div 4 = x
        BY <1>5 DEF At, BlockSize
    <2>2. d - (d % 64) = b /\ (d % 64) \div 4 = x <=> Start4(d) = b + 4 * x
        BY <1>2 DEF Start4
    <2> QED BY <1>4, <2>1, <2>2
<1>8. At(a) \in Addrs
    BY <1>5 DEF Addrs
<1> QED BY <1>3, <1>6, <1>7, <1>8

(* The bytes of a word that the caches know. *)
LEMMA BytesAt ==
    ASSUME NEW a \in Nat, At(a) \in Addrs, NEW k \in 0 .. 3
    PROVE  /\ Start4(a) + k \in Bytes
           /\ At(Start4(a) + k) = At(a) /\ (Start4(a) + k) % 4 = k
<1> DEFINE b == At(a)[1]
           x == At(a)[2]
           d == Start4(a) + k
<1>1. b = a - (a % 64) /\ x = (a % 64) \div 4
    BY DEF At, BlockSize
<1>2. b \in Blocks /\ x \in Words
    BY AddrParts
<1>3. d = b + 4 * x + k /\ d \in Nat
    BY <1>1 DEF Start4
<1>4. d \in Bytes
    BY <1>2, <1>3 DEF Bytes
<1>5. Start4(d) = Start4(a) /\ d % 4 = k
    BY DEF Start4
<1> HIDE DEF d
<1>6. At(d) = At(a)
    <2>1. \A e \in Nat : At(e) = At(d) <=> Start4(e) = Start4(d)
        BY <1>4, ByteOK
    <2> QED BY <1>5, <2>1
<1> QED BY <1>4, <1>5, <1>6 DEF d

(* What an instruction through the caches is about: bytes of one word. *)
LEMMA TouchesWord ==
    ASSUME program \in Programs, NEW i \in program, InMemory(i), Cached(i),
           Width(i.op) \in {1, 2, 4}
    PROVE  /\ i.addr \in Nat /\ i.addr % Width(i.op) = 0
           /\ (i.addr % 4) + Width(i.op) <= 4
           /\ \A k \in 0 .. Width(i.op) - 1 :
                /\ i.addr + k \in Bytes
                /\ At(i.addr + k) = At(i.addr)
                /\ (i.addr + k) % 4 = (i.addr % 4) + k
                /\ HasDataCache(DefaultRegions, i.addr + k)
<1> DEFINE n == Width(i.op)
           a == i.addr
<1>1. a \in Nat /\ At(a) \in Addrs
    BY InstructionOK
<1>2. /\ a % n = 0
      /\ \A d \in a .. a + n - 1 : HasDataCache(DefaultRegions, d)
    BY AlignedAssumption
<1>3. (a % 4) + n <= 4
    <2> HIDE DEF n, a
    <2>1. n = 1 \/ n = 2 \/ n = 4
        BY DEF n
    <2>2. n = 2 => a % 2 = 0
        BY <1>2
    <2>3. n = 4 => a % 4 = 0
        BY <1>2
    <2> QED BY <1>1, <2>1, <2>2, <2>3
<1>4. ASSUME NEW k \in 0 .. n - 1
      PROVE  /\ a + k \in Bytes /\ At(a + k) = At(a) /\ (a + k) % 4 = (a % 4) + k
             /\ HasDataCache(DefaultRegions, a + k)
    <2> DEFINE j == (a % 4) + k
    <2>1. j \in 0 .. 3 /\ a + k = Start4(a) + j /\ a + k \in a .. a + n - 1
        BY <1>1, <1>3 DEF Start4
    <2> HIDE DEF j, a, n
    <2>2. Start4(a) + j \in Bytes /\ At(Start4(a) + j) = At(a) /\ (Start4(a) + j) % 4 = j
        BY <1>1, <2>1, BytesAt
    <2>3. HasDataCache(DefaultRegions, a + k)
        BY <1>2, <2>1
    <2> QED BY <2>1, <2>2, <2>3 DEF j
<1> QED BY <1>1, <1>2, <1>3, <1>4

(* The widths of the instructions. *)
LEMMA Widths ==
    ASSUME NEW op
    PROVE  Width(op) \in {1, 2, 4}
BY DEF Width

(* What ByteMemory reads for an instruction through the caches. *)
LEMMA ValueCached ==
    ASSUME program \in Programs, NEW i \in program, InMemory(i), Cached(i)
    PROVE  Memory!Value(LogicalBytes, i)
             = WordOf([k \in 0 .. 3 |-> IF k < Width(i.op)
                                        THEN ByteOf(LogicalMem[At(i.addr)], (i.addr % 4) + k)
                                        ELSE 0])
<1> DEFINE f == [k \in 0 .. 3 |-> IF k < Width(i.op)
                                  THEN ByteOf(LogicalMem[At(i.addr)], (i.addr % 4) + k)
                                  ELSE 0]
<1>1. ASSUME NEW k \in 0 .. 3 PROVE Memory!Place(LogicalBytes, i, k) = f[k]
    <2>1. CASE k < Width(i.op)
        <3>1. k \in 0 .. Width(i.op) - 1
            BY <2>1, Widths
        <3>2. /\ i.addr + k \in Bytes /\ At(i.addr + k) = At(i.addr)
              /\ (i.addr + k) % 4 = (i.addr % 4) + k
              /\ HasDataCache(DefaultRegions, i.addr + k)
            BY <3>1, Widths, TouchesWord
        <3>3. LogicalBytes[i.addr + k] = ByteOf(LogicalMem[At(i.addr)], (i.addr % 4) + k)
            BY <3>2 DEF LogicalBytes
        <3> QED BY <2>1, <3>3, SizesAgree DEF Memory!Place
    <2>2. CASE ~(k < Width(i.op))
        BY <2>2, SizesAgree DEF Memory!Place
    <2> QED BY <2>1, <2>2
<1> HIDE DEF f
<1>2. /\ Memory!Place(LogicalBytes, i, 0) = f[0] /\ Memory!Place(LogicalBytes, i, 1) = f[1]
      /\ Memory!Place(LogicalBytes, i, 2) = f[2] /\ Memory!Place(LogicalBytes, i, 3) = f[3]
    BY <1>1
<1>3. Memory!Value(LogicalBytes, i) = WordOf(f)
    BY <1>2 DEF Memory!Value, WordOf
<1> QED BY <1>3 DEF f

(* The bytes of an access within one word. *)
LEMMA WithinWord ==
    ASSUME NEW a \in Nat, NEW d \in Nat, NEW n \in {1, 2, 4}, (a % 4) + n <= 4
    PROVE  /\ d \in a .. a + n - 1 <=> d - a \in 0 .. n - 1
           /\ d - a \in 0 .. n - 1 =>
                /\ d - a \in 0 .. 3 /\ Start4(a) = Start4(d)
                /\ d % 4 = (a % 4) + (d - a) /\ (d % 4) - (a % 4) = d - a
           /\ d - a \notin 0 .. n - 1 /\ Start4(a) = Start4(d) =>
                (d % 4) - (a % 4) \notin 0 .. n - 1
<1>1. n = 1 \/ n = 2 \/ n = 4
    OBVIOUS
<1>2. d \in a .. a + n - 1 <=> d - a \in 0 .. n - 1
    BY <1>1
<1>3. ASSUME d - a \in 0 .. n - 1
      PROVE  /\ d - a \in 0 .. 3 /\ Start4(a) = Start4(d)
             /\ d % 4 = (a % 4) + (d - a) /\ (d % 4) - (a % 4) = d - a
    <2>1. d - a >= 0 /\ d - a <= n - 1
        BY <1>1, <1>3
    <2>2. d % 4 = (a % 4) + (d - a)
        BY <1>1, <2>1
    <2> QED BY <1>1, <2>1, <2>2 DEF Start4
<1>4. ASSUME d - a \notin 0 .. n - 1, Start4(a) = Start4(d)
      PROVE  (d % 4) - (a % 4) \notin 0 .. n - 1
    BY <1>1, <1>4 DEF Start4
<1> QED BY <1>2, <1>3, <1>4

(* A word of the caches that changes in the bytes of an instruction. *)
LEMMA StoredCached ==
    ASSUME program \in Programs, NEW i \in program, InMemory(i), Cached(i),
           NEW u, NEW v, LogicalMem' = [LogicalMem EXCEPT ![At(i.addr)] = u],
           memory' = memory,
           \A k \in 0 .. 3 :
               ByteOf(u, k) = IF k - (i.addr % 4) \in 0 .. Width(i.op) - 1
                              THEN ByteOf(v, k - (i.addr % 4))
                              ELSE ByteOf(LogicalMem[At(i.addr)], k)
    PROVE  LogicalBytes' = Memory!WithValue(LogicalBytes, i, v)
<1> DEFINE n == Width(i.op)
           o == i.addr % 4
<1>1. /\ i.addr \in Nat /\ n \in {1, 2, 4} /\ o + n <= 4 /\ o \in 0 .. 3
      /\ At(i.addr) \in Addrs
      /\ \A k \in 0 .. n - 1 : HasDataCache(DefaultRegions, i.addr + k)
    <2>1. i.addr \in Nat /\ n \in {1, 2, 4}
        BY Widths, TouchesWord
    <2> QED BY <2>1, Widths, TouchesWord, InstructionOK
<1>2. \A a \in Bytes :
        LogicalBytes'[a] = IF HasDataCache(DefaultRegions, a)
                           THEN ByteOf(LogicalMem'[At(a)], a % 4) ELSE memory[a]
    BY DEF LogicalBytes
<1>3. \A a \in Bytes :
        LogicalBytes[a] = IF HasDataCache(DefaultRegions, a)
                          THEN ByteOf(LogicalMem[At(a)], a % 4) ELSE memory[a]
    BY DEF LogicalBytes
<1>4. \A x \in Addrs : LogicalMem'[x] = IF x = At(i.addr) THEN u ELSE LogicalMem[x]
    BY DEF LogicalMem
<1>5. ASSUME NEW d \in Nat
      PROVE  /\ d \in Memory!Touched(i) <=> d - i.addr \in 0 .. n - 1
             /\ d - i.addr \in 0 .. n - 1 =>
                  /\ d - i.addr \in 0 .. 3 /\ Start4(i.addr) = Start4(d)
                  /\ (d % 4) - o = d - i.addr /\ i.addr + (d - i.addr) = d
             /\ d - i.addr \notin 0 .. n - 1 /\ Start4(i.addr) = Start4(d) =>
                  (d % 4) - o \notin 0 .. n - 1
    <2>1. Memory!Touched(i) = i.addr .. i.addr + n - 1
        BY SizesAgree DEF Memory!Touched
    <2> DEFINE e == i.addr
    <2>2. e \in Nat /\ d \in Nat /\ n \in {1, 2, 4} /\ (e % 4) + n <= 4 /\ e + (d - e) = d
        BY <1>1
    <2> HIDE DEF n, e
    <2>3. /\ d \in e .. e + n - 1 <=> d - e \in 0 .. n - 1
          /\ d - e \in 0 .. n - 1 =>
                /\ d - e \in 0 .. 3 /\ Start4(e) = Start4(d)
                /\ d % 4 = (e % 4) + (d - e) /\ (d % 4) - (e % 4) = d - e
          /\ d - e \notin 0 .. n - 1 /\ Start4(e) = Start4(d) =>
                (d % 4) - (e % 4) \notin 0 .. n - 1
        BY ONLY <2>2, WithinWord
    <2> QED BY <2>1, <2>2, <2>3 DEF e
<1>6. ASSUME NEW a \in Bytes
      PROVE  LogicalBytes'[a] = IF a \in Memory!Touched(i)
                                THEN (v \div Memory!Weight(a - i.addr)) % ByteSize
                                ELSE LogicalBytes[a]
    <2>1. /\ a \in Nat /\ At(a) \in Addrs /\ a % 4 \in 0 .. 3
          /\ At(i.addr) = At(a) <=> Start4(i.addr) = Start4(a)
        BY <1>1, ByteOK
    <2>2. a \in Memory!Touched(i) <=> a - i.addr \in 0 .. n - 1
        BY <1>5, <2>1
    <2>3. CASE a - i.addr \in 0 .. n - 1
        <3> DEFINE k == a - i.addr
        <3>1. k \in 0 .. 3 /\ (a % 4) - o = k /\ Start4(i.addr) = Start4(a) /\ i.addr + k = a
            BY <1>5, <2>1, <2>3
        <3>2. HasDataCache(DefaultRegions, a)
            BY <1>1, <2>3, <3>1
        <3>3. LogicalBytes'[a] = ByteOf(u, a % 4)
            BY <1>2, <1>4, <2>1, <3>1, <3>2
        <3>4. ByteOf(u, a % 4) = ByteOf(v, k)
            BY <2>1, <2>3, <3>1
        <3>5. Memory!Weight(k) = Weight(k)
            BY <3>1, SizesAgree
        <3> QED BY <2>2, <2>3, <3>3, <3>4, <3>5 DEF ByteOf
    <2>4. CASE a - i.addr \notin 0 .. n - 1
        <3>1. CASE At(a) = At(i.addr)
            <4>1. (a % 4) - o \notin 0 .. n - 1
                BY <1>5, <2>1, <2>4, <3>1
            <4>2. ByteOf(u, a % 4) = ByteOf(LogicalMem[At(a)], a % 4)
                BY <2>1, <3>1, <4>1
            <4> QED BY <1>2, <1>3, <1>4, <2>1, <2>2, <2>4, <3>1, <4>2
        <3>2. CASE At(a) # At(i.addr)
            BY <1>2, <1>3, <1>4, <2>1, <2>2, <2>4, <3>2
        <3> QED BY <3>1, <3>2
    <2> QED BY <2>3, <2>4
<1>7. LogicalBytes' = [a \in Bytes |-> LogicalBytes'[a]]
    BY DEF LogicalBytes
<1> QED BY <1>6, <1>7, Zenon DEF Memory!WithValue

(* Nothing that the program sees changes. *)
LEMMA SameBytes ==
    ASSUME LogicalMem' = LogicalMem, memory' = memory
    PROVE  LogicalBytes' = LogicalBytes
BY DEF LogicalBytes


----------------------------------------------------------------------------
(* The instructions, one by one, as ByteMemory has them. *)

BytesInv == MachineInv /\ \A b \in Blocks : BlockGood(b)

ByteStep == FlatInv' /\ Memory!Next

(* An instruction of ByteMemory, to memory and elsewhere. *)
LEMMA ByteMemoryStep ==
    ASSUME program \in Programs, NEW i \in program, FlatInv',
           \/ Memory!Known(i) /\ (Memory!Load(i) \/ Memory!Store(i) \/ Memory!ReadModifyWrite(i))
           \/ ~Memory!Known(i) /\ Memory!Elsewhere(i)
    PROVE  ByteStep
<1>1. i \in UNION Programs
    OBVIOUS
<1> QED BY <1>1 DEF ByteStep, Memory!Next

(* What an instruction through the caches is about is memory. *)
LEMMA KnownCached ==
    ASSUME program \in Programs, NEW i \in program, InMemory(i), Cached(i), i.op # "amobad"
    PROVE  Memory!Known(i)
<1>1. i.addr \in Nat /\ Width(i.op) \in {1, 2, 4}
    BY Widths, InstructionOK
<1>2. \A k \in 0 .. Width(i.op) - 1 : i.addr + k \in Bytes
    BY <1>1, TouchesWord
<1>3. Memory!Touched(i) = i.addr .. i.addr + Width(i.op) - 1
    BY SizesAgree DEF Memory!Touched
<1>4. ASSUME NEW d \in i.addr .. i.addr + Width(i.op) - 1 PROVE d \in Bytes
    <2>1. d - i.addr \in 0 .. Width(i.op) - 1 /\ i.addr + (d - i.addr) = d
        BY <1>1
    <2> QED BY <1>2, <2>1
<1> QED BY <1>3, <1>4 DEF Memory!Known

(* What reaches beyond memory is not. *)
LEMMA UnknownBeyond ==
    ASSUME program \in Programs, NEW i \in program, i.addr + Width(i.op) > MemorySize
    PROVE  ~Memory!Known(i)
<1> DEFINE d == i.addr + Width(i.op) - 1
<1>1. i.addr \in Nat /\ Width(i.op) \in {1, 2, 4}
    BY Widths, InstructionOK
<1>2. d \in i.addr .. i.addr + Width(i.op) - 1 /\ ~(d < MemorySize)
    BY <1>1 DEF MemorySize
<1>3. d \notin Bytes
    BY <1>2, ByteOK
<1>4. Memory!Touched(i) = i.addr .. i.addr + Width(i.op) - 1
    BY SizesAgree DEF Memory!Touched
<1> QED BY <1>2, <1>3, <1>4 DEF Memory!Known

(* What the discipline says of the accesses of an instruction. *)
LEMMA MakesAccess ==
    ASSUME program \in Programs, NEW i \in program, InMemory(i), NEW k \in Kinds(i)
    PROVE  <<i.core, k, At(i.addr)>> \in Accesses
<1>1. i \in UNION Programs
    OBVIOUS
<1>2. AccessesOf(i) \subseteq Accesses
    BY <1>1, LoadStoreAssumption
<1> QED BY <1>2 DEF AccessesOf

(* The word of the caches that an instruction is about. *)
LEMMA WordSeen ==
    ASSUME BytesInv, NEW i \in program, InMemory(i)
    PROVE  /\ i.core \in Cores /\ At(i.addr) \in Addrs /\ At(i.addr)[1] \in Blocks
           /\ i.rs2 \in Values /\ i.addr \in Nat
           /\ <<"D", i.core>> \in Ports
           /\ FlatInv /\ HierarchyInv /\ program \in Programs
           /\ LogicalMem[At(i.addr)] = Content(At(i.addr)[1])[At(i.addr)[2]]
           /\ LogicalMem[At(i.addr)] \in Values
<1>1. FlatInv /\ HierarchyInv /\ program \in Programs
    BY DEF BytesInv, MachineInv, CachesOK, FlatInv
<1>2. i.core \in Cores /\ At(i.addr) \in Addrs /\ i.rs2 \in Values /\ i.addr \in Nat
    BY <1>1, InstructionOK
<1>3. At(i.addr)[1] \in Blocks /\ At(i.addr)[2] \in Words /\ <<"D", i.core>> \in Ports
    BY <1>2, AddrParts, PortOf
<1>4. Content(At(i.addr)[1]) \in Block
    BY <1>1, <1>3, ContentOK
<1>5. LogicalMem[At(i.addr)] = Content(At(i.addr)[1])[At(i.addr)[2]]
    BY <1>2, WordOfBlock
<1> QED BY <1>1, <1>2, <1>3, <1>4, <1>5 DEF Block

(* A whole word as ByteMemory reads it. *)
LEMMA WordIsValue ==
    ASSUME BytesInv, NEW i \in program, InMemory(i), Cached(i), Width(i.op) = 4
    PROVE  Memory!Value(LogicalBytes, i) = LogicalMem[At(i.addr)]
<1> DEFINE w == LogicalMem[At(i.addr)]
<1>1. w \in Values /\ i.addr \in Nat /\ program \in Programs
    BY WordSeen
<1>2. i.addr % Width(i.op) = 0
    BY <1>1, Widths, TouchesWord
<1>3. Part(i.op, w, i.addr)
        = WordOf([k \in 0 .. 3 |-> IF k < Width(i.op) THEN ByteOf(w, (i.addr % 4) + k) ELSE 0])
    <2> HIDE DEF w
    <2> QED BY <1>1, <1>2, PartIsBytes
<1>4. Part(i.op, w, i.addr) = w
    BY DEF Part
<1> QED BY <1>1, <1>3, <1>4, ValueCached

(* A whole word as ByteMemory writes it. *)
LEMMA WordIsWritten ==
    ASSUME BytesInv, NEW i \in program, InMemory(i), Cached(i), Width(i.op) = 4,
           NEW v \in Values, memory' = memory,
           ChangesTo(At(i.addr)[1], [Content(At(i.addr)[1]) EXCEPT ![At(i.addr)[2]] = v])
    PROVE  FlatInv' /\ LogicalBytes' = Memory!WithValue(LogicalBytes, i, v)
<1>1. FlatInv /\ At(i.addr) \in Addrs /\ program \in Programs /\ i.addr \in Nat
    BY WordSeen
<1>2. LogicalMem' = [LogicalMem EXCEPT ![At(i.addr)] = v] /\ FlatInv'
    BY <1>1, WordChanges DEF ChangesTo
<1>3. i.addr % 4 = 0
    BY <1>1, Widths, TouchesWord
<1>4. \A k \in 0 .. 3 :
        ByteOf(v, k) = IF k - (i.addr % 4) \in 0 .. Width(i.op) - 1
                       THEN ByteOf(v, k - (i.addr % 4))
                       ELSE ByteOf(LogicalMem[At(i.addr)], k)
    BY <1>3
<1> QED BY <1>1, <1>2, <1>4, StoredCached


(* A load through the caches sees the word that is written there. *)
LEMMA LoadSees ==
    ASSUME BytesInv, NEW i \in program, InMemory(i), memory' = memory,
           Load(i.core, At(i.addr))
    PROVE  /\ FlatInv' /\ LogicalBytes' = LogicalBytes
           /\ out'.val = LogicalMem[At(i.addr)]
<1> DEFINE c == i.core
           p == <<"D", c>>
           a == At(i.addr)
<1>1. /\ FlatInv /\ HierarchyInv /\ c \in Cores /\ p \in Ports /\ a \in Addrs
      /\ LogicalMem[a] = Content(a[1])[a[2]]
    BY WordSeen
<1> HIDE DEF c, a
<1>2. ReadThrough(p, c, "load", a) /\ <<c, "load", a>> \in Accesses
    BY DEF Load, a, c
<1> HIDE DEF p
<1>3. Reads(p, c, "load", a)
    BY <1>1, <1>2, ReadStep
<1>4. Caches(p, a[1])
    BY <1>1, <1>2, Disciplined DEF p
<1>5. ChangesTo(a[1], Content(a[1])) /\ out' = Report(c, "load", a, Content(a[1])[a[2]])
    BY <1>1, <1>3, <1>4, ReadsTo
<1>6. FlatInv' /\ \A b \in Blocks : Content(b)' = Content(b)
    BY <1>5 DEF ChangesTo
<1>7. LogicalMem' = LogicalMem
    BY <1>6, NothingChanges
<1>8. LogicalBytes' = LogicalBytes
    BY <1>7, SameBytes
<1>9. out'.val = Content(a[1])[a[2]]
    BY <1>5 DEF Report
<1> QED BY <1>1, <1>6, <1>8, <1>9 DEF a

(* LB, LBU, LH, LHU and LW through the caches. *)
LEMMA LoadCachedImplements ==
    ASSUME BytesInv, NEW i \in program, LoadCached(i)
    PROVE  ByteStep
<1> DEFINE w == LogicalMem[At(i.addr)]
           f == [k \in 0 .. 3 |-> IF k < Width(i.op) THEN ByteOf(w, (i.addr % 4) + k) ELSE 0]
<1>1. /\ i.op \in LoadOps /\ InMemory(i) /\ Cached(i)
      /\ Load(i.core, At(i.addr))
      /\ done' = [instr |-> i, rd |-> Extend(i.op, Part(i.op, out'.val, i.addr)),
                  advance |-> 4]
      /\ memory' = memory
    BY DEF LoadCached, LoadOps, Finish
<1>2. /\ program \in Programs /\ i.addr \in Nat
      /\ w \in Values
    BY <1>1, WordSeen
<1>3. FlatInv' /\ LogicalBytes' = LogicalBytes /\ out'.val = w
    BY <1>1, LoadSees
<1>4. Memory!Value(LogicalBytes, i) = WordOf(f)
    BY <1>1, <1>2, ValueCached
<1> HIDE DEF w
<1>5. Part(i.op, w, i.addr) = WordOf(f)
    <2>1. i.addr % Width(i.op) = 0
        BY <1>1, <1>2, Widths, TouchesWord
    <2> QED BY <1>2, <2>1, PartIsBytes
<1>6. Part(i.op, w, i.addr) \in 0 .. Weight(Width(i.op)) - 1
    BY <1>1, <1>2, PartOK
<1> HIDE DEF f
<1>7. Memory!Extended(i, WordOf(f)) = Extend(i.op, WordOf(f))
    BY <1>1, <1>5, <1>6, ExtendAgrees
<1>8. Memory!Known(i) /\ i.op \in Memory!Loads
    <2>1. i.op # "amobad"
        BY <1>1 DEF LoadOps
    <2> QED BY <1>1, <1>2, <2>1, KnownCached DEF LoadOps, Memory!Loads
<1>9. Memory!Load(i)
    BY <1>1, <1>3, <1>4, <1>5, <1>7, <1>8 DEF Memory!Load, Memory!Finished
<1> QED BY <1>2, <1>3, <1>8, <1>9, ByteMemoryStep

(* LR.W. *)
LEMMA LoadReservedImplements ==
    ASSUME BytesInv, NEW i \in program, LoadReserved(i)
    PROVE  ByteStep
<1>1. /\ i.op = "lr" /\ InMemory(i) /\ Load(i.core, At(i.addr))
      /\ done' = [instr |-> i, rd |-> out'.val, advance |-> 4]
      /\ memory' = memory
    BY DEF LoadReserved, Finish
<1>2. program \in Programs
    BY <1>1, WordSeen
<1>3. Cached(i) /\ Width(i.op) = 4
    BY <1>1, <1>2, InstructionOK DEF Funct5, Width
<1>4. FlatInv' /\ LogicalBytes' = LogicalBytes /\ out'.val = LogicalMem[At(i.addr)]
    BY <1>1, LoadSees
<1>5. Memory!Value(LogicalBytes, i) = LogicalMem[At(i.addr)]
    BY <1>1, <1>3, WordIsValue
<1>6. Memory!Extended(i, LogicalMem[At(i.addr)]) = LogicalMem[At(i.addr)]
    BY <1>1 DEF Memory!Extended
<1>7. Memory!Known(i) /\ i.op \in Memory!Loads
    BY <1>1, <1>2, <1>3, KnownCached DEF Memory!Loads
<1>8. Memory!Load(i)
    BY <1>1, <1>4, <1>5, <1>6, <1>7 DEF Memory!Load, Memory!Finished
<1> QED BY <1>2, <1>4, <1>7, <1>8, ByteMemoryStep

(* SW through the caches. *)
LEMMA StoreWordCachedImplements ==
    ASSUME BytesInv, NEW i \in program, StoreWordCached(i)
    PROVE  ByteStep
<1> DEFINE c == i.core
           a == At(i.addr)
           v == i.rs2
<1>1. /\ i.op = "sw" /\ InMemory(i) /\ Cached(i)
      /\ StoreBack(c, a, v) \/ StoreDirect(c, a, v)
      /\ done' = [instr |-> i, rd |-> 0, advance |-> 4]
      /\ memory' = memory
    BY DEF StoreWordCached, Finish
<1>2. /\ FlatInv /\ HierarchyInv /\ c \in Cores /\ a \in Addrs /\ v \in Values
      /\ program \in Programs /\ a[1] \in Blocks
    BY <1>1, WordSeen
<1> HIDE DEF c, a, v
<1>3. ChangesTo(a[1], [Content(a[1]) EXCEPT ![a[2]] = v])
    <2>1. CASE StoreBack(c, a, v)
        <3>1. WritesInL1(c, a[1])
            BY <1>2, <2>1, Disciplined DEF StoreBack, Direct
        <3>2. WritesLine(<<"D", c>>, a, v, TRUE, FALSE, Report(c, "store", a, v))
            BY <1>2, <2>1, StoreBackStep
        <3> QED BY <1>2, <3>1, <3>2, WritesLineTo
    <2>2. CASE StoreDirect(c, a, v)
        <3>1. WritesBelow(c, a[1])
            BY <1>2, <2>2, Disciplined DEF StoreDirect, Direct
        <3>2. PassesLine(<<"D", c>>, a, v, Report(c, "store", a, v))
            BY <1>2, <2>2, StoreDirectStep
        <3> QED BY <1>2, <3>1, <3>2, PassesLineTo
    <2> QED BY <1>1, <2>1, <2>2
<1>4. Width(i.op) = 4 /\ i.op # "amobad" /\ i.op \in Memory!Stores
    BY <1>1 DEF Width, Memory!Stores
<1>5. FlatInv' /\ LogicalBytes' = Memory!WithValue(LogicalBytes, i, v)
    BY <1>1, <1>2, <1>3, <1>4, WordIsWritten DEF a
<1>6. Memory!Known(i)
    BY <1>1, <1>2, <1>4, KnownCached
<1>7. Memory!Store(i)
    BY <1>1, <1>4, <1>5 DEF Memory!Store, Memory!Finished, v
<1> QED BY <1>2, <1>5, <1>6, <1>7, ByteMemoryStep

(* SC.W. *)
LEMMA StoreConditionallyImplements ==
    ASSUME BytesInv, NEW i \in program, StoreConditionally(i)
    PROVE  ByteStep
<1> DEFINE c == i.core
           a == At(i.addr)
           v == i.rs2
           held == Held(<<"D", c>>, a[1])
<1>1. /\ i.op = "sc" /\ InMemory(i) /\ StoreConditional(c, a, v)
      /\ done' = [instr |-> i, rd |-> 0, advance |-> 4]
      /\ memory' = memory
    BY DEF StoreConditionally, Finish
<1>2. /\ FlatInv /\ HierarchyInv /\ c \in Cores /\ a \in Addrs /\ v \in Values
      /\ program \in Programs /\ a[1] \in Blocks
    BY <1>1, WordSeen
<1>3. Cached(i) /\ Width(i.op) = 4 /\ i.op # "amobad" /\ i.op \in Memory!Stores
    BY <1>1, <1>2, InstructionOK DEF Funct5, Width, Memory!Stores
<1> HIDE DEF c, a, v
<1>4. ChangesTo(a[1], [Content(a[1]) EXCEPT ![a[2]] = v])
    <2>1. IF a \in WriteThrough THEN WritesBoth(c, a[1]) ELSE WritesInL1(c, a[1])
        BY <1>1, <1>2, Disciplined DEF StoreConditional
    <2>2. WritesLine(<<"D", c>>, a, v, held.dirty \/ a \notin WriteThrough,
                     a \in WriteThrough, Report(c, "store", a, v))
        BY <1>1, <1>2, StoreConditionalStep
    <2> QED BY <1>2, <2>1, <2>2, WritesLineTo
<1>5. FlatInv' /\ LogicalBytes' = Memory!WithValue(LogicalBytes, i, v)
    BY <1>1, <1>2, <1>3, <1>4, WordIsWritten DEF a
<1>6. Memory!Known(i)
    BY <1>1, <1>2, <1>3, KnownCached
<1>7. Memory!Store(i)
    BY <1>1, <1>3, <1>5 DEF Memory!Store, Memory!Finished, v
<1> QED BY <1>2, <1>5, <1>6, <1>7, ByteMemoryStep


(* SB and SH through the caches. *)
LEMMA StorePartCachedImplements ==
    ASSUME BytesInv, NEW i \in program, StorePartCached(i)
    PROVE  ByteStep
<1> DEFINE c == i.core
           p == <<"D", c>>
           a == At(i.addr)
           b == a[1]
           x == a[2]
           r == Lookup(SetAt(p, b), Below, b)
           v == Merge(i.op, LineOf(r.set, b).data[x], i.addr, i.rs2)
           access == Report(c, "store", <<b, x>>, v)
           n == L2Write(r.mem, b, Word1(x, v))
           t == Invalidate(r.set, b)
           w == LogicalMem[a]
           through == <<b, x>> \in Direct
<1>1. /\ i.op \in {"sb", "sh"} /\ InMemory(i) /\ Cached(i)
      /\ IF through THEN Commit(p, b, t, n, access)
         ELSE Commit(p, b, PutWord(r.set, b, x, v, TRUE), r.mem, access)
      /\ done' = [instr |-> i, rd |-> 0, advance |-> 4]
      /\ memory' = memory
    BY DEF StorePartCached, Word1, Finish, Direct
<1>2. /\ FlatInv /\ HierarchyInv /\ c \in Cores /\ a \in Addrs /\ i.rs2 \in Values
      /\ program \in Programs /\ b \in Blocks /\ p \in Ports /\ i.addr \in Nat
      /\ w = Content(b)[x] /\ w \in Values
    BY <1>1, WordSeen
<1>3. x \in Words /\ a = <<b, x>>
    BY <1>2, AddrParts
<1>4. /\ <<c, "load", a>> \in Accesses /\ <<c, "store", a>> \in Accesses
    <2>1. "load" \in Kinds(i) /\ "store" \in Kinds(i)
        BY <1>1 DEF Kinds
    <2> QED BY <1>1, <1>2, <2>1, MakesAccess
<1>5. LineOf(r.set, b) = Held(p, b) /\ Held(p, b).data = Content(b)
    <2>1. Caches(p, b)
        BY <1>2, <1>4, Disciplined
    <2>2. Held(p, b).data = Content(b)
        BY <1>2, <2>1, HeldContent
    <2> QED BY <1>2, <2>2, LookedUp
<1>6. v = Merge(i.op, w, i.addr, i.rs2)
    BY <1>2, <1>5
<1>7. v \in Values
    BY <1>1, <1>2, <1>6, MergeOK DEF StoreOps
<1> HIDE DEF v
<1>8. access \in Flat!Access
    BY <1>2, <1>3, <1>7, ReportOK
<1> HIDE DEF access, c, w
<1>9. ChangesTo(b, [Content(b) EXCEPT ![x] = v])
    <2>1. CASE through
        <3>1. WritesBelow(c, b)
            BY <1>2, <1>3, <1>4, <2>1, Disciplined
        <3>2. Effect(p, b, t, n) /\ ~Hit(t, b)
              /\ Shared(n, b) = [Shared(Below, b) EXCEPT ![x] = v]
            BY <1>2, <1>3, <1>7, PartBelowEffect
        <3>3. Commit(p, b, t, n, access)
            BY <1>1, <2>1
        <3> HIDE DEF n, t, r, through
        <3>4. PassesLine(p, a, v, access)
            BY <1>2, <1>8, <3>2, <3>3 DEF PassesLine, Moves
        <3> QED BY <1>2, <3>1, <3>4, PassesLineTo
    <2>2. CASE ~through
        <3>1. WritesInL1(c, b)
            BY <1>2, <1>3, <1>4, <2>2, Disciplined
        <3>2. Commit(p, b, PutWord(r.set, b, x, v, TRUE), r.mem, access)
            BY <1>1, <2>2
        <3>3. WritesLine(p, a, v, TRUE, FALSE, access)
            BY <1>2, <1>7, <1>8, <3>2, WriteLineStep
        <3> QED BY <1>2, <3>1, <3>3, WritesLineTo
    <2> QED BY <2>1, <2>2
<1> HIDE DEF r, n, t, through, b, x
<1>10. FlatInv' /\ LogicalMem' = [LogicalMem EXCEPT ![a] = v]
    BY <1>2, <1>9, WordChanges DEF ChangesTo, b, x
<1>11. i.addr % Width(i.op) = 0
    BY <1>1, <1>2, Widths, TouchesWord
<1>12. ASSUME NEW k \in 0 .. 3
       PROVE  ByteOf(v, k) = IF k - (i.addr % 4) \in 0 .. Width(i.op) - 1
                             THEN ByteOf(i.rs2, k - (i.addr % 4)) ELSE ByteOf(w, k)
    BY <1>1, <1>2, <1>6, <1>11, MergeBytes
<1>13. LogicalBytes' = Memory!WithValue(LogicalBytes, i, i.rs2)
    BY <1>1, <1>2, <1>10, <1>12, StoredCached DEF w
<1>14. Memory!Known(i) /\ i.op \in Memory!Stores
    BY <1>1, <1>2, KnownCached DEF Memory!Stores
<1>15. Memory!Store(i)
    BY <1>1, <1>13, <1>14 DEF Memory!Store, Memory!Finished
<1> QED BY <1>2, <1>10, <1>14, <1>15, ByteMemoryStep

(* The atomics compute what the instruction set says, but for two. *)
LEMMA AtomicAgrees ==
    ASSUME NEW op, Funct5(op) \in {0, 1, 4, 8, 12, 16, 20, 24, 28},
           op \notin {"amoand", "amoxor"}, NEW old \in Values, NEW v \in Values
    PROVE  /\ AmoResult(Funct5(op), old, v) = Memory!Atomic(op, old, v)
           /\ op \notin Memory!Loads \union Memory!Stores /\ op # "amobad"
           /\ Width(op) = 4
<1>1. op \in {"amoadd", "amoswap", "amoor", "amomin", "amomax", "amominu", "amomaxu"}
    BY DEF Funct5
<1>2. old \in 0 .. WordSize - 1 /\ v \in 0 .. WordSize - 1 /\ WordSize \in Nat
    BY SizesOK, LoadStoreAssumption
<1>3. Memory!Weight(4) = WordSize
    <2>1. 4 \in 0 .. 4 /\ Weight(4) = WordSize
        BY DEF Weight
    <2> QED BY <2>1, SizesAgree
<1>4. /\ Memory!Signed(old, 4) = SignedWord(old) /\ Memory!Signed(v, 4) = SignedWord(v)
      /\ SignedWord(old) \in Int /\ SignedWord(v) \in Int
      /\ SignedWord(old) = SignedWord(v) => old = v
    BY <1>2, <1>3 DEF Memory!Signed, SignedWord
<1>5. op \notin Memory!Loads \union Memory!Stores /\ op # "amobad" /\ Width(op) = 4
    BY <1>1 DEF Memory!Loads, Memory!Stores, Width
<1>6. CASE op = "amoadd"
    <2>1. Funct5(op) = 0
        BY <1>6 DEF Funct5
    <2>2. AmoResult(0, old, v) = (old + v) % WordSize
        BY DEF AmoResult
    <2>3. Memory!Atomic("amoadd", old, v) = (old + v) % Memory!Weight(4)
        BY DEF Memory!Atomic
    <2> QED BY <1>5, <1>6, <1>3, <2>1, <2>2, <2>3
<1>7. CASE op = "amoswap"
    <2>1. Funct5(op) = 1
        BY <1>7 DEF Funct5
    <2>2. AmoResult(1, old, v) = v
        BY DEF AmoResult
    <2>3. Memory!Atomic("amoswap", old, v) = v
        BY DEF Memory!Atomic
    <2> QED BY <1>5, <1>7, <2>1, <2>2, <2>3
<1>8. CASE op = "amoor"
    <2>1. Funct5(op) = 8
        BY <1>8 DEF Funct5
    <2>2. AmoResult(8, old, v) = BitOr(old, v)
        BY DEF AmoResult
    <2>3. Memory!Atomic("amoor", old, v) = Memory!BitOr(old, v)
        BY DEF Memory!Atomic
    <2>4. Memory!BitOr(old, v) = BitOr(old, v)
        BY Zenon DEF Memory!BitOr, BitOr, Memory!BitAnd, BitAnd
    <2> QED BY <1>5, <1>8, <2>1, <2>2, <2>3, <2>4
<1>9. CASE op = "amomin"
    <2>1. Funct5(op) = 16
        BY <1>9 DEF Funct5
    <2>2. AmoResult(16, old, v) = (IF SignedWord(old) < SignedWord(v) THEN old ELSE v)
        BY DEF AmoResult
    <2>3. Memory!Atomic("amomin", old, v) = (IF Memory!Signed(old, 4) <= Memory!Signed(v, 4) THEN old ELSE v)
        BY DEF Memory!Atomic
    <2> QED BY <1>5, <1>9, <1>4, <2>1, <2>2, <2>3
<1>10. CASE op = "amomax"
    <2>1. Funct5(op) = 20
        BY <1>10 DEF Funct5
    <2>2. AmoResult(20, old, v) = (IF SignedWord(old) > SignedWord(v) THEN old ELSE v)
        BY DEF AmoResult
    <2>3. Memory!Atomic("amomax", old, v) = (IF Memory!Signed(old, 4) >= Memory!Signed(v, 4) THEN old ELSE v)
        BY DEF Memory!Atomic
    <2> QED BY <1>5, <1>10, <1>4, <2>1, <2>2, <2>3
<1>11. CASE op = "amominu"
    <2>1. Funct5(op) = 24
        BY <1>11 DEF Funct5
    <2>2. AmoResult(24, old, v) = (IF old < v THEN old ELSE v)
        BY DEF AmoResult
    <2>3. Memory!Atomic("amominu", old, v) = (IF old <= v THEN old ELSE v)
        BY DEF Memory!Atomic
    <2> QED BY <1>5, <1>11, <1>2, <2>1, <2>2, <2>3
<1>12. CASE op = "amomaxu"
    <2>1. Funct5(op) = 28
        BY <1>12 DEF Funct5
    <2>2. AmoResult(28, old, v) = (IF old > v THEN old ELSE v)
        BY DEF AmoResult
    <2>3. Memory!Atomic("amomaxu", old, v) = (IF old >= v THEN old ELSE v)
        BY DEF Memory!Atomic
    <2> QED BY <1>5, <1>12, <1>2, <2>1, <2>2, <2>3
<1> QED BY <1>1, <1>6, <1>7, <1>8, <1>9, <1>10, <1>11, <1>12

(* An atomic that has read the word and written what it computed of it. *)
LEMMA AtomicImplements ==
    ASSUME BytesInv, NEW i \in program, InMemory(i), Cached(i),
           Funct5(i.op) \in {0, 1, 4, 8, 12, 16, 20, 24, 28},
           NEW v \in Values, v = AmoResult(Funct5(i.op), out'.val, i.rs2),
           done' = [instr |-> i, rd |-> out'.val, advance |-> 4], memory' = memory,
           out'.val = LogicalMem[At(i.addr)],
           ChangesTo(At(i.addr)[1], [Content(At(i.addr)[1]) EXCEPT ![At(i.addr)[2]] = v])
    PROVE  ByteStep
<1>1. program \in Programs /\ LogicalMem[At(i.addr)] \in Values /\ i.rs2 \in Values
    BY WordSeen
<1>2. i.op \notin {"amoand", "amoxor"}
    <2>1. i \in UNION Programs
        BY <1>1
    <2> QED BY <2>1, AlignedAssumption
<1>3. /\ v = Memory!Atomic(i.op, LogicalMem[At(i.addr)], i.rs2)
      /\ i.op \notin Memory!Loads \union Memory!Stores /\ i.op # "amobad"
      /\ Width(i.op) = 4
    BY <1>1, <1>2, AtomicAgrees
<1>4. FlatInv' /\ LogicalBytes' = Memory!WithValue(LogicalBytes, i, v)
    BY <1>3, WordIsWritten
<1>5. Memory!Value(LogicalBytes, i) = LogicalMem[At(i.addr)]
    BY <1>3, WordIsValue
<1>6. Memory!Known(i)
    BY <1>1, <1>3, KnownCached
<1>7. Memory!ReadModifyWrite(i)
    BY <1>3, <1>4, <1>5 DEF Memory!ReadModifyWrite, Memory!Finished
<1> QED BY <1>1, <1>4, <1>6, <1>7, ByteMemoryStep

(* The atomics that work in L2. *)
LEMMA ReadModifyWriteImplements ==
    ASSUME BytesInv, NEW i \in program, ReadModifyWrite(i)
    PROVE  ByteStep
<1> DEFINE c == i.core
           a == At(i.addr)
           old == Shared(Below, a[1])[a[2]]
<1>1. /\ Funct5(i.op) \in {0, 1, 4, 8, 12} /\ InMemory(i)
      /\ done' = [instr |-> i, rd |-> out'.val, advance |-> 4]
      /\ memory' = memory
    BY DEF ReadModifyWrite, Finish
<1>2. PICK v \in Values : Amo(c, a, v) /\ v = AmoResult(Funct5(i.op), out'.val, i.rs2)
    BY DEF ReadModifyWrite
<1>3. /\ FlatInv /\ HierarchyInv /\ c \in Cores /\ a \in Addrs /\ program \in Programs
      /\ LogicalMem[a] = Content(a[1])[a[2]]
    BY <1>1, WordSeen
<1>4. Cached(i)
    BY <1>1, <1>3, InstructionOK
<1> HIDE DEF c, a
<1>5. WritesBelow(c, a[1])
    BY <1>2, <1>3, Disciplined DEF Amo
<1>6. PassesLine(<<"D", c>>, a, v, Report(c, "amo", a, old))
    BY <1>2, <1>3, AmoStep
<1>7. /\ ChangesTo(a[1], [Content(a[1]) EXCEPT ![a[2]] = v])
      /\ out' = Report(c, "amo", a, old) /\ Shared(Below, a[1]) = Content(a[1])
    BY <1>3, <1>5, <1>6, PassesLineTo
<1>8. out'.val = LogicalMem[a]
    BY <1>3, <1>7 DEF Report
<1>9. Funct5(i.op) \in {0, 1, 4, 8, 12, 16, 20, 24, 28}
    BY <1>1
<1> QED BY <1>1, <1>2, <1>4, <1>7, <1>8, <1>9, AtomicImplements DEF a

(* Those that work in the L1. *)
LEMMA MinMaxImplements ==
    ASSUME BytesInv, NEW i \in program, MinMax(i)
    PROVE  ByteStep
<1> DEFINE c == i.core
           a == At(i.addr)
           held == Held(<<"D", c>>, a[1])
<1>1. /\ Funct5(i.op) \in {16, 20, 24, 28} /\ InMemory(i)
      /\ done' = [instr |-> i, rd |-> out'.val, advance |-> 4]
      /\ memory' = memory
    BY DEF MinMax, Finish
<1>2. PICK v \in Values :
        AmoMinMax(c, a, v) /\ v = AmoResult(Funct5(i.op), out'.val, i.rs2)
    BY DEF MinMax
<1>3. /\ FlatInv /\ HierarchyInv /\ c \in Cores /\ a \in Addrs /\ program \in Programs
      /\ LogicalMem[a] = Content(a[1])[a[2]]
    BY <1>1, WordSeen
<1>4. Cached(i)
    BY <1>1, <1>3, InstructionOK
<1> HIDE DEF c, a
<1>5. IF a \in WriteThrough THEN WritesBoth(c, a[1]) ELSE WritesInL1(c, a[1])
    BY <1>2, <1>3, Disciplined DEF AmoMinMax
<1>6. WritesLine(<<"D", c>>, a, v, held.dirty \/ a \notin WriteThrough,
                 a \in WriteThrough, Report(c, "amo", a, held.data[a[2]]))
    BY <1>2, <1>3, AmoMinMaxStep
<1>7. /\ ChangesTo(a[1], [Content(a[1]) EXCEPT ![a[2]] = v])
      /\ out' = Report(c, "amo", a, held.data[a[2]]) /\ held.data = Content(a[1])
    BY <1>3, <1>5, <1>6, WritesLineTo
<1>8. out'.val = LogicalMem[a]
    BY <1>3, <1>7 DEF Report
<1>9. Funct5(i.op) \in {0, 1, 4, 8, 12, 16, 20, 24, 28}
    BY <1>1
<1> QED BY <1>1, <1>2, <1>4, <1>7, <1>8, <1>9, AtomicImplements DEF a


(* An instruction that leaves the caches alone. *)
LEMMA CachesAlone ==
    ASSUME BytesInv, NEW i \in program, UNCHANGED <<l1, l2, ddr>>, out' = NoAccess
    PROVE  FlatInv' /\ LogicalMem' = LogicalMem /\ program \in Programs
<1>1. program \in Programs /\ CachesOK /\ \A b \in Blocks : BlockGood(b)
    BY DEF BytesInv, MachineInv
<1>2. HierarchyInv'
    BY <1>1, NoMoveKeepsCaches DEF CachesOK
<1>3. \A b \in Blocks : BlockGood(b)'
    BY <1>1 DEF BlockGood, LineGood, Has, LineAt, SharedAt, SetAt, Below
<1>4. LogicalMem' = LogicalMem
    BY DEF LogicalMem, DirtyIn
<1> QED BY <1>1, <1>2, <1>3, <1>4 DEF FlatInv

(* And memory too. *)
LEMMA ElsewhereStep ==
    ASSUME BytesInv, NEW i \in program, UNCHANGED <<l1, l2, ddr, memory>>,
           out' = NoAccess, done'.instr = i, ~Memory!Known(i)
    PROVE  ByteStep
<1>1. FlatInv' /\ LogicalMem' = LogicalMem /\ program \in Programs
    BY CachesAlone
<1>2. LogicalBytes' = LogicalBytes
    BY <1>1, SameBytes
<1>3. Memory!Elsewhere(i)
    BY <1>2 DEF Memory!Elsewhere
<1> QED BY <1>1, <1>3, ByteMemoryStep

(* An access past the caches is to bytes that are not cached, or in part     *)
(* beyond memory.                                                           *)
LEMMA KnownUncached ==
    ASSUME program \in Programs, NEW i \in program, InMemory(i), ~Cached(i),
           i.op # "amobad"
    PROVE  /\ Memory!Known(i) <=> i.addr + Width(i.op) <= MemorySize
           /\ Memory!Known(i) => \A k \in 0 .. Width(i.op) - 1 :
                /\ i.addr + k \in Bytes
                /\ ~HasDataCache(DefaultRegions, i.addr + k)
<1>1. /\ i.addr \in Nat /\ Width(i.op) \in {1, 2, 4}
      /\ i.addr + Width(i.op) <= MemorySize =>
            i.addr .. i.addr + Width(i.op) - 1 \subseteq Bytes
      /\ \A a \in i.addr .. i.addr + Width(i.op) - 1 : ~HasDataCache(DefaultRegions, a)
    BY Widths, InstructionOK
<1>2. Memory!Touched(i) = i.addr .. i.addr + Width(i.op) - 1
    BY SizesAgree DEF Memory!Touched
<1>3. i.addr + Width(i.op) > MemorySize => ~Memory!Known(i)
    BY UnknownBeyond
<1>4. Memory!Known(i) <=> i.addr + Width(i.op) <= MemorySize
    <2>1. i.addr + Width(i.op) <= MemorySize \/ i.addr + Width(i.op) > MemorySize
        BY <1>1 DEF MemorySize
    <2>2. i.addr + Width(i.op) <= MemorySize => Memory!Known(i)
        BY <1>1, <1>2 DEF Memory!Known
    <2>3. ~(i.addr + Width(i.op) <= MemorySize /\ i.addr + Width(i.op) > MemorySize)
        BY <1>1 DEF MemorySize
    <2> QED BY <1>3, <2>1, <2>2, <2>3
<1>5. ASSUME NEW k \in 0 .. Width(i.op) - 1
      PROVE  i.addr + k \in i.addr .. i.addr + Width(i.op) - 1
    BY <1>1
<1> QED BY <1>1, <1>4, <1>5

(* LB, LBU, LH, LHU and LW past the caches. *)
LEMMA LoadUncachedImplements ==
    ASSUME BytesInv, NEW i \in program, LoadUncached(i)
    PROVE  ByteStep
<1> DEFINE n == Width(i.op)
           f == [k \in 0 .. 3 |-> IF k < n THEN memory[i.addr + k] ELSE 0]
<1>1. /\ i.op \in LoadOps /\ InMemory(i) /\ ~Cached(i)
      /\ done' = [instr |-> i, rd |-> Extend(i.op, ReadMemory(n, i.addr)), advance |-> 4]
      /\ UNCHANGED <<l1, l2, ddr, memory>> /\ out' = NoAccess
    BY DEF LoadUncached, LoadOps, Finish
<1>2. FlatInv' /\ LogicalMem' = LogicalMem /\ program \in Programs
    BY <1>1, CachesAlone
<1>3. CASE ~Memory!Known(i)
    BY <1>1, <1>3, ElsewhereStep
<1>4. CASE Memory!Known(i)
    <2>1. i.op # "amobad" /\ i.op \in Memory!Loads
        BY <1>1 DEF LoadOps, Memory!Loads
    <2>2. /\ i.addr + n <= MemorySize
          /\ \A k \in 0 .. n - 1 :
                i.addr + k \in Bytes /\ ~HasDataCache(DefaultRegions, i.addr + k)
        BY <1>1, <1>2, <1>4, <2>1, KnownUncached
    <2>3. i.addr \in Nat /\ n \in {1, 2, 4}
          /\ memory \in [Bytes -> 0 .. ByteSize - 1]
        BY <1>2, Widths, InstructionOK DEF BytesInv, MachineInv, MemoryOK
    <2>4. ReadMemory(n, i.addr) = WordOf(f)
        <3>1. ~(i.addr + n > MemorySize)
            BY <2>2, <2>3 DEF MemorySize
        <3> QED BY <3>1 DEF ReadMemory
    <2>5. ReadMemory(n, i.addr) \in 0 .. Weight(n) - 1
        BY <1>1, <1>2, <2>3, InstructionOK, ReadMemoryOK
    <2>6. Memory!Value(LogicalBytes, i) = WordOf(f)
        <3>1. ASSUME NEW k \in 0 .. 3 PROVE Memory!Place(LogicalBytes, i, k) = f[k]
            <4>1. k < n => LogicalBytes[i.addr + k] = memory[i.addr + k]
                <5>1. k < n => k \in 0 .. n - 1
                    BY <2>3
                <5> QED BY <2>2, <5>1 DEF LogicalBytes
            <4> QED BY <4>1, SizesAgree DEF Memory!Place
        <3> HIDE DEF f
        <3>2. /\ Memory!Place(LogicalBytes, i, 0) = f[0]
              /\ Memory!Place(LogicalBytes, i, 1) = f[1]
              /\ Memory!Place(LogicalBytes, i, 2) = f[2]
              /\ Memory!Place(LogicalBytes, i, 3) = f[3]
            BY <3>1
        <3> QED BY <3>2 DEF Memory!Value, WordOf
    <2> HIDE DEF f
    <2>7. Memory!Extended(i, WordOf(f)) = Extend(i.op, WordOf(f))
        BY <1>1, <2>4, <2>5, ExtendAgrees
    <2>8. LogicalBytes' = LogicalBytes
        BY <1>1, <1>2, SameBytes
    <2>9. Memory!Load(i)
        BY <1>1, <2>1, <2>4, <2>6, <2>7, <2>8 DEF Memory!Load, Memory!Finished
    <2> QED BY <1>2, <1>4, <2>9, ByteMemoryStep
<1> QED BY <1>3, <1>4

(* SB, SH and SW past the caches. *)
LEMMA StoreUncachedImplements ==
    ASSUME BytesInv, NEW i \in program, StoreUncached(i)
    PROVE  ByteStep
<1> DEFINE n == Width(i.op)
           v == i.rs2
<1>1. /\ i.op \in StoreOps /\ InMemory(i) /\ ~Cached(i)
      /\ done' = [instr |-> i, rd |-> 0, advance |-> 4]
      /\ memory' = WriteMemory(n, i.addr, v)
      /\ UNCHANGED <<l1, l2, ddr>> /\ out' = NoAccess
    BY DEF StoreUncached, StoreOps, Finish
<1>2. FlatInv' /\ LogicalMem' = LogicalMem /\ program \in Programs
    BY <1>1, CachesAlone
<1>3. i.op # "amobad" /\ i.op \in Memory!Stores
    BY <1>1 DEF StoreOps, Memory!Stores
<1>4. i.addr \in Nat /\ n \in {1, 2, 4}
    BY <1>2, Widths, InstructionOK
<1>5. CASE ~Memory!Known(i)
    <2>1. i.addr + n > MemorySize
        <3>1. ~(i.addr + n <= MemorySize)
            BY <1>1, <1>2, <1>3, <1>5, KnownUncached
        <3> QED BY <1>4, <3>1 DEF MemorySize
    <2>2. memory' = memory
        BY <1>1, <2>1 DEF WriteMemory
    <2> QED BY <1>1, <1>5, <2>2, ElsewhereStep
<1>6. CASE Memory!Known(i)
    <2>1. /\ i.addr + n <= MemorySize
          /\ \A k \in 0 .. n - 1 : ~HasDataCache(DefaultRegions, i.addr + k)
        BY <1>1, <1>2, <1>3, <1>6, KnownUncached
    <2>2. memory' = [x \in Bytes |-> IF x - i.addr \in 0 .. n - 1
                                     THEN ByteOf(v, x - i.addr) ELSE memory[x]]
        <3>1. ~(i.addr + n > MemorySize)
            BY <1>4, <2>1 DEF MemorySize
        <3> QED BY <1>1, <3>1 DEF WriteMemory
    <2>3. Memory!Touched(i) = i.addr .. i.addr + n - 1
        BY SizesAgree DEF Memory!Touched
    <2> HIDE DEF n, v
    <2>4. ASSUME NEW d \in Bytes
          PROVE  LogicalBytes'[d] = IF d \in Memory!Touched(i)
                                    THEN (v \div Memory!Weight(d - i.addr)) % ByteSize
                                    ELSE LogicalBytes[d]
        <3>1. d \in Nat
            BY ByteOK
        <3>2. d \in Memory!Touched(i) <=> d - i.addr \in 0 .. n - 1
            BY <1>4, <2>3, <3>1
        <3>3. /\ LogicalBytes'[d] = IF HasDataCache(DefaultRegions, d)
                                    THEN ByteOf(LogicalMem'[At(d)], d % 4) ELSE memory'[d]
              /\ LogicalBytes[d] = IF HasDataCache(DefaultRegions, d)
                                   THEN ByteOf(LogicalMem[At(d)], d % 4) ELSE memory[d]
            BY DEF LogicalBytes
        <3>4. CASE d - i.addr \in 0 .. n - 1
            <4>1. i.addr + (d - i.addr) = d /\ d - i.addr \in 0 .. 4
                BY <1>4, <3>1, <3>4
            <4>2. ~HasDataCache(DefaultRegions, d)
                BY <2>1, <3>4, <4>1
            <4>3. memory'[d] = ByteOf(v, d - i.addr)
                BY <2>2, <3>4
            <4>4. Memory!Weight(d - i.addr) = Weight(d - i.addr)
                BY <4>1, SizesAgree
            <4> QED BY <3>2, <3>3, <3>4, <4>2, <4>3, <4>4 DEF ByteOf
        <3>5. CASE d - i.addr \notin 0 .. n - 1
            BY <1>2, <2>2, <3>2, <3>3, <3>5
        <3> QED BY <3>4, <3>5
    <2>5. LogicalBytes' = [d \in Bytes |-> LogicalBytes'[d]]
        BY DEF LogicalBytes
    <2>6. LogicalBytes' = Memory!WithValue(LogicalBytes, i, v)
        BY <2>4, <2>5, Zenon DEF Memory!WithValue
    <2>7. Memory!Store(i)
        BY <1>1, <1>3, <2>6 DEF Memory!Store, Memory!Finished, v
    <2> QED BY <1>2, <1>6, <2>7, ByteMemoryStep
<1> QED BY <1>5, <1>6


(* What is not in memory is not what ByteMemory is about. *)
LEMMA UnknownOutside ==
    ASSUME program \in Programs, NEW i \in program, ~InMemory(i)
    PROVE  ~Memory!Known(i)
<1>1. i.addr \in Nat /\ Width(i.op) \in {1, 2, 4}
    BY Widths, InstructionOK
<1>2. i.addr + Width(i.op) > MemorySize
    BY <1>1 DEF InMemory, MemorySize
<1> QED BY <1>2, UnknownBeyond

(* An atomic that does nothing, the devices, and access faults. *)
LEMMA OthersImplement ==
    ASSUME BytesInv, NEW i \in program,
           NoAtomic(i) \/ LoadDevice(i) \/ StoreDevice(i) \/ AccessFault(i)
    PROVE  ByteStep
<1>1. /\ UNCHANGED <<l1, l2, ddr, memory>> /\ out' = NoAccess
      /\ done'.instr = i
    BY DEF NoAtomic, LoadDevice, StoreDevice, AccessFault, Finish
<1>2. ~InMemory(i) \/ i.op = "amobad"
    <2>1. NoAtomic(i) => ~InMemory(i) \/ Funct5(i.op) = 5
        BY DEF NoAtomic
    <2>2. Funct5(i.op) = 5 => i.op = "amobad"
        BY DEF Funct5
    <2>3. LoadDevice(i) \/ StoreDevice(i) \/ AccessFault(i) => ~InMemory(i)
        BY DEF LoadDevice, StoreDevice, AccessFault
    <2> QED BY <2>1, <2>2, <2>3
<1>3. ~Memory!Known(i)
    <2>1. program \in Programs
        BY DEF BytesInv, MachineInv
    <2> QED BY <1>2, <2>1, UnknownOutside DEF Memory!Known
<1> QED BY <1>1, <1>3, ElsewhereStep

(* Every step is one of ByteMemory, or none. *)
LEMMA StepIsOfBytes ==
    BytesInv /\ [MachineNext]_machineVars =>
        BytesInv' /\ (Memory!Next \/ UNCHANGED <<LogicalBytes, done>>)
<1> SUFFICES ASSUME BytesInv, [MachineNext]_machineVars
             PROVE  BytesInv' /\ (Memory!Next \/ UNCHANGED <<LogicalBytes, done>>)
    OBVIOUS
<1>1. MachineInv'
    BY MachineStepHolds DEF BytesInv
<1>2. CASE MachineNext
    <2>1. PICK i \in program :
            \/ LoadCached(i) \/ LoadUncached(i) \/ StoreWordCached(i)
            \/ StorePartCached(i) \/ StoreUncached(i) \/ ReadModifyWrite(i)
            \/ MinMax(i) \/ LoadReserved(i) \/ StoreConditionally(i) \/ NoAtomic(i)
            \/ LoadDevice(i) \/ StoreDevice(i) \/ AccessFault(i)
        BY <1>2 DEF MachineNext
    <2>2. ByteStep
        BY <2>1, LoadCachedImplements, LoadUncachedImplements, StoreWordCachedImplements,
           StorePartCachedImplements, StoreUncachedImplements, ReadModifyWriteImplements,
           MinMaxImplements, LoadReservedImplements, StoreConditionallyImplements,
           OthersImplement
    <2> QED BY <1>1, <2>2 DEF ByteStep, BytesInv, FlatInv
<1>3. CASE UNCHANGED machineVars
    <2>1. UNCHANGED <<l1, l2, ddr, out, memory, done>>
        BY <1>3 DEF machineVars, vars
    <2>2. \A b \in Blocks : BlockGood(b)'
        BY <2>1 DEF BytesInv, BlockGood, LineGood, Has, LineAt, SharedAt, SetAt, Below
    <2>3. LogicalMem' = LogicalMem
        BY <2>1 DEF LogicalMem, DirtyIn
    <2>4. LogicalBytes' = LogicalBytes
        BY <2>1, <2>3, SameBytes
    <2> QED BY <1>1, <2>1, <2>2, <2>4 DEF BytesInv
<1> QED BY <1>2, <1>3

(* The machine starts with the program image in both memories. *)
LEMMA StartIsOfBytes == MachineInit => BytesInv /\ Memory!Init
<1> SUFFICES ASSUME MachineInit PROVE BytesInv /\ Memory!Init
    OBVIOUS
<1>1. FlatInv /\ Flat!Init
    BY StartIsFlat DEF MachineInit
<1>2. BytesInv
    BY <1>1, MachineInitHolds DEF BytesInv, FlatInv
<1>3. LogicalMem = [a \in Addrs |-> InitDdr[a[1]][a[2]]]
    BY <1>1 DEF Flat!Init
<1>4. ASSUME NEW d \in Bytes PROVE LogicalBytes[d] = InitBytes[d]
    <2>1. At(d) \in Addrs
        BY ByteOK
    <2>2. LogicalMem[At(d)] = InitDdr[At(d)[1]][At(d)[2]]
        BY <1>3, <2>1
    <2> QED BY <2>2 DEF LogicalBytes, InitBytes, MachineInit
<1>5. LogicalBytes = InitBytes
    BY <1>4, Zenon DEF LogicalBytes, InitBytes
<1> QED BY <1>2, <1>5 DEF Memory!Init, MachineInit

(* Whatever the width, the place in the word and the way they take, and       *)
(* whatever the caches displace in between, the loads, stores and atomics of  *)
(* Core::step act on one array of bytes as the instruction set says, for     *)
(* every program that keeps the discipline of CacheDiscipline.tla and every   *)
(* size and shape of the caches.                                            *)
THEOREM ByteMemoryImplemented == MachineSpec => ImplementsByteMemory
<1>1. MachineInit => BytesInv /\ Memory!Init
    BY StartIsOfBytes
<1>2. BytesInv /\ [MachineNext]_machineVars =>
        BytesInv' /\ [Memory!Next]_<<LogicalBytes, done>>
    BY StepIsOfBytes
<1> QED BY <1>1, <1>2, PTL DEF MachineSpec, ImplementsByteMemory, Memory!Spec

=============================================================================

-------------------------- MODULE CacheHierarchy ---------------------------
(***************************************************************************)
(* The memory path of src/memory/Cache.cpp as Simulator wires it: for every *)
(* core a private L1 instruction and an L1 data cache, one L2 shared by     *)
(* all, and the DDR memory behind it.  All caches are set-associative,      *)
(* write-back, write-allocate, with LRU replacement.  No cache is ever told *)
(* what another L1 does: the MSI directory of Coherence.tla is not          *)
(* connected to this path.                                                  *)
(*                                                                         *)
(* One action is one call of the core into its L1, with everything that     *)
(* call does to L2 and to DDR.  The calls of different cores interleave     *)
(* freely; Simulator::run's round robin is one of the interleavings.        *)
(***************************************************************************)
EXTENDS Naturals, FiniteSets

CONSTANTS
    Cores,          \* the cores
    Blocks,         \* the cache blocks (64 bytes in the code)
    Words,          \* the word offsets of a block
    Values,         \* the values of a word
    NoBlock,        \* the tag of an invalid way
    Index1,         \* Index1[b]: the L1 set of block b  (get_set_index)
    Index2,         \* Index2[b]: the L2 set of block b
    Ways1,          \* the ways of an L1 set, 1..config.associativity
    Ways2,          \* the ways of an L2 set
    WriteThrough,   \* the words at 0x82008..0x8201F
    PageTable,      \* the words at 0x20000..0x20FFF
    InitDdr,        \* the memory image load_program leaves
    NoAccess,       \* what out is before the first access
    Accesses        \* the accesses <<core, operation, address>> the guest
                    \* program may make

Addrs == Blocks \X Words

ASSUME HierarchyAssumption ==
    /\ NoBlock \notin Blocks
    /\ WriteThrough \subseteq Addrs
    /\ PageTable \subseteq Addrs
    /\ InitDdr \in [Blocks -> [Words -> Values]]
    /\ IsFiniteSet(Ways1) /\ Ways1 = 1..Cardinality(Ways1) /\ Ways1 # {}
    /\ IsFiniteSet(Ways2) /\ Ways2 = 1..Cardinality(Ways2) /\ Ways2 # {}

VARIABLES
    l1,     \* l1[<<k, c>>]: core c's L1 data ("D") or instruction ("I") cache
    l2,     \* the shared L2 cache
    ddr,    \* DDRMemory: the words of every block
    out     \* the access made last and the value the core got or wrote

vars == <<l1, l2, ddr, out>>

Ports == {"D", "I"} \X Cores

Sets1 == {Index1[b] : b \in Blocks}
Sets2 == {Index2[b] : b \in Blocks}

Line == [block : Blocks \union {NoBlock}, dirty : BOOLEAN,
         data : [Words -> Values]]

(* age[w] is the position of way w in the LRU list of its set, 0 for the     *)
(* most recently used way at the front.                                     *)
CacheSet(W) == [lines : [W -> Line], age : [W -> Nat]]

(* What an invalid way keeps in tag and data is never looked at. *)
NoLine == [block |-> NoBlock, dirty |-> FALSE,
           data |-> InitDdr[CHOOSE b \in Blocks : TRUE]]

EmptySet(W) == [lines |-> [w \in W |-> NoLine], age |-> [w \in W |-> w - 1]]

Init ==
    /\ l1 = [p \in Ports |-> [i \in Sets1 |-> EmptySet(Ways1)]]
    /\ l2 = [i \in Sets2 |-> EmptySet(Ways2)]
    /\ ddr = InitDdr
    /\ out = NoAccess

----------------------------------------------------------------------------
(* One set of one cache. *)

Hit(s, b) == \E w \in DOMAIN s.lines : s.lines[w].block = b

(* find_entry: the first valid way whose tag matches. *)
FindEntry(s, b) ==
    CHOOSE w \in DOMAIN s.lines :
        /\ s.lines[w].block = b
        /\ \A u \in DOMAIN s.lines : s.lines[u].block = b => w <= u

LineOf(s, b) == s.lines[FindEntry(s, b)]

(* Mutant of UpdateLru: the way is pushed to the front and not removed first. *)
UpdateLruPushesOnly(s, w) ==
    [s EXCEPT !.age = [u \in DOMAIN s.age |->
                          IF u = w THEN 0 ELSE s.age[u] + 1]]

(* update_lru: way w moves to the front of the list. *)
UpdateLru(s, w) ==
    [s EXCEPT !.age = [u \in DOMAIN s.age |->
                          IF u = w THEN 0
                          ELSE IF s.age[u] < s.age[w] THEN s.age[u] + 1
                          ELSE s.age[u]]]

LruWay(s) == CHOOSE w \in DOMAIN s.age :
                 \A u \in DOMAIN s.age : s.age[u] <= s.age[w]

(* allocate_entry: the first invalid way, or else the one evict_lru_entry    *)
(* frees.                                                                   *)
AllocateEntry(s) ==
    LET free == {w \in DOMAIN s.lines : s.lines[w].block = NoBlock}
    IN  IF free # {} THEN CHOOSE w \in free : \A u \in free : w <= u
                     ELSE LruWay(s)

Install(s, w, line) == UpdateLru([s EXCEPT !.lines[w] = line], w)

(* invalidate: the line goes, whatever it holds; the LRU list stays. *)
Invalidate(s, b) ==
    IF Hit(s, b) THEN [s EXCEPT !.lines[FindEntry(s, b)] = NoLine] ELSE s

(* The words g of a block with those of f, a function on some of them, put   *)
(* in their place.                                                          *)
Overlay(g, f) == [x \in Words |-> IF x \in DOMAIN f THEN f[x] ELSE g[x]]

----------------------------------------------------------------------------
(* The memory an L1 sees: a record m of L2 and DDR. *)

Below == [l2 |-> l2, ddr |-> ddr]

(* The eviction from L2 that allocating block b may cause. *)
L2Evict(m, b) ==
    LET s   == m.l2[Index2[b]]
        old == s.lines[AllocateEntry(s)]
    IN  IF old.dirty THEN [m EXCEPT !.ddr[old.block] = old.data] ELSE m

(* L2 after read_word or read_block on block b: the block is present and     *)
(* most recently used.                                                      *)
L2Access(m, b) ==
    LET i == Index2[b]
        s == m.l2[i]
    IN  IF Hit(s, b)
        THEN [m EXCEPT !.l2[i] = UpdateLru(s, FindEntry(s, b))]
        ELSE [L2Evict(m, b) EXCEPT !.l2[i] =
                 Install(s, AllocateEntry(s),
                         [block |-> b, dirty |-> FALSE,
                          data |-> L2Evict(m, b).ddr[b]])]

L2Data(m, b) == LineOf(m.l2[Index2[b]], b).data

(* Mutant of L2Write: a write-through word goes into L2 only. *)
L2WriteNotThrough(m, b, f) ==
    LET i  == Index2[b]
        m1 == L2Access(m, b)
        s  == m1.l2[i]
    IN  [m1 EXCEPT
            !.l2[i].lines[FindEntry(s, b)] =
                [block |-> b,
                 dirty |-> \/ LineOf(s, b).dirty
                           \/ \E x \in DOMAIN f : <<b, x>> \notin WriteThrough,
                 data  |-> Overlay(L2Data(m1, b), f)]]

(* L2 after write_word on the words of block b in f (write_block is one      *)
(* write_word per word): a word of the write-through range also goes to     *)
(* DDR, any other makes the line dirty.                                     *)
L2Write(m, b, f) ==
    LET i       == Index2[b]
        m1      == L2Access(m, b)
        through == {x \in DOMAIN f : <<b, x>> \in WriteThrough}
    IN  [m1 EXCEPT
            !.l2[i].lines[FindEntry(m1.l2[i], b)] =
                [block |-> b,
                 dirty |-> LineOf(m1.l2[i], b).dirty \/ through # DOMAIN f,
                 data  |-> Overlay(L2Data(m1, b), f)],
            !.ddr[b] = Overlay(m1.ddr[b], [x \in through |-> f[x]])]

(* Mutant of Lookup: the displaced line is dropped even if it is dirty. *)
LookupDropsDirty(s, m, b) ==
    IF Hit(s, b)
    THEN [set |-> UpdateLru(s, FindEntry(s, b)), mem |-> m]
    ELSE [set |-> Install(s, AllocateEntry(s),
                          [block |-> b, dirty |-> FALSE,
                           data |-> L2Data(L2Access(m, b), b)]),
          mem |-> L2Access(m, b)]

(* The set s of an L1 after block b has been looked up in it, and what that  *)
(* did below: on a miss the displaced line is written back if dirty, then   *)
(* the block is read.                                                       *)
Lookup(s, m, b) ==
    IF Hit(s, b)
    THEN [set |-> UpdateLru(s, FindEntry(s, b)), mem |-> m]
    ELSE LET w   == AllocateEntry(s)
             old == s.lines[w]
             m1  == IF old.dirty THEN L2Write(m, old.block, old.data) ELSE m
             m2  == L2Access(m1, b)
         IN  [set |-> Install(s, w, [block |-> b, dirty |-> FALSE,
                                     data |-> L2Data(m2, b)]),
              mem |-> m2]

----------------------------------------------------------------------------
(* The calls of a core. *)

SetAt(p, b) == l1[p][Index1[b]]

(* The next state: set s in place of block b's set of port p, memory m below *)
(* it, and the access to report.                                            *)
Commit(p, b, s, m, access) ==
    /\ l1' = [l1 EXCEPT ![p][Index1[b]] = s]
    /\ l2' = m.l2
    /\ ddr' = m.ddr
    /\ out' = access

Report(c, op, a, v) == [core |-> c, op |-> op, addr |-> a, val |-> v]

(* Cache::read, for a load of the data cache and for an instruction fetch;   *)
(* read_word, which LR.W uses, does the same.                               *)
ReadThrough(p, c, op, a) ==
    LET r == Lookup(SetAt(p, a[1]), Below, a[1])
    IN  Commit(p, a[1], r.set, r.mem,
               Report(c, op, a, LineOf(r.set, a[1]).data[a[2]]))

Load(c, a) ==
    /\ <<c, "load", a>> \in Accesses
    /\ ReadThrough(<<"D", c>>, c, "load", a)

Fetch(c, a) ==
    /\ <<c, "fetch", a>> \in Accesses
    /\ ReadThrough(<<"I", c>>, c, "fetch", a)

(* Mutant of PutWord: the dirty bit is not set. *)
PutWordClean(s, b, x, v, d) ==
    [s EXCEPT !.lines[FindEntry(s, b)].data[x] = v]

(* The line of block b in set s with word x set to v and the dirty bit d. *)
PutWord(s, b, x, v, d) ==
    [s EXCEPT !.lines[FindEntry(s, b)].data[x] = v,
              !.lines[FindEntry(s, b)].dirty = d]

(* Cache::write to an ordinary word: into the cache only. *)
StoreBack(c, a, v) ==
    LET p == <<"D", c>>
        r == Lookup(SetAt(p, a[1]), Below, a[1])
    IN  /\ <<c, "store", a>> \in Accesses
        /\ a \notin WriteThrough \union PageTable
        /\ Commit(p, a[1], PutWord(r.set, a[1], a[2], v, TRUE), r.mem,
                  Report(c, "store", a, v))

(* Cache::write to a word of the write-through range or of the page table:   *)
(* into L2, and the own line is invalidated, its other words with it.       *)
StoreDirect(c, a, v) ==
    LET p == <<"D", c>>
    IN  /\ <<c, "store", a>> \in Accesses
        /\ a \in WriteThrough \union PageTable
        /\ Commit(p, a[1], Invalidate(SetAt(p, a[1]), a[1]),
                  L2Write(Below, a[1], [x \in {a[2]} |-> v]),
                  Report(c, "store", a, v))

(* Mutant of Amo: a read-modify-write of the own L1 line, as the fallback of  *)
(* the code does when there is no lower level.                              *)
AmoInOwnCache(c, a, v) ==
    LET p == <<"D", c>>
        r == Lookup(SetAt(p, a[1]), Below, a[1])
    IN  /\ <<c, "amo", a>> \in Accesses
        /\ Commit(p, a[1], PutWord(r.set, a[1], a[2], v, TRUE), r.mem,
                  Report(c, "amo", a, LineOf(r.set, a[1]).data[a[2]]))

(* atomic_swap, atomic_fetch_and_add, ..._and, ..._or, ..._xor, which differ *)
(* in the value v they write: read and written in L2, never looked for in   *)
(* the own L1, whose line is then invalidated.                              *)
Amo(c, a, v) ==
    LET p == <<"D", c>>
        m == L2Access(Below, a[1])
    IN  /\ <<c, "amo", a>> \in Accesses
        /\ Commit(p, a[1], Invalidate(SetAt(p, a[1]), a[1]),
                  L2Write(m, a[1], [x \in {a[2]} |-> v]),
                  Report(c, "amo", a, L2Data(m, a[1])[a[2]]))

(* read_word and write_word on the own L1, the two calls that make AMOMIN.W, *)
(* AMOMAX.W, AMOMINU.W and AMOMAXU.W.                                       *)
AmoMinMax(c, a, v) ==
    LET p == <<"D", c>>
        r == Lookup(SetAt(p, a[1]), Below, a[1])
        old == LineOf(r.set, a[1])
        through == a \in WriteThrough
    IN  /\ <<c, "amominmax", a>> \in Accesses
        /\ Commit(p, a[1],
                  PutWord(r.set, a[1], a[2], v, old.dirty \/ ~through),
                  IF through THEN L2Write(r.mem, a[1], [x \in {a[2]} |-> v])
                             ELSE r.mem,
                  Report(c, "amo", a, old.data[a[2]]))

(* SC.W is a write_word that always reports success. *)
StoreConditional(c, a, v) ==
    LET p == <<"D", c>>
        r == Lookup(SetAt(p, a[1]), Below, a[1])
        through == a \in WriteThrough
    IN  /\ <<c, "sc", a>> \in Accesses
        /\ Commit(p, a[1],
                  PutWord(r.set, a[1], a[2], v,
                          LineOf(r.set, a[1]).dirty \/ ~through),
                  IF through THEN L2Write(r.mem, a[1], [x \in {a[2]} |-> v])
                             ELSE r.mem,
                  Report(c, "store", a, v))

(* flush and flush_range on the data cache of c: a dirty line is written     *)
(* back and stays, clean.                                                   *)
FlushL1(c, b) ==
    LET p == <<"D", c>>
        s == SetAt(p, b)
    IN  /\ Hit(s, b)
        /\ LineOf(s, b).dirty
        /\ Commit(p, b, [s EXCEPT !.lines[FindEntry(s, b)].dirty = FALSE],
                  L2Write(Below, b, LineOf(s, b).data), out)

(* flush and flush_range on L2. *)
FlushL2(b) ==
    LET s == l2[Index2[b]]
    IN  /\ Hit(s, b)
        /\ LineOf(s, b).dirty
        /\ l2' = [l2 EXCEPT ![Index2[b]].lines[FindEntry(s, b)].dirty = FALSE]
        /\ ddr' = [ddr EXCEPT ![b] = LineOf(s, b).data]
        /\ UNCHANGED <<l1, out>>

Next ==
    \/ \E c \in Cores, a \in Addrs :
        \/ Load(c, a)
        \/ Fetch(c, a)
        \/ \E v \in Values :
            \/ StoreBack(c, a, v)
            \/ StoreDirect(c, a, v)
            \/ Amo(c, a, v)
            \/ AmoMinMax(c, a, v)
            \/ StoreConditional(c, a, v)
    \/ \E c \in Cores, b \in Blocks : FlushL1(c, b)
    \/ \E b \in Blocks : FlushL2(b)

Spec == Init /\ [][Next]_vars

(* The memory the program sees: a word is in the data cache where it is      *)
(* dirty, or else in L2, or else in DDR.                                    *)
DirtyIn(b) ==
    {c \in Cores : Hit(l1[<<"D", c>>][Index1[b]], b)
                     /\ LineOf(l1[<<"D", c>>][Index1[b]], b).dirty}

LogicalMem ==
    [a \in Addrs |->
        IF DirtyIn(a[1]) # {}
        THEN LineOf(l1[<<"D", CHOOSE c \in DirtyIn(a[1]) : TRUE>>][Index1[a[1]]],
                    a[1]).data[a[2]]
        ELSE IF Hit(l2[Index2[a[1]]], a[1])
        THEN LineOf(l2[Index2[a[1]]], a[1]).data[a[2]]
        ELSE ddr[a[1]][a[2]]]

Flat == INSTANCE FlatMemory
            WITH mem <- LogicalMem,
                 InitMem <- [a \in Addrs |-> InitDdr[a[1]][a[2]]]

----------------------------------------------------------------------------
(* Type correctness of the caches, the memory and the last access. *)
TypeOK ==
    /\ l1 \in [Ports -> [Sets1 -> CacheSet(Ways1)]]
    /\ l2 \in [Sets2 -> CacheSet(Ways2)]
    /\ ddr \in [Blocks -> [Words -> Values]]
    /\ out \in Flat!Access \union {NoAccess}

(* A set that find_entry, evict_lru_entry and the LRU list agree on: the     *)
(* list names every way once, no block has two ways, an invalid way is      *)
(* never written back, and no block strays into a set that is not its own.  *)
WellFormedSet(s, own) ==
    /\ \A w \in DOMAIN s.age : s.age[w] < Cardinality(DOMAIN s.age)
    /\ \A w, u \in DOMAIN s.lines :
        w # u => /\ s.age[w] # s.age[u]
                 /\ \/ s.lines[w].block # s.lines[u].block
                    \/ s.lines[w].block = NoBlock
    /\ \A w \in DOMAIN s.lines :
        /\ s.lines[w].block \in own \union {NoBlock}
        /\ s.lines[w].block = NoBlock => ~s.lines[w].dirty

SetsWellFormed ==
    /\ TypeOK
    /\ \A p \in Ports, i \in Sets1 :
        WellFormedSet(l1[p][i], {b \in Blocks : Index1[b] = i})
    /\ \A i \in Sets2 : WellFormedSet(l2[i], {b \in Blocks : Index2[b] = i})

(* Dropping a clean L2 line loses nothing: whatever the cores do, and though *)
(* write-through words are never marked dirty, a clean line equals DDR.     *)
CleanL2IsInDdr ==
    \A b \in Blocks :
        LET s == l2[Index2[b]]
        IN  Hit(s, b) /\ ~LineOf(s, b).dirty => LineOf(s, b).data = ddr[b]

(* What a core that misses in its L1 is given. *)
SharedData(b) ==
    IF Hit(l2[Index2[b]], b) THEN L2Data(Below, b) ELSE ddr[b]

(* A clean line of an L1 holds what a miss would fetch, so replacing it is   *)
(* invisible.  This needs the discipline of CacheDiscipline.tla: no other    *)
(* core writes the block, nor the core itself past its L1.                  *)
CleanL1IsBelow ==
    \A p \in Ports, b \in Blocks :
        LET s == SetAt(p, b)
        IN  Hit(s, b) /\ ~LineOf(s, b).dirty => LineOf(s, b).data = SharedData(b)

(* The caches implement one flat memory: every load, fetch and atomic        *)
(* operation gets the value written last, by whichever core, through hits,  *)
(* misses, write-backs and replacements at both levels.                     *)
ImplementsFlatMemory == Flat!Spec

=============================================================================

--------------------------- MODULE MmuTlbProofs ----------------------------
(***************************************************************************)
(* Type correctness and well-formedness of the TLB, for any size of the     *)
(* TLB and of the page tables, and any guest program: whatever is stored,   *)
(* remapped or switched, the TLB stays a set of entries that find_tlb_entry *)
(* can search and tlb_lru can order.  The second part is about programs that *)
(* only fill invalid entries (MapOnce): the TLB holds what a walk finds, and *)
(* no access can tell that translations are cached.                         *)
(***************************************************************************)
EXTENDS MmuTlb, WellFoundedInduction, TLAPS

USE MmuAssumption

(* The two invariants on the state of the TLB alone. *)
TlbType(t) == t \in [entry : [Ways -> TlbEntry], age : [Ways -> Nat]]

WellFormed(t) ==
    /\ \A i, j \in Ways :
            /\ t.entry[i].valid /\ t.entry[j].valid
            /\ t.entry[i].page = t.entry[j].page
            => i = j
    /\ \A i, j \in Ways : t.age[i] = t.age[j] => i = j
    /\ \A i \in Ways : t.age[i] < Entries

----------------------------------------------------------------------------
(* A nonempty set of naturals has a least element. *)
LEMMA NatMin ==
    ASSUME NEW T, T \subseteq Nat, T # {}
    PROVE  \E x \in T : \A y \in T : x <= y
<1> DEFINE R == {ss \in Nat \X Nat : ss[1] < ss[2]}
<1>1. OpToRel(<, Nat) = R
    BY DEF OpToRel
<1>2. IsWellFoundedOn(R, Nat)
    BY <1>1, NatLessThanWellFounded
<1> HIDE DEF R
<1>3. PICK x \in T : \A y \in T : ~(<<y, x>> \in R)
    BY <1>2, WFMin
<1>4. \A y \in T : ~(y < x)
    BY <1>3 DEF R
<1> QED
    BY <1>4

(* find_tlb_entry returns one of the entries that match, when there is one. *)
LEMMA FirstMatch ==
    ASSUME NEW T, T \subseteq Ways, T # {}
    PROVE  (CHOOSE i \in T : \A j \in T : i <= j) \in T
<1>1. T \subseteq Nat
    BY DEF Ways
<1>2. \E i \in T : \A j \in T : i <= j
    BY <1>1, NatMin
<1> QED
    BY <1>2

(* allocate_tlb_entry returns an entry: the list has a last element. *)
LEMMA VictimIsEntry ==
    ASSUME NEW t, TlbType(t), WellFormed(t)
    PROVE  Victim(t) \in Ways
<1> DEFINE free == {i \in Ways : ~t.entry[i].valid}
           back == {Entries - t.age[i] : i \in Ways}
<1>1. CASE free # {}
    BY <1>1, FirstMatch DEF Victim
<1>2. CASE free = {}
    <2>1. back \subseteq Nat /\ back # {}
        <3>1. \A i \in Ways : Entries - t.age[i] \in Nat
            BY DEF TlbType, WellFormed, Ways
        <3>2. 1 \in Ways
            BY DEF Ways
        <3> QED
            BY <3>1, <3>2
    <2>2. PICK x \in back : \A y \in back : x <= y
        BY <2>1, NatMin
    <2>3. PICK i \in Ways : x = Entries - t.age[i]
        BY <2>2
    <2>4. \A j \in Ways : Entries - t.age[i] <= Entries - t.age[j]
        BY <2>2, <2>3
    <2>5. \A j \in Ways : t.age[j] <= t.age[i]
        <3>1. \A j \in Ways : t.age[j] \in Nat
            BY DEF TlbType
        <3> QED
            BY <2>4, <3>1
    <2> QED
        BY <1>2, <2>5 DEF Victim
<1> QED
    BY <1>1, <1>2

(* update_tlb_lru keeps the list a list of all entries. *)
LEMMA TouchIsList ==
    ASSUME NEW age \in [Ways -> Nat], NEW i \in Ways,
           \A j, k \in Ways : age[j] = age[k] => j = k,
           \A j \in Ways : age[j] < Entries
    PROVE  /\ Touch(age, i) \in [Ways -> Nat]
           /\ \A j, k \in Ways : Touch(age, i)[j] = Touch(age, i)[k] => j = k
           /\ \A j \in Ways : Touch(age, i)[j] < Entries
BY DEF Touch

(* The parts of a virtual page number index a page table. *)
LEMMA VpnParts ==
    ASSUME NEW p \in Pages
    PROVE  p % K \in Index /\ p \div K \in Index
<1>1. p % K \in 0 .. K - 1
    BY DEF Pages
<1>2. p = (K * (p \div K)) + (p % K) /\ p \div K \in Int
    BY DEF Pages
<1>3. p \div K >= 0
    BY DEF Pages
<1>4. p \div K < K
    <2> DEFINE q == p \div K
    <2>1. q \in Int /\ K * q <= p /\ p < K * K
        BY <1>1, <1>2 DEF Pages
    <2>3. K \in Nat
        OBVIOUS
    <2> HIDE DEF q
    <2>2. ASSUME q >= K PROVE K * q >= K * K
        BY <2>1, <2>2, <2>3
    <2>4. q < K
        <3> DEFINE kq == K * q
                   kk == K * K
        <3>1. kq \in Int /\ kk \in Int /\ p \in Int
            BY <2>1, <2>3 DEF Pages
        <3>2. ~(kq >= kk)
            <4> HIDE DEF kq, kk
            <4> QED
                BY <2>1, <3>1 DEF kq, kk
        <3> QED
            BY <2>1, <2>2, <2>3, <3>2
    <2> QED
        BY <2>4 DEF q
<1> QED
    BY <1>1, <1>2, <1>3, <1>4 DEF Index

(* A walk finds an entry of the type of entries. *)
LEMMA WalkType ==
    ASSUME NEW tables \in Tables, NEW root \in Pages, NEW p \in Pages
    PROVE  Walk(tables, root, p) \in Pte
<1>1. p % K \in Index /\ p \div K \in Index
    BY VpnParts
<1>2. NoPte \in Pte
    BY DEF NoPte, Pte, Pages
<1>3. \A f \in Pages, i \in Index : tables[f][i] \in Pte
    BY DEF Tables
<1>4. \A e \in Pte : e.frame \in Pages
    BY DEF Pte
<1> QED
    BY <1>1, <1>2, <1>3, <1>4 DEF Walk

(* load_tlb_entry, called only for a page without an entry. *)
LEMMA LoadEntryKeeps ==
    ASSUME NEW t, TlbType(t), WellFormed(t), NEW p \in Pages, NEW pte \in Pte,
           Matches(t, p) = {}
    PROVE  TlbType(LoadEntry(t, p, pte)) /\ WellFormed(LoadEntry(t, p, pte))
<1> DEFINE i == Victim(t)
           new == [valid |-> TRUE, page |-> p,
                   frame |-> pte.frame, writable |-> pte.w]
           u == LoadEntry(t, p, pte)
<1>1. i \in Ways
    BY VictimIsEntry
<1>2. new \in TlbEntry
    BY DEF TlbEntry, Pte
<1>3. /\ t.entry \in [Ways -> TlbEntry]
      /\ t.age \in [Ways -> Nat]
    BY DEF TlbType
<1>4. u = [entry |-> [t.entry EXCEPT ![i] = new], age |-> Touch(t.age, i)]
    BY DEF LoadEntry
<1>5. /\ u.age \in [Ways -> Nat]
      /\ \A j, k \in Ways : u.age[j] = u.age[k] => j = k
      /\ \A j \in Ways : u.age[j] < Entries
    BY <1>1, <1>3, <1>4, TouchIsList DEF WellFormed
<1> HIDE DEF i, new
<1>6. /\ u.entry \in [Ways -> TlbEntry]
      /\ u.entry[i] = new
      /\ \A j \in Ways \ {i} : u.entry[j] = t.entry[j]
    BY <1>1, <1>2, <1>3, <1>4
<1>7. new.page = p
    BY DEF new
<1>8. \A j \in Ways : t.entry[j].valid => t.entry[j].page # p
    BY DEF Matches
<1>9. \A j, k \in Ways : /\ u.entry[j].valid /\ u.entry[k].valid
                         /\ u.entry[j].page = u.entry[k].page
                         => j = k
    BY <1>6, <1>7, <1>8 DEF WellFormed
<1>10. u \in [entry : [Ways -> TlbEntry], age : [Ways -> Nat]]
    BY <1>4, <1>5, <1>6
<1> QED
    BY <1>5, <1>9, <1>10 DEF TlbType, WellFormed

(* translate_address, whatever the page tables say. *)
LEMMA TranslateKeeps ==
    ASSUME base \in Pages, memory \in Tables, NEW t, TlbType(t), WellFormed(t),
           NEW p \in Pages, NEW write \in BOOLEAN
    PROVE  /\ TlbType(Translate(t, p, write).tlb)
           /\ WellFormed(Translate(t, p, write).tlb)
           /\ Translate(t, p, write).fault \in BOOLEAN
           /\ Translate(t, p, write).frame \in Pages
<1> DEFINE hits == Matches(t, p)
           i == CHOOSE j \in hits : \A k \in hits : j <= k
           pte == Walk(memory, base, p)
           denied == ~pte.v \/ (write /\ ~pte.w)
           touched == [t EXCEPT !.age = Touch(@, i)]
<1>1. pte \in Pte
    BY WalkType
<1>2. denied \in BOOLEAN /\ pte.frame \in Pages
    BY <1>1 DEF Pte
<1>3. /\ t.entry \in [Ways -> TlbEntry]
      /\ t.age \in [Ways -> Nat]
      /\ t = [entry |-> t.entry, age |-> t.age]
    BY DEF TlbType
<1>4. CASE base = 0
    BY <1>4 DEF Translate
<1>5. CASE base # 0 /\ hits # {}
    <2>1. i \in Ways
        <3>1. hits \subseteq Ways
            BY DEF Matches
        <3>2. i \in hits
            BY <1>5, <3>1, FirstMatch
        <3> QED
            BY <3>1, <3>2
    <2> HIDE DEF i
    <2>2. touched = [entry |-> t.entry, age |-> Touch(t.age, i)]
        BY <1>3
    <2>3. /\ touched.age \in [Ways -> Nat]
          /\ \A j, k \in Ways : touched.age[j] = touched.age[k] => j = k
          /\ \A j \in Ways : touched.age[j] < Entries
        BY <1>3, <2>1, <2>2, TouchIsList DEF WellFormed
    <2>4. TlbType(touched) /\ WellFormed(touched)
        BY <1>3, <2>2, <2>3 DEF TlbType, WellFormed
    <2>5. (write /\ ~t.entry[i].writable) \in BOOLEAN /\ t.entry[i].frame \in Pages
        BY <1>3, <2>1 DEF TlbEntry
    <2>6. Translate(t, p, write) =
              [tlb |-> touched, fault |-> write /\ ~t.entry[i].writable,
               frame |-> t.entry[i].frame]
        BY <1>5 DEF Translate, i
    <2> QED
        BY <2>4, <2>5, <2>6
<1>6. CASE base # 0 /\ hits = {}
    <2>1. Translate(t, p, write) =
              [tlb |-> IF denied THEN t ELSE LoadEntry(t, p, pte),
               fault |-> denied, frame |-> pte.frame]
        BY <1>6 DEF Translate
    <2>2. TlbType(LoadEntry(t, p, pte)) /\ WellFormed(LoadEntry(t, p, pte))
        BY <1>1, <1>6, LoadEntryKeeps
    <2> HIDE DEF pte, denied
    <2> QED
        BY <1>2, <2>1, <2>2
<1> QED
    BY <1>4, <1>5, <1>6

----------------------------------------------------------------------------
(* The inductive invariant: replacement and search only work on a TLB that   *)
(* is typed and well formed, so the two are proved together.                *)
Inv == TypeOK /\ TlbWellFormed

LEMMA InitInv == Init => Inv
<1> SUFFICES ASSUME Init PROVE Inv
    OBVIOUS
<1>1. 0 \in Pages /\ NoPte \in Pte
    BY DEF Pages, NoPte, Pte
<1>2. program \in Programs /\ program.image \in Tables
    BY MmuAssumption DEF Init, Program
<1>3. tlb \in [entry : [Ways -> TlbEntry], age : [Ways -> Nat]]
    BY <1>1 DEF Init, TlbEntry, Ways
<1>4. /\ program \in Programs /\ base \in Pages
      /\ stored \in Tables /\ memory \in Tables
    BY <1>1, <1>2 DEF Init
<1>5. access \in Access \union {NoAccess}
    BY DEF Init
<1>6. stores \in 0 .. MaxStores
    BY DEF Init
<1>7. TypeOK
    BY <1>3, <1>4, <1>5, <1>6 DEF TypeOK
<1>8. TlbWellFormed
    BY DEF Init, TlbWellFormed, Ways
<1> QED
    BY <1>7, <1>8 DEF Inv

LEMMA NextInv == Inv /\ [Next]_vars => Inv'
<1> SUFFICES ASSUME Inv, [Next]_vars PROVE Inv'
    OBVIOUS
<1>1. TlbType(tlb) /\ WellFormed(tlb)
    BY DEF Inv, TypeOK, TlbWellFormed, TlbType, WellFormed
<1>2. base \in Pages /\ memory \in Tables /\ stored \in Tables
    BY DEF Inv, TypeOK
<1>3. \A u : TlbType(u) /\ WellFormed(u) /\ tlb' = u =>
            /\ (tlb \in [entry : [Ways -> TlbEntry], age : [Ways -> Nat]])'
            /\ TlbWellFormed'
    BY DEF TlbWellFormed, TlbType, WellFormed
<1>4. \A p \in Pages, write \in BOOLEAN, fault \in BOOLEAN,
        reached \in Pages \union {NoPage} :
            Made(p, write, fault, reached) \in Access
    BY DEF Made, Access
<1>5. ASSUME NEW p \in Pages, NEW write \in BOOLEAN,
             CachedAccess(p, write)
      PROVE  Inv'
    <2> DEFINE r == Translate(tlb, p, write)
    <2>1. /\ TlbType(r.tlb) /\ WellFormed(r.tlb)
          /\ r.fault \in BOOLEAN /\ r.frame \in Pages
        BY <1>1, <1>2, TranslateKeeps
    <2> HIDE DEF r
    <2>2. Reached(r, p) \in Pages /\ StoreReached(r, p) \in Pages
        BY <2>1 DEF Reached, StoreReached
    <2>3. access' \in Access /\ tlb' = r.tlb
        BY <1>4, <1>5, <2>1, <2>2 DEF CachedAccess, r
    <2> QED
        BY <1>3, <1>5, <2>1, <2>3 DEF CachedAccess, Inv, TypeOK
<1>6. ASSUME NEW p \in Pages, NEW write \in BOOLEAN,
             UncachedAccess(p, write)
      PROVE  Inv'
    <2> DEFINE r == Translate(tlb, p, write)
    <2>1. /\ TlbType(r.tlb) /\ WellFormed(r.tlb)
          /\ r.fault \in BOOLEAN /\ r.frame \in Pages
        BY <1>1, <1>2, TranslateKeeps
    <2> HIDE DEF r
    <2>2. access' \in Access /\ tlb' = r.tlb
        BY <1>4, <1>6, <2>1 DEF UncachedAccess, r
    <2> QED
        BY <1>3, <1>6, <2>1, <2>2 DEF UncachedAccess, Inv, TypeOK
<1>7. ASSUME NEW p \in Pages, NEW write \in BOOLEAN,
             AtomicAccess(p, write)
      PROVE  Inv'
    <2> DEFINE core == Translate(tlb, p, FALSE)
               r == Translate(core.tlb, p, write)
    <2>1. TlbType(core.tlb) /\ WellFormed(core.tlb)
        BY <1>1, <1>2, TranslateKeeps
    <2>2. /\ TlbType(r.tlb) /\ WellFormed(r.tlb)
          /\ r.fault \in BOOLEAN /\ r.frame \in Pages
        BY <1>2, <2>1, TranslateKeeps
    <2> HIDE DEF r, core
    <2>3. Reached(r, p) \in Pages
        BY <2>2 DEF Reached
    <2>4. access' \in Access /\ (tlb' = core.tlb \/ tlb' = r.tlb)
        BY <1>4, <1>7, <2>2, <2>3 DEF AtomicAccess, r, core
    <2> QED
        BY <1>3, <1>7, <2>1, <2>2, <2>4 DEF AtomicAccess, Inv, TypeOK
<1>8. ASSUME NEW p \in Pages, NEW i \in Index, NEW pte \in Ptes,
             StorePte(p, i, pte)
      PROVE  Inv'
    <2> DEFINE r == Translate(tlb, p, TRUE)
    <2>1. /\ TlbType(r.tlb) /\ WellFormed(r.tlb)
          /\ r.fault \in BOOLEAN /\ r.frame \in Pages
        BY <1>1, <1>2, TranslateKeeps
    <2> HIDE DEF r
    <2> DEFINE f == StoreReached(r, p)
    <2>2. f \in Pages
        BY <2>1 DEF Reached, StoreReached
    <2> HIDE DEF f
    <2>3. /\ tlb' = r.tlb
          /\ access' = Made(p, TRUE, r.fault, f)
          /\ stored' = [stored EXCEPT ![f][i] = pte]
          /\ stores < MaxStores /\ stores' = stores + 1
          /\ UNCHANGED <<program, base, memory>>
        BY <1>8 DEF StorePte, r, f
    <2>4. access' \in Access
        BY <1>4, <2>1, <2>2, <2>3
    <2>5. stored' \in Tables
        BY <1>2, <2>2, <2>3 DEF Tables
    <2>6. stores' \in 0 .. MaxStores
        BY <2>3 DEF Inv, TypeOK
    <2> QED
        BY <1>3, <2>1, <2>3, <2>4, <2>5, <2>6 DEF Inv, TypeOK
<1>9. ASSUME NEW p \in Pages, NEW i \in Index, NEW pte \in Ptes,
             StorePteUncached(p, i, pte)
      PROVE  Inv'
    <2> DEFINE r == Translate(tlb, p, TRUE)
    <2>1. TlbType(r.tlb) /\ WellFormed(r.tlb) /\ r.frame \in Pages
        BY <1>1, <1>2, TranslateKeeps
    <2>2. /\ tlb' = r.tlb
          /\ access' = NoAccess
          /\ memory' = [memory EXCEPT ![r.frame][i] = pte]
          /\ stored' = [stored EXCEPT ![r.frame][i] = pte]
          /\ stores < MaxStores /\ stores' = stores + 1
          /\ UNCHANGED <<program, base>>
        BY <1>9 DEF StorePteUncached
    <2> HIDE DEF r
    <2>3. pte \in Pte
        BY MmuAssumption
    <2>4. memory' \in Tables /\ stored' \in Tables
        BY <1>2, <2>1, <2>2, <2>3 DEF Tables
    <2>5. stores' \in 0 .. MaxStores
        BY <2>2 DEF Inv, TypeOK
    <2> QED
        BY <1>3, <2>1, <2>2, <2>4, <2>5 DEF Inv, TypeOK
<1>10. ASSUME NEW f \in Pages, WriteSatp(f)
       PROVE  Inv'
    BY <1>1, <1>3, <1>10 DEF WriteSatp, Inv, TypeOK
<1>11. ASSUME SfenceVma
       PROVE  Inv'
    BY <1>1, <1>3, <1>11 DEF SfenceVma, Inv, TypeOK
<1>12. ASSUME UNCHANGED vars
       PROVE  Inv'
    BY <1>1, <1>3, <1>12 DEF vars, Inv, TypeOK
<1> QED
    BY <1>5, <1>6, <1>7, <1>8, <1>9, <1>10, <1>11, <1>12 DEF Next

(* Type correctness of the MMU for any size and program: every walk, hit and *)
(* replacement of translate_address finds a page and an entry of the TLB.   *)
THEOREM TypeCorrect == Spec => []TypeOK
<1>1. Inv => TypeOK
    BY DEF Inv
<1> QED
    BY <1>1, InitInv, NextInv, PTL DEF Spec

(* No sequence of hits, loads and replacements, of page-table changes and     *)
(* satp writes, gives a page two entries or drops an entry from tlb_lru.    *)
THEOREM TlbWellFormedHolds == Spec => []TlbWellFormed
<1>1. Inv => TlbWellFormed
    BY DEF Inv
<1> QED
    BY <1>1, InitInv, NextInv, PTL DEF Spec

----------------------------------------------------------------------------
(***************************************************************************)
(* The TLB holds what the page tables give, for any size of both, as long   *)
(* as the program keeps to what the MMU can follow without SFENCE.VMA and   *)
(* without coherent walks: it fills invalid entries, under one root, in     *)
(* tables of one kind.                                                      *)
(***************************************************************************)

(* Root r points to second-level tables only, or it is the only table and     *)
(* holds leaves.                                                            *)
TwoLevels(g, r) == \A s \in g.stores : s[1] = r => ~s[3].leaf
OneLevel(g, r) == \A s \in g.stores : s[1] = r /\ s[3].leaf

(* The tables s hold nothing but entries that program g stores. *)
StoredBy(g, s) ==
    \A f \in Pages, i \in Index : s[f][i].v => <<f, i, s[f][i]>> \in g.stores

MapOnce ==
    \A g \in Programs :
        /\ g.once
        /\ StoredBy(g, g.image)
        /\ \A r, q \in g.roots \ {0} : r = q
        /\ \A r \in g.roots \ {0} : TwoLevels(g, r) \/ OneLevel(g, r)

(* Every valid entry of m is in s: s is what m becomes by further stores. *)
Below(m, s) ==
    \A f \in Pages, i \in Index : m[f][i].v => s[f][i] = m[f][i]

Gives(tables, root, e) ==
    LET pte == Walk(tables, root, e.page)
    IN  pte.v /\ pte.frame = e.frame /\ pte.w = e.writable

Fresh(tables, t, root) ==
    \A i \in Ways : t.entry[i].valid => Gives(tables, root, t.entry[i])

(* The inductive invariant: what the walk reads is behind the stored tables   *)
(* and not beside them, which hold nothing but what the program stores.     *)
FreshInv ==
    /\ Inv
    /\ base \in program.roots \union {0}
    /\ Below(memory, stored)
    /\ StoredBy(program, stored)
    /\ \A root \in program.roots \ {0} : Fresh(memory, tlb, root)

----------------------------------------------------------------------------
(* A translation that exists stays when entries are filled in, in tables of   *)
(* one kind.                                                                *)
LEMMA WalkStays ==
    ASSUME NEW m \in Tables, NEW s \in Tables, Below(m, s),
           NEW g, NEW root \in Pages, NEW p \in Pages, StoredBy(g, s),
           TwoLevels(g, root) \/ OneLevel(g, root),
           Walk(m, root, p).v
    PROVE  Walk(s, root, p) = Walk(m, root, p)
<1> DEFINE v0 == p % K
           v1 == p \div K
           direct == m[root][v0]
           first == m[root][v1]
<1>1. v0 \in Index /\ v1 \in Index
    BY VpnParts
<1> HIDE DEF v0, v1
<1>2. /\ \A f \in Pages, i \in Index : m[f][i] \in Pte /\ s[f][i] \in Pte
      /\ \A e \in Pte : e.frame \in Pages /\ e.v \in BOOLEAN /\ e.leaf \in BOOLEAN
    BY DEF Tables, Pte
<1>3. Walk(m, root, p) = IF v1 = 0 /\ direct.v /\ direct.leaf THEN direct
                         ELSE IF ~first.v THEN NoPte ELSE m[first.frame][v0]
    BY DEF Walk, v0, v1
<1>4. Walk(s, root, p) =
        IF v1 = 0 /\ s[root][v0].v /\ s[root][v0].leaf THEN s[root][v0]
        ELSE IF ~s[root][v1].v THEN NoPte ELSE s[s[root][v1].frame][v0]
    BY DEF Walk, v0, v1
<1>5. ~NoPte.v
    BY DEF NoPte
<1>6. CASE v1 = 0 /\ direct.v /\ direct.leaf
    <2>1. s[root][v0] = direct
        BY <1>1, <1>6 DEF Below
    <2> QED
        BY <1>3, <1>4, <1>6, <2>1
<1>7. CASE ~(v1 = 0 /\ direct.v /\ direct.leaf)
    <2>1. first.v /\ m[first.frame][v0].v /\ first.frame \in Pages
        BY <1>1, <1>2, <1>3, <1>5, <1>7
    <2>2. s[root][v1] = first /\ s[first.frame][v0] = m[first.frame][v0]
        BY <1>1, <2>1 DEF Below
    <2>3. ~(v1 = 0 /\ s[root][v0].v /\ s[root][v0].leaf)
        <3> SUFFICES ASSUME v1 = 0, s[root][v0].v, s[root][v0].leaf
                     PROVE  FALSE
            OBVIOUS
        <3>1. <<root, v0, s[root][v0]>> \in g.stores
            BY <1>1 DEF StoredBy
        <3>2. OneLevel(g, root)
            BY <3>1 DEF TwoLevels
        <3>3. <<first.frame, v0, s[first.frame][v0]>> \in g.stores
            BY <1>1, <2>1, <2>2 DEF StoredBy
        <3>4. first.frame = root
            BY <3>2, <3>3 DEF OneLevel
        <3>5. direct.v /\ s[root][v0] = direct
            BY <2>1, <2>2, <3>4
        <3> QED
            BY <1>7, <3>5
    <2> QED
        BY <1>3, <1>4, <1>7, <2>1, <2>2, <2>3
<1> QED
    BY <1>6, <1>7

(* translate_address loads only what its walk has found. *)
LEMMA TranslateFresh ==
    ASSUME memory \in Tables, NEW root \in Pages, base = 0 \/ base = root,
           NEW t, TlbType(t), WellFormed(t), Fresh(memory, t, root),
           NEW p \in Pages, NEW write \in BOOLEAN
    PROVE  Fresh(memory, Translate(t, p, write).tlb, root)
<1> DEFINE hits == Matches(t, p)
           i == CHOOSE j \in hits : \A k \in hits : j <= k
           pte == Walk(memory, base, p)
           denied == ~pte.v \/ (write /\ ~pte.w)
           r == Translate(t, p, write)
<1>1. CASE base = 0
    BY <1>1 DEF Translate
<1>2. CASE base # 0 /\ hits # {}
    <2>1. r.tlb = [t EXCEPT !.age = Touch(@, i)]
        BY <1>2 DEF Translate
    <2>2. r.tlb.entry = t.entry
        BY <2>1 DEF TlbType
    <2> HIDE DEF r
    <2> QED
        BY <2>2 DEF Fresh, r
<1>3. CASE base # 0 /\ hits = {} /\ denied
    BY <1>3 DEF Translate
<1>4. CASE base # 0 /\ hits = {} /\ ~denied
    <2> DEFINE w == Victim(t)
               new == [valid |-> TRUE, page |-> p,
                       frame |-> pte.frame, writable |-> pte.w]
    <2>1. r.tlb = LoadEntry(t, p, pte)
        BY <1>4 DEF Translate
    <2>2. r.tlb.entry = [t.entry EXCEPT ![w] = new]
        BY <2>1 DEF LoadEntry
    <2>3. w \in Ways
        BY VictimIsEntry
    <2>4. Gives(memory, root, new)
        BY <1>4 DEF Gives
    <2> HIDE DEF r, w, new
    <2>5. \A j \in Ways : r.tlb.entry[j] = IF j = w THEN new ELSE t.entry[j]
        BY <2>2, <2>3 DEF TlbType
    <2> QED
        BY <2>4, <2>5 DEF Fresh, r
<1> QED
    BY <1>1, <1>2, <1>3, <1>4

----------------------------------------------------------------------------
LEMMA InitFresh ==
    ASSUME MapOnce, Init
    PROVE  FreshInv
<1>1. Inv
    BY InitInv
<1>3. Below(memory, stored) /\ StoredBy(program, stored)
    BY DEF Init, Below, MapOnce
<1>4. \A root \in program.roots \ {0} : Fresh(memory, tlb, root)
    BY DEF Init, Fresh
<1> QED
    BY <1>1, <1>3, <1>4 DEF Init, FreshInv

LEMMA NextFresh ==
    ASSUME MapOnce, FreshInv, [Next]_vars
    PROVE  FreshInv'
<1> DEFINE Roots == program.roots \ {0}
<1>1. Inv'
    BY NextInv DEF FreshInv
<1>2. /\ TlbType(tlb) /\ WellFormed(tlb)
      /\ base \in Pages /\ memory \in Tables /\ stored \in Tables
    BY DEF FreshInv, Inv, TypeOK, TlbWellFormed, TlbType, WellFormed
<1>3. /\ program \in Programs /\ program.once
      /\ \A r, q \in Roots : r = q
      /\ \A r \in Roots : TwoLevels(program, r) \/ OneLevel(program, r)
    BY DEF MapOnce, FreshInv, Inv, TypeOK
<1>4. \A r \in Roots : r \in Pages /\ (base = 0 \/ base = r)
    <2>1. program.roots \subseteq Pages
        BY <1>3, MmuAssumption DEF Program
    <2> QED
        BY <1>3, <2>1 DEF FreshInv
<1>5. \A p \in Pages, write \in BOOLEAN : \A t :
        TlbType(t) /\ WellFormed(t) /\ (\A r \in Roots : Fresh(memory, t, r)) =>
            \A r \in Roots : Fresh(memory, Translate(t, p, write).tlb, r)
    BY <1>2, <1>4, TranslateFresh
<1>6. \A r \in Roots : Fresh(memory, tlb, r)
    BY DEF FreshInv
<1>7. ASSUME NEW u, \A r \in Roots : Fresh(memory, u, r), tlb' = u,
             UNCHANGED <<program, base, stored, memory>>
      PROVE  FreshInv'
    <2>1. \A r \in program'.roots \ {0} : Fresh(memory', tlb', r)
        BY <1>7
    <2> QED
        BY <1>1, <1>7, <2>1 DEF FreshInv, Below, StoredBy
<1>8. ASSUME NEW p \in Pages, NEW write \in BOOLEAN,
             CachedAccess(p, write) \/ UncachedAccess(p, write)
      PROVE  FreshInv'
    <2> DEFINE u == Translate(tlb, p, write).tlb
    <2>1. \A r \in Roots : Fresh(memory, u, r)
        BY <1>2, <1>5, <1>6
    <2>2. tlb' = u /\ UNCHANGED <<program, base, stored, memory>>
        BY <1>8 DEF CachedAccess, UncachedAccess
    <2> HIDE DEF u
    <2> QED
        BY <1>7, <2>1, <2>2
<1>9. ASSUME NEW p \in Pages, NEW write \in BOOLEAN,
             AtomicAccess(p, write)
      PROVE  FreshInv'
    <2> DEFINE core == Translate(tlb, p, FALSE).tlb
               u == Translate(core, p, write).tlb
    <2>1. TlbType(core) /\ WellFormed(core)
        BY <1>2, TranslateKeeps
    <2>2. \A r \in Roots : Fresh(memory, core, r)
        BY <1>2, <1>5, <1>6
    <2>3. /\ tlb' = core \/ tlb' = u
          /\ UNCHANGED <<program, base, stored, memory>>
        BY <1>9 DEF AtomicAccess
    <2> HIDE DEF core
    <2>4. \A r \in Roots : Fresh(memory, u, r)
        BY <1>5, <2>1, <2>2
    <2> HIDE DEF u
    <2> QED
        BY <1>7, <2>2, <2>3, <2>4
<1>10. ASSUME NEW p \in Pages, NEW i \in Index, NEW pte \in Ptes,
              StorePte(p, i, pte)
       PROVE  FreshInv'
    <2> DEFINE r == Translate(tlb, p, TRUE)
               f == StoreReached(r, p)
    <2>1. r.frame \in Pages
        BY <1>2, TranslateKeeps
    <2>2. f \in Pages
        BY <2>1 DEF StoreReached, Reached
    <2>3. \A q \in Roots : Fresh(memory, r.tlb, q)
        BY <1>2, <1>5, <1>6
    <2>4. /\ tlb' = r.tlb
          /\ <<f, i, pte>> \in program.stores
          /\ program.once => ~stored[f][i].v
          /\ stored' = [stored EXCEPT ![f][i] = pte]
          /\ UNCHANGED <<program, base, memory>>
        BY <1>10 DEF StorePte
    <2> HIDE DEF r, f
    <2>5. \A g \in Pages, j \in Index :
            stored'[g][j] = IF g = f /\ j = i THEN pte ELSE stored[g][j]
        BY <1>2, <2>2, <2>4 DEF Tables
    <2>6. Below(memory, stored)'
        <3>1. ~memory[f][i].v
            BY <1>3, <2>2, <2>4 DEF FreshInv, Below
        <3> QED
            BY <2>4, <2>5, <3>1 DEF FreshInv, Below
    <2>7. StoredBy(program, stored)'
        BY <2>4, <2>5 DEF FreshInv, StoredBy
    <2>8. \A q \in program'.roots \ {0} : Fresh(memory', tlb', q)
        BY <2>3, <2>4
    <2> QED
        BY <1>1, <2>4, <2>6, <2>7, <2>8 DEF FreshInv
<1>11. ASSUME NEW p \in Pages, NEW i \in Index, NEW pte \in Ptes,
              StorePteUncached(p, i, pte)
       PROVE  FreshInv'
    <2> DEFINE r == Translate(tlb, p, TRUE)
               f == r.frame
    <2>1. f \in Pages
        BY <1>2, TranslateKeeps
    <2>2. \A q \in Roots : Fresh(memory, r.tlb, q)
        BY <1>2, <1>5, <1>6
    <2>3. TlbType(r.tlb)
        BY <1>2, TranslateKeeps
    <2>4. /\ tlb' = r.tlb
          /\ <<f, i, pte>> \in program.stores
          /\ program.once => ~stored[f][i].v
          /\ memory' = [memory EXCEPT ![f][i] = pte]
          /\ stored' = [stored EXCEPT ![f][i] = pte]
          /\ UNCHANGED <<program, base>>
        BY <1>11 DEF StorePteUncached
    <2> HIDE DEF r, f
    <2>5. \A g \in Pages, j \in Index :
            /\ memory'[g][j] = IF g = f /\ j = i THEN pte ELSE memory[g][j]
            /\ stored'[g][j] = IF g = f /\ j = i THEN pte ELSE stored[g][j]
        BY <1>2, <2>1, <2>4 DEF Tables
    <2>6. Below(memory', stored') /\ Below(memory, memory')
        <3>1. ~memory[f][i].v
            BY <1>3, <2>1, <2>4 DEF FreshInv, Below
        <3> QED
            BY <2>5, <3>1 DEF FreshInv, Below
    <2>7. StoredBy(program, stored')
        BY <2>4, <2>5 DEF FreshInv, StoredBy
    <2>8. memory' \in Tables
        BY <1>1 DEF Inv, TypeOK
    <2>9. StoredBy(program, memory')
        BY <2>6, <2>7 DEF Below, StoredBy
    <2>10. ASSUME NEW q \in Roots
           PROVE  Fresh(memory', tlb', q)
        <3>1. ASSUME NEW j \in Ways, r.tlb.entry[j].valid
              PROVE  Gives(memory', q, r.tlb.entry[j])
            <4>1. Gives(memory, q, r.tlb.entry[j])
                BY <2>2, <3>1 DEF Fresh
            <4>2. r.tlb.entry[j].page \in Pages
                BY <2>3 DEF TlbType, TlbEntry
            <4>3. Walk(memory', q, r.tlb.entry[j].page)
                      = Walk(memory, q, r.tlb.entry[j].page)
                BY <1>2, <1>3, <1>4, <2>6, <2>8, <2>9, <4>1, <4>2, WalkStays
                   DEF Gives
            <4> QED
                BY <4>1, <4>3 DEF Gives
        <3> QED
            BY <2>4, <3>1 DEF Fresh
    <2> QED
        BY <1>1, <2>4, <2>6, <2>7, <2>10 DEF FreshInv
<1>12. ASSUME NEW f \in Pages, WriteSatp(f)
       PROVE  FreshInv'
    <2>1. /\ base' \in program.roots
          /\ UNCHANGED <<program, tlb, stored, memory>>
        BY <1>12 DEF WriteSatp
    <2>2. \A r \in program'.roots \ {0} : Fresh(memory', tlb', r)
        BY <1>6, <2>1
    <2> QED
        BY <1>1, <2>1, <2>2 DEF FreshInv, Below, StoredBy
<1>13. ASSUME SfenceVma \/ UNCHANGED vars
       PROVE  FreshInv'
    <2>1. tlb' = tlb /\ UNCHANGED <<program, base, stored, memory>>
        BY <1>13 DEF SfenceVma, vars
    <2> QED
        BY <1>6, <1>7, <2>1
<1> QED
    BY <1>8, <1>9, <1>10, <1>11, <1>12, <1>13 DEF Next

(* For a program that only fills in mappings, every TLB entry is what a walk  *)
(* would find now, in the memory of the simulator and in the tables as      *)
(* stored, however each entry was stored and whenever pages are first used.  *)
THEOREM TlbFreshHolds ==
    ASSUME MapOnce
    PROVE  Spec => []TlbFresh
<1>1. FreshInv => TlbFresh
    <2> SUFFICES ASSUME FreshInv, NEW i \in Ways, NEW root \in program.roots \ {0},
                        tlb.entry[i].valid
                 PROVE  Gives(memory, root, tlb.entry[i])
                        /\ Gives(stored, root, tlb.entry[i])
        BY DEF TlbFresh, Gives
    <2>1. Gives(memory, root, tlb.entry[i])
        BY DEF FreshInv, Fresh
    <2>2. /\ memory \in Tables /\ stored \in Tables
          /\ TlbType(tlb) /\ program \in Programs
        BY DEF FreshInv, Inv, TypeOK, TlbType
    <2>3. tlb.entry[i].page \in Pages
        BY <2>2 DEF TlbType, TlbEntry
    <2>4. root \in Pages
        BY <2>2, MmuAssumption DEF Program
    <2>5. TwoLevels(program, root) \/ OneLevel(program, root)
        BY <2>2 DEF MapOnce
    <2>6. Below(memory, stored) /\ StoredBy(program, stored)
        BY DEF FreshInv
    <2>7. Walk(stored, root, tlb.entry[i].page)
              = Walk(memory, root, tlb.entry[i].page)
        BY <2>1, <2>2, <2>3, <2>4, <2>5, <2>6, WalkStays DEF Gives
    <2> QED
        BY <2>1, <2>7 DEF Gives
<1>2. FreshInv /\ [Next]_vars => FreshInv'
    BY NextFresh
<1> QED
    BY <1>1, <1>2, InitFresh, PTL DEF Spec

----------------------------------------------------------------------------
(* A translation ends as a walk would, whether the TLB has the page or not.   *)
LEMMA TranslateAsWalk ==
    ASSUME base # 0, NEW t, Fresh(memory, t, base),
           NEW p \in Pages, NEW write \in BOOLEAN
    PROVE  LET r == Translate(t, p, write)
           IN  /\ r.fault <=> Faults(memory, p, write)
               /\ ~r.fault => r.frame = Walk(memory, base, p).frame
<1> DEFINE hits == Matches(t, p)
           i == CHOOSE j \in hits : \A k \in hits : j <= k
           r == Translate(t, p, write)
<1>1. CASE hits = {}
    BY <1>1 DEF Translate, Faults
<1>2. CASE hits # {}
    <2>1. hits \subseteq Nat
        BY DEF Matches, Ways
    <2>2. i \in hits
        <3> HIDE DEF hits
        <3> QED
            BY <1>2, <2>1, NatMin
    <2>3. Gives(memory, base, t.entry[i]) /\ t.entry[i].page = p
        BY <2>2 DEF Matches, Fresh
    <2>4. /\ r.fault = (write /\ ~t.entry[i].writable)
          /\ r.frame = t.entry[i].frame
        BY <1>2 DEF Translate
    <2> HIDE DEF i, r
    <2>5. r.fault <=> Faults(memory, p, write)
        BY <2>3, <2>4, Zenon DEF Gives, Faults
    <2> QED
        BY <2>3, <2>4, <2>5 DEF Gives, r
<1> QED
    BY <1>1, <1>2

(* What TlbTransparent says of access a. *)
Transparent(a) ==
    (a # NoAccess /\ base # 0) =>
        /\ a.fault <=> Faults(memory, a.page, a.write)
        /\ \/ a.fault
           \/ a.write /\ a.page = TablePage
           \/ a.reached = Walk(memory, base, a.page).frame

LEMMA NextTransparent ==
    ASSUME FreshInv, Transparent(access), [Next]_vars
    PROVE  Transparent(access)'
<1>1. /\ \A q \in program.roots \ {0} : Fresh(memory, tlb, q)
      /\ base # 0 => Fresh(memory, tlb, base)
      /\ TlbType(tlb) /\ WellFormed(tlb) /\ base \in Pages /\ memory \in Tables
    BY DEF FreshInv, Inv, TypeOK, TlbWellFormed, TlbType, WellFormed
<1>2. ASSUME NEW p \in Pages, NEW write \in BOOLEAN, NEW fault \in BOOLEAN,
             NEW reached, access' = Made(p, write, fault, reached),
             UNCHANGED <<base, memory>>,
             base # 0 => /\ fault <=> Faults(memory, p, write)
                         /\ \/ fault
                            \/ write /\ p = TablePage
                            \/ reached = Walk(memory, base, p).frame
      PROVE  Transparent(access)'
    <2>1. /\ access'.page = p /\ access'.write = write
          /\ access'.fault = fault /\ access'.reached = reached
        BY <1>2 DEF Made
    <2>2. Faults(memory, p, write)' <=> Faults(memory, p, write)
        BY <1>2 DEF Faults, Walk
    <2>3. Walk(memory, base, p)' = Walk(memory, base, p)
        BY <1>2 DEF Walk
    <2>4. base' # 0 =>
            /\ access'.fault <=> Faults(memory, p, write)'
            /\ \/ access'.fault
               \/ access'.write /\ access'.page = TablePage
               \/ access'.reached = Walk(memory, base, p)'.frame
        BY <1>2, <2>1, <2>2, <2>3
    <2> QED
        BY <2>1, <2>4 DEF Transparent
<1>3. ASSUME NEW p \in Pages, NEW write \in BOOLEAN, CachedAccess(p, write)
      PROVE  Transparent(access)'
    <2> DEFINE r == Translate(tlb, p, write)
               reached == IF write THEN StoreReached(r, p) ELSE Reached(r, p)
    <2>1. base # 0 => /\ r.fault <=> Faults(memory, p, write)
                      /\ ~r.fault => r.frame = Walk(memory, base, p).frame
        BY <1>1, TranslateAsWalk
    <2>2. r.fault \in BOOLEAN
        BY <1>1, TranslateKeeps
    <2>3. access' = Made(p, write, r.fault, reached) /\ UNCHANGED <<base, memory>>
        BY <1>3 DEF CachedAccess
    <2>4. \/ r.fault
          \/ write /\ p = TablePage
          \/ reached = r.frame
        BY DEF StoreReached, Reached
    <2> HIDE DEF r, reached
    <2> QED
        BY <1>2, <2>1, <2>2, <2>3, <2>4
<1>4. ASSUME NEW p \in Pages, NEW write \in BOOLEAN, UncachedAccess(p, write)
      PROVE  Transparent(access)'
    <2> DEFINE r == Translate(tlb, p, write)
               reached == IF r.fault THEN NoPage ELSE r.frame
    <2>1. base # 0 => /\ r.fault <=> Faults(memory, p, write)
                      /\ ~r.fault => r.frame = Walk(memory, base, p).frame
        BY <1>1, TranslateAsWalk
    <2>2. r.fault \in BOOLEAN
        BY <1>1, TranslateKeeps
    <2>3. access' = Made(p, write, r.fault, reached) /\ UNCHANGED <<base, memory>>
        BY <1>4 DEF UncachedAccess
    <2> HIDE DEF r
    <2> QED
        BY <1>2, <2>1, <2>2, <2>3
<1>5. ASSUME NEW p \in Pages, NEW write \in BOOLEAN, AtomicAccess(p, write)
      PROVE  Transparent(access)'
    <2> DEFINE core == Translate(tlb, p, FALSE)
               r == Translate(core.tlb, p, write)
               fault == core.fault \/ r.fault
               reached == IF core.fault THEN NoPage ELSE Reached(r, p)
    <2>1. core.fault \in BOOLEAN /\ TlbType(core.tlb) /\ WellFormed(core.tlb)
        BY <1>1, TranslateKeeps
    <2>2. base # 0 => Fresh(memory, core.tlb, base)
        BY <1>1, TranslateFresh
    <2>3. base # 0 => (core.fault <=> Faults(memory, p, FALSE))
        BY <1>1, TranslateAsWalk
    <2>4. r.fault \in BOOLEAN
        BY <1>1, <2>1, TranslateKeeps
    <2>5. base # 0 => /\ r.fault <=> Faults(memory, p, write)
                      /\ ~r.fault => r.frame = Walk(memory, base, p).frame
        BY <2>2, TranslateAsWalk
    <2>6. Faults(memory, p, FALSE) => Faults(memory, p, write)
        BY DEF Faults
    <2>7. access' = Made(p, write, fault, reached) /\ UNCHANGED <<base, memory>>
        BY <1>5, <2>1, <2>4 DEF AtomicAccess, Made
    <2>8. fault \/ reached = r.frame
        BY DEF Reached
    <2>9. fault \in BOOLEAN /\ (base # 0 => (fault <=> Faults(memory, p, write)))
        <3> HIDE DEF core, r
        <3> QED
            BY <2>1, <2>3, <2>4, <2>5, <2>6
    <2>10. fault \/ (base # 0 => reached = Walk(memory, base, p).frame)
        <3> HIDE DEF core, r, reached
        <3> QED
            BY <2>5, <2>8
    <2> HIDE DEF fault, reached
    <2> QED
        BY <1>2, <2>7, <2>9, <2>10
<1>6. ASSUME NEW p \in Pages, NEW i \in Index, NEW pte \in Ptes,
             StorePte(p, i, pte)
      PROVE  Transparent(access)'
    <2> DEFINE r == Translate(tlb, p, TRUE)
               reached == StoreReached(r, p)
    <2>1. base # 0 => /\ r.fault <=> Faults(memory, p, TRUE)
                      /\ ~r.fault => r.frame = Walk(memory, base, p).frame
        BY <1>1, TranslateAsWalk
    <2>2. r.fault \in BOOLEAN
        BY <1>1, TranslateKeeps
    <2>3. /\ access' = Made(p, TRUE, r.fault, reached)
          /\ UNCHANGED <<base, memory>>
        BY <1>6 DEF StorePte
    <2>4. r.fault \/ p = TablePage \/ reached = r.frame
        BY DEF StoreReached, Reached
    <2> HIDE DEF r, reached
    <2> QED
        BY <1>2, <2>1, <2>2, <2>3, <2>4
<1>7. ASSUME access' = NoAccess
      PROVE  Transparent(access)'
    BY <1>7 DEF Transparent
<1>8. CASE UNCHANGED vars
    BY <1>8 DEF vars, Transparent, Faults, Walk
<1> QED
    BY <1>3, <1>4, <1>5, <1>6, <1>7, <1>8
       DEF Next, StorePteUncached, WriteSatp, SfenceVma

(* No access can tell that there is a TLB: it faults, or reaches the page it  *)
(* reaches, as if each of its translations had walked the page tables.      *)
THEOREM TlbTransparentHolds ==
    ASSUME MapOnce
    PROVE  Spec => []TlbTransparent
<1>1. Init => FreshInv /\ Transparent(access)
    BY InitFresh DEF Init, Transparent
<1>2. FreshInv /\ Transparent(access) /\ [Next]_vars
        => (FreshInv /\ Transparent(access))'
    BY NextFresh, NextTransparent
<1>3. Transparent(access) => TlbTransparent
    BY DEF Transparent, TlbTransparent
<1> QED
    BY <1>1, <1>2, <1>3, PTL DEF Spec

=============================================================================

------------------------------ MODULE MmuTlb -------------------------------
(***************************************************************************)
(* The MMU of one core, class MMU of src/memory/MMU.cpp, with the accesses  *)
(* that pass through it: the core and its two L1 caches translate on their  *)
(* own, each with its own handling of a page fault.                         *)
(*                                                                         *)
(* A page, virtual or physical, is its number; a page-table page holds K    *)
(* entries (1024 in the code), so that VPN[1] and VPN[0] are p \div K and   *)
(* p % K.  There are two memories: the walk reads that of the simulator,     *)
(* which the loader and the stores that go past the caches write; a cached  *)
(* store ends in the caches and in DDR, which the walk never reads.         *)
(***************************************************************************)
EXTENDS Integers

CONSTANTS
    K,              \* the entries of a page-table page
    Entries,        \* config.tlb_entries
    Ptes,           \* the page-table entries programs store
    Uncached,       \* the pages for which PMA hasDataCache is false
    TablePage,      \* the page at 0x20000
    Programs,       \* what the guest may do, see Program
    MaxStores       \* bound on the page-table entries stored

Pages == 0 .. K * K - 1
Index == 0 .. K - 1
Pte == [v : BOOLEAN, leaf : BOOLEAN, w : BOOLEAN, frame : Pages]
NoPte == [v |-> FALSE, leaf |-> FALSE, w |-> FALSE, frame |-> 0]

Tables == [Pages -> [Index -> Pte]]

(* image: the page tables that are loaded with it; roots: the pages it writes  *)
(* to satp, 0 for bare mode; stores: the entries <<page, index, entry>> it  *)
(* stores; once: it only fills invalid entries.                             *)
Program == [image : Tables, roots : SUBSET Pages,
            stores : SUBSET (Pages \X Index \X Ptes), once : BOOLEAN]

ASSUME MmuAssumption ==
    /\ K \in Nat \ {0}
    /\ Entries \in Nat \ {0}
    /\ Ptes \subseteq Pte
    /\ Uncached \subseteq Pages
    /\ TablePage \in Pages
    /\ Programs \subseteq Program
    /\ MaxStores \in Nat

Ways == 1 .. Entries
NoPage == -1

VARIABLES
    program,    \* the member of Programs that runs
    base,       \* page_table_base as a page; 0 for the identity mapping
    tlb,        \* tlb_entries, and the positions of the entries in tlb_lru
    stored,     \* the page tables as the program has stored them
    memory,     \* the page tables in the memory of the simulator
    access,     \* history: the access made last
    stores      \* the entries stored

vars == <<program, base, tlb, stored, memory, access, stores>>

(* An access of page p: the page reached, or NoPage; the translation failed. *)
Access == [page : Pages, write : BOOLEAN, fault : BOOLEAN,
           reached : Pages \union {NoPage}]
NoAccess == [page |-> NoPage]

TlbEntry == [valid : BOOLEAN, page : Pages, frame : Pages, writable : BOOLEAN]

Init ==
    /\ program \in Programs
    /\ base = 0
    /\ tlb = [entry |-> [i \in Ways |-> [valid |-> FALSE, page |-> 0,
                                         frame |-> 0, writable |-> FALSE]],
              age |-> [i \in Ways |-> i - 1]]
    /\ stored = program.image
    /\ memory = program.image
    /\ access = NoAccess
    /\ stores = 0

----------------------------------------------------------------------------
(* read_page_table_entry: a leaf in the first page is taken at once when      *)
(* VPN[1] is 0; any other valid entry there is followed as a pointer.       *)
Walk(tables, root, p) ==
    LET direct == tables[root][p % K]
        first == tables[root][p \div K]
    IN  IF p \div K = 0 /\ direct.v /\ direct.leaf THEN direct
        ELSE IF ~first.v THEN NoPte
        ELSE tables[first.frame][p % K]

Matches(t, p) == {i \in Ways : t.entry[i].valid /\ t.entry[i].page = p}

(* Mutant of Touch: the index is pushed and not removed first. *)
TouchPushesOnly(age, i) == [j \in Ways |-> IF j = i THEN 0 ELSE age[j] + 1]

(* update_tlb_lru: entry i moves to the front of the list. *)
Touch(age, i) ==
    [j \in Ways |-> IF j = i THEN 0
                    ELSE IF age[j] < age[i] THEN age[j] + 1 ELSE age[j]]

(* allocate_tlb_entry: the first invalid entry, or the one at the back. *)
Victim(t) ==
    LET free == {i \in Ways : ~t.entry[i].valid}
    IN  IF free # {} THEN CHOOSE i \in free : \A j \in free : i <= j
        ELSE CHOOSE i \in Ways : \A j \in Ways : t.age[j] <= t.age[i]

(* Mutant of LoadEntry: the page number stays that of the entry replaced. *)
LoadEntryKeepsPage(t, p, pte) ==
    LET i == Victim(t)
    IN  [entry |-> [t.entry EXCEPT ![i] =
                        [valid |-> TRUE, page |-> IF t.entry[i].valid
                                                  THEN t.entry[i].page ELSE p,
                         frame |-> pte.frame, writable |-> pte.w]],
         age |-> Touch(t.age, i)]

(* load_tlb_entry. *)
LoadEntry(t, p, pte) ==
    LET i == Victim(t)
    IN  [entry |-> [t.entry EXCEPT ![i] =
                        [valid |-> TRUE, page |-> p,
                         frame |-> pte.frame, writable |-> pte.w]],
         age |-> Touch(t.age, i)]

(* Mutant of Translate: a hit is not checked for permission to write. *)
TranslateTrustsHit(t, p, write) ==
    LET hits == Matches(t, p)
        i == CHOOSE j \in hits : \A k \in hits : j <= k
        pte == Walk(memory, base, p)
        denied == ~pte.v \/ (write /\ ~pte.w)
    IN  IF base = 0 THEN [tlb |-> t, fault |-> FALSE, frame |-> p]
        ELSE IF hits # {} THEN
            [tlb |-> [t EXCEPT !.age = Touch(@, i)],
             fault |-> FALSE, frame |-> t.entry[i].frame]
        ELSE [tlb |-> IF denied THEN t ELSE LoadEntry(t, p, pte),
              fault |-> denied, frame |-> pte.frame]

(* translate_address: the state of the TLB after it, whether it returns an    *)
(* exception, and the page it finds.                                        *)
Translate(t, p, write) ==
    LET hits == Matches(t, p)
        i == CHOOSE j \in hits : \A k \in hits : j <= k
        pte == Walk(memory, base, p)
        denied == ~pte.v \/ (write /\ ~pte.w)
    IN  IF base = 0 THEN [tlb |-> t, fault |-> FALSE, frame |-> p]
        ELSE IF hits # {} THEN
            [tlb |-> [t EXCEPT !.age = Touch(@, i)],
             fault |-> write /\ ~t.entry[i].writable,
             frame |-> t.entry[i].frame]
        ELSE [tlb |-> IF denied THEN t ELSE LoadEntry(t, p, pte),
              fault |-> denied, frame |-> pte.frame]

(* Cache::translate_address: after a fault the virtual address is used. *)
Reached(r, p) == IF r.fault THEN p ELSE r.frame

(* Cache::write does not translate the virtual address of the page table. *)
StoreReached(r, p) == IF p = TablePage THEN p ELSE Reached(r, p)

Made(p, write, fault, reached) ==
    [page |-> p, write |-> write, fault |-> fault, reached |-> reached]

----------------------------------------------------------------------------
(* A fetch, or a load or store of data, by way of an L1. *)
CachedAccess(p, write) ==
    LET r == Translate(tlb, p, write)
    IN  /\ ~write \/ p \notin Uncached
        /\ tlb' = r.tlb
        /\ access' = Made(p, write, r.fault, IF write THEN StoreReached(r, p)
                                             ELSE Reached(r, p))
        /\ UNCHANGED <<program, base, stored, memory, stores>>

(* A load or store of a page that is not cached: the core translates, and     *)
(* handle_exception goes on after the instruction when that fails.          *)
UncachedAccess(p, write) ==
    LET r == Translate(tlb, p, write)
    IN  /\ p \in Uncached
        /\ tlb' = r.tlb
        /\ access' = Made(p, write, r.fault,
                          IF r.fault THEN NoPage ELSE r.frame)
        /\ UNCHANGED <<program, base, stored, memory, stores>>

(* An atomic instruction: the core translates for reading, then the L1 again, *)
(* LR for reading and the others for writing.                               *)
AtomicAccess(p, write) ==
    LET core == Translate(tlb, p, FALSE)
        r == Translate(core.tlb, p, write)
    IN  /\ IF core.fault
           THEN /\ tlb' = core.tlb
                /\ access' = Made(p, write, TRUE, NoPage)
           ELSE /\ tlb' = r.tlb
                /\ access' = Made(p, write, r.fault, Reached(r, p))
        /\ UNCHANGED <<program, base, stored, memory, stores>>

(* A cached store to page p that puts a page-table entry into the page it     *)
(* reaches, for the data caches and DDR but not for the walk.               *)
StorePte(p, i, pte) ==
    LET r == Translate(tlb, p, TRUE)
        f == StoreReached(r, p)
    IN  /\ stores < MaxStores
        /\ p \notin Uncached
        /\ <<f, i, pte>> \in program.stores
        /\ stored[f][i] # pte
        /\ program.once => ~stored[f][i].v
        /\ tlb' = r.tlb
        /\ stored' = [stored EXCEPT ![f][i] = pte]
        /\ access' = Made(p, TRUE, r.fault, f)
            /\ stores' = stores + 1
        /\ UNCHANGED <<program, base, memory>>

(* A store past the caches of an entry that the walk finds at once; none is   *)
(* made when the translation fails.                                         *)
StorePteUncached(p, i, pte) ==
    LET r == Translate(tlb, p, TRUE)
    IN  /\ stores < MaxStores
        /\ p \in Uncached
        /\ ~r.fault
        /\ <<r.frame, i, pte>> \in program.stores
        /\ memory[r.frame][i] # pte
        /\ program.once => ~stored[r.frame][i].v
        /\ tlb' = r.tlb
        /\ memory' = [memory EXCEPT ![r.frame][i] = pte]
        /\ stored' = [stored EXCEPT ![r.frame][i] = pte]
        /\ access' = NoAccess
            /\ stores' = stores + 1
        /\ UNCHANGED <<program, base>>

(* Mutant of WriteSatp: the page number is not cut out of the value. *)
WriteSatpWhole(r) ==
    /\ r \in program.roots
    /\ base' = IF r = 0 THEN 0 ELSE r + K * K
    /\ access' = NoAccess
    /\ UNCHANGED <<program, tlb, stored, memory, stores>>

(* update_mmu_from_satp. *)
WriteSatp(r) ==
    /\ r \in program.roots
    /\ base' = r
    /\ access' = NoAccess
    /\ UNCHANGED <<program, tlb, stored, memory, stores>>

(* SFENCE.VMA is decoded as an unknown system instruction. *)
SfenceVma ==
    /\ access' = NoAccess
    /\ UNCHANGED <<program, base, tlb, stored, memory, stores>>

Next ==
    \/ \E p \in Pages, write \in BOOLEAN :
            \/ CachedAccess(p, write)
            \/ UncachedAccess(p, write)
            \/ AtomicAccess(p, write)
    \/ \E p \in Pages, i \in Index, pte \in Ptes :
            StorePte(p, i, pte) \/ StorePteUncached(p, i, pte)
    \/ \E r \in Pages : WriteSatp(r)
    \/ SfenceVma

Spec == Init /\ [][Next]_vars

----------------------------------------------------------------------------
(* Type correctness. *)
TypeOK ==
    /\ program \in Programs
    /\ base \in Pages
    /\ tlb \in [entry : [Ways -> TlbEntry], age : [Ways -> Nat]]
    /\ stored \in Tables
    /\ memory \in Tables
    /\ access \in Access \union {NoAccess}
    /\ stores \in 0 .. MaxStores

(* After any history of hits, loads and replacements no page has two entries, *)
(* so that find_tlb_entry cannot return an older one, and tlb_lru lists     *)
(* every entry once, so that every entry can be replaced.                   *)
TlbWellFormed ==
    /\ \A i, j \in Ways :
            /\ tlb.entry[i].valid /\ tlb.entry[j].valid
            /\ tlb.entry[i].page = tlb.entry[j].page
            => i = j
    /\ \A i, j \in Ways : tlb.age[i] = tlb.age[j] => i = j
    /\ \A i \in Ways : tlb.age[i] < Entries

(* While the program only fills invalid entries under one root, every entry   *)
(* of the TLB is what a walk finds, of the memory of the simulator and of   *)
(* the tables as stored, whichever of the two ways each entry was stored    *)
(* and whichever translations were made before.                             *)
TlbFresh ==
    \A i \in Ways, root \in program.roots \ {0} :
        tlb.entry[i].valid =>
            \A tables \in {memory, stored} :
                LET pte == Walk(tables, root, tlb.entry[i].page)
                IN  /\ pte.v
                    /\ pte.frame = tlb.entry[i].frame
                    /\ pte.w = tlb.entry[i].writable

(* What the page tables give for an access of page p. *)
Faults(tables, p, write) ==
    LET pte == Walk(tables, base, p) IN ~pte.v \/ (write /\ ~pte.w)

(* The TLB is transparent: under the same discipline an access faults, and    *)
(* reaches the page it reaches, as it would if every translation walked the *)
(* tables; a hit is denied what the walk would deny.  Only a store to the    *)
(* virtual page of the page table goes elsewhere.                           *)
TlbTransparent ==
    (access # NoAccess /\ base # 0) =>
        /\ access.fault <=> Faults(memory, access.page, access.write)
        /\ \/ access.fault
           \/ access.write /\ access.page = TablePage
           \/ access.reached = Walk(memory, base, access.page).frame

=============================================================================

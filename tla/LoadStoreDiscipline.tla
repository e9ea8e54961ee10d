------------------------ MODULE LoadStoreDiscipline -------------------------
(***************************************************************************)
(* The programs for which the loads, stores and atomics of LoadStore.tla     *)
(* act on one memory: Core::step asks the PMA for every load and store and    *)
(* for no atomic, so an atomic must not go where loads and stores pass the   *)
(* caches.                                                                  *)
(***************************************************************************)
EXTENDS LoadStore, CacheDiscipline

(* The programs send no atomic to a word that is not cached, and no store     *)
(* that begins there reaches into what is: the region table decides by the  *)
(* first byte.                                                              *)
ASSUME ApartAssumption ==
    \A i \in UNION Programs :
        /\ Funct5(i.op) \notin {-1, 5} /\ InMemory(i) => Cached(i)
        /\ ~Cached(i) => \A a \in i.addr .. i.addr + Width(i.op) - 1 :
                            ~HasDataCache(DefaultRegions, a)

(* A cached access is aligned and all of it is cached, and the program does    *)
(* without the two atomics that step takes for others.                      *)
ASSUME AlignedAssumption ==
    \A i \in UNION Programs :
        InMemory(i) /\ Cached(i) =>
            /\ i.addr % Width(i.op) = 0
            /\ \A a \in i.addr .. i.addr + Width(i.op) - 1 :
                   HasDataCache(DefaultRegions, a)
            /\ i.op \notin {"amoand", "amoxor"}

=============================================================================

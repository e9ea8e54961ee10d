---------------------------- MODULE MCHierarchy ----------------------------
(* Two cores with one-line data and instruction caches over one shared L2    *)
(* set of two ways, for three blocks, so that every access can displace any *)
(* line at both levels.  Word 0 of `sync' is a lock that both cores store    *)
(* and swap and none loads; `own' belongs to c1, its word 1 in the          *)
(* write-through range; `code' is read by both.                             *)
EXTENDS CacheDiscipline

MCCores == {"c1", "c2"}
MCBlocks == {"own", "sync", "code"}
MCWords == {0, 1}
MCIndex == [b \in MCBlocks |-> 0]
MCWays1 == {1}
MCWays2 == 1..2
MCInitDdr == [b \in MCBlocks |-> [w \in MCWords |-> 0]]
MCWriteThrough == {<<"sync", 0>>, <<"own", 1>>}

On(c, ops, b, w) == {c} \X ops \X {<<b, w>>}

MCAccesses == On("c1", {"load", "store", "amominmax"}, "own", 0)
                \union On("c1", {"load", "sc"}, "own", 1)
                \union On("c1", {"load"}, "code", 0)
                \union On("c2", {"load", "fetch"}, "code", 0)
                \union UNION {On(c, {"amo", "store"}, "sync", 0) : c \in MCCores}

=============================================================================

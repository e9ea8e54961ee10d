--------------------------- MODULE MCStoreThenAmo ---------------------------
(* One core with one-line caches, and the test of the atomics: a word at      *)
(* 0x81000 is stored and then added to.                                     *)
EXTENDS LoadStore

Data == \h81000

MCBlocks == {Data}
MCIndex == [b \in MCBlocks |-> 0]
MCWords == {0}
MCWays == {1}
MCValues == 0 .. 15
MCInitDdr == [b \in MCBlocks |-> [w \in MCWords |-> 0]]

MCStoreThenAdd ==
    {[core |-> 0, op |-> "sw", addr |-> Data, rs2 |-> 9],
     [core |-> 0, op |-> "amoadd", addr |-> Data, rs2 |-> 1]}

MCPrograms == {MCStoreThenAdd}
MCAccesses == UNION {AccessesOf(i) : i \in MCStoreThenAdd}

=============================================================================

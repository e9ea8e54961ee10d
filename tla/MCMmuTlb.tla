----------------------------- MODULE MCMmuTlb ------------------------------
(* Four pages, two of them past the caches, two entries to a page table and   *)
(* two TLB entries.  A program uses page 1 as the root of two-level tables  *)
(* with pages 2 and 3 below it, the root loaded with it in part, or page 3   *)
(* as the root of one level, as the tests under test_code do.               *)
EXTENDS MmuTlb

Pointer(f) == [v |-> TRUE, leaf |-> FALSE, w |-> FALSE, frame |-> f]
Leaf(f, w) == [v |-> TRUE, leaf |-> TRUE, w |-> w, frame |-> f]

Image(entries) ==
    [f \in Pages |-> [i \in Index |->
        IF \E s \in entries : s[1] = f /\ s[2] = i
        THEN (CHOOSE s \in entries : s[1] = f /\ s[2] = i)[3] ELSE NoPte]]

MCTwoLevels ==
    [image |-> Image({<<1, 1, Pointer(2)>>}), roots |-> {0, 1}, once |-> TRUE,
     stores |-> {<<1, 0, Pointer(2)>>, <<1, 1, Pointer(2)>>,
                 <<1, 1, Pointer(3)>>, <<2, 0, Leaf(2, TRUE)>>,
                 <<2, 0, Leaf(3, FALSE)>>, <<2, 1, Leaf(0, TRUE)>>,
                 <<3, 1, Leaf(3, TRUE)>>}]
MCOneLevel ==
    [image |-> Image({<<3, 1, Leaf(3, TRUE)>>}), roots |-> {0, 3}, once |-> TRUE,
     stores |-> {<<3, 0, Leaf(2, TRUE)>>, <<3, 0, Leaf(1, FALSE)>>,
                 <<3, 1, Leaf(3, TRUE)>>}]

MCPtes == {s[3] : s \in MCTwoLevels.stores \union MCOneLevel.stores}
MCUncached == {2, 3}
MCMapOnce == {MCTwoLevels, MCOneLevel}

=============================================================================

-------------------------------- MODULE Bits --------------------------------
(***************************************************************************)
(* The bitwise operators of C on unsigned numbers, of which the instructions *)
(* and the atomics of Core::step make use.                                  *)
(***************************************************************************)
EXTENDS Integers

(* Bit by bit, from the lowest. *)
BitAnd(v, w) ==
    LET and[x \in 0 .. v] ==
            [y \in 0 .. w |->
                IF x = 0 THEN 0
                ELSE (IF x % 2 = 1 /\ y % 2 = 1 THEN 1 ELSE 0) + 2 * and[x \div 2][y \div 2]]
    IN  and[v][w]

(* In a sum the bits that both numbers have count twice. *)
BitOr(v, w)  == (v + w) - BitAnd(v, w)
BitXor(v, w) == (v + w) - 2 * BitAnd(v, w)

=============================================================================

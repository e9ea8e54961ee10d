-------------------------- MODULE PrintfDiscipline --------------------------
(***************************************************************************)
(* What printf asks of its callers, as C does: an argument for every          *)
(* directive that takes one.                                                *)
(***************************************************************************)
EXTENDS Vprintf

CONSTANT Needs      \* for each call, how many arguments vsnprintf takes from
                    \* each position on that it comes to

(* From position p of call c it goes on at q, having taken `used' arguments. *)
Covers(c, p, q, used) == q \in DOMAIN Needs[c] /\ Needs[c][p] >= used + Needs[c][q]

Takes(m, p) ==
    IF Kind(m, p) \in (IF LongAt(m, p) THEN {"u", "x", "X"} ELSE {"s", "c", "d", "u", "x", "X"})
    THEN 1 ELSE 0

ASSUME NeedsAssumption ==
    \A c \in Calls :
        LET m == c.memory
        IN  /\ DOMAIN Needs[c] \subseteq 1 .. Len(m)
            /\ \A p \in DOMAIN Needs[c] : Needs[c][p] \in Nat
            /\ 1 \in DOMAIN Needs[c] /\ Needs[c][1] <= Len(c.args)
            /\ \A p \in DOMAIN Needs[c] :
                \/ m[p] = NUL
                \/ m[p] # "%" /\ Covers(c, p, p + 1, 0)
                \/ m[p] = "%" /\ m[p + 1] = NUL
                \/ m[p] = "%" /\ Covers(c, p, After(m, p), Takes(m, p))

=============================================================================

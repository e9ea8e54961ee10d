---------------------------- MODULE MCTrapUnit -----------------------------
(* Two cores that send each other software interrupts and make environment   *)
(* calls.  Core 0 runs in machine mode, opens and closes its interrupt      *)
(* window and sets its timer; core 1 runs a supervisor to which its calls   *)
(* and software interrupts are delegated.  Both vector tables, at 64 and at *)
(* 128, serve one cause per entry.                                          *)
EXTENDS TrapDiscipline, TLC

MCVector == [mtvec |-> 64 + 1, stvec |-> 128 + 1]
MCInitPc == [c \in Cores |-> IF c = 0 THEN 0 ELSE 20]

(* A store that puts the next timer interrupt of c out of reach. *)
FarFuture(c) == <<"sw", MtimecmpAddr(c), WordSize - 1>>

Handlers(c) ==
    (64 + 4 * 3)      :> {<<"sw", MsipAddr(c), 0>>}
    @@ (64 + 4 * 3 + 4)  :> {<<"mret">>}
    @@ (64 + 4 * 7)      :> {FarFuture(c)}
    @@ (64 + 4 * 7 + 4)  :> {<<"mret">>}
    @@ (64 + 4 * 11)     :> {<<"advance">>}
    @@ (64 + 4 * 11 + 4) :> {<<"mret">>}

Work ==
    {<<"nop">>, <<"sret">>, <<"wfi">>, <<"ecall">>, <<"sw", MsipAddr(1), 1>>,
     <<"sw", MtimecmpAddr(0), 1>>}

Main ==
    0 :> {<<"csrrs", "mie", {MTIP}>>}
    @@ 4  :> {<<"csrrs", "mstatus", {MIE}>>}
    @@ 8  :> Work
    @@ 12 :> {<<"nop">>}
    @@ 16 :> {<<"csrrc", "mstatus", {MIE}>>}
    @@ 20 :> {<<"jump", 4>>}

(* Boot code at 20 delegates, and enters the program at 0 in supervisor mode. *)
Delegate ==
    20 :> {<<"csrrs", "mideleg", {MSIP}>>}
    @@ 24 :> {<<"csrrs", "medeleg", {9}>>}
    @@ 28 :> {<<"csrrs", "sie", {1}>>}
    @@ 32 :> {<<"csrrc", "mstatus", {12}>>}
    @@ 36 :> {<<"mret">>}

(* The supervisor's handlers turn interrupts on again and go on in the loop, *)
(* for want of SRET.                                                        *)
Supervisor ==
    0 :> {<<"csrrs", "sstatus", {SIE}>>}
    @@ 4  :> {<<"nop">>, <<"ecall">>, <<"sw", MsipAddr(0), 1>>}
    @@ 8  :> {<<"csrrc", "sstatus", {SIE}>>}
    @@ 12 :> {<<"jump", 0>>}
    @@ (128 + 4 * 1)     :> {<<"sw", MsipAddr(1), 0>>}
    @@ (128 + 4 * 1 + 4) :> {<<"jump", 0>>}
    @@ (128 + 4 * 5)     :> {<<"jump", 0>>}
    @@ (128 + 4 * 9)     :> {<<"jump", 8>>}

MCCode == [c \in Cores |-> IF c = 0 THEN Main @@ Handlers(0) ELSE Delegate @@ Supervisor]

(* What the cores do at each address. *)
MCRole ==
    [c \in Cores |-> [a \in DOMAIN MCCode[c] |->
        IF c = 0
        THEN CASE a \in {8, 12, 16} -> "open"
               [] a \in {0, 4, 20} -> "program"
               [] a = 64 + 4 * 11 -> "call"
               [] OTHER -> "serve"
        ELSE CASE a \in {20, 24} -> "boot"
               [] a \in {28, 32} -> "delegated"
               [] a = 36 -> "leave"
               [] OTHER -> "super"]]

=============================================================================

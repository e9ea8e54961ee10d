--------------------------- MODULE TrapDiscipline ---------------------------
(***************************************************************************)
(* What a program has to keep to for its traps to nest as TrapUnit.tla says.  *)
(* The emulator does not save the context a second time, its take_interrupt  *)
(* always notes M-mode as the one interrupted, MPIE is never cleared, and    *)
(* there is no SRET: handlers therefore leave MIE and the saved context      *)
(* alone, an ECALL is made with interrupts on, and a supervisor keeps MIE    *)
(* off and has its calls delegated.                                          *)
(*                                                                         *)
(* Role[c][a] says what core c does at address a:                            *)
(*   "program"   machine mode, no trap is being handled;                     *)
(*   "open"      the same with machine interrupts on;                        *)
(*   "call"      the handler of an ECALL, mepc still points to it;           *)
(*   "serve"     a handler;                                                  *)
(*   "boot", "delegated", "leave"                                            *)
(*               the way of a core to supervisor mode: interrupts are off,   *)
(*               then calls are delegated, then MPP is supervisor mode;      *)
(*   "super"     supervisor mode.                                            *)
(***************************************************************************)
EXTENDS TrapUnit

CONSTANT Role

Machine == {"program", "open"}
Handling == {"call", "serve"}
Booting == {"boot", "delegated", "leave"}
Roles == Machine \union Handling \union Booting \union {"super"}

Bits == 0 .. 31
CsrOps == {"csrrs", "csrrc", "csrrw"}

(* An instruction that does not change the mode may lead from r to r2. *)
Follows(r, r2) ==
    r2 = r \/ <<r, r2>> \in {<<"open", "program">>, <<"call", "serve">>}

Goes(c, a, b) == b \in DOMAIN Code[c] /\ Follows(Role[c][a], Role[c][b])

(* What may be done to a register of flags between addresses of roles r, r2. *)
CsrKeeps(r, r2, op, reg, bits) ==
    /\ reg \in {"mie", "sie"} => Follows(r, r2)
    /\ reg = "sstatus" => Follows(r, r2) /\ r \notin Booting
    /\ reg = "mideleg" => Follows(r, r2) /\ r \in Booting \union {"super"}
    /\ reg = "medeleg" =>
            \/ Follows(r, r2) /\ (op = "csrrs" \/ r \in Machine \union Handling \union {"boot"})
            \/ r = "boot" /\ r2 = "delegated" /\ op = "csrrs" /\ 9 \in bits
    /\ reg = "mstatus" =>
            \/ r \in Machine /\ r2 = "program"
            \/ r \in Machine /\ r2 = "open" /\ op # "csrrc" /\ MIE \in bits
            \/ r = "open" /\ r2 = "open" /\ op = "csrrc" /\ MIE \notin bits
            \/ r = "open" /\ r2 = "open" /\ op = "csrrs"
            \/ r = "delegated" /\ r2 = "leave" /\ op = "csrrc"
               /\ 12 \in bits /\ 11 \notin bits

(* Instruction i at address a keeps to the roles. *)
Keeps(c, a, i) ==
    /\ i[1] \in {"nop", "sret", "wfi", "sw"} => Goes(c, a, a + 4)
    /\ i[1] = "sw" => i[2] \in Nat /\ i[3] \in Word
    /\ i[1] = "jump" => Goes(c, a, i[2])
    /\ i[1] \in CsrOps =>
            /\ a + 4 \in DOMAIN Code[c]
            /\ i[2] \in FlagRegs \union {"sstatus"} /\ i[3] \subseteq Bits
            /\ CsrKeeps(Role[c][a], Role[c][a + 4], i[1], i[2], i[3])
    /\ i[1] = "advance" => /\ a + 4 \in DOMAIN Code[c]
                           /\ Role[c][a] = "call" /\ Role[c][a + 4] = "serve"
    /\ i[1] = "ecall" => \/ Role[c][a] = "super"
                         \/ /\ Role[c][a] = "open"
                            /\ a + 4 \in DOMAIN Code[c]
                            /\ Role[c][a + 4] \in Machine
    /\ i[1] = "mret" => \/ Role[c][a] \in Handling
                        \/ /\ Role[c][a] = "leave"
                           /\ 0 \in DOMAIN Code[c] /\ Role[c][0] = "super"

(* The handler of a cause has one of the roles. *)
Entry(c, vec, cause, roles) ==
    Handler(vec, cause) \in DOMAIN Code[c] /\ Role[c][Handler(vec, cause)] \in roles

(* The vector table in use has an entry for each trap that can come. *)
Vectors(c) ==
    /\ (\E a \in DOMAIN Code[c] : Role[c][a] \in Machine) =>
            /\ Entry(c, Vector.mtvec, 3, {"serve"})
            /\ Entry(c, Vector.mtvec, 7, {"serve"})
            /\ Entry(c, Vector.mtvec, 11, Handling)
    /\ (\E a \in DOMAIN Code[c] : Role[c][a] = "super") =>
            \A cause \in {1, 5, 9} : Entry(c, Vector.stvec, cause, {"super"})

ASSUME TrapDisciplineAssumption ==
    /\ Vector.mtvec \in Nat /\ Vector.stvec \in Nat
    /\ NoFrame \notin [pc : Nat, mie : BOOLEAN, priv : {PRV_U, PRV_S, PRV_M}]
    /\ \A c \in Cores :
        /\ DOMAIN Code[c] \subseteq Nat
        /\ \A a \in DOMAIN Code[c] :
            Role[c][a] \in Roles /\ \A i \in Code[c][a] : Keeps(c, a, i)
        /\ InitPc[c] \in DOMAIN Code[c] /\ Role[c][InitPc[c]] \in {"program", "boot"}
        /\ Vectors(c)

----------------------------------------------------------------------------
(* The inductive invariant: what each role says of core c with registers h    *)
(* and interrupted context f.                                               *)
Hart == [pc : Nat, priv : {PRV_U, PRV_S, PRV_M}, flags : [FlagRegs -> SUBSET Bits],
         mepc : Nat, sepc : Nat]

RoleOf(c, h) == Role[c][h.pc]
Mstatus(h) == h.flags["mstatus"]

MachineOK(c, h, f) ==
    RoleOf(c, h) \in Machine =>
        /\ f = NoFrame /\ h.priv = PRV_M /\ h.flags["mideleg"] = {}
        /\ RoleOf(c, h) = "open" => MIE \in Mstatus(h)

(* The context that is kept is that of an M-mode program with interrupts on. *)
HandlingOK(c, h, f) ==
    RoleOf(c, h) \in Handling =>
        /\ f = [pc |-> h.mepc, mie |-> TRUE, priv |-> PRV_M]
        /\ h.priv = PRV_M /\ h.flags["mideleg"] = {}
        /\ MIE \notin Mstatus(h) /\ MPIE \in Mstatus(h) /\ MPP \subseteq Mstatus(h)
        /\ h.mepc \in DOMAIN Code[c] /\ Role[c][h.mepc] \in Machine
        /\ RoleOf(c, h) = "call" => <<"ecall">> \in Code[c][h.mepc]

BootingOK(c, h, f) ==
    RoleOf(c, h) \in Booting =>
        /\ f = NoFrame /\ h.priv = PRV_M /\ h.mepc = 0
        /\ {SIE, MIE, MPIE} \cap Mstatus(h) = {} /\ 11 \in Mstatus(h)
        /\ RoleOf(c, h) # "boot" => 9 \in h.flags["medeleg"]
        /\ RoleOf(c, h) = "leave" => 12 \notin Mstatus(h)

SuperOK(c, h, f) ==
    RoleOf(c, h) = "super" =>
        /\ f = NoFrame /\ h.priv = PRV_S
        /\ MIE \notin Mstatus(h) /\ 9 \in h.flags["medeleg"]

CoreOK(c, h, f) ==
    /\ h \in Hart /\ h.pc \in DOMAIN Code[c]
    /\ MachineOK(c, h, f) /\ HandlingOK(c, h, f)
    /\ BootingOK(c, h, f) /\ SuperOK(c, h, f)

TrapInv ==
    /\ ClintTypeOK
    /\ turn \in 0 .. NumCores
    /\ hart \in [Cores -> Hart]
    /\ DOMAIN frame = Cores
    /\ \A c \in Cores : CoreOK(c, hart[c], frame[c])

=============================================================================

------------------------------ MODULE TrapUnit -----------------------------
(***************************************************************************)
(* Interrupts, traps and the CSRs behind them, src/core/Core.cpp, for every *)
(* core of the machine, over the CLINT that raises their interrupt lines.   *)
(*                                                                         *)
(* One action is one Core::step: an interrupt is taken if one is due, then   *)
(* the instruction the pc then points at is executed.  The guest program is *)
(* a constant: for every core and address, the instructions that may be     *)
(* executed there.  A CSR of flags is the set of the bits that are 1.       *)
(*                                                                         *)
(* mip is computed from the lines before every use and whatever a program   *)
(* writes there is overwritten, so it is not kept as a register; mcause and  *)
(* scause repeat what the handler's address says in vectored mode.          *)
(*                                                                         *)
(* Nothing in the emulator raises a PLIC source and the PLIC is not mapped   *)
(* into memory, so its line to a core (MEIP) stays down here.               *)
(***************************************************************************)
EXTENDS Clint, FiniteSets

CONSTANTS
    Code,       \* Code[c][a]: the instructions core c may execute at address a
    InitPc,     \* InitPc[c]: where core c starts
    Vector,     \* Vector.mtvec and Vector.stvec, as the program has set them
    NoFrame     \* no machine-mode trap is being handled

VARIABLES
    turn,       \* the core that steps next; NumCores at the end of a cycle
    hart,       \* hart[c]: pc, privilege_level and CSRs of core c
    frame       \* history: the context the last machine-mode trap of core c
                \* interrupted, until its MRET

vars == <<clintVars, turn, hart, frame>>

PRV_U == 0
PRV_S == 1
PRV_M == 3

(* Bits of mstatus. *)
SIE  == 1
MIE  == 3
SPIE == 5
MPIE == 7
SPP  == 8
MPP  == {11, 12}

(* Bits of mip and mie as update_mip_csr sets them. *)
MSIP == 11
MTIP == 9
MEIP == 8

FlagRegs == {"mstatus", "mie", "mideleg", "medeleg", "sie"}

(* init_csrs. *)
ResetFlags == [r \in FlagRegs |-> CASE r = "mstatus" -> {11, 12}
                                    [] r = "mie" -> {3, 7, 11}
                                    [] OTHER -> {}]

MppOf(m) == (IF 11 \in m THEN 1 ELSE 0) + (IF 12 \in m THEN 2 ELSE 0)
MppBits(p) == (IF p \in {1, 3} THEN {11} ELSE {}) \union (IF p \in {2, 3} THEN {12} ELSE {})

Init ==
    /\ ClintInit
    /\ turn = 0
    /\ hart = [c \in Cores |-> [pc |-> InitPc[c], priv |-> PRV_M,
                                flags |-> ResetFlags, mepc |-> 0, sepc |-> 0]]
    /\ frame = [c \in Cores |-> NoFrame]

----------------------------------------------------------------------------
(* CSRs. *)

(* read_csr(0x100): the bit of sstatus every bit of mstatus is copied to. *)
SstatusBit == [b \in 0 .. 10 |->
                  <<0, 1, 5, 3, 5, 6, 7, 7, 12, 17, 14>>[b + 1]]

Sstatus(m) == {SstatusBit[b] : b \in m \cap 0 .. 10} \union (m \cap {19, 20})

(* write_csr(0x100): the mask 0x622. *)
WriteSstatus(m, v) == (m \ {1, 5, 9, 10}) \union (v \cap {1, 5, 9, 10})

ReadFlags(h, r) ==
    IF r = "sstatus" THEN Sstatus(h.flags["mstatus"]) ELSE h.flags[r]

WriteFlags(h, r, v) ==
    IF r = "sstatus"
    THEN [h EXCEPT !.flags["mstatus"] = WriteSstatus(@, v)]
    ELSE [h EXCEPT !.flags[r] = v]

(* update_mip_csr. *)
Mip(c) == (IF HasSoftwareInterrupt(c) THEN {MSIP} ELSE {})
            \union (IF HasTimerInterrupt(c) THEN {MTIP} ELSE {})

----------------------------------------------------------------------------
(* Traps. *)

(* The address of the handler: mtvec or stvec in direct or vectored mode. *)
Handler(vec, cause) ==
    (vec - (vec % 4)) + (IF vec % 4 = 1 THEN 4 * cause ELSE 0)

(* Mutant of TakeInterrupt: MIE stays on. *)
TakeInterruptStaysOn(h, cause) ==
    [h EXCEPT !.pc = Handler(Vector.mtvec, cause),
              !.mepc = h.pc,
              !.flags["mstatus"] = @ \union {MPIE} \union MPP]

(* take_interrupt: MPIE is or-ed with MIE, MPP becomes M, and the privilege   *)
(* level stays what it was.                                                 *)
TakeInterrupt(h, cause) ==
    LET m == h.flags["mstatus"]
    IN  [h EXCEPT !.pc = Handler(Vector.mtvec, cause),
                  !.mepc = h.pc,
                  !.flags["mstatus"] =
                      (m \ {MIE}) \union MPP
                        \union (IF MIE \in m THEN {MPIE} ELSE {})]

(* take_supervisor_interrupt: of the sstatus it writes only SIE and SPIE      *)
(* reach mstatus.                                                           *)
TakeSupervisorInterrupt(h, cause) ==
    LET s == Sstatus(h.flags["mstatus"])
    IN  [WriteFlags(h, "sstatus", (s \ {SIE}) \union {SPP}
                        \union (IF SIE \in s THEN {SPIE} ELSE {}))
         EXCEPT !.pc = Handler(Vector.stvec, cause), !.sepc = h.pc]

(* Mutant of CheckPending: it looks at the bits init_csrs enables. *)
CheckPendingResetBits(c, h) ==
    \/ Mip(c) \cap h.flags["mie"] \cap {3, 7, 11} # {}
    \/ /\ SIE \in Sstatus(h.flags["mstatus"])
       /\ Mip(c) \cap h.flags["mideleg"] \cap h.flags["sie"] \cap {1, 5, 9} # {}

(* check_pending_interrupts. *)
CheckPending(c, h) ==
    \/ Mip(c) \cap h.flags["mie"] \cap {MSIP, MTIP, MEIP} # {}
    \/ /\ SIE \in Sstatus(h.flags["mstatus"])
       /\ Mip(c) \cap h.flags["mideleg"] \cap h.flags["sie"] \cap {1, 5, 9} # {}

(* The machine interrupts handle_interrupt may take: those not delegated. *)
MachineDue(c, h) ==
    IF MIE \in h.flags["mstatus"]
    THEN (Mip(c) \cap h.flags["mie"]) \ h.flags["mideleg"] ELSE {}

(* The delegated ones, as the bits of sie they are looked up under. *)
SieBit(b) == CASE b = MSIP -> 1 [] b = MTIP -> 5 [] b = MEIP -> 9

SupervisorDue(c, h) ==
    IF SIE \in Sstatus(h.flags["mstatus"])
    THEN {SieBit(b) : b \in Mip(c) \cap h.flags["mideleg"]} \cap h.flags["sie"]
    ELSE {}

(* The highest priority of the lines up: software, timer, external. *)
MachineCause(due) == IF MSIP \in due THEN 3 ELSE IF MTIP \in due THEN 7 ELSE 11

SupervisorCause(due) == CHOOSE b \in due : \A d \in due : b <= d

(* handle_interrupt. *)
HandleInterrupt(c, h) ==
    IF ~CheckPending(c, h) THEN h
    ELSE IF MachineDue(c, h) # {}
    THEN TakeInterrupt(h, MachineCause(MachineDue(c, h)))
    ELSE IF SupervisorDue(c, h) # {}
    THEN TakeSupervisorInterrupt(h, SupervisorCause(SupervisorDue(c, h)))
    ELSE h

(* take_exception: delegated, the privilege level is shifted into SPP, which *)
(* the write of sstatus drops; otherwise MPIE is or-ed with MIE.            *)
TakeException(h, cause) ==
    LET m == h.flags["mstatus"]
        s == Sstatus(m)
    IN  IF cause \in h.flags["medeleg"] /\ h.priv <= PRV_S
        THEN [WriteFlags(h, "sstatus", (s \ {SPP, SIE})
                    \union (IF SIE \in s THEN {SPIE} ELSE {})
                    \union (IF h.priv = PRV_S THEN {SPP} ELSE {}))
              EXCEPT !.pc = Handler(Vector.stvec, cause), !.sepc = h.pc,
                     !.priv = PRV_S]
        ELSE [h EXCEPT !.pc = Handler(Vector.mtvec, cause), !.priv = PRV_M,
                       !.mepc = h.pc,
                       !.flags["mstatus"] =
                           (m \ (MPP \union {MIE})) \union MppBits(h.priv)
                             \union (IF MIE \in m THEN {MPIE} ELSE {})]

(* Mutant of EcallCause: every call is one from user mode. *)
EcallCauseOfUser(priv) == 8

EcallCause(priv) == CASE priv = PRV_U -> 8 [] priv = PRV_M -> 11 [] OTHER -> 9

(* Mutant of Mret: MIE is not restored. *)
MretForgetsMie(h) ==
    [h EXCEPT !.pc = h.mepc, !.priv = MppOf(h.flags["mstatus"]),
              !.flags["mstatus"] = (@ \ {MIE}) \union {MPIE} \union MPP]

(* The MRET instruction. *)
Mret(h) ==
    LET m == h.flags["mstatus"]
    IN  [h EXCEPT !.pc = h.mepc, !.priv = MppOf(m),
                  !.flags["mstatus"] =
                      (m \ {MIE}) \union (IF MPIE \in m THEN {MIE} ELSE {})
                        \union {MPIE} \union MPP]

----------------------------------------------------------------------------
(* The step of a core. *)

NextPc(h) == [h EXCEPT !.pc = @ + 4]

(* The context a trap interrupts. *)
Context(h) == [pc |-> h.pc, mie |-> MIE \in h.flags["mstatus"], priv |-> h.priv]

(* Core c as handle_interrupt, which every step begins with, leaves it. *)
Entered(c) == HandleInterrupt(c, hart[c])

EnteredFrame(c) ==
    IF MachineDue(c, hart[c]) # {} THEN Context(hart[c]) ELSE frame[c]

(* The instruction at the pc of core c may be i. *)
Executes(c, i) == i \in Code[c][Entered(c).pc]

Becomes(c, h, f) ==
    /\ hart' = [hart EXCEPT ![c] = h]
    /\ frame' = [frame EXCEPT ![c] = f]

(* Instructions that only move on.  SRET and WFI are among them: the decoding *)
(* of step matches neither.                                                 *)
ExecNop(c) ==
    /\ \E op \in {"nop", "sret", "wfi"} : Executes(c, <<op>>)
    /\ Becomes(c, NextPc(Entered(c)), EnteredFrame(c))
    /\ UNCHANGED clintVars

ExecJump(c) ==
    /\ \E i \in Code[c][Entered(c).pc] :
        /\ i[1] = "jump"
        /\ Becomes(c, [Entered(c) EXCEPT !.pc = i[2]], EnteredFrame(c))
    /\ UNCHANGED clintVars

(* CSRRS, CSRRC and CSRRW on a register of flags. *)
NewFlags(op, old, bits) ==
    CASE op = "csrrs" -> old \union bits
      [] op = "csrrc" -> old \ bits
      [] op = "csrrw" -> bits

ExecCsr(c) ==
    /\ \E i \in Code[c][Entered(c).pc] :
        /\ i[1] \in {"csrrs", "csrrc", "csrrw"}
        /\ LET h == Entered(c)
           IN  Becomes(c, NextPc(WriteFlags(h, i[2],
                                            NewFlags(i[1], ReadFlags(h, i[2]), i[3]))),
                       EnteredFrame(c))
    /\ UNCHANGED clintVars

(* The CSRRW by which a handler moves mepc past the ECALL it has served. *)
ExecAdvanceMepc(c) ==
    /\ Executes(c, <<"advance">>)
    /\ Becomes(c, NextPc([Entered(c) EXCEPT !.mepc = @ + 4]),
               IF EnteredFrame(c) = NoFrame THEN NoFrame
               ELSE [EnteredFrame(c) EXCEPT !.pc = @ + 4])
    /\ UNCHANGED clintVars

ExecEcall(c) ==
    /\ Executes(c, <<"ecall">>)
    /\ LET h  == Entered(c)
           h1 == TakeException(h, EcallCause(h.priv))
       IN  Becomes(c, h1, IF h1.priv = PRV_M THEN Context(h) ELSE EnteredFrame(c))
    /\ UNCHANGED clintVars

ExecMret(c) ==
    /\ Executes(c, <<"mret">>)
    /\ Becomes(c, Mret(Entered(c)), NoFrame)
    /\ UNCHANGED clintVars

(* A store to the CLINT. *)
ExecStore(c) ==
    /\ \E i \in Code[c][Entered(c).pc] :
        /\ i[1] = "sw"
        /\ ClintWrite(i[2], i[3])
    /\ Becomes(c, NextPc(Entered(c)), EnteredFrame(c))

(* Simulator::run: the cores, all released, step in turn. *)
Step(c) ==
    /\ turn = c
    /\ turn' = c + 1
    /\ \/ ExecNop(c)
       \/ ExecJump(c)
       \/ ExecCsr(c)
       \/ ExecAdvanceMepc(c)
       \/ ExecEcall(c)
       \/ ExecMret(c)
       \/ ExecStore(c)

(* The end of a cycle: debug_run calls update_timer(1) once and run twice. *)
EndCycle ==
    /\ turn = NumCores
    /\ turn' = 0
    /\ UpdateTimer(1) \/ UpdateTimer(2)
    /\ UNCHANGED <<hart, frame>>

Next == EndCycle \/ \E c \in Cores : Step(c)

(* The one thread of the simulator keeps running the loop. *)
Spec == Init /\ [][Next]_vars /\ WF_vars(Next)

----------------------------------------------------------------------------
(* Type correctness of the cores and of the CLINT. *)
TypeOK ==
    /\ ClintTypeOK
    /\ turn \in 0 .. NumCores
    /\ \A c \in Cores :
        /\ hart[c].pc \in DOMAIN Code[c]
        /\ hart[c].priv \in {PRV_U, PRV_S, PRV_M}
        /\ DOMAIN hart[c].flags = FlagRegs
        /\ \A r \in FlagRegs : hart[c].flags[r] \subseteq 0 .. 31

(* While a handler runs, machine interrupts are off and mepc and mstatus keep *)
(* the interrupted context, whatever the other core, the timer and the      *)
(* lines do.  This needs a handler that leaves MIE and the lines to MRET.    *)
(* Traps delegated to supervisor mode have no such handlers for want of SRET *)
(* and keep no frame.                                                       *)
HandlerKeepsContext ==
    \A c \in Cores :
        frame[c] # NoFrame =>
            LET m == hart[c].flags["mstatus"]
            IN  /\ MIE \notin m
                /\ hart[c].mepc = frame[c].pc
                /\ (MPIE \in m) = frame[c].mie
                /\ MppOf(m) = frame[c].priv

(* MRET brings the interrupted program back where it was, in its privilege   *)
(* level and with its interrupt enable.                                     *)
MretResumes ==
    [][\A c \in Cores :
        frame[c] # NoFrame /\ frame'[c] = NoFrame => Context(hart'[c]) = frame[c]]_vars

(* A software interrupt that another core raises is served, though it may     *)
(* arrive while interrupts are off or while another trap is being handled.  *)
SoftwareInterruptServed == \A c \in Cores : msip[c] ~> ~msip[c]

(* So is a timer interrupt, and its handler puts it off by one store. *)
TimerInterruptServed ==
    \A c \in Cores : HasTimerInterrupt(c) ~> ~HasTimerInterrupt(c)

=============================================================================

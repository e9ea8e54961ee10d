--------------------------- MODULE InterruptProofs ---------------------------
(***************************************************************************)
(* Proofs about interrupts.  First of traps, for any number of cores and any  *)
(* programs that keep the discipline of TrapDiscipline.tla: types, that the  *)
(* context a trap interrupts is kept until its MRET, and that MRET goes back *)
(* to it.  Then of the interrupt controller, for any number of sources,      *)
(* targets and priority levels: the search finds the best candidate, and     *)
(* every source that becomes pending is handed out once.                    *)
(***************************************************************************)
EXTENDS TrapDiscipline, Plic, WellFoundedInduction, TLAPS

(* What is assumed of the program of one core. *)
LEMMA Program ==
    ASSUME NEW c \in Cores
    PROVE  /\ DOMAIN Code[c] \subseteq Nat
           /\ \A a \in DOMAIN Code[c] : Role[c][a] \in Roles
           /\ \A a \in DOMAIN Code[c] : \A i \in Code[c][a] : Keeps(c, a, i)
           /\ InitPc[c] \in DOMAIN Code[c] /\ Role[c][InitPc[c]] \in {"program", "boot"}
           /\ Vectors(c)
BY TrapDisciplineAssumption

(* No context is mistaken for the mark that there is none. *)
LEMMA ContextIsFrame ==
    ASSUME NEW pc \in Nat, NEW mie \in BOOLEAN, NEW priv \in {PRV_U, PRV_S, PRV_M}
    PROVE  [pc |-> pc, mie |-> mie, priv |-> priv] # NoFrame
BY TrapDisciplineAssumption

----------------------------------------------------------------------------
(* The registers after each operation. *)

LEMMA HandlerIsAddress ==
    ASSUME NEW vec \in Nat, NEW cause \in Nat
    PROVE  Handler(vec, cause) \in Nat
<1>1. vec % 4 \in 0 .. 3 /\ vec - (vec % 4) \in Nat
    OBVIOUS
<1> QED
    BY <1>1 DEF Handler

(* A new value of one register of flags, of its pc, mepc or privilege. *)
LEMMA SetFlags ==
    ASSUME NEW h \in Hart, NEW r \in FlagRegs, NEW v \in SUBSET Bits
    PROVE  LET g == [h EXCEPT !.flags[r] = v]
           IN  /\ g \in Hart
               /\ g.pc = h.pc /\ g.priv = h.priv /\ g.mepc = h.mepc
               /\ g.flags = [h.flags EXCEPT ![r] = v]
BY DEF Hart

(* The bits of mstatus that matter are bits, and differ. *)
LEMMA MstatusBits ==
    /\ MIE \in Bits /\ MPIE \in Bits /\ SIE \in Bits /\ MPP \subseteq Bits
    /\ MIE # MPIE /\ SIE # MIE /\ SIE # MPIE
    /\ MIE \notin MPP /\ MPIE \notin MPP /\ SIE \notin MPP
    /\ MPP = {11, 12} /\ 11 # 12
    /\ {MIE, MPIE, 11, 12} \cap {1, 5, 9, 10} = {}
    /\ "mstatus" \in FlagRegs /\ "mideleg" \in FlagRegs /\ "medeleg" \in FlagRegs
BY DEF MIE, MPIE, SIE, MPP, Bits, FlagRegs

(* take_interrupt keeps the pc in mepc and turns MIE off. *)
LEMMA TakeInterruptRegs ==
    ASSUME NEW h \in Hart, NEW cause \in Nat, Vector.mtvec \in Nat
    PROVE  LET g == TakeInterrupt(h, cause)
               m == Mstatus(h)
           IN  /\ g \in Hart
               /\ g.pc = Handler(Vector.mtvec, cause)
               /\ g.priv = h.priv /\ g.mepc = h.pc
               /\ g.flags = [h.flags EXCEPT !["mstatus"] =
                      (m \ {MIE}) \union MPP \union (IF MIE \in m THEN {MPIE} ELSE {})]
<1> DEFINE m == Mstatus(h)
           v == (m \ {MIE}) \union MPP \union (IF MIE \in m THEN {MPIE} ELSE {})
           p == Handler(Vector.mtvec, cause)
<1>1. m \in SUBSET Bits
    BY MstatusBits DEF Hart, Mstatus
<1>2. v \in SUBSET Bits
    BY <1>1, MstatusBits
<1>3. p \in Nat
    BY HandlerIsAddress
<1>4. TakeInterrupt(h, cause) = [h EXCEPT !.pc = p, !.mepc = h.pc, !.flags["mstatus"] = v]
    BY DEF TakeInterrupt, Mstatus
<1> HIDE DEF v, p
<1> DEFINE g == [h EXCEPT !.pc = p, !.mepc = h.pc, !.flags["mstatus"] = v]
<1>5. g.pc = p /\ g.priv = h.priv /\ g.mepc = h.pc
    BY DEF Hart
<1>6. g.flags = [h.flags EXCEPT !["mstatus"] = v]
    BY DEF Hart
<1>7. g \in Hart
    BY <1>2, <1>3, MstatusBits DEF Hart
<1> QED
    BY <1>4, <1>5, <1>6, <1>7 DEF v, p

(* write_csr(0x100) leaves the bits that MRET uses. *)
LEMMA WriteSstatusKeeps ==
    ASSUME NEW m \in SUBSET Bits, NEW v
    PROVE  /\ WriteSstatus(m, v) \in SUBSET Bits
           /\ \A b \in {MIE, MPIE, 11, 12} : b \in WriteSstatus(m, v) <=> b \in m
<1>1. {1, 5, 9, 10} \subseteq Bits
    BY DEF Bits
<1> QED
    BY <1>1, MstatusBits DEF WriteSstatus

(* The registers g of a core that traps to supervisor mode with registers h,  *)
(* writing v to sstatus.                                                    *)
SupervisorTrap(h, v, cause, g) ==
    g = [WriteFlags(h, "sstatus", v) EXCEPT
            !.pc = Handler(Vector.stvec, cause), !.sepc = h.pc]

(* take_supervisor_interrupt and a delegated exception leave all but the pc,  *)
(* sepc and the supervisor's bits of mstatus.                               *)
LEMMA SupervisorTrapRegs ==
    ASSUME NEW h \in Hart, NEW v, NEW cause \in Nat, Vector.stvec \in Nat, NEW g,
           SupervisorTrap(h, v, cause, g)
    PROVE  /\ g \in Hart
           /\ g.pc = Handler(Vector.stvec, cause)
           /\ g.priv = h.priv /\ g.mepc = h.mepc
           /\ g.flags["medeleg"] = h.flags["medeleg"]
           /\ MIE \in Mstatus(g) <=> MIE \in Mstatus(h)
<1> DEFINE w == WriteSstatus(Mstatus(h), v)
           p == Handler(Vector.stvec, cause)
           h1 == [h EXCEPT !.flags["mstatus"] = w]
<1>1. Mstatus(h) \in SUBSET Bits /\ p \in Nat /\ h.pc \in Nat
    BY MstatusBits, HandlerIsAddress DEF Hart, Mstatus
<1>2. w \in SUBSET Bits /\ (MIE \in w <=> MIE \in Mstatus(h))
    BY <1>1, WriteSstatusKeeps
<1>3. WriteFlags(h, "sstatus", v) = h1
    BY DEF WriteFlags, Mstatus
<1> HIDE DEF w, p
<1>4. /\ h1 \in Hart /\ h1.priv = h.priv /\ h1.mepc = h.mepc
      /\ h1.flags = [h.flags EXCEPT !["mstatus"] = w]
    BY <1>2, MstatusBits, SetFlags
<1> HIDE DEF h1
<1>5. /\ g \in Hart /\ g.pc = p /\ g.priv = h1.priv /\ g.mepc = h1.mepc
      /\ g.flags = h1.flags
    <2>1. g = [h1 EXCEPT !.pc = p, !.sepc = h.pc]
        BY <1>3 DEF p, SupervisorTrap
    <2> QED
        BY <1>1, <1>4, <2>1 DEF Hart
<1>6. /\ g.flags["medeleg"] = h.flags["medeleg"]
      /\ Mstatus(g) = w
    BY <1>4, <1>5, MstatusBits DEF Mstatus, Hart, FlagRegs
<1> QED
    BY <1>2, <1>3, <1>4, <1>5, <1>6 DEF p

(* A machine-mode take_exception turns MIE off and notes M-mode in MPP. *)
LEMMA MachineExceptionRegs ==
    ASSUME NEW h \in Hart, NEW cause \in Nat, Vector.mtvec \in Nat, h.priv = PRV_M
    PROVE  LET g == TakeException(h, cause)
               m == Mstatus(h)
           IN  /\ g \in Hart
               /\ g.pc = Handler(Vector.mtvec, cause)
               /\ g.priv = PRV_M /\ g.mepc = h.pc
               /\ g.flags = [h.flags EXCEPT !["mstatus"] =
                      (m \ (MPP \union {MIE})) \union MPP
                         \union (IF MIE \in m THEN {MPIE} ELSE {})]
<1> DEFINE m == Mstatus(h)
           v == (m \ (MPP \union {MIE})) \union MPP
                    \union (IF MIE \in m THEN {MPIE} ELSE {})
           p == Handler(Vector.mtvec, cause)
           g == [h EXCEPT !.pc = p, !.priv = PRV_M, !.mepc = h.pc, !.flags["mstatus"] = v]
<1>1. v \in SUBSET Bits
    <2>1. m \in SUBSET Bits
        BY MstatusBits DEF Hart, Mstatus
    <2> QED
        BY <2>1, MstatusBits
<1>2. p \in Nat
    BY HandlerIsAddress
<1>3. TakeException(h, cause) = g
    <2>1. ~(h.priv <= PRV_S)
        BY DEF PRV_M, PRV_S
    <2>2. MppBits(h.priv) = MPP
        BY DEF MppBits, PRV_M, MPP
    <2> QED
        BY <2>1, <2>2 DEF TakeException, Mstatus
<1> HIDE DEF v, p
<1>4. g.pc = p /\ g.priv = PRV_M /\ g.mepc = h.pc
    BY DEF Hart
<1>5. g.flags = [h.flags EXCEPT !["mstatus"] = v]
    BY DEF Hart
<1>6. g \in Hart
    BY <1>1, <1>2, MstatusBits DEF Hart
<1> QED
    BY <1>3, <1>4, <1>5, <1>6 DEF v, p

(* A delegated take_exception of a supervisor. *)
LEMMA DelegatedExceptionRegs ==
    ASSUME NEW h \in Hart, NEW cause \in Nat, Vector.stvec \in Nat,
           h.priv = PRV_S, cause \in h.flags["medeleg"]
    PROVE  LET g == TakeException(h, cause)
           IN  /\ g \in Hart
               /\ g.pc = Handler(Vector.stvec, cause)
               /\ g.priv = PRV_S
               /\ g.flags["medeleg"] = h.flags["medeleg"]
               /\ MIE \in Mstatus(g) <=> MIE \in Mstatus(h)
<1> DEFINE s == Sstatus(h.flags["mstatus"])
           v == (s \ {SPP, SIE}) \union (IF SIE \in s THEN {SPIE} ELSE {})
                    \union (IF h.priv = PRV_S THEN {SPP} ELSE {})
           p == Handler(Vector.stvec, cause)
           h1 == WriteFlags(h, "sstatus", v)
           g == [h1 EXCEPT !.pc = p, !.sepc = h.pc]
<1>1. TakeException(h, cause) = [h1 EXCEPT !.pc = p, !.sepc = h.pc, !.priv = PRV_S]
    BY DEF TakeException, PRV_S
<1>2. /\ g \in Hart /\ g.pc = p /\ g.priv = PRV_S
      /\ g.flags["medeleg"] = h.flags["medeleg"]
      /\ MIE \in Mstatus(g) <=> MIE \in Mstatus(h)
    <2>1. SupervisorTrap(h, v, cause, g)
        BY DEF SupervisorTrap
    <2> HIDE DEF g, v
    <2>2. /\ g \in Hart /\ g.pc = p /\ g.priv = h.priv
          /\ g.flags["medeleg"] = h.flags["medeleg"]
          /\ MIE \in Mstatus(g) <=> MIE \in Mstatus(h)
        BY <2>1, SupervisorTrapRegs
    <2> QED
        BY <2>2
<1> DEFINE w == WriteSstatus(Mstatus(h), v)
<1>3. h1 \in Hart /\ h1.priv = PRV_S
    <2>1. w \in SUBSET Bits
        <3>1. Mstatus(h) \in SUBSET Bits
            BY MstatusBits DEF Hart, Mstatus
        <3> QED
            BY <3>1, WriteSstatusKeeps
    <2>2. h1 = [h EXCEPT !.flags["mstatus"] = w]
        BY DEF WriteFlags, Mstatus
    <2> HIDE DEF w, h1
    <2> QED
        BY <2>1, <2>2, MstatusBits, SetFlags
<1> HIDE DEF h1, p
<1>4. [h1 EXCEPT !.pc = p, !.sepc = h.pc, !.priv = PRV_S] = g
    <2>1. h.pc \in Nat
        BY DEF Hart
    <2> QED
        BY <1>3, <2>1 DEF Hart
<1> QED
    BY <1>1, <1>2, <1>4 DEF p

(* MRET takes back the pc, the privilege level and MIE. *)
LEMMA MretRegs ==
    ASSUME NEW h \in Hart, MppOf(Mstatus(h)) \in {PRV_U, PRV_S, PRV_M}
    PROVE  LET g == Mret(h)
               m == Mstatus(h)
           IN  /\ g \in Hart
               /\ g.pc = h.mepc /\ g.priv = MppOf(m) /\ g.mepc = h.mepc
               /\ g.flags = [h.flags EXCEPT !["mstatus"] =
                      (m \ {MIE}) \union (IF MPIE \in m THEN {MIE} ELSE {})
                         \union {MPIE} \union MPP]
<1> DEFINE m == Mstatus(h)
           v == (m \ {MIE}) \union (IF MPIE \in m THEN {MIE} ELSE {})
                    \union {MPIE} \union MPP
           p == MppOf(m)
           g == [h EXCEPT !.pc = h.mepc, !.priv = p, !.flags["mstatus"] = v]
<1>1. v \in SUBSET Bits
    <2>1. m \in SUBSET Bits
        BY MstatusBits DEF Hart, Mstatus
    <2> QED
        BY <2>1, MstatusBits
<1>2. Mret(h) = g
    BY DEF Mret, Mstatus
<1>3. p \in {PRV_U, PRV_S, PRV_M}
    OBVIOUS
<1> HIDE DEF v, p
<1>4. g.pc = h.mepc /\ g.priv = p /\ g.mepc = h.mepc
    BY DEF Hart
<1>5. g.flags = [h.flags EXCEPT !["mstatus"] = v]
    BY DEF Hart
<1>6. g \in Hart
    BY <1>1, <1>3, MstatusBits DEF Hart
<1> QED
    BY <1>2, <1>4, <1>5, <1>6 DEF v, p

(* Going on at another address changes nothing else. *)
LEMMA MoveRegs ==
    ASSUME NEW h \in Hart, NEW b \in Nat
    PROVE  LET g == [h EXCEPT !.pc = b]
           IN  /\ g \in Hart
               /\ g.pc = b /\ g.priv = h.priv /\ g.mepc = h.mepc /\ g.flags = h.flags
BY DEF Hart


----------------------------------------------------------------------------
(* A core that keeps to its roles. *)

(* The four kinds of roles are apart. *)
LEMMA RolesApart ==
    /\ \A r \in Roles : r \in Machine \/ r \in Handling \/ r \in Booting \/ r = "super"
    /\ Machine \cap Handling = {} /\ Machine \cap Booting = {} /\ Handling \cap Booting = {}
    /\ "super" \notin Machine /\ "super" \notin Handling /\ "super" \notin Booting
    /\ {"program", "open"} \subseteq Machine /\ {"call", "serve"} \subseteq Handling
    /\ {"boot", "delegated", "leave"} \subseteq Booting
BY DEF Roles, Machine, Handling, Booting

(* A core in a handler has a frame, any other has none. *)
LEMMA FrameIsHandling ==
    ASSUME NEW c \in Cores, NEW h, NEW f, CoreOK(c, h, f)
    PROVE  f # NoFrame <=> RoleOf(c, h) \in Handling
<1>1. h.pc \in DOMAIN Code[c] /\ RoleOf(c, h) \in Roles
    BY Program DEF CoreOK, RoleOf
<1>2. CASE RoleOf(c, h) \in Handling
    <2>1. f = [pc |-> h.mepc, mie |-> TRUE, priv |-> PRV_M] /\ h.mepc \in Nat
        BY <1>2, Program DEF CoreOK, HandlingOK
    <2>2. [pc |-> h.mepc, mie |-> TRUE, priv |-> PRV_M] # NoFrame
        BY <2>1, ContextIsFrame
    <2> QED
        BY <1>2, <2>1, <2>2
<1>3. CASE RoleOf(c, h) \notin Handling
    BY <1>1, <1>3, RolesApart DEF CoreOK, MachineOK, BootingOK, SuperOK
<1> QED
    BY <1>2, <1>3

(* The context of an M-mode program with interrupts on. *)
LEMMA OpenContext ==
    ASSUME NEW h \in Hart, MIE \in Mstatus(h), h.priv = PRV_M
    PROVE  Context(h) = [pc |-> h.pc, mie |-> TRUE, priv |-> PRV_M]
<1>1. (MIE \in h.flags["mstatus"]) = TRUE
    BY Zenon DEF Mstatus
<1>2. Context(h) = [pc |-> h.pc, mie |-> (MIE \in h.flags["mstatus"]), priv |-> h.priv]
    BY Zenon DEF Context
<1> QED
    BY ONLY <1>1, <1>2, h.priv = PRV_M, Zenon

(* SIE reads as it is in mstatus. *)
LEMMA SieInSstatus ==
    ASSUME NEW m \in SUBSET Bits, SIE \in Sstatus(m)
    PROVE  SIE \in m
<1>1. \A b \in 0 .. 10 : SstatusBit[b] = 1 => b = 1
    <2> SUFFICES ASSUME NEW b \in 0 .. 10, b # 1 PROVE SstatusBit[b] # 1
        OBVIOUS
    <2>1. SstatusBit[b] = <<0, 1, 5, 3, 5, 6, 7, 7, 12, 17, 14>>[b + 1]
        BY DEF SstatusBit
    <2>2. b \in {0, 2, 3, 4, 5, 6, 7, 8, 9, 10}
        OBVIOUS
    <2> QED
        BY <2>1, <2>2
<1> QED
    BY <1>1 DEF Sstatus, SIE

(* The lines of a core are those of the CLINT. *)
LEMMA Lines ==
    ASSUME NEW c
    PROVE  Mip(c) \subseteq {MSIP, MTIP} /\ MSIP # MTIP /\ MSIP # MEIP /\ MTIP # MEIP
BY DEF Mip, MSIP, MTIP, MEIP


(* A machine interrupt that is due is taken, by an entry for its cause. *)
LEMMA MachineTaken ==
    ASSUME NEW c \in Cores, NEW h, MachineDue(c, h) # {}
    PROVE  /\ MIE \in Mstatus(h)
           /\ \E cause \in {3, 7} : HandleInterrupt(c, h) = TakeInterrupt(h, cause)
<1> DEFINE due == MachineDue(c, h)
<1>1. MIE \in Mstatus(h) /\ due = (Mip(c) \cap h.flags["mie"]) \ h.flags["mideleg"]
    BY DEF MachineDue, Mstatus
<1>2. due \subseteq {MSIP, MTIP}
    BY <1>1, Lines
<1>3. CheckPending(c, h)
    BY <1>1, <1>2 DEF CheckPending
<1>4. MachineCause(due) \in {3, 7}
    BY <1>2, Lines DEF MachineCause
<1> QED
    BY <1>1, <1>3, <1>4 DEF HandleInterrupt

(* Without one, a step begins with a supervisor interrupt, which needs SIE    *)
(* and a delegated line, or with none.                                      *)
LEMMA SupervisorTaken ==
    ASSUME NEW c \in Cores, NEW h, MachineDue(c, h) = {}, HandleInterrupt(c, h) # h
    PROVE  /\ SIE \in Sstatus(Mstatus(h)) /\ h.flags["mideleg"] # {}
           /\ \E v : \E cause \in {1, 5} :
                SupervisorTrap(h, v, cause, HandleInterrupt(c, h))
<1> DEFINE due == SupervisorDue(c, h)
           cause == SupervisorCause(due)
           s == Sstatus(h.flags["mstatus"])
           v == (s \ {SIE}) \union {SPP} \union (IF SIE \in s THEN {SPIE} ELSE {})
<1>1. due # {} /\ HandleInterrupt(c, h) = TakeSupervisorInterrupt(h, cause)
    BY DEF HandleInterrupt
<1>2. /\ SIE \in s
      /\ due = {SieBit(b) : b \in Mip(c) \cap h.flags["mideleg"]} \cap h.flags["sie"]
    BY <1>1 DEF SupervisorDue
<1>3. due \subseteq {1, 5}
    <2>1. \A b \in {MSIP, MTIP} : SieBit(b) \in {1, 5}
        BY Lines DEF SieBit
    <2> QED
        BY <1>2, <2>1, Lines
<1>4. cause \in {1, 5}
    <2>1. \E b \in due : \A d \in due : b <= d
        BY <1>1, <1>3
    <2> QED
        BY <1>3, <2>1 DEF SupervisorCause
<1>5. SupervisorTrap(h, v, cause, HandleInterrupt(c, h))
    BY <1>1 DEF TakeSupervisorInterrupt, SupervisorTrap
<1> HIDE DEF due, cause, v
<1> QED
    BY <1>1, <1>2, <1>4, <1>5 DEF Mstatus

(* A step begins with the entry of an interrupt only for a core that runs its *)
(* program; the core is then in the handler, with the context kept.          *)
LEMMA EnteredOK ==
    ASSUME NEW c \in Cores, CoreOK(c, hart[c], frame[c])
    PROVE  /\ CoreOK(c, Entered(c), EnteredFrame(c))
           /\ frame[c] # NoFrame =>
                Entered(c) = hart[c] /\ EnteredFrame(c) = frame[c]
<1> DEFINE h == hart[c]
           f == frame[c]
           g == Entered(c)
<1>1. /\ h \in Hart /\ h.pc \in DOMAIN Code[c] /\ RoleOf(c, h) \in Roles
      /\ Mstatus(h) \in SUBSET Bits
    BY Program, MstatusBits DEF CoreOK, RoleOf, Hart, Mstatus
<1>2. Vector.mtvec \in Nat /\ Vector.stvec \in Nat
    BY TrapDisciplineAssumption
<1>3. g = HandleInterrupt(c, h)
    BY DEF Entered
<1>4. CASE MachineDue(c, h) # {}
    <2>1. MIE \in Mstatus(h)
        BY <1>4, MachineTaken
    <2>2. PICK cause \in {3, 7} : g = TakeInterrupt(h, cause)
        BY <1>3, <1>4, MachineTaken
    <2>3. RoleOf(c, h) \in Machine
        BY <1>1, <2>1, RolesApart DEF CoreOK, HandlingOK, BootingOK, SuperOK
    <2>4. f = NoFrame /\ h.priv = PRV_M /\ h.flags["mideleg"] = {}
        BY <2>3 DEF CoreOK, MachineOK
    <2>5. Entry(c, Vector.mtvec, cause, {"serve"})
        BY <1>1, <2>3, Program DEF Vectors, RoleOf
    <2>6. /\ g \in Hart
          /\ g.pc = Handler(Vector.mtvec, cause)
          /\ g.priv = h.priv /\ g.mepc = h.pc
          /\ g.flags = [h.flags EXCEPT !["mstatus"] =
                (Mstatus(h) \ {MIE}) \union MPP \union (IF MIE \in Mstatus(h) THEN {MPIE} ELSE {})]
        BY <1>1, <1>2, <2>2, TakeInterruptRegs
    <2>7. EnteredFrame(c) = [pc |-> g.mepc, mie |-> TRUE, priv |-> PRV_M]
        <3>1. EnteredFrame(c) = Context(h)
            BY <1>4 DEF EnteredFrame
        <3>2. Context(h) = [pc |-> h.pc, mie |-> TRUE, priv |-> PRV_M]
            BY <1>1, <2>1, <2>4, OpenContext
        <3> QED
            BY <2>6, <3>1, <3>2
    <2>8. g.pc \in DOMAIN Code[c] /\ RoleOf(c, g) = "serve"
        BY <2>5, <2>6 DEF Entry, RoleOf
    <2>9. HandlingOK(c, g, EnteredFrame(c))
        <3>1. DOMAIN h.flags = FlagRegs
            BY <1>1 DEF Hart
        <3>2. MIE \notin Mstatus(g) /\ MPIE \in Mstatus(g) /\ MPP \subseteq Mstatus(g)
            BY <2>1, <2>6, <3>1, MstatusBits DEF Mstatus
        <3>3. g.flags["mideleg"] = {}
            BY <2>4, <2>6, <3>1, MstatusBits
        <3>4. g.mepc \in DOMAIN Code[c] /\ Role[c][g.mepc] \in Machine
            BY <1>1, <2>3, <2>6 DEF RoleOf
        <3> HIDE DEF g, h, f
        <3> QED
            BY <2>4, <2>6, <2>7, <2>8, <3>2, <3>3, <3>4 DEF HandlingOK
    <2> QED
        BY <2>4, <2>6, <2>8, <2>9, RolesApart DEF CoreOK, MachineOK, BootingOK, SuperOK
<1>5. CASE MachineDue(c, h) = {} /\ g = h
    BY <1>5 DEF EnteredFrame
<1>6. CASE MachineDue(c, h) = {} /\ g # h
    <2>1. EnteredFrame(c) = f
        BY <1>6 DEF EnteredFrame
    <2>2. /\ SIE \in Sstatus(Mstatus(h)) /\ h.flags["mideleg"] # {}
          /\ \E v : \E cause \in {1, 5} : SupervisorTrap(h, v, cause, g)
        BY <1>3, <1>6, SupervisorTaken
    <2>3. PICK v : \E cause \in {1, 5} : SupervisorTrap(h, v, cause, g)
        BY <2>2
    <2>4. PICK cause \in {1, 5} : SupervisorTrap(h, v, cause, g)
        BY <2>3
    <2>5. SIE \in Mstatus(h)
        BY <1>1, <2>2, SieInSstatus
    <2>6. RoleOf(c, h) = "super"
        BY <1>1, <2>2, <2>5, RolesApart DEF CoreOK, MachineOK, HandlingOK, BootingOK
    <2>7. f = NoFrame /\ h.priv = PRV_S /\ MIE \notin Mstatus(h) /\ 9 \in h.flags["medeleg"]
        BY <2>6 DEF CoreOK, SuperOK
    <2>8. Entry(c, Vector.stvec, cause, {"super"})
        BY <1>1, <2>6, Program DEF Vectors, RoleOf
    <2> HIDE DEF g, h
    <2>9. /\ g \in Hart
          /\ g.pc = Handler(Vector.stvec, cause)
          /\ g.priv = h.priv /\ g.mepc = h.mepc
          /\ g.flags["medeleg"] = h.flags["medeleg"]
          /\ MIE \in Mstatus(g) <=> MIE \in Mstatus(h)
        BY <1>1, <1>2, <2>4, SupervisorTrapRegs
    <2>10. g.pc \in DOMAIN Code[c] /\ RoleOf(c, g) = "super"
        BY <2>8, <2>9 DEF Entry, RoleOf
    <2>11. CoreOK(c, g, f)
        BY <2>7, <2>9, <2>10, RolesApart DEF CoreOK, MachineOK, HandlingOK, BootingOK, SuperOK
    <2> QED
        BY <2>1, <2>7, <2>11 DEF g
<1> QED
    BY <1>4, <1>5, <1>6


----------------------------------------------------------------------------
(* The instructions. *)

(* Registers g differ from h in nothing a role speaks of but the pc. *)
Similar(h, g) ==
    /\ g \in Hart /\ g.priv = h.priv /\ g.mepc = h.mepc
    /\ \A b \in {MIE, MPIE, 11, 12} : b \in Mstatus(g) <=> b \in Mstatus(h)

SameDelegation(h, g) ==
    g.flags["mideleg"] = h.flags["mideleg"] /\ g.flags["medeleg"] = h.flags["medeleg"]

SieStaysOff(h, g) == SIE \in Mstatus(g) => SIE \in Mstatus(h)

LEMMA FollowsRoles ==
    ASSUME NEW r, NEW r2, Follows(r, r2)
    PROVE  /\ r2 \in Machine => r \in Machine
           /\ r2 = "open" => r = "open"
           /\ r2 \in Handling => r \in Handling
           /\ r2 = "call" => r = "call"
           /\ r2 \in Booting \union {"super"} => r = r2
BY DEF Follows, Machine, Handling, Booting

LEMMA FollowsOK ==
    ASSUME NEW c \in Cores, NEW h, NEW f, CoreOK(c, h, f), NEW g, Similar(h, g),
           Goes(c, h.pc, g.pc),
           RoleOf(c, h) \in Machine \union Handling =>
                g.flags["mideleg"] = h.flags["mideleg"],
           9 \in h.flags["medeleg"] =>
                9 \in g.flags["medeleg"] \/ RoleOf(c, h) \in Machine \union Handling \union {"boot"},
           RoleOf(c, h) \in Booting => SieStaysOff(h, g)
    PROVE  CoreOK(c, g, f)
<1> DEFINE r == RoleOf(c, h)
           r2 == RoleOf(c, g)
<1>1. Follows(r, r2) /\ g.pc \in DOMAIN Code[c] /\ g \in Hart
    BY DEF Goes, RoleOf, Similar
<1>2. /\ r2 \in Machine => r \in Machine
      /\ r2 = "open" => r = "open"
      /\ r2 \in Handling => r \in Handling
      /\ r2 = "call" => r = "call"
      /\ r2 \in Booting \union {"super"} => r = r2
    BY <1>1, FollowsRoles
<1>3. MIE \in Mstatus(g) <=> MIE \in Mstatus(h)
    BY DEF Similar
<1>4. MachineOK(c, g, f)
    BY <1>2, <1>3 DEF CoreOK, MachineOK, Similar
<1>5. HandlingOK(c, g, f)
    <2> SUFFICES ASSUME r2 \in Handling
                 PROVE  HandlingOK(c, g, f)
        BY DEF HandlingOK
    <2>1. /\ f = [pc |-> h.mepc, mie |-> TRUE, priv |-> PRV_M]
          /\ h.priv = PRV_M /\ h.flags["mideleg"] = {}
          /\ MIE \notin Mstatus(h) /\ MPIE \in Mstatus(h) /\ MPP \subseteq Mstatus(h)
          /\ h.mepc \in DOMAIN Code[c] /\ Role[c][h.mepc] \in Machine
          /\ r = "call" => <<"ecall">> \in Code[c][h.mepc]
        BY <1>2 DEF CoreOK, HandlingOK
    <2>2. MPIE \in Mstatus(g) /\ MPP \subseteq Mstatus(g)
        BY <2>1, MstatusBits DEF Similar
    <2>3. g.flags["mideleg"] = {} /\ g.priv = PRV_M /\ g.mepc = h.mepc
        BY <1>2, <2>1 DEF Similar
    <2> HIDE DEF r, r2
    <2> QED
        BY <1>2, <1>3, <2>1, <2>2, <2>3 DEF HandlingOK, r2
<1>6. BootingOK(c, g, f)
    <2> SUFFICES ASSUME r2 \in Booting
                 PROVE  BootingOK(c, g, f)
        BY DEF BootingOK
    <2>1. r = r2
        BY <1>2
    <2>2. /\ f = NoFrame /\ h.priv = PRV_M /\ h.mepc = 0
          /\ SIE \notin Mstatus(h) /\ MIE \notin Mstatus(h) /\ MPIE \notin Mstatus(h)
          /\ 11 \in Mstatus(h)
          /\ r # "boot" => 9 \in h.flags["medeleg"]
          /\ r = "leave" => 12 \notin Mstatus(h)
        BY <2>1 DEF CoreOK, BootingOK
    <2>3. SIE \notin Mstatus(g) /\ MIE \notin Mstatus(g) /\ MPIE \notin Mstatus(g)
        BY <2>1, <2>2 DEF Similar, SieStaysOff
    <2>4. 11 \in Mstatus(g) /\ (12 \in Mstatus(g) <=> 12 \in Mstatus(h))
        BY <2>2 DEF Similar
    <2>5. r # "boot" => 9 \in g.flags["medeleg"]
        BY <2>1, <2>2, RolesApart
    <2>6. {SIE, MIE, MPIE} \cap Mstatus(g) = {}
        BY <2>3
    <2>7. g.priv = PRV_M /\ g.mepc = 0
        BY <2>2 DEF Similar
    <2> HIDE DEF r, r2
    <2> QED
        BY <2>1, <2>2, <2>4, <2>5, <2>6, <2>7 DEF BootingOK, r2
<1>7. SuperOK(c, g, f)
    <2> SUFFICES ASSUME r2 = "super"
                 PROVE  SuperOK(c, g, f)
        BY DEF SuperOK
    <2>1. r = "super"
        BY <1>2
    <2>2. f = NoFrame /\ h.priv = PRV_S /\ MIE \notin Mstatus(h) /\ 9 \in h.flags["medeleg"]
        BY <2>1 DEF CoreOK, SuperOK
    <2>3. 9 \in g.flags["medeleg"]
        BY <2>1, <2>2, RolesApart
    <2> QED
        BY <1>3, <2>2, <2>3 DEF SuperOK, Similar
<1> QED
    BY <1>1, <1>4, <1>5, <1>6, <1>7 DEF CoreOK

(* nop, jump and a store, whose effect on the CLINT is another matter. *)
LEMMA MoveOK ==
    ASSUME NEW c \in Cores, NEW h, NEW f, CoreOK(c, h, f), NEW b, Goes(c, h.pc, b)
    PROVE  CoreOK(c, [h EXCEPT !.pc = b], f)
<1> DEFINE g == [h EXCEPT !.pc = b]
<1>1. h \in Hart /\ b \in Nat
    BY Program DEF CoreOK, Goes
<1>2. g \in Hart /\ g.pc = b /\ g.priv = h.priv /\ g.mepc = h.mepc /\ g.flags = h.flags
    BY <1>1, MoveRegs
<1> HIDE DEF g
<1>3. Similar(h, g) /\ Goes(c, h.pc, g.pc) /\ SieStaysOff(h, g)
    BY <1>2 DEF Similar, SieStaysOff, Mstatus
<1>4. CoreOK(c, g, f)
    BY <1>2, <1>3, FollowsOK
<1> QED
    BY <1>4 DEF g


(* A core in machine mode whose program goes on with interrupts as its new    *)
(* role says.                                                               *)
LEMMA MachineGoesOn ==
    ASSUME NEW c \in Cores, NEW h, NEW f, CoreOK(c, h, f), RoleOf(c, h) \in Machine,
           NEW g \in Hart, g.pc \in DOMAIN Code[c], RoleOf(c, g) \in Machine,
           g.priv = h.priv, g.flags["mideleg"] = h.flags["mideleg"],
           RoleOf(c, g) = "open" => MIE \in Mstatus(g)
    PROVE  CoreOK(c, g, f)
<1>1. f = NoFrame /\ h.priv = PRV_M /\ h.flags["mideleg"] = {}
    BY DEF CoreOK, MachineOK
<1> QED
    BY <1>1, RolesApart DEF CoreOK, MachineOK, HandlingOK, BootingOK, SuperOK

(* So does one that is on its way to supervisor mode. *)
LEMMA BootGoesOn ==
    ASSUME NEW c \in Cores, NEW h, NEW f, CoreOK(c, h, f),
           RoleOf(c, h) \in {"boot", "delegated"},
           NEW g \in Hart, g.pc \in DOMAIN Code[c], RoleOf(c, g) \in {"delegated", "leave"},
           g.priv = h.priv, g.mepc = h.mepc,
           Mstatus(g) \subseteq Mstatus(h), 11 \in Mstatus(g),
           9 \in g.flags["medeleg"],
           RoleOf(c, g) = "leave" => 12 \notin Mstatus(g)
    PROVE  CoreOK(c, g, f)
<1>1. f = NoFrame /\ h.priv = PRV_M /\ h.mepc = 0 /\ {SIE, MIE, MPIE} \cap Mstatus(h) = {}
    BY RolesApart DEF CoreOK, BootingOK
<1>2. {SIE, MIE, MPIE} \cap Mstatus(g) = {}
    BY <1>1
<1> QED
    BY <1>1, <1>2, RolesApart DEF CoreOK, MachineOK, HandlingOK, BootingOK, SuperOK

(* A write of v to a register of flags, and the next pc. *)
LEMMA WriteRegs ==
    ASSUME NEW h \in Hart, NEW r \in FlagRegs, NEW v \in SUBSET Bits
    PROVE  LET g == NextPc(WriteFlags(h, r, v))
           IN  /\ g \in Hart /\ g.pc = h.pc + 4 /\ g.priv = h.priv /\ g.mepc = h.mepc
               /\ g.flags = [h.flags EXCEPT ![r] = v]
<1> DEFINE h1 == [h EXCEPT !.flags[r] = v]
<1>1. r # "sstatus" /\ h.pc + 4 \in Nat
    BY DEF FlagRegs, Hart
<1>2. WriteFlags(h, r, v) = h1
    BY <1>1 DEF WriteFlags
<1>3. /\ h1 \in Hart
      /\ h1.pc = h.pc /\ h1.priv = h.priv /\ h1.mepc = h.mepc
      /\ h1.flags = [h.flags EXCEPT ![r] = v]
    BY SetFlags
<1> HIDE DEF h1
<1>4. NextPc(h1) = [h1 EXCEPT !.pc = h.pc + 4]
    BY <1>3 DEF NextPc
<1> QED
    BY <1>1, <1>2, <1>3, <1>4, MoveRegs

(* The same for sstatus, which is a part of mstatus. *)
LEMMA WriteSstatusRegs ==
    ASSUME NEW h \in Hart, NEW v
    PROVE  LET g == NextPc(WriteFlags(h, "sstatus", v))
           IN  /\ g.pc = h.pc + 4 /\ Similar(h, g) /\ SameDelegation(h, g)
<1> DEFINE w == WriteSstatus(Mstatus(h), v)
           h1 == [h EXCEPT !.flags["mstatus"] = w]
           g == [h1 EXCEPT !.pc = h.pc + 4]
<1>1. Mstatus(h) \in SUBSET Bits /\ h.pc + 4 \in Nat
    BY MstatusBits DEF Hart, Mstatus
<1>2. w \in SUBSET Bits /\ \A b \in {MIE, MPIE, 11, 12} : b \in w <=> b \in Mstatus(h)
    BY <1>1, WriteSstatusKeeps
<1>3. WriteFlags(h, "sstatus", v) = h1
    BY DEF WriteFlags, Mstatus
<1> HIDE DEF w
<1>4. /\ h1 \in Hart
      /\ h1.pc = h.pc /\ h1.priv = h.priv /\ h1.mepc = h.mepc
      /\ h1.flags = [h.flags EXCEPT !["mstatus"] = w]
    BY <1>2, MstatusBits, SetFlags
<1> HIDE DEF h1
<1>5. NextPc(h1) = g
    BY <1>4 DEF NextPc
<1>6. /\ g \in Hart /\ g.pc = h.pc + 4 /\ g.priv = h1.priv /\ g.mepc = h1.mepc
      /\ g.flags = h1.flags
    BY <1>1, <1>4, MoveRegs
<1> HIDE DEF g
<1>7. DOMAIN h.flags = FlagRegs
    BY DEF Hart
<1>8. Mstatus(g) = w /\ SameDelegation(h, g)
    BY <1>4, <1>6, <1>7, MstatusBits DEF Mstatus, SameDelegation, FlagRegs
<1>9. Similar(h, g)
    BY <1>2, <1>4, <1>6, <1>8 DEF Similar
<1> QED
    BY <1>3, <1>5, <1>6, <1>8, <1>9

(* CSRRS, CSRRC and CSRRW, on any register of flags. *)
LEMMA CsrOK ==
    ASSUME NEW c \in Cores, NEW h, NEW f, CoreOK(c, h, f),
           NEW op \in CsrOps, NEW reg \in FlagRegs \union {"sstatus"}, NEW bits \in SUBSET Bits,
           h.pc + 4 \in DOMAIN Code[c],
           CsrKeeps(Role[c][h.pc], Role[c][h.pc + 4], op, reg, bits)
    PROVE  CoreOK(c, NextPc(WriteFlags(h, reg, NewFlags(op, ReadFlags(h, reg), bits))), f)
<1> DEFINE v == NewFlags(op, ReadFlags(h, reg), bits)
           g == NextPc(WriteFlags(h, reg, v))
           r == RoleOf(c, h)
           r2 == Role[c][h.pc + 4]
<1>1. h \in Hart /\ h.pc \in DOMAIN Code[c] /\ DOMAIN h.flags = FlagRegs
    BY DEF CoreOK, Hart
<1>2. CsrKeeps(r, r2, op, reg, bits) /\ r \in Roles
    BY <1>1, Program DEF RoleOf
<1>3. CASE reg = "sstatus"
    <2>1. g.pc = h.pc + 4 /\ Similar(h, g) /\ SameDelegation(h, g)
        BY <1>1, <1>3, WriteSstatusRegs
    <2>2. Follows(r, r2) /\ r \notin Booting
        BY <1>2, <1>3 DEF CsrKeeps
    <2> HIDE DEF g
    <2>3. Goes(c, h.pc, g.pc)
        BY <2>1, <2>2 DEF Goes, RoleOf
    <2>4. CoreOK(c, g, f)
        BY <2>1, <2>2, <2>3, FollowsOK DEF SameDelegation
    <2> QED
        BY <2>4 DEF g
<1>4. CASE reg \in FlagRegs
    <2> DEFINE old == h.flags[reg]
    <2>1. ReadFlags(h, reg) = old /\ old \in SUBSET Bits
        BY <1>1, <1>4 DEF ReadFlags, FlagRegs, Hart
    <2>2. v = NewFlags(op, old, bits) /\ v \in SUBSET Bits
        BY <2>1 DEF NewFlags, CsrOps
    <2> HIDE DEF v
    <2>3. /\ g \in Hart /\ g.pc = h.pc + 4 /\ g.priv = h.priv /\ g.mepc = h.mepc
          /\ g.flags = [h.flags EXCEPT ![reg] = v]
        BY <1>1, <1>4, <2>2, WriteRegs
    <2> HIDE DEF g
    <2>4. g.flags[reg] = v /\ \A q \in FlagRegs : q # reg => g.flags[q] = h.flags[q]
        BY <1>1, <1>4, <2>3
    <2>5. RoleOf(c, g) = r2 /\ g.pc \in DOMAIN Code[c]
        BY <2>3 DEF RoleOf
    <2>6. Follows(r, r2) => Goes(c, h.pc, g.pc)
        BY <2>3, <2>5 DEF Goes, RoleOf
    <2>7. reg # "mstatus" => Mstatus(g) = Mstatus(h)
        BY <2>4, MstatusBits DEF Mstatus
    <2>8. reg # "mstatus" => Similar(h, g) /\ SieStaysOff(h, g)
        BY <2>3, <2>7 DEF Similar, SieStaysOff
    <2>9. CASE reg \in {"mie", "sie"}
        <3>1. Goes(c, h.pc, g.pc)
            BY <1>2, <2>6, <2>9 DEF CsrKeeps
        <3>2. SameDelegation(h, g)
            BY <2>4, <2>9, MstatusBits DEF SameDelegation
        <3> QED
            BY <2>8, <2>9, <3>1, <3>2, FollowsOK DEF SameDelegation, g, v
    <2>10. CASE reg = "mideleg"
        <3>1. Goes(c, h.pc, g.pc) /\ r \in Booting \union {"super"}
            BY <1>2, <2>6, <2>10 DEF CsrKeeps
        <3>2. r \notin Machine \union Handling
            BY <3>1, RolesApart
        <3>3. g.flags["medeleg"] = h.flags["medeleg"]
            BY <2>4, <2>10, MstatusBits
        <3> QED
            BY <2>8, <2>10, <3>1, <3>2, <3>3, FollowsOK DEF g, v
    <2>11. CASE reg = "medeleg"
        <3>1. g.flags["mideleg"] = h.flags["mideleg"] /\ g.flags["medeleg"] = v
            BY <2>4, <2>11, MstatusBits
        <3>2. op = "csrrs" => v = h.flags["medeleg"] \union bits
            BY <2>2, <2>11 DEF NewFlags
        <3>3. CASE Follows(r, r2) /\ (op = "csrrs" \/ r \in Machine \union Handling \union {"boot"})
            BY <2>6, <2>8, <2>11, <3>1, <3>2, <3>3, FollowsOK DEF g, v
        <3>4. CASE r = "boot" /\ r2 = "delegated" /\ op = "csrrs" /\ 9 \in bits
            <4>1. Mstatus(g) \subseteq Mstatus(h) /\ 11 \in Mstatus(g) /\ 9 \in g.flags["medeleg"]
                BY <2>7, <2>11, <3>1, <3>2, <3>4, RolesApart DEF CoreOK, BootingOK
            <4> QED
                BY <2>3, <2>5, <3>4, <4>1, BootGoesOn DEF g, v
        <3> QED
            BY <1>2, <2>11, <3>3, <3>4 DEF CsrKeeps
    <2>12. CASE reg = "mstatus"
        <3>1. /\ g.flags["mideleg"] = h.flags["mideleg"]
              /\ g.flags["medeleg"] = h.flags["medeleg"]
              /\ Mstatus(g) = v /\ v = NewFlags(op, Mstatus(h), bits)
            BY <2>2, <2>4, <2>12, MstatusBits DEF Mstatus
        <3>2. CASE r \in Machine /\ r2 \in Machine
            <4>1. r2 = "open" => MIE \in v
                <5>1. SUFFICES ASSUME r2 = "open" PROVE MIE \in v
                    OBVIOUS
                <5>2. r = "open" => MIE \in Mstatus(h)
                    BY <3>2 DEF CoreOK, MachineOK
                <5>3. \/ op # "csrrc" /\ MIE \in bits
                      \/ r = "open" /\ op = "csrrc" /\ MIE \notin bits
                      \/ r = "open" /\ op = "csrrs"
                    BY <1>2, <2>12, <3>2, <5>1, RolesApart DEF CsrKeeps
                <5> QED
                    BY <3>1, <5>2, <5>3 DEF NewFlags, CsrOps
            <4> QED
                BY <2>3, <2>5, <3>1, <3>2, <4>1, MachineGoesOn DEF g, v
        <3>3. CASE r = "delegated" /\ r2 = "leave" /\ op = "csrrc" /\ 12 \in bits /\ 11 \notin bits
            <4>1. 11 \in Mstatus(h) /\ 9 \in h.flags["medeleg"]
                BY <3>3, RolesApart DEF CoreOK, BootingOK
            <4>2. v = Mstatus(h) \ bits
                BY <3>1, <3>3 DEF NewFlags
            <4>3. v \subseteq Mstatus(h) /\ 11 \in v /\ 12 \notin v
                BY <3>3, <4>1, <4>2
            <4>4. CoreOK(c, g, f)
                <5>1. RoleOf(c, h) = "delegated" /\ RoleOf(c, g) = "leave"
                    BY <2>5, <3>3
                <5>2. Mstatus(g) \subseteq Mstatus(h) /\ 11 \in Mstatus(g) /\ 12 \notin Mstatus(g)
                    BY <3>1, <4>3
                <5>3. 9 \in g.flags["medeleg"]
                    BY <3>1, <4>1
                <5> QED
                    BY <2>3, <2>5, <5>1, <5>2, <5>3, BootGoesOn
            <4> QED
                BY <4>4 DEF g, v
        <3> QED
            BY <1>2, <2>12, <3>2, <3>3, RolesApart DEF CsrKeeps
    <2> QED
        BY <1>4, <2>9, <2>10, <2>11, <2>12 DEF FlagRegs
<1> QED
    BY <1>3, <1>4


(* The pc of a context is moved on without the rest. *)
IsContext(f, pc, mie, priv) == f = [pc |-> pc, mie |-> mie, priv |-> priv]
MovedTo(f, pc, f1) == f1 = [f EXCEPT !.pc = pc]

LEMMA MovedContext ==
    ASSUME NEW f, NEW x, NEW y, NEW mie, NEW priv, IsContext(f, x, mie, priv),
           NEW f1, MovedTo(f, y, f1)
    PROVE  IsContext(f1, y, mie, priv)
BY DEF IsContext, MovedTo

LEMMA ContextFields ==
    ASSUME NEW f, NEW pc, NEW mie, NEW priv, IsContext(f, pc, mie, priv)
    PROVE  f.pc = pc /\ f.mie = mie /\ f.priv = priv
BY DEF IsContext

(* The handler of an ECALL moves mepc, and with it the kept pc, on. *)
LEMMA AdvanceOK ==
    ASSUME NEW c \in Cores, NEW h, NEW f, CoreOK(c, h, f), <<"advance">> \in Code[c][h.pc]
    PROVE  /\ f # NoFrame
           /\ CoreOK(c, NextPc([h EXCEPT !.mepc = @ + 4]), [f EXCEPT !.pc = @ + 4])
<1> DEFINE h1 == [h EXCEPT !.mepc = h.mepc + 4]
           g == [h1 EXCEPT !.pc = h.pc + 4]
           f1 == [f EXCEPT !.pc = f.pc + 4]
<1>1. h \in Hart /\ h.pc \in DOMAIN Code[c]
    BY DEF CoreOK
<1>2. /\ h.pc + 4 \in DOMAIN Code[c]
      /\ RoleOf(c, h) = "call" /\ Role[c][h.pc + 4] = "serve"
    BY <1>1, Program DEF Keeps, RoleOf
<1>3. /\ f = [pc |-> h.mepc, mie |-> TRUE, priv |-> PRV_M]
      /\ h.priv = PRV_M /\ h.flags["mideleg"] = {}
      /\ MIE \notin Mstatus(h) /\ MPIE \in Mstatus(h) /\ MPP \subseteq Mstatus(h)
      /\ h.mepc \in DOMAIN Code[c] /\ Role[c][h.mepc] \in Machine
      /\ <<"ecall">> \in Code[c][h.mepc]
    BY <1>2, RolesApart DEF CoreOK, HandlingOK
<1>4. h.mepc + 4 \in DOMAIN Code[c] /\ Role[c][h.mepc + 4] \in Machine
    <2>1. Keeps(c, h.mepc, <<"ecall">>)
        BY <1>3, Program
    <2>2. \/ Role[c][h.mepc] = "super"
          \/ h.mepc + 4 \in DOMAIN Code[c] /\ Role[c][h.mepc + 4] \in Machine
        BY <2>1 DEF Keeps
    <2> QED
        BY <1>3, <2>2, RolesApart
<1>5. h.mepc + 4 \in Nat /\ h.pc + 4 \in Nat
    BY <1>2, <1>4, Program
<1>6. /\ g \in Hart /\ g.pc = h.pc + 4 /\ g.priv = h.priv /\ g.mepc = h.mepc + 4
      /\ g.flags = h.flags
    BY <1>1, <1>5 DEF Hart
<1>7. NextPc([h EXCEPT !.mepc = @ + 4]) = g
    <2>1. [h EXCEPT !.mepc = @ + 4] = h1
        OBVIOUS
    <2>2. NextPc(h1) = g
        BY <1>1 DEF NextPc, Hart
    <2> QED
        BY <2>1, <2>2
<1>8. f1 = [pc |-> h.mepc + 4, mie |-> TRUE, priv |-> PRV_M]
    <2>1. IsContext(f, h.mepc, TRUE, PRV_M)
        BY <1>3 DEF IsContext
    <2>2. MovedTo(f, h.mepc + 4, f1)
        BY <1>3 DEF MovedTo
    <2> HIDE DEF f1
    <2>3. IsContext(f1, h.mepc + 4, TRUE, PRV_M)
        BY <2>1, <2>2, MovedContext
    <2> QED
        BY <2>3 DEF IsContext
<1>9. f # NoFrame
    BY <1>1, <1>2, RolesApart, FrameIsHandling
<1> HIDE DEF g, f1
<1>10. HandlingOK(c, g, f1)
    BY <1>2, <1>3, <1>4, <1>6, <1>8 DEF HandlingOK, RoleOf, Mstatus
<1>11. CoreOK(c, g, f1)
    <2>1. RoleOf(c, g) = "serve" /\ g.pc \in DOMAIN Code[c]
        BY <1>2, <1>6 DEF RoleOf
    <2> QED
        BY <1>6, <1>10, <2>1, RolesApart DEF CoreOK, MachineOK, BootingOK, SuperOK
<1> QED
    BY <1>7, <1>9, <1>11 DEF f1

(* An ECALL enters the handler of the mode its cause is handled in. *)
LEMMA EcallOK ==
    ASSUME NEW c \in Cores, NEW h, NEW f, CoreOK(c, h, f), <<"ecall">> \in Code[c][h.pc],
           NEW g, g = TakeException(h, EcallCause(h.priv))
    PROVE  /\ CoreOK(c, g, IF g.priv = PRV_M THEN Context(h) ELSE f)
           /\ f = NoFrame
<1>1. h \in Hart /\ h.pc \in DOMAIN Code[c]
    BY DEF CoreOK
<1>2. \/ RoleOf(c, h) = "super"
      \/ RoleOf(c, h) = "open"
    BY <1>1, Program DEF Keeps, RoleOf
<1>3. Vector.mtvec \in Nat /\ Vector.stvec \in Nat
    BY TrapDisciplineAssumption
<1>4. CASE RoleOf(c, h) = "super"
    <2>1. f = NoFrame /\ h.priv = PRV_S /\ MIE \notin Mstatus(h) /\ 9 \in h.flags["medeleg"]
        BY <1>4 DEF CoreOK, SuperOK
    <2>2. EcallCause(h.priv) = 9
        BY <2>1 DEF EcallCause, PRV_U, PRV_S, PRV_M
    <2>3. /\ g \in Hart
          /\ g.pc = Handler(Vector.stvec, 9)
          /\ g.priv = PRV_S
          /\ g.flags["medeleg"] = h.flags["medeleg"]
          /\ MIE \in Mstatus(g) <=> MIE \in Mstatus(h)
        BY <1>1, <1>3, <2>1, <2>2, DelegatedExceptionRegs
    <2>4. Entry(c, Vector.stvec, 9, {"super"})
        BY <1>1, <1>4, Program DEF Vectors, RoleOf
    <2>5. g.pc \in DOMAIN Code[c] /\ RoleOf(c, g) = "super"
        BY <2>3, <2>4 DEF Entry, RoleOf
    <2>6. CoreOK(c, g, f)
        BY <2>1, <2>3, <2>5, RolesApart DEF CoreOK, MachineOK, HandlingOK, BootingOK, SuperOK
    <2>7. g.priv # PRV_M
        BY <2>3 DEF PRV_S, PRV_M
    <2> QED
        BY <2>1, <2>6, <2>7
<1>5. CASE RoleOf(c, h) = "open"
    <2>1. f = NoFrame /\ h.priv = PRV_M /\ MIE \in Mstatus(h) /\ h.flags["mideleg"] = {}
        BY <1>5, RolesApart DEF CoreOK, MachineOK
    <2>2. EcallCause(h.priv) = 11
        BY <2>1 DEF EcallCause, PRV_U, PRV_M
    <2>3. /\ g \in Hart
          /\ g.pc = Handler(Vector.mtvec, 11)
          /\ g.priv = PRV_M /\ g.mepc = h.pc
          /\ g.flags = [h.flags EXCEPT !["mstatus"] =
                (Mstatus(h) \ (MPP \union {MIE})) \union MPP
                   \union (IF MIE \in Mstatus(h) THEN {MPIE} ELSE {})]
        BY <1>1, <1>3, <2>1, <2>2, MachineExceptionRegs
    <2>4. DOMAIN h.flags = FlagRegs
        BY <1>1 DEF Hart
    <2>5. Entry(c, Vector.mtvec, 11, Handling)
        BY <1>1, <1>5, Program, RolesApart DEF Vectors, RoleOf
    <2>6. g.pc \in DOMAIN Code[c] /\ RoleOf(c, g) \in Handling
        BY <2>3, <2>5 DEF Entry, RoleOf
    <2>7. Context(h) = [pc |-> g.mepc, mie |-> TRUE, priv |-> PRV_M]
        BY <1>1, <2>1, <2>3, OpenContext
    <2>8. MIE \notin Mstatus(g) /\ MPIE \in Mstatus(g) /\ MPP \subseteq Mstatus(g)
        BY <2>1, <2>3, <2>4, MstatusBits DEF Mstatus
    <2>9. g.flags["mideleg"] = {}
        BY <2>1, <2>3, <2>4, MstatusBits
    <2>10. /\ g.mepc \in DOMAIN Code[c] /\ Role[c][g.mepc] \in Machine
           /\ <<"ecall">> \in Code[c][g.mepc]
        BY <1>1, <1>5, <2>3, RolesApart DEF RoleOf
    <2>11. HandlingOK(c, g, Context(h))
        BY <2>3, <2>7, <2>8, <2>9, <2>10 DEF HandlingOK
    <2>12. CoreOK(c, g, Context(h))
        BY <2>3, <2>6, <2>11, RolesApart DEF CoreOK, MachineOK, BootingOK, SuperOK
    <2> QED
        BY <2>1, <2>3, <2>12
<1> QED
    BY <1>2, <1>4, <1>5

(* MRET goes back to the kept context, or from boot code to the supervisor. *)
LEMMA MretOK ==
    ASSUME NEW c \in Cores, NEW h, NEW f, CoreOK(c, h, f), <<"mret">> \in Code[c][h.pc]
    PROVE  /\ CoreOK(c, Mret(h), NoFrame)
           /\ f # NoFrame => Context(Mret(h)) = f
<1> DEFINE g == Mret(h)
           m == Mstatus(h)
<1>1. h \in Hart /\ h.pc \in DOMAIN Code[c] /\ DOMAIN h.flags = FlagRegs
    BY DEF CoreOK, Hart
<1>2. \/ RoleOf(c, h) \in Handling
      \/ RoleOf(c, h) = "leave" /\ 0 \in DOMAIN Code[c] /\ Role[c][0] = "super"
    BY <1>1, Program DEF Keeps, RoleOf
<1>3. CASE RoleOf(c, h) \in Handling
    <2>1. /\ f = [pc |-> h.mepc, mie |-> TRUE, priv |-> PRV_M]
          /\ h.flags["mideleg"] = {}
          /\ MPIE \in m /\ MPP \subseteq m
          /\ h.mepc \in DOMAIN Code[c] /\ Role[c][h.mepc] \in Machine
        BY <1>3 DEF CoreOK, HandlingOK
    <2>2. MppOf(m) = PRV_M
        BY <2>1, MstatusBits DEF MppOf, PRV_M
    <2>3. /\ g \in Hart
          /\ g.pc = h.mepc /\ g.priv = PRV_M
          /\ g.flags = [h.flags EXCEPT !["mstatus"] =
                 (m \ {MIE}) \union (IF MPIE \in m THEN {MIE} ELSE {})
                    \union {MPIE} \union MPP]
        BY <1>1, <2>2, MretRegs
    <2>4. MIE \in Mstatus(g) /\ g.flags["mideleg"] = {}
        BY <1>1, <2>1, <2>3, MstatusBits DEF Mstatus
    <2> HIDE DEF g, m
    <2>5. Context(g) = f
        BY <2>1, <2>3, <2>4, OpenContext
    <2>6. RoleOf(c, g) \in Machine /\ g.pc \in DOMAIN Code[c]
        BY <2>1, <2>3 DEF RoleOf
    <2>7. CoreOK(c, g, NoFrame)
        BY <2>3, <2>4, <2>6, RolesApart DEF CoreOK, MachineOK, HandlingOK, BootingOK, SuperOK
    <2> QED
        BY <2>5, <2>7 DEF g
<1>4. CASE RoleOf(c, h) = "leave"
    <2>1. /\ f = NoFrame /\ h.mepc = 0
          /\ MIE \notin m /\ MPIE \notin m /\ 11 \in m /\ 12 \notin m
          /\ 9 \in h.flags["medeleg"]
        BY <1>4, RolesApart DEF CoreOK, BootingOK
    <2>2. MppOf(m) = PRV_S
        BY <2>1 DEF MppOf, PRV_S
    <2>3. /\ g \in Hart
          /\ g.pc = 0 /\ g.priv = PRV_S
          /\ g.flags = [h.flags EXCEPT !["mstatus"] =
                 (m \ {MIE}) \union (IF MPIE \in m THEN {MIE} ELSE {})
                    \union {MPIE} \union MPP]
        BY <1>1, <2>1, <2>2, MretRegs
    <2>4. MIE \notin Mstatus(g) /\ 9 \in g.flags["medeleg"]
        BY <1>1, <2>1, <2>3, MstatusBits DEF Mstatus
    <2>5. RoleOf(c, g) = "super" /\ g.pc \in DOMAIN Code[c]
        BY <1>2, <1>4, <2>3, RolesApart DEF RoleOf
    <2> HIDE DEF g, m
    <2>6. CoreOK(c, g, NoFrame)
        BY <2>3, <2>4, <2>5, RolesApart DEF CoreOK, MachineOK, HandlingOK, BootingOK, SuperOK
    <2> QED
        BY <2>1, <2>6 DEF g
<1> QED
    BY <1>2, <1>3, <1>4


----------------------------------------------------------------------------
(* Steps. *)

(* After a step core c is as its new role says, and if the step ends the      *)
(* handling of a trap it is back in the context that was kept.              *)
StepsTo(c, h, f) ==
    /\ Becomes(c, h, f)
    /\ CoreOK(c, h, f)
    /\ frame[c] # NoFrame /\ f = NoFrame => Context(h) = frame[c]

Exec(c) ==
    \/ ExecNop(c) \/ ExecJump(c) \/ ExecCsr(c) \/ ExecAdvanceMepc(c)
    \/ ExecEcall(c) \/ ExecMret(c) \/ ExecStore(c)

(* Whatever core c executes, with the interrupt it may take first. *)
LEMMA ExecOK ==
    ASSUME NEW c \in Cores, CoreOK(c, hart[c], frame[c]), Exec(c)
    PROVE  \E h, f : StepsTo(c, h, f)
<1> DEFINE e == Entered(c)
           ef == EnteredFrame(c)
<1>1. CoreOK(c, e, ef) /\ (frame[c] # NoFrame => ef = frame[c])
    BY EnteredOK
<1>2. e \in Hart /\ e.pc \in DOMAIN Code[c]
    BY <1>1 DEF CoreOK
<1>3. \A i \in Code[c][e.pc] : Keeps(c, e.pc, i)
    BY <1>2, Program
<1> HIDE DEF e, ef
<1>4. ASSUME NEW g, Becomes(c, g, ef), CoreOK(c, g, ef) PROVE \E h, f : StepsTo(c, h, f)
    <2>1. StepsTo(c, g, ef)
        BY <1>1, <1>4 DEF StepsTo
    <2> QED
        BY <2>1
<1>5. ASSUME NEW b, Goes(c, e.pc, b), Becomes(c, [e EXCEPT !.pc = b], ef)
      PROVE  \E h, f : StepsTo(c, h, f)
    <2>1. CoreOK(c, [e EXCEPT !.pc = b], ef)
        BY <1>1, <1>5, MoveOK
    <2> QED
        BY <1>5, <2>1, <1>4
<1>6. NextPc(e) = [e EXCEPT !.pc = e.pc + 4]
    BY <1>2 DEF NextPc, Hart
<1>7. CASE ExecNop(c)
    <2>1. Goes(c, e.pc, e.pc + 4)
        <3>1. PICK op \in {"nop", "sret", "wfi"} : <<op>> \in Code[c][e.pc]
            BY <1>7 DEF ExecNop, Executes, e
        <3> QED
            BY <1>3, <3>1 DEF Keeps
    <2>2. Becomes(c, NextPc(e), ef)
        BY <1>7 DEF ExecNop, e, ef
    <2> QED
        BY <1>5, <1>6, <2>1, <2>2
<1>8. CASE ExecJump(c)
    <2>1. PICK i \in Code[c][e.pc] : i[1] = "jump" /\ Becomes(c, [e EXCEPT !.pc = i[2]], ef)
        BY <1>8 DEF ExecJump, e, ef
    <2>2. Goes(c, e.pc, i[2])
        BY <1>3, <2>1 DEF Keeps
    <2> QED
        BY <1>5, <2>1, <2>2
<1>9. CASE ExecCsr(c)
    <2>1. PICK i \in Code[c][e.pc] :
            /\ i[1] \in CsrOps
            /\ Becomes(c, NextPc(WriteFlags(e, i[2], NewFlags(i[1], ReadFlags(e, i[2]), i[3]))),
                       ef)
        BY <1>9 DEF ExecCsr, CsrOps, e, ef
    <2>2. /\ e.pc + 4 \in DOMAIN Code[c]
          /\ i[2] \in FlagRegs \union {"sstatus"} /\ i[3] \in SUBSET Bits
          /\ CsrKeeps(Role[c][e.pc], Role[c][e.pc + 4], i[1], i[2], i[3])
        BY <1>3, <2>1 DEF Keeps
    <2>3. CoreOK(c, NextPc(WriteFlags(e, i[2], NewFlags(i[1], ReadFlags(e, i[2]), i[3]))), ef)
        BY <1>1, <2>1, <2>2, CsrOK
    <2> QED
        BY <2>1, <2>3, <1>4
<1>10. CASE ExecAdvanceMepc(c)
    <2>1. <<"advance">> \in Code[c][e.pc]
        BY <1>10 DEF ExecAdvanceMepc, Executes, e
    <2> DEFINE g == NextPc([e EXCEPT !.mepc = @ + 4])
               f == [ef EXCEPT !.pc = @ + 4]
    <2>2. ef # NoFrame /\ CoreOK(c, g, f)
        BY <1>1, <2>1, AdvanceOK
    <2>3. Becomes(c, g, IF ef = NoFrame THEN NoFrame ELSE f)
        BY <1>10 DEF ExecAdvanceMepc, e, ef
    <2>4. f # NoFrame
        <3>1. RoleOf(c, e) \in Handling
            BY <1>1, <2>2, FrameIsHandling
        <3>2. e.pc + 4 \in DOMAIN Code[c] /\ Role[c][e.pc + 4] = "serve"
            BY <1>3, <2>1 DEF Keeps
        <3>3. g.pc = e.pc + 4
            BY <1>2 DEF NextPc, Hart
        <3>4. RoleOf(c, g) \in Handling
            BY <3>2, <3>3, RolesApart DEF RoleOf
        <3> HIDE DEF f, g
        <3> QED
            BY <2>2, <3>4, FrameIsHandling
    <2> HIDE DEF f, g
    <2>5. StepsTo(c, g, f)
        BY <2>2, <2>3, <2>4 DEF StepsTo
    <2> QED
        BY <2>5
<1>11. CASE ExecEcall(c)
    <2> DEFINE g == TakeException(e, EcallCause(e.priv))
               f == IF g.priv = PRV_M THEN Context(e) ELSE ef
    <2>1. <<"ecall">> \in Code[c][e.pc] /\ Becomes(c, g, f)
        BY <1>11 DEF ExecEcall, Executes, e, ef
    <2>2. CoreOK(c, g, f) /\ ef = NoFrame
        BY <1>1, <2>1, EcallOK
    <2> HIDE DEF f, g
    <2>3. StepsTo(c, g, f)
        BY <1>1, <2>1, <2>2 DEF StepsTo
    <2> QED
        BY <2>3
<1>12. CASE ExecMret(c)
    <2>1. <<"mret">> \in Code[c][e.pc] /\ Becomes(c, Mret(e), NoFrame)
        BY <1>12 DEF ExecMret, Executes, e
    <2>2. CoreOK(c, Mret(e), NoFrame) /\ (ef # NoFrame => Context(Mret(e)) = ef)
        BY <1>1, <2>1, MretOK
    <2>3. StepsTo(c, Mret(e), NoFrame)
        BY <1>1, <2>1, <2>2 DEF StepsTo
    <2> QED
        BY <2>3
<1>13. CASE ExecStore(c)
    <2>1. PICK i \in Code[c][e.pc] : i[1] = "sw"
        BY <1>13 DEF ExecStore, e
    <2>2. Goes(c, e.pc, e.pc + 4)
        BY <1>3, <2>1 DEF Keeps
    <2>3. Becomes(c, NextPc(e), ef)
        BY <1>13 DEF ExecStore, e, ef
    <2> QED
        BY <1>5, <1>6, <2>2, <2>3
<1> QED
    BY <1>7, <1>8, <1>9, <1>10, <1>11, <1>12, <1>13 DEF Exec

(* A word fits into a register of the timer. *)
LEMMA WordFits == Word \subseteq 0 .. Never
<1>1. WordSize \in Nat /\ WordSize >= 1
    BY ClintAssumption
<1>2. WordSize * WordSize >= WordSize
    BY <1>1
<1> QED
    BY <1>1, <1>2 DEF Word, Never

(* A store to the CLINT leaves its registers in their ranges. *)
LEMMA ClintWriteOK ==
    ASSUME ClintTypeOK, NEW addr \in Nat, NEW v \in Word, ClintWrite(addr, v)
    PROVE  ClintTypeOK'
<1> DEFINE offset == ClintAddr(addr) - CLINT_BASE
           slot == offset - MTIMECMP_BASE
<1>1. \/ msip' = [msip EXCEPT ![offset \div 4] = v # 0] /\ UNCHANGED <<mtimecmp, mtime>>
      \/ mtimecmp' = [mtimecmp EXCEPT ![slot \div 8] = v] /\ UNCHANGED <<msip, mtime>>
      \/ UNCHANGED clintVars
    BY Zenon DEF ClintWrite
<1> HIDE DEF offset, slot
<1>2. \A k : [msip EXCEPT ![k] = v # 0] \in [Cores -> BOOLEAN]
    BY DEF ClintTypeOK
<1>3. \A k : [mtimecmp EXCEPT ![k] = v] \in [Cores -> 0 .. Never]
    BY WordFits DEF ClintTypeOK
<1>4. CASE msip' = [msip EXCEPT ![offset \div 4] = v # 0] /\ UNCHANGED <<mtimecmp, mtime>>
    <2>1. msip' \in [Cores -> BOOLEAN]
        BY <1>2, <1>4, Zenon
    <2> QED
        BY <1>4, <2>1 DEF ClintTypeOK
<1>5. CASE mtimecmp' = [mtimecmp EXCEPT ![slot \div 8] = v] /\ UNCHANGED <<msip, mtime>>
    <2>1. mtimecmp' \in [Cores -> 0 .. Never]
        BY <1>3, <1>5, Zenon
    <2> QED
        BY <1>5, <2>1 DEF ClintTypeOK
<1>6. CASE UNCHANGED clintVars
    BY <1>6 DEF ClintTypeOK, clintVars
<1> QED
    BY <1>1, <1>4, <1>5, <1>6

(* A step leaves the CLINT and the timer in their ranges. *)
LEMMA ExecClint ==
    ASSUME ClintTypeOK, NEW c \in Cores, CoreOK(c, hart[c], frame[c]), Exec(c)
    PROVE  ClintTypeOK'
<1>1. CASE ExecStore(c)
    <2>1. PICK i \in Code[c][Entered(c).pc] : i[1] = "sw" /\ ClintWrite(i[2], i[3])
        BY <1>1 DEF ExecStore
    <2>2. Entered(c).pc \in DOMAIN Code[c]
        BY EnteredOK DEF CoreOK
    <2>3. i[2] \in Nat /\ i[3] \in Word
        BY <2>1, <2>2, Program DEF Keeps
    <2> QED
        BY <2>1, <2>3, ClintWriteOK
<1>2. CASE UNCHANGED clintVars
    BY <1>2 DEF clintVars, ClintTypeOK
<1> QED
    BY <1>1, <1>2 DEF Exec, ExecNop, ExecJump, ExecCsr, ExecAdvanceMepc, ExecEcall, ExecMret

LEMMA TimerOK ==
    ASSUME ClintTypeOK, NEW delta \in {1, 2}, UpdateTimer(delta)
    PROVE  ClintTypeOK'
BY ClintAssumption DEF ClintTypeOK, UpdateTimer

----------------------------------------------------------------------------
(* The invariant. *)

LEMMA InitInv == Init => TrapInv
<1> SUFFICES ASSUME Init PROVE TrapInv
    OBVIOUS
<1>1. ClintTypeOK
    <2>1. Never \in 0 .. Never
        <3>1. WordSize * WordSize \in Nat /\ WordSize * WordSize >= 1
            BY ClintAssumption
        <3> QED
            BY <3>1 DEF Never
    <2> QED
        BY <2>1, ClintAssumption DEF Init, ClintInit, ClintTypeOK
<1>2. turn \in 0 .. NumCores
    BY ClintAssumption DEF Init
<1> DEFINE start(c) == [pc |-> InitPc[c], priv |-> PRV_M, flags |-> ResetFlags,
                        mepc |-> 0, sepc |-> 0]
<1>3. hart = [c \in Cores |-> start(c)] /\ frame = [c \in Cores |-> NoFrame]
    BY DEF Init
<1>4. ResetFlags \in [FlagRegs -> SUBSET Bits]
    <2>1. \A r \in FlagRegs : ResetFlags[r] \in SUBSET Bits
        BY DEF ResetFlags, FlagRegs, Bits
    <2> QED
        BY <2>1 DEF ResetFlags
<1>5. ResetFlags["mstatus"] = {11, 12} /\ ResetFlags["mideleg"] = {}
    BY DEF ResetFlags, FlagRegs
<1>6. ASSUME NEW c \in Cores PROVE CoreOK(c, start(c), NoFrame)
    <2>1. InitPc[c] \in Nat /\ InitPc[c] \in DOMAIN Code[c]
          /\ Role[c][InitPc[c]] \in {"program", "boot"}
        BY Program
    <2> DEFINE h == start(c)
    <2>2. /\ h.pc = InitPc[c] /\ h.priv = PRV_M /\ h.mepc = 0
          /\ h.flags = ResetFlags
        OBVIOUS
    <2>3. h \in Hart
        BY <1>4, <2>1 DEF Hart
    <2> HIDE DEF h
    <2>4. RoleOf(c, h) \in {"program", "boot"}
        BY <2>1, <2>2 DEF RoleOf
    <2>5. Mstatus(h) = {11, 12} /\ h.flags["mideleg"] = {}
        BY <1>5, <2>2 DEF Mstatus
    <2>6. {SIE, MIE, MPIE} \cap {11, 12} = {}
        BY MstatusBits
    <2>7. CoreOK(c, h, NoFrame)
        BY <2>1, <2>2, <2>3, <2>4, <2>5, <2>6, RolesApart
            DEF CoreOK, MachineOK, HandlingOK, BootingOK, SuperOK
    <2> QED
        BY <2>7 DEF h
<1>7. hart \in [Cores -> Hart]
    BY <1>3, <1>6 DEF CoreOK
<1>8. \A c \in Cores : CoreOK(c, hart[c], frame[c])
    BY <1>3, <1>6
<1> QED
    BY <1>1, <1>2, <1>3, <1>7, <1>8 DEF TrapInv

(* What a step of the machine does to each core. *)
LEMMA StepInv ==
    ASSUME TrapInv, NEW c \in Cores, Step(c)
    PROVE  /\ TrapInv'
           /\ \A d \in Cores : frame[d] # NoFrame /\ frame'[d] = NoFrame
                                    => Context(hart'[d]) = frame[d]
<1>1. CoreOK(c, hart[c], frame[c]) /\ Exec(c) /\ turn' = c + 1
    BY DEF TrapInv, Step, Exec
<1>2. ClintTypeOK'
    BY <1>1, ExecClint DEF TrapInv
<1>3. PICK h, f : StepsTo(c, h, f)
    BY <1>1, ExecOK
<1>4. /\ hart' = [hart EXCEPT ![c] = h] /\ frame' = [frame EXCEPT ![c] = f]
      /\ h \in Hart /\ CoreOK(c, h, f)
      /\ frame[c] # NoFrame /\ f = NoFrame => Context(h) = frame[c]
    BY <1>3 DEF StepsTo, Becomes, CoreOK
<1>5. hart'[c] = h /\ frame'[c] = f
    BY <1>4 DEF TrapInv
<1>6. \A d \in Cores : d # c => hart'[d] = hart[d] /\ frame'[d] = frame[d]
    BY <1>4 DEF TrapInv
<1>7. hart' \in [Cores -> Hart] /\ DOMAIN frame' = Cores
    BY <1>4 DEF TrapInv
<1>8. turn' \in 0 .. NumCores
    BY <1>1, ClintAssumption DEF Cores
<1>9. \A d \in Cores : CoreOK(d, hart'[d], frame'[d])
    BY <1>4, <1>5, <1>6 DEF TrapInv
<1>10. \A d \in Cores : CoreOK(d, hart[d], frame[d])'
    BY <1>9 DEF CoreOK, MachineOK, HandlingOK, BootingOK, SuperOK, RoleOf, Mstatus
<1> QED
    BY <1>2, <1>4, <1>5, <1>6, <1>7, <1>8, <1>10 DEF TrapInv


(* No step disturbs the invariant, and none ends a trap anywhere else than    *)
(* in the context it interrupted.                                           *)
LEMMA NextInv ==
    ASSUME TrapInv, [Next]_vars
    PROVE  /\ TrapInv'
           /\ \A c \in Cores : frame[c] # NoFrame /\ frame'[c] = NoFrame
                                    => Context(hart'[c]) = frame[c]
<1>1. CASE \E c \in Cores : Step(c)
    BY <1>1, StepInv
<1>2. ASSUME UNCHANGED <<hart, frame>>, ClintTypeOK', turn' \in 0 .. NumCores
      PROVE  /\ TrapInv'
             /\ \A c \in Cores : frame[c] # NoFrame /\ frame'[c] = NoFrame
                                      => Context(hart'[c]) = frame[c]
    <2>1. hart' = hart /\ frame' = frame
        BY <1>2
    <2>2. \A c \in Cores : CoreOK(c, hart[c], frame[c])'
        BY <2>1 DEF TrapInv, CoreOK, MachineOK, HandlingOK, BootingOK, SuperOK, RoleOf, Mstatus
    <2>3. TrapInv'
        BY <1>2, <2>1, <2>2 DEF TrapInv
    <2>4. \A c \in Cores : ~(frame[c] # NoFrame /\ frame'[c] = NoFrame)
        BY <2>1
    <2> QED
        BY <2>3, <2>4
<1>3. CASE EndCycle
    <2>1. ClintTypeOK'
        BY <1>3, TimerOK DEF EndCycle, TrapInv
    <2>2. turn' \in 0 .. NumCores
        BY <1>3, ClintAssumption DEF EndCycle
    <2> QED
        BY <1>2, <1>3, <2>1, <2>2 DEF EndCycle
<1>4. CASE UNCHANGED vars
    <2>1. ClintTypeOK' /\ turn' \in 0 .. NumCores
        BY <1>4 DEF vars, clintVars, TrapInv, ClintTypeOK
    <2> QED
        BY <1>2, <1>4, <2>1 DEF vars
<1> QED
    BY <1>1, <1>3, <1>4 DEF Next

LEMMA InvariantHolds == Spec => []TrapInv
<1>1. TrapInv /\ [Next]_vars => TrapInv'
    BY NextInv
<1> QED
    BY InitInv, <1>1, PTL DEF Spec

(* Every core keeps a pc its program has an instruction for, one of the       *)
(* privilege levels, and registers of 32 flags, and the CLINT its registers  *)
(* in their ranges: no trap of Core.cpp leads out of the program.           *)
THEOREM TypeCorrect == Spec => []TypeOK
<1>1. TrapInv => TypeOK
    BY DEF TrapInv, TypeOK, CoreOK, Hart, Bits
<1> QED
    BY <1>1, InvariantHolds, PTL

(* While a trap is handled in machine mode, mepc and mstatus keep the         *)
(* interrupted context as take_interrupt and take_exception of Core.cpp left *)
(* it, for any program of the discipline, any handlers, any number of cores  *)
(* and any order of timer and software interrupts.                          *)
THEOREM HandlerKeepsContextHolds == Spec => []HandlerKeepsContext
<1>1. ASSUME TrapInv, NEW c \in Cores, frame[c] # NoFrame
      PROVE  LET m == hart[c].flags["mstatus"]
             IN  /\ MIE \notin m
                 /\ hart[c].mepc = frame[c].pc
                 /\ (MPIE \in m) = frame[c].mie
                 /\ MppOf(m) = frame[c].priv
    <2> DEFINE m == Mstatus(hart[c])
    <2>1. CoreOK(c, hart[c], frame[c])
        BY <1>1 DEF TrapInv
    <2>2. RoleOf(c, hart[c]) \in Handling
        BY <1>1, <2>1, FrameIsHandling
    <2>3. /\ frame[c] = [pc |-> hart[c].mepc, mie |-> TRUE, priv |-> PRV_M]
          /\ MIE \notin m /\ MPIE \in m /\ MPP \subseteq m
        BY <2>1, <2>2 DEF CoreOK, HandlingOK
    <2>4. MppOf(m) = PRV_M
        BY <2>3, MstatusBits DEF MppOf, PRV_M
    <2>5. (MPIE \in m) = TRUE
        BY <2>3, Zenon
    <2>6. frame[c].pc = hart[c].mepc /\ frame[c].mie = TRUE /\ frame[c].priv = PRV_M
        <3>1. IsContext(frame[c], hart[c].mepc, TRUE, PRV_M)
            BY <2>3, Zenon DEF IsContext
        <3> QED
            BY <3>1, ContextFields
    <2> HIDE DEF m
    <2>7. /\ MIE \notin m
          /\ hart[c].mepc = frame[c].pc
          /\ (MPIE \in m) = frame[c].mie
          /\ MppOf(m) = frame[c].priv
        BY <2>3, <2>4, <2>5, <2>6, Zenon
    <2> QED
        BY <2>7 DEF m, Mstatus
<1>2. TrapInv => HandlerKeepsContext
    BY <1>1 DEF HandlerKeepsContext
<1> QED
    BY <1>2, InvariantHolds, PTL

(* MRET as Core::step executes it resumes the interrupted program: at its     *)
(* address, in its privilege level and with its interrupt enable.           *)
THEOREM MretResumesHolds == Spec => MretResumes
<1>1. TrapInv /\ [Next]_vars =>
        \A c \in Cores :
            frame[c] # NoFrame /\ frame'[c] = NoFrame => Context(hart'[c]) = frame[c]
    BY NextInv
<1>2. TrapInv /\ [Next]_vars =>
        [\A c \in Cores :
            frame[c] # NoFrame /\ frame'[c] = NoFrame => Context(hart'[c]) = frame[c]]_vars
    BY <1>1
<1> QED
    BY <1>2, InvariantHolds, PTL DEF Spec, MretResumes

----------------------------------------------------------------------------
(* The interrupt controller. *)

USE PlicAssumption

(* A nonempty set of naturals has a least element. *)
LEMMA Least ==
    ASSUME NEW T, T \subseteq Nat, T # {}
    PROVE  \E x \in T : \A y \in T : x <= y
<1> DEFINE R == {ss \in Nat \X Nat : ss[1] < ss[2]}
<1>1. IsWellFoundedOn(R, Nat)
    BY NatLessThanWellFounded DEF OpToRel
<1> HIDE DEF R
<1>2. PICK x \in T : \A y \in T : ~(<<y, x>> \in R)
    BY <1>1, WFMin
<1>3. \A y \in T : ~(y < x)
    BY <1>2 DEF R
<1> QED
    BY <1>3

----------------------------------------------------------------------------
(* The search. *)

(* f says what the loop has kept after each of the sources up to m. *)
Records(t, m, f) ==
    f = [n \in 0 .. m |-> IF n = 0 THEN 0 ELSE Better(t, f[n - 1], n)]

(* The loop can be run up to any source: the recursion has a solution. *)
LEMMA RecordsExist ==
    ASSUME NEW t \in Targets, NEW m \in Nat
    PROVE  \E f : Records(t, m, f)
<1> DEFINE Without == {n \in Nat : ~\E f : Records(t, n, f)}
<1>1. SUFFICES ASSUME Without # {} PROVE FALSE
    OBVIOUS
<1>2. PICK n \in Without : \A k \in Without : n <= k
    BY <1>1, Least
<1>3. n # 0
    <2> DEFINE g == [k \in 0 .. 0 |-> 0]
    <2>1. Records(t, 0, g)
        BY DEF Records
    <2> QED
        BY <2>1, <1>2
<1>4. PICK f : Records(t, n - 1, f)
    <2>1. n - 1 \in Nat /\ ~(n <= n - 1)
        BY <1>2, <1>3
    <2> QED
        BY <2>1, <1>2
<1> DEFINE g == [k \in 0 .. n |-> IF k = n THEN Better(t, f[n - 1], n) ELSE f[k]]
<1>5. Records(t, n, g)
    <2>1. \A k \in 0 .. n - 1 : g[k] = f[k]
        BY <1>2
    <2>2. \A k \in 0 .. n - 1 : f[k] = IF k = 0 THEN 0 ELSE Better(t, f[k - 1], k)
        BY <1>2, <1>4 DEF Records
    <2>3. \A k \in 0 .. n :
            g[k] = IF k = 0 THEN 0 ELSE Better(t, g[k - 1], k)
        <3> TAKE k \in 0 .. n
        <3>1. CASE k = n
            BY <1>2, <1>3, <2>1, <3>1
        <3>2. CASE k # n /\ k # 0
            <4>1. k - 1 \in 0 .. n - 1 /\ k \in 0 .. n - 1
                BY <1>2, <3>2
            <4> QED
                BY <2>1, <2>2, <3>2, <4>1
        <3>3. CASE k # n /\ k = 0
            <4>1. k \in 0 .. n - 1
                BY <1>2, <3>3
            <4> QED
                BY <2>1, <2>2, <3>3, <4>1
        <3> QED
            BY <3>1, <3>2, <3>3
    <2> HIDE DEF g
    <2>4. g = [k \in 0 .. n |-> g[k]]
        BY DEF g
    <2> QED
        BY <2>3, <2>4 DEF Records
<1> QED
    BY <1>2, <1>5

(* What BestUpTo says of each source follows from the one before. *)
LEMMA BestUpToDef ==
    ASSUME NEW t \in Targets
    PROVE  /\ BestUpTo(t)[0] = 0
           /\ \A n \in Sources : BestUpTo(t)[n] = Better(t, BestUpTo(t)[n - 1], n)
<1> DEFINE m == NumSources - 1
<1>1. m \in Nat
    OBVIOUS
<1>2. BestUpTo(t) = CHOOSE f : Records(t, m, f)
    BY DEF BestUpTo, Records
<1>3. Records(t, m, BestUpTo(t))
    BY <1>1, <1>2, RecordsExist
<1> DEFINE f == BestUpTo(t)
<1> HIDE DEF f
<1>4. f = [n \in 0 .. m |-> IF n = 0 THEN 0 ELSE Better(t, f[n - 1], n)]
    BY <1>3 DEF f, Records
<1>5. \A n \in 0 .. m : f[n] = IF n = 0 THEN 0 ELSE Better(t, f[n - 1], n)
    BY <1>4
<1>6. Sources \subseteq 0 .. m /\ 0 \notin Sources /\ 0 \in 0 .. m
    BY <1>1 DEF Sources
<1> QED
    BY <1>5, <1>6 DEF f

(* b is the best of the candidates up to n, the lowest-numbered of several,   *)
(* or 0 if there are none.                                                  *)
IsBest(t, n, b) ==
    LET seen == {s \in Candidates(t) : s <= n}
    IN  IF seen = {} THEN b = 0
        ELSE /\ b \in seen
             /\ \A s \in seen : \/ priorities[s] < priorities[b]
                                \/ priorities[s] = priorities[b] /\ b <= s

(* One turn of the loop keeps that up: a later source takes the place of the  *)
(* best so far only with a higher priority.                                 *)
LEMMA BetterIsBest ==
    ASSUME PlicTypeOK, NEW t \in Targets, NEW n \in Sources, NEW b,
           IsBest(t, n - 1, b)
    PROVE  IsBest(t, n, Better(t, b, n))
<1> DEFINE C == Candidates(t)
           before == {s \in C : s <= n - 1}
           seen == {s \in C : s <= n}
<1>1. /\ C \subseteq Sources /\ Sources \subseteq Nat
      /\ \A s \in Sources : priorities[s] \in Nat
      /\ thresholds[t] \in Nat
      /\ \A s \in C : priorities[s] > thresholds[t]
    <2>1. C \subseteq Sources /\ \A s \in C : priorities[s] > thresholds[t]
        BY DEF PlicTypeOK, Candidates
    <2>2. Sources \subseteq Nat
        BY DEF Sources
    <2>3. (\A s \in Sources : priorities[s] \in Nat) /\ thresholds[t] \in Nat
        BY DEF PlicTypeOK
    <2> QED
        BY <2>1, <2>2, <2>3
<1>2. n \in C <=> n \in pending /\ n \in enable[t] /\ priorities[n] > thresholds[t]
    BY DEF Candidates
<1>3. seen = IF n \in C THEN before \union {n} ELSE before
    <2>1. n \in Nat /\ C \subseteq Nat
        BY <1>1
    <2>2. \A s \in C : s <= n <=> s <= n - 1 \/ s = n
        BY <2>1
    <2> HIDE DEF C
    <2>3. seen = {s \in C : s <= n - 1 \/ s = n}
        BY <2>2
    <2> QED
        BY <2>3
<1>4. IF before = {} THEN b = 0
      ELSE /\ b \in before
           /\ \A s \in before : \/ priorities[s] < priorities[b]
                                \/ priorities[s] = priorities[b] /\ b <= s
    BY DEF IsBest
<1>5. CASE n \notin C
    <2>1. Better(t, b, n) = b /\ seen = before
        BY <1>2, <1>3, <1>5 DEF Better
    <2> QED
        BY <1>4, <2>1 DEF IsBest
<1>6. CASE n \in C /\ before = {}
    <2>1. b = 0 /\ priorities[n] > 0
        BY <1>1, <1>4, <1>6
    <2>2. Better(t, b, n) = n /\ seen = {n}
        BY <1>2, <1>3, <1>6, <2>1 DEF Better
    <2>3. seen # {} /\ n \in seen /\ \A s \in seen : s = n /\ n <= s
        BY <2>2, <1>1
    <2> QED
        BY ONLY <2>2, <2>3 DEF IsBest
<1>7. CASE n \in C /\ before # {}
    <2>1. b \in before /\ b # 0 /\ b \in Sources
        BY <1>1, <1>4, <1>7 DEF Sources
    <2>2. Better(t, b, n) = IF priorities[n] > priorities[b] THEN n ELSE b
        BY <1>2, <1>7, <2>1 DEF Better
    <2>3. \A s \in before : priorities[s] \in Nat /\ s \in Nat /\ s < n
        <3>1. n \in Nat /\ \A s \in before : s \in Nat /\ s <= n - 1
            BY <1>1
        <3>2. \A s \in before : priorities[s] \in Nat
            BY <1>1
        <3> QED
            BY <3>1, <3>2
    <2>4. seen = before \union {n} /\ n \in Nat /\ priorities[n] \in Nat
        BY <1>1, <1>3, <1>7
    <2> HIDE DEF C, before, seen
    <2>5. CASE priorities[n] > priorities[b]
        <3>1. \A s \in seen : \/ priorities[s] < priorities[n]
                              \/ priorities[s] = priorities[n] /\ n <= s
            BY <1>4, <1>7, <2>1, <2>3, <2>4, <2>5
        <3> QED
            BY <2>2, <2>4, <2>5, <3>1 DEF IsBest, seen, C
    <2>6. CASE ~(priorities[n] > priorities[b])
        <3>1. \A s \in seen : \/ priorities[s] < priorities[b]
                              \/ priorities[s] = priorities[b] /\ b <= s
            BY <1>4, <1>7, <2>1, <2>3, <2>4, <2>6
        <3> QED
            BY <2>1, <2>2, <2>4, <2>6, <3>1 DEF IsBest, seen, C
    <2> QED
        BY <2>5, <2>6
<1> QED
    BY <1>5, <1>6, <1>7

(* So the loop has the best of the sources it has looked at, all along. *)
LEMMA BestKept ==
    ASSUME PlicTypeOK, NEW t \in Targets, NEW n \in 0 .. NumSources - 1
    PROVE  IsBest(t, n, BestUpTo(t)[n])
<1> DEFINE Wrong == {k \in 0 .. NumSources - 1 : ~IsBest(t, k, BestUpTo(t)[k])}
<1>1. SUFFICES ASSUME Wrong # {} PROVE FALSE
    OBVIOUS
<1>2. PICK k \in Wrong : \A j \in Wrong : k <= j
    <2>1. Wrong \subseteq Nat
        OBVIOUS
    <2> QED
        BY <1>1, <2>1, Least
<1>3. CASE k = 0
    <2>1. {s \in Candidates(t) : s <= 0} = {}
        BY DEF Candidates, PlicTypeOK, Sources
    <2> QED
        BY <1>2, <1>3, <2>1, BestUpToDef DEF IsBest
<1>4. CASE k # 0
    <2>1. k \in Sources /\ k - 1 \in 0 .. NumSources - 1 /\ ~(k <= k - 1)
        BY <1>2, <1>4 DEF Sources
    <2>2. IsBest(t, k - 1, BestUpTo(t)[k - 1])
        BY <1>2, <2>1
    <2>3. IsBest(t, k, Better(t, BestUpTo(t)[k - 1], k))
        BY <2>1, <2>2, BetterIsBest
    <2> QED
        BY <1>2, <2>1, <2>3, BestUpToDef
<1> QED
    BY <1>3, <1>4

(* find_highest_priority_pending returns the best of all candidates. *)
LEMMA SearchFindsBest == PlicTypeOK => FindsBest
<1> SUFFICES ASSUME PlicTypeOK, NEW t \in Targets
             PROVE  LET best == FindHighest(t)
                    IN  IF Candidates(t) = {} THEN best = 0
                        ELSE /\ best \in Candidates(t)
                             /\ \A s \in Candidates(t) :
                                    \/ priorities[s] < priorities[best]
                                    \/ priorities[s] = priorities[best] /\ best <= s
    <2> HIDE DEF Candidates, FindHighest
    <2> QED
        BY Zenon DEF FindsBest
<1>1. NumSources - 1 \in 0 .. NumSources - 1
    OBVIOUS
<1>2. IsBest(t, NumSources - 1, FindHighest(t))
    BY <1>1, BestKept DEF FindHighest
<1>3. {s \in Candidates(t) : s <= NumSources - 1} = Candidates(t)
    BY DEF Candidates, PlicTypeOK, Sources
<1> QED
    BY <1>2, <1>3 DEF IsBest

----------------------------------------------------------------------------
(* The invariants. *)

(* What a claim returns is a pending source. *)
LEMMA ClaimedIsPending ==
    ASSUME PlicTypeOK, NEW t \in Targets, FindHighest(t) # 0
    PROVE  FindHighest(t) \in pending /\ FindHighest(t) \in Sources
BY SearchFindsBest DEF FindsBest, Candidates, PlicTypeOK

(* The inductive invariant: what is owed is what is pending. *)
PlicInv == PlicTypeOK /\ DeliveredOnce

LEMMA PlicInitInv == PlicInit => PlicInv
<1> SUFFICES ASSUME PlicInit PROVE PlicInv
    OBVIOUS
<1>1. PlicTypeOK
    <2>1. /\ priorities \in [Sources -> 0 .. 7]
          /\ thresholds \in [Targets -> 0 .. 7]
          /\ claimed \in [Targets -> Sources \union {0}]
          /\ owed \in [Sources -> Int]
        BY DEF PlicInit
    <2>2. pending \subseteq Sources /\ enable \in [Targets -> SUBSET Sources]
        BY DEF PlicInit
    <2>3. locked \in BOOLEAN /\ raises \in 0 .. MaxRaises
        <3>1. locked \in BOOLEAN
            BY Zenon DEF PlicInit
        <3>2. raises \in 0 .. MaxRaises
            BY DEF PlicInit
        <3> QED
            BY <3>1, <3>2
    <2> QED
        BY <2>1, <2>2, <2>3 DEF PlicTypeOK
<1>2. DeliveredOnce
    BY DEF PlicInit, DeliveredOnce
<1> QED
    BY <1>1, <1>2 DEF PlicInv

(* A register takes a level into its three bits. *)
LEMMA ConfigureInv ==
    ASSUME PlicInv, Configure
    PROVE  PlicInv'
<1> USE DEF PlicInv, PlicTypeOK, DeliveredOnce
<1>1. ASSUME NEW s \in Sources, NEW level \in Levels, SetPriority(s, level)
      PROVE  PlicInv'
    <2>1. level % 8 \in 0 .. 7
        OBVIOUS
    <2> QED
        BY <1>1, <2>1 DEF SetPriority
<1>2. ASSUME NEW t \in Targets, NEW level \in Levels, SetThreshold(t, level)
      PROVE  PlicInv'
    <2>1. level % 8 \in 0 .. 7
        OBVIOUS
    <2> QED
        BY <1>2, <2>1 DEF SetThreshold
<1>3. ASSUME NEW t \in Targets, NEW s \in Sources, NEW e \in BOOLEAN, SetEnable(t, s, e)
      PROVE  PlicInv'
    BY <1>3 DEF SetEnable
<1> QED
    BY <1>1, <1>2, <1>3 DEF Configure

(* A source that is raised is owed, one that is lowered is not. *)
LEMMA SourceInv ==
    ASSUME PlicInv, NEW s \in Sources, Raise(s) \/ Lower(s)
    PROVE  PlicInv'
<1> USE DEF PlicInv, PlicTypeOK, DeliveredOnce
<1>1. CASE Raise(s)
    BY <1>1 DEF Raise, configVars
<1>2. CASE Lower(s)
    BY <1>2 DEF Lower, configVars
<1> QED
    BY <1>1, <1>2

(* A claim takes the source it returns off the pending ones. *)
LEMMA ClaimInv ==
    ASSUME PlicInv, NEW t \in Targets, Claim(t)
    PROVE  PlicInv'
<1> DEFINE s == FindHighest(t)
<1>1. s \in pending /\ s \in Sources
    BY ClaimedIsPending DEF Claim, PlicInv
<1>2. /\ claimed' = [claimed EXCEPT ![t] = s]
      /\ pending' = pending \ {s}
      /\ owed' = [owed EXCEPT ![s] = @ - 1]
      /\ UNCHANGED <<configVars, locked, raises>>
    BY DEF Claim
<1> HIDE DEF s
<1> QED
    BY <1>1, <1>2 DEF PlicInv, PlicTypeOK, DeliveredOnce, configVars

(* The other calls on a target's claim. *)
LEMMA TargetInv ==
    ASSUME PlicInv, NEW t \in Targets, NEW s \in Sources,
           Complete(t, s) \/ ClaimInterrupt(t, s)
    PROVE  PlicInv'
<1> USE DEF PlicInv, PlicTypeOK, DeliveredOnce
<1>1. CASE Complete(t, s)
    BY <1>1 DEF Complete, configVars
<1>2. CASE ClaimInterrupt(t, s)
    BY <1>2 DEF ClaimInterrupt, configVars
<1> QED
    BY <1>1, <1>2

LEMMA PlicInvariantHolds == PlicSpec => []PlicInv
<1>1. ASSUME PlicInv, [PlicNext]_plicVars PROVE PlicInv'
    <2>1. CASE Configure
        BY <1>1, <2>1, ConfigureInv
    <2>2. CASE \E s \in Sources : Raise(s) \/ Lower(s)
        BY <1>1, <2>2, SourceInv
    <2>3. CASE \E t \in Targets : Claim(t)
        BY <1>1, <2>3, ClaimInv
    <2>4. CASE \E t \in Targets, s \in Sources : Complete(t, s) \/ ClaimInterrupt(t, s)
        BY <1>1, <2>4, TargetInv
    <2>5. CASE MmioClaimComplete
        BY <1>1, <2>5 DEF MmioClaimComplete, configVars, PlicInv, PlicTypeOK, DeliveredOnce
    <2>6. CASE UNCHANGED plicVars
        BY <1>1, <2>6 DEF plicVars, PlicInv, PlicTypeOK, DeliveredOnce
    <2> QED
        BY <1>1, <2>1, <2>2, <2>3, <2>4, <2>5, <2>6 DEF PlicNext
<1> QED
    BY <1>1, PlicInitInv, PTL DEF PlicSpec

(* Whatever is written to the registers, priorities and thresholds keep to    *)
(* three bits and targets claim sources only.                               *)
THEOREM PlicTypeCorrect == PlicSpec => []PlicTypeOK
<1>1. PlicInv => PlicTypeOK
    BY DEF PlicInv
<1> QED
    BY <1>1, PlicInvariantHolds, PTL

(* The loop over the sources always ends at the best candidate of a target,   *)
(* the lowest-numbered of equals, and at 0 only if it has none.              *)
THEOREM FindsBestHolds == PlicSpec => []FindsBest
<1> QED
    BY PlicTypeCorrect, SearchFindsBest, PTL

(* A source that becomes pending is returned by one claim, whichever targets  *)
(* claim and whatever is raised or configured in between.                   *)
THEOREM DeliveredOnceHolds == PlicSpec => []DeliveredOnce
<1>1. PlicInv => DeliveredOnce
    BY DEF PlicInv
<1> QED
    BY <1>1, PlicInvariantHolds, PTL

=============================================================================

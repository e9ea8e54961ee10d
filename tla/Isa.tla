-------------------------------- MODULE Isa --------------------------------
(***************************************************************************)
(* What the instruction set says of the instructions without system         *)
(* functions, for registers of XLen bits: an instruction is its mnemonic    *)
(* and operands as an assembler reads them.  Instructions is shown to        *)
(* implement it, and its two disassemblers to speak its language.           *)
(***************************************************************************)
EXTENDS Assembler

CONSTANTS
    Instrs,         \* the instructions of the programs
    Inputs,         \* the values that loads may find
    Starts,         \* where programs may start
    NoAccess,       \* no access to memory was made
    NoInstr         \* no instruction was executed

VARIABLES
    regs,           \* the registers
    pc,
    access,         \* the access to memory the last instruction made
    last            \* the last instruction

Signed(v) == IF 2 * v >= Modulus THEN v - Modulus ELSE v
Wrap(v) == v % Modulus

(* Division truncates, and the remainder has the sign of the dividend. *)
Quotient(a, b) == IF (a < 0) <=> (b < 0) THEN Abs(a) \div Abs(b) ELSE -(Abs(a) \div Abs(b))
Remainder(a, b) == a - b * Quotient(a, b)

(* The result of an operation on two operands. *)
Result(m, a, b) ==
    CASE m = "add"    -> Wrap(a + b)
      [] m = "sub"    -> Wrap(a - b)
      [] m = "sll"    -> Wrap(a * 2^(b % XLen))
      [] m = "slt"    -> IF Signed(a) < Signed(b) THEN 1 ELSE 0
      [] m = "sltu"   -> IF a < b THEN 1 ELSE 0
      [] m = "xor"    -> BitXor(a, b)
      [] m = "srl"    -> a \div 2^(b % XLen)
      [] m = "sra"    -> Wrap(Signed(a) \div 2^(b % XLen))
      [] m = "or"     -> BitOr(a, b)
      [] m = "and"    -> BitAnd(a, b)
      [] m = "mul"    -> Low(a, b)
      [] m = "mulh"   -> Wrap(High(Signed(a), Signed(b)))
      [] m = "mulhsu" -> Wrap(High(Signed(a), b))
      [] m = "mulhu"  -> Wrap(High(a, b))
      [] m = "div"    -> IF b = 0 THEN Modulus - 1 ELSE Wrap(Quotient(Signed(a), Signed(b)))
      [] m = "divu"   -> IF b = 0 THEN Modulus - 1 ELSE a \div b
      [] m = "rem"    -> IF b = 0 THEN a ELSE Wrap(Remainder(Signed(a), Signed(b)))
      [] m = "remu"   -> IF b = 0 THEN a ELSE a % b

Taken(m, a, b) ==
    \/ m = "beq" /\ a = b
    \/ m = "bne" /\ a # b
    \/ m = "blt" /\ Signed(a) < Signed(b)
    \/ m = "bge" /\ Signed(a) >= Signed(b)
    \/ m = "bltu" /\ a < b
    \/ m = "bgeu" /\ a >= b

Written(rd, v) == IF rd = 0 THEN regs ELSE [regs EXCEPT ![rd] = v]

(* The instruction writes v to rd and control goes to address next. *)
Does(rd, v, next) ==
    /\ regs' = Written(rd, v)
    /\ pc' = Wrap(next)
    /\ access' = NoAccess

(* An access to memory; what it finds, if anything, goes to rd. *)
Accesses(m, addr, data, targets) ==
    /\ access' = [op |-> m, addr |-> Wrap(addr), data |-> data]
    /\ regs' \in targets
    /\ pc' = Wrap(pc + 4)

(* The effect of instruction i. *)
Execute(i) ==
    LET a == regs[i.rs1]
        b == regs[i.rs2]
        found == {Written(i.rd, v) : v \in Inputs}
    IN  \/ /\ i.m \in RegisterOps
           /\ Does(i.rd, Result(i.m, a, b), pc + 4)
        \/ /\ i.m \in DOMAIN ImmediateOp
           /\ Does(i.rd, Result(ImmediateOp[i.m], a, Wrap(i.imm)), pc + 4)
        \/ i.m = "lui" /\ Does(i.rd, Wrap(i.imm), pc + 4)
        \/ i.m = "auipc" /\ Does(i.rd, Wrap(pc + i.imm), pc + 4)
        \/ i.m = "jal" /\ Does(i.rd, Wrap(pc + 4), pc + i.imm)
        \/ i.m = "jalr" /\ Does(i.rd, Wrap(pc + 4), 2 * (Wrap(a + i.imm) \div 2))
        \/ /\ i.m \in Branches
           /\ Does(0, 0, pc + IF Taken(i.m, a, b) THEN i.imm ELSE 4)
        \/ i.m \in Loads /\ Accesses(i.m, a + i.imm, 0, found)
        \/ i.m \in Stores /\ Accesses(i.m, a + i.imm, b, {regs})
        \/ i.m \in Atomics /\ Accesses(i.m, a, IF i.m = "lr.w" THEN 0 ELSE b, found)

Init ==
    /\ regs[0] = 0
    /\ pc \in Starts
    /\ access = NoAccess
    /\ last = NoInstr

(* Of a word that is no instruction nothing is said but that x0 stays zero. *)
Next ==
    \E i \in Instrs :
        /\ last' = i
        /\ IF i.m = "raw" THEN regs'[0] = 0 ELSE Execute(i)

Spec == Init /\ [][Next]_<<regs, pc, access, last>>

=============================================================================

---------------------------- MODULE Instructions ----------------------------
(***************************************************************************)
(* The instructions of Core::step but for system instructions: how a word   *)
(* is taken apart, what it does to the registers and the pc, and which       *)
(* access to memory it makes (LoadStore says what becomes of that one).      *)
(* Beside step two other pieces of code read the same word: disasm for the  *)
(* trace of the core, and class Disassembler for the debugger.              *)
(*                                                                         *)
(* A word is its fields.  Registers have XLen bits, of which step takes the  *)
(* low five, here the low log2(XLen), as the amount of a shift.              *)
(***************************************************************************)
EXTENDS Assembler, Sequences

CONSTANTS
    Registers,      \* the registers the programs use
    Inputs,         \* the values loads find, and registers start with
    Starts,         \* where the pc may start
    Instrs,         \* the instructions of the programs, see Assemble
    MaxSteps,       \* bound on the instructions executed
    NoAccess,       \* no access to memory was made
    NoInstr         \* no instruction was executed

VARIABLES
    regs,
    pc,
    alive,          \* the emulator has not been killed by an exception
    access,         \* the access to memory the last instruction made
    last,           \* the last instruction
    steps           \* the instructions executed

vars == <<regs, pc, alive, access, last, steps>>

InstructionSet == INSTANCE Isa

Init ==
    /\ regs \in [Registers -> Inputs]
    /\ regs[0] = 0
    /\ pc \in Starts
    /\ alive = TRUE
    /\ access = NoAccess
    /\ last = NoInstr
    /\ steps = 0

----------------------------------------------------------------------------
(* The immediates, put together from the fields. *)

SignExtend(v, bits) == ((v + 2^(bits - 1)) % 2^bits) - 2^(bits - 1)

UnsignedI(w) == w.f7 * 32 + w.rs2
UnsignedS(w) == w.f7 * 32 + w.rd
ImmI(w) == SignExtend(UnsignedI(w), 12)
ImmS(w) == SignExtend(UnsignedS(w), 12)
Above(w) == w.f7 * 8192 + w.rs2 * 256 + w.rs1 * 8 + w.f3
ImmU(w) == Above(w) * 4096

(* Mutant of ImmB: bit 11 is taken for the sign. *)
ImmBShort(w) ==
    SignExtend((w.rd \div 2) * 2 + (w.f7 % 64) * 32 + (w.rd % 2) * 2048, 12)

ImmB(w) ==
    SignExtend((w.rd \div 2) * 2 + (w.f7 % 64) * 32 + (w.rd % 2) * 2048
                   + (w.f7 \div 64) * 4096, 13)

UnsignedJ(w) ==
    LET v == Above(w)
    IN  ((v \div 512) % 1024) * 2 + ((v \div 256) % 2) * 2048 + (v % 256) * 4096
            + (v \div 2^19) * 2^20
ImmJ(w) == SignExtend(UnsignedJ(w), 21)

(* The cast to int32_t, and back. *)
Signed(v) == IF v >= 2^(XLen - 1) THEN v - 2^XLen ELSE v
Wrap(v) == v % 2^XLen
Shift(v) == v % XLen
Bit(c) == IF c THEN 1 ELSE 0
AllOnes == 2^XLen - 1

(* C++ divides towards zero. *)
Divide(a, b) ==
    LET q == Abs(a) \div Abs(b) IN IF (a < 0) = (b < 0) THEN q ELSE -q
Modulo(a, b) == a - Divide(a, b) * b

----------------------------------------------------------------------------
(* What OP and OP-IMM leave in rd, given the operands and the old value.  A   *)
(* word that the switch does not know leaves the old value.                 *)

ImmediateResult(w, a, old) ==
    LET imm == ImmI(w)
    IN  CASE w.f3 = 0 -> Wrap(a + imm)
          [] w.f3 = 2 -> Bit(Signed(a) < imm)
          [] w.f3 = 3 -> Bit(a < Wrap(imm))
          [] w.f3 = 4 -> BitXor(a, Wrap(imm))
          [] w.f3 = 6 -> BitOr(a, Wrap(imm))
          [] w.f3 = 7 -> BitAnd(a, Wrap(imm))
          [] w.f3 = 1 -> Wrap(a * 2^Shift(imm))
          [] w.f3 = 5 /\ w.f7 = 0 -> a \div 2^Shift(imm)
          [] w.f3 = 5 /\ w.f7 = 32 -> Wrap(Signed(a) \div 2^Shift(imm))
          [] OTHER -> old

(* The high products are chosen by the number of the second register. *)
LeftOrHigh(w, a, b) ==
    CASE w.f7 = 1 /\ w.rs2 = 1 -> Wrap(High(Signed(a), Signed(b)))
      [] w.f7 = 1 /\ w.rs2 = 2 -> Wrap(High(Signed(a), b))
      [] w.f7 = 1 /\ w.rs2 = 3 -> Wrap(High(a, b))
      [] OTHER -> Wrap(a * 2^Shift(b))

SignedDivision(a, b) ==
    IF b = 0 THEN AllOnes
    ELSE IF a = 2^(XLen - 1) /\ b = AllOnes THEN a
    ELSE Wrap(Divide(Signed(a), Signed(b)))

SignedRemainder(a, b) == IF b = 0 THEN a ELSE Wrap(Modulo(Signed(a), Signed(b)))

UnsignedRemainder(a, b) == IF b = 0 THEN a ELSE a % b

RegisterResult(w, a, b, old) ==
    CASE w.f3 = 0 /\ w.f7 = 0 -> Wrap(a + b)
      [] w.f3 = 0 /\ w.f7 = 32 -> Wrap(a - b)
      [] w.f3 = 0 /\ w.f7 = 1 -> Low(a, b)
      [] w.f3 = 1 -> LeftOrHigh(w, a, b)
      [] w.f3 = 2 -> Bit(Signed(a) < Signed(b))
      [] w.f3 = 3 -> Bit(a < b)
      [] w.f3 = 4 /\ w.f7 = 1 -> SignedDivision(a, b)
      [] w.f3 = 4 /\ w.f7 = 0 -> BitXor(a, b)
      [] w.f3 = 5 /\ w.f7 = 1 -> IF b = 0 THEN AllOnes ELSE a \div b
      [] w.f3 = 5 /\ w.f7 = \h21 -> SignedRemainder(a, b)
      [] w.f3 = 5 /\ w.f7 = \h25 -> UnsignedRemainder(a, b)
      [] w.f3 = 5 /\ w.f7 = 0 -> a \div 2^Shift(b)
      [] w.f3 = 5 /\ w.f7 = 32 -> Wrap(Signed(a) \div 2^Shift(b))
      [] w.f3 = 6 /\ w.f7 = 1 -> SignedRemainder(a, b)
      [] w.f3 = 6 /\ w.f7 = 0 -> BitOr(a, b)
      [] w.f3 = 7 /\ w.f7 = 1 -> UnsignedRemainder(a, b)
      [] w.f3 = 7 /\ w.f7 = 0 -> BitAnd(a, b)
      [] OTHER -> old

(* A remainder of the least number by -1 is not guarded, as the quotient is:  *)
(* undefined in C++, an exception of the processor or the result 0.         *)
Unguarded(w, a, b) ==
    /\ w.op = \h33 /\ <<w.f3, w.f7>> \in {<<6, 1>>, <<5, \h21>>}
    /\ a = 2^(XLen - 1) /\ b = AllOnes

Condition(w, a, b) ==
    \/ w.f3 = 0 /\ a = b
    \/ w.f3 = 1 /\ a # b
    \/ w.f3 = 4 /\ Signed(a) < Signed(b)
    \/ w.f3 = 5 /\ Signed(a) >= Signed(b)
    \/ w.f3 = 6 /\ a < b
    \/ w.f3 = 7 /\ a >= b

----------------------------------------------------------------------------
(* The cases of step. *)

(* x0 is cleared at the end of step, whatever wrote to it. *)
Leave(rd, v, next) ==
    /\ regs' = [[regs EXCEPT ![rd] = v] EXCEPT ![0] = 0]
    /\ pc' = Wrap(next)
    /\ access' = NoAccess
    /\ UNCHANGED alive

Nothing == Leave(0, 0, pc + 4)

Immediate(w) ==
    /\ w.op = \h13
    /\ Leave(w.rd, ImmediateResult(w, regs[w.rs1], regs[w.rd]), pc + 4)

Register(w) ==
    /\ w.op = \h33
    /\ Leave(w.rd, RegisterResult(w, regs[w.rs1], regs[w.rs2], regs[w.rd]), pc + 4)

Killed(w) ==
    /\ Unguarded(w, regs[w.rs1], regs[w.rs2])
    /\ alive' = FALSE
    /\ UNCHANGED <<regs, pc, access>>

LoadUpper(w) ==
    \/ w.op = \h37 /\ Leave(w.rd, Wrap(ImmU(w)), pc + 4)
    \/ w.op = \h17 /\ Leave(w.rd, Wrap(pc + ImmU(w)), pc + 4)

Branch(w) ==
    /\ w.op = \h63
    /\ Leave(0, 0, pc + IF Condition(w, regs[w.rs1], regs[w.rs2]) THEN ImmB(w) ELSE 4)

Jump(w) ==
    \/ w.op = \h6F /\ Leave(w.rd, Wrap(pc + 4), pc + ImmJ(w))
    \/ /\ w.op = \h67 /\ w.f3 = 0
       /\ Leave(w.rd, Wrap(pc + 4), Wrap(regs[w.rs1] + ImmI(w)) - (Wrap(regs[w.rs1] + ImmI(w)) % 2))
    \/ w.op = \h67 /\ w.f3 # 0 /\ Nothing

(* The access that the rest of the case makes, with what it finds in rd. *)
MakesAccess(op, addr, data, rd, found) ==
    /\ access' = [op |-> op, addr |-> Wrap(addr), data |-> data]
    /\ \E v \in found : regs' = [[regs EXCEPT ![rd] = v] EXCEPT ![0] = 0]
    /\ pc' = Wrap(pc + 4)
    /\ UNCHANGED alive

LoadOp == <<"lb", "lh", "lw", "unknown", "lbu", "lhu", "unknown", "unknown">>
StoreOp == <<"sb", "sh", "sw", "unknown", "unknown", "unknown", "unknown", "unknown">>

(* A load of no known width leaves 0 in rd, or what a device answers to it. *)
Load(w) ==
    LET op == LoadOp[w.f3 + 1]
    IN  /\ w.op = \h03
        /\ MakesAccess(op, regs[w.rs1] + ImmI(w), 0, w.rd,
                       IF op = "unknown" THEN Inputs \union {0} ELSE Inputs)

(* A store of no known width does nothing to memory, but reaches devices. *)
Store(w) ==
    /\ w.op = \h23
    /\ MakesAccess(StoreOp[w.f3 + 1], regs[w.rs1] + ImmS(w), regs[w.rs2], 0, {0})

(* funct7 >> 2 of the four atomics that are found here, see LoadStore for all. *)
AtomicOp(w) ==
    CASE w.f7 \div 4 = 2 -> "lr.w" [] w.f7 \div 4 = 3 -> "sc.w"
      [] w.f7 \div 4 = 0 -> "amoadd.w" [] w.f7 \div 4 = 1 -> "amoswap.w"

Atomic(w) ==
    /\ w.op = \h2F /\ w.f3 = 2
    /\ MakesAccess(AtomicOp(w), regs[w.rs1],
                   IF AtomicOp(w) = "lr.w" THEN 0 ELSE regs[w.rs2], w.rd, Inputs)

KnownOps == {\h03, \h13, \h17, \h23, \h2F, \h33, \h37, \h63, \h67, \h6F}

Unknown(w) == w.op \notin KnownOps /\ Nothing

Step(i) ==
    LET w == Assemble(i)
    IN  /\ alive
        /\ steps < MaxSteps
        /\ \/ Immediate(w) \/ Register(w) \/ Killed(w) \/ LoadUpper(w) \/ Branch(w)
           \/ Jump(w) \/ Load(w) \/ Store(w) \/ Atomic(w) \/ Unknown(w)
        /\ last' = IF alive' THEN i ELSE last
        /\ steps' = steps + 1

Next == \E i \in Instrs : Step(i)

Spec == Init /\ [][Next]_vars

----------------------------------------------------------------------------
(* Registers of the code's 32 bits, or of 16.                                *)
ASSUME WidthAssumption ==
    /\ XLen \in {16, 32}
    /\ Registers \subseteq 0 .. 31 /\ 0 \in Registers
    /\ Inputs \subseteq 0 .. Modulus - 1 /\ Starts \subseteq 0 .. Modulus - 1

(* The fields have their widths, and those that number a register number one  *)
(* of the program's.  The other atomics are in LoadStore.                   *)
WellFormedWord(w) ==
    /\ w \in [op : 0 .. 127, rd : 0 .. 31, f3 : 0 .. 7,
               rs1 : 0 .. 31, rs2 : 0 .. 31, f7 : 0 .. 127]
    /\ w.op \notin {\h17, \h37, \h6F} => w.rs1 \in Registers
    /\ w.op \in {\h23, \h2F, \h33, \h63} => w.rs2 \in Registers
    /\ w.op \notin {\h23, \h63} => w.rd \in Registers
    /\ w.op = \h2F /\ w.f3 = 2 => w.f7 \div 4 \in 0 .. 3

(* The operands that an assembler takes. *)
SignedNumbers(bits) == -(2^(bits - 1)) .. 2^(bits - 1) - 1

Encodable(i) ==
    /\ i.m \in RegisterOps \union DOMAIN ImmediateOp \union Branches \union Loads \union Stores
                \union Atomics \union {"lui", "auipc", "jal", "jalr", "raw"}
    /\ i.m \in {"slli", "srli", "srai"} => i.imm \in 0 .. XLen - 1
    /\ i.m \in {"addi", "slti", "sltiu", "xori", "ori", "andi", "jalr"} \union Loads \union Stores =>
            i.imm \in SignedNumbers(12)
    /\ i.m \in Branches => i.imm \in SignedNumbers(13) /\ i.imm % 2 = 0
    /\ i.m = "jal" => i.imm \in SignedNumbers(21) /\ i.imm % 2 = 0
    /\ i.m \in {"lui", "auipc"} => \E v \in 0 .. 2^20 - 1 : i.imm = v * 2^12

ASSUME InstrsAssumption ==
    \A i \in Instrs : Encodable(i) /\ WellFormedWord(Assemble(i))

(* The programs do without the products that step does not know: it takes     *)
(* MULHSU and MULHU for SLT and SLTU, and MULH for SLL if its second register *)
(* is not x1.                                                               *)
ASSUME ProductsAssumption ==
    \A i \in Instrs : i.m \notin {"mulhsu", "mulhu"} /\ (i.m = "mulh" => i.rs2 = 1)

----------------------------------------------------------------------------
(* The two disassemblers: the instruction that a reader of their text sees,   *)
(* "unknown" when they do not name one.                                     *)

Shown(m, w, imm) == [m |-> m, rd |-> w.rd, rs1 |-> w.rs1, rs2 |-> w.rs2, imm |-> imm]
NotShown == [m |-> "unknown"]
ShownOr(m, w, imm) == IF m = "unknown" THEN NotShown ELSE Shown(m, w, imm)

ImmediateName(w) ==
    CASE w.f3 = 0 -> "addi" [] w.f3 = 1 -> "slli" [] w.f3 = 2 -> "slti"
      [] w.f3 = 3 -> "sltiu" [] w.f3 = 4 -> "xori" [] w.f3 = 6 -> "ori"
      [] w.f3 = 7 -> "andi" [] w.f3 = 5 /\ w.f7 = 0 -> "srli"
      [] w.f3 = 5 /\ w.f7 = 32 -> "srai" [] OTHER -> "unknown"

BranchName == <<"beq", "bne", "unknown", "unknown", "blt", "bge", "bltu", "bgeu">>

(* Mutant of TracedName: funct7 is not looked at for SUB. *)
TracedNameNoSub(w) ==
    CASE w.f3 = 0 -> "add" [] w.f3 = 2 -> "slt" [] w.f3 = 3 -> "sltu" [] OTHER -> "unknown"

(* disasm of Core.cpp looks at funct7 for add, sub, mul and the right shifts; *)
(* it knows the divisions under funct3 5, where step has other ones.         *)
TracedName(w) ==
    CASE w.f3 = 0 -> (CASE w.f7 = 0 -> "add" [] w.f7 = 32 -> "sub" [] w.f7 = 1 -> "mul"
                        [] OTHER -> "unknown")
      [] w.f3 = 1 -> (CASE w.f7 = 1 /\ w.rs2 = 1 -> "mulh" [] w.f7 = 1 /\ w.rs2 = 2 -> "mulhsu"
                        [] w.f7 = 1 /\ w.rs2 = 3 -> "mulhu" [] OTHER -> "sll")
      [] w.f3 = 5 -> (CASE w.f7 = 0 -> "srl" [] w.f7 = 32 -> "sra" [] w.f7 = 1 -> "div"
                        [] w.f7 = 5 -> "divu" [] w.f7 = \h21 -> "rem"
                        [] w.f7 = \h25 -> "remu" [] OTHER -> "unknown")
      [] w.f3 = 2 -> "slt" [] w.f3 = 3 -> "sltu" [] w.f3 = 4 -> "xor"
      [] w.f3 = 6 -> "or" [] w.f3 = 7 -> "and"

Traced(w) ==
    CASE w.op = \h13 -> ShownOr(ImmediateName(w), w, IF w.f3 \in {1, 5} THEN ImmI(w) % 32
                                                     ELSE ImmI(w))
      [] w.op = \h2F /\ w.f3 = 2 -> Shown(AtomicOp(w), w, 0)
      [] w.op = \h33 -> ShownOr(TracedName(w), w, 0)
      [] w.op = \h37 -> Shown("lui", w, ImmU(w))
      [] w.op = \h17 -> Shown("auipc", w, ImmU(w))
      [] w.op = \h6F -> Shown("jal", w, ImmJ(w))
      [] w.op = \h67 /\ w.f3 = 0 -> Shown("jalr", w, ImmI(w))
      [] w.op = \h63 -> ShownOr(BranchName[w.f3 + 1], w, ImmB(w))
      [] w.op = \h03 -> ShownOr(LoadOp[w.f3 + 1], w, ImmI(w))
      [] w.op = \h23 /\ w.f3 < 3 -> Shown(StoreOp[w.f3 + 1], w, ImmS(w))
      [] OTHER -> NotShown

RegisterName(w) ==
    LET named == {m \in DOMAIN OpCodes : OpCodes[m] = <<w.f3, w.f7>>}
    IN  IF named = {} THEN "unknown" ELSE CHOOSE m \in named : TRUE

(* Mutant of ShownImmB: the field is not scaled. *)
ShownImmBField(w) == (w.rd \div 2) + (w.f7 % 64) * 16 + (w.rd % 2) * 1024 + (w.f7 \div 64) * 2048

(* The immediates of an int16_t that holds 12 bits are never negative; that   *)
(* of a branch is the field shifted by four and back by three.              *)
ShownImmB(w) == 2 * ((w.rd \div 2) + (w.f7 % 64) * 16 + (w.rd % 2) * 1024 + (w.f7 \div 64) * 2048)

ShownAtomic(w) ==
    CASE w.f7 = 0 -> "lr.w" [] w.f7 % 64 = 2 -> "sc.w" [] w.f7 % 64 = 1 -> "amoswap.w"
      [] w.f7 % 64 = 0 -> "amoadd.w" [] OTHER -> "unknown"

(* A branch, a jump and both upper immediates are shown as pc plus immediate. *)
Disassembled(w, at) ==
    CASE w.op = \h37 -> Shown("lui", w, at + ImmU(w))
      [] w.op = \h17 -> Shown("auipc", w, ImmU(w))
      [] w.op = \h6F -> Shown("jal", w, ImmJ(w))
      [] w.op = \h67 /\ w.f3 = 0 -> Shown("jalr", w, UnsignedI(w))
      [] w.op = \h63 -> ShownOr(BranchName[w.f3 + 1], w, ShownImmB(w))
      [] w.op = \h03 -> ShownOr(LoadOp[w.f3 + 1], w, UnsignedI(w))
      [] w.op = \h23 /\ w.f3 < 3 -> Shown(StoreOp[w.f3 + 1], w, UnsignedS(w))
      [] w.op = \h33 -> ShownOr(RegisterName(w), w, 0)
      [] w.op = \h13 -> ShownOr(ImmediateName(w), w, UnsignedI(w))
      [] w.op = \h2F /\ w.f3 = 2 -> ShownOr(ShownAtomic(w), w, 0)
      [] OTHER -> NotShown

----------------------------------------------------------------------------
(* Step executes every instruction that the assembler encodes as the          *)
(* instruction set says, whatever registers it names twice and whatever it  *)
(* finds in them: no bit of an immediate is lost, no operand read after it   *)
(* was overwritten, no sign mistaken, and x0 is never anything but 0.        *)
ImplementsIsa == InstructionSet!Spec

(* The register numbers that choose a high product agree with no encoding, so *)
(* what step then does is in neither disassembly.                           *)
HighProduct(w) == w.op = \h33 /\ w.f7 = 1 /\ w.f3 \in {1, 2, 3}

(* Words of which disasm does not look at funct7, or takes a division for       *)
(* another one.                                                             *)
TraceMistakes(w) ==
    /\ w.op = \h33
    /\ \/ w.f3 \in {4, 6, 7} /\ w.f7 # 0
       \/ w.f3 = 5 /\ w.f7 \in {1, 5}

TracedAsDone ==
    LET w == Assemble(last')
        shown == Traced(w)
    IN  alive' /\ shown.m # "unknown" /\ ~TraceMistakes(w) => InstructionSet!Execute(shown)

(* A line of the trace says what step then does, for every other word that it *)
(* shows, whether or not an assembler would make it.                        *)
TraceTells == [][TracedAsDone]_vars

(* Words that the debugger's text gets wrong: an immediate is negative, or the  *)
(* word is LUI, an atomic or a high product.                                *)
DisassemblyMistakes(w) ==
    \/ w.f7 >= 64 /\ w.op \in {\h03, \h13, \h23, \h63, \h67}
    \/ w.op \in {\h2F, \h37}
    \/ HighProduct(w)

DisassembledAsDone ==
    LET w == Assemble(last')
        shown == Disassembled(w, pc)
    IN  alive' /\ shown.m # "unknown" /\ ~DisassemblyMistakes(w) => InstructionSet!Execute(shown)

(* What the debugger shows of any other word is what step does with it. *)
DisassemblyTells == [][DisassembledAsDone]_vars

=============================================================================

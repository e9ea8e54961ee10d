----------------------------- MODULE Assembler -----------------------------
(***************************************************************************)
(* The language of the instruction set and its encoding by the assembler    *)
(* of the toolchain, with the arithmetic of products that Isa and           *)
(* Instructions both need.                                                  *)
(***************************************************************************)
EXTENDS Bits

CONSTANT XLen       \* the width of a register

Modulus == 2^XLen
Abs(v) == IF v < 0 THEN -v ELSE v

(* The product in two halves, without the product, which TLC cannot hold. *)
Half == 2^(XLen \div 2)
High(a, b) == ((a \div Half) * b + ((a % Half) * b) \div Half) \div Half
Low(a, b) == ((((a \div Half) * b) % Half) * Half + (a % Half) * b) % Modulus

----------------------------------------------------------------------------
RegisterOps == {"add", "sub", "sll", "slt", "sltu", "xor", "srl", "sra", "or", "and",
                "mul", "mulh", "mulhsu", "mulhu", "div", "divu", "rem", "remu"}

(* The operation of an instruction with an immediate operand. *)
ImmediateOp ==
    [addi |-> "add", slti |-> "slt", sltiu |-> "sltu", xori |-> "xor", ori |-> "or",
     andi |-> "and", slli |-> "sll", srli |-> "srl", srai |-> "sra"]

Branches == {"beq", "bne", "blt", "bge", "bltu", "bgeu"}
Loads == {"lb", "lh", "lw", "lbu", "lhu"}
Stores == {"sb", "sh", "sw"}
Atomics == {"lr.w", "sc.w", "amoadd.w", "amoswap.w"}

----------------------------------------------------------------------------
(* The assembler of the toolchain: formats and encodings of the instruction   *)
(* set.  An instruction is its mnemonic m with rd, rs1, rs2 and imm; one     *)
(* with the mnemonic raw has the fields of its word instead.                *)

Word(op, rd, f3, rs1, rs2, f7) ==
    [op |-> op, rd |-> rd, f3 |-> f3, rs1 |-> rs1, rs2 |-> rs2, f7 |-> f7]

OpCodes ==
    [add |-> <<0, 0>>, sub |-> <<0, 32>>, sll |-> <<1, 0>>, slt |-> <<2, 0>>,
     sltu |-> <<3, 0>>, xor |-> <<4, 0>>, srl |-> <<5, 0>>, sra |-> <<5, 32>>,
     or |-> <<6, 0>>, and |-> <<7, 0>>, mul |-> <<0, 1>>, mulh |-> <<1, 1>>,
     mulhsu |-> <<2, 1>>, mulhu |-> <<3, 1>>, div |-> <<4, 1>>, divu |-> <<5, 1>>,
     rem |-> <<6, 1>>, remu |-> <<7, 1>>]

Funct3 ==
    [addi |-> 0, slli |-> 1, slti |-> 2, sltiu |-> 3, xori |-> 4, srli |-> 5,
     srai |-> 5, ori |-> 6, andi |-> 7, beq |-> 0, bne |-> 1, blt |-> 4, bge |-> 5,
     bltu |-> 6, bgeu |-> 7, lb |-> 0, lh |-> 1, lw |-> 2, lbu |-> 4, lhu |-> 5,
     sb |-> 0, sh |-> 1, sw |-> 2]

AtomicCode(m) ==
    CASE m = "sc.w" -> 3 [] m = "amoadd.w" -> 0 [] OTHER -> 1

(* The formats, by the letters that the instruction set has for them. *)
RType(i, op, code, rs2) == Word(op, i.rd, code[1], i.rs1, rs2, code[2])

IType(i, op, f3, n) == Word(op, i.rd, f3, i.rs1, n % 32, (n % 4096) \div 32)

SType(i) == Word(\h23, i.imm % 32, Funct3[i.m], i.rs1, i.rs2, (i.imm % 4096) \div 32)

BType(i) ==
    LET v == i.imm % 8192
    IN  Word(\h63, ((v \div 2) % 16) * 2 + ((v \div 2048) % 2), Funct3[i.m], i.rs1, i.rs2,
             (v \div 4096) * 64 + ((v \div 32) % 64))

(* The twenty bits v above rd. *)
Upper(op, rd, v) == Word(op, rd, v % 8, (v \div 8) % 32, (v \div 256) % 32, v \div 8192)

UType(i, op) == Upper(op, i.rd, (i.imm \div 4096) % 2^20)

JType(i) ==
    LET v == i.imm % 2^21
    IN  Upper(\h6F, i.rd, (v \div 2^20) * 2^19 + ((v \div 2) % 1024) * 512
                            + ((v \div 2048) % 2) * 256 + ((v \div 4096) % 256))

Assemble(i) ==
    CASE i.m = "raw" -> i.word
      [] i.m \in RegisterOps -> RType(i, \h33, OpCodes[i.m], i.rs2)
      [] i.m = "srai" -> IType(i, \h13, 5, 2^10 + i.imm)
      [] i.m \in DOMAIN ImmediateOp \ {"srai"} -> IType(i, \h13, Funct3[i.m], i.imm)
      [] i.m = "jalr" -> IType(i, \h67, 0, i.imm)
      [] i.m \in Loads -> IType(i, \h03, Funct3[i.m], i.imm)
      [] i.m \in Stores -> SType(i)
      [] i.m \in Branches -> BType(i)
      [] i.m = "lui" -> UType(i, \h37)
      [] i.m = "auipc" -> UType(i, \h17)
      [] i.m = "jal" -> JType(i)
      [] i.m = "lr.w" -> RType(i, \h2F, <<2, 8>>, 0)
      [] OTHER -> RType(i, \h2F, <<2, 4 * AtomicCode(i.m)>>, i.rs2)

=============================================================================

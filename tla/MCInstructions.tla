--------------------------- MODULE MCInstructions ---------------------------
(* Registers of 16 bits, four of them, that start with the values at the     *)
(* edges of the signed and the unsigned numbers; every instruction with      *)
(* distinct registers, and with registers that coincide or are x0.           *)
EXTENDS Instructions

R(m, rd, rs1, rs2) == [m |-> m, rd |-> rd, rs1 |-> rs1, rs2 |-> rs2, imm |-> 0]
I(m, rd, rs1, imm) == [m |-> m, rd |-> rd, rs1 |-> rs1, rs2 |-> 0, imm |-> imm]
B(m, rs1, rs2, imm) == [m |-> m, rd |-> 0, rs1 |-> rs1, rs2 |-> rs2, imm |-> imm]
Raw(op, rd, f3, rs1, rs2, f7) ==
    [m |-> "raw", word |-> Word(op, rd, f3, rs1, rs2, f7)]

MCStarts == {\h100, \hFFFC}
MCRegisters == 0 .. 3
MCInputs == {0, 7, \h7FFF, \h8000, \hFFFF}

(* MULHSU and MULHU are words that step takes for SLT and SLTU, and MULH one  *)
(* that it knows when the second register is x1.                            *)
Known == RegisterOps \ {"mulh", "mulhsu", "mulhu"}

MCInstrs ==
    {R(m, 3, 1, 2) : m \in Known} \union {R(m, 1, 1, 1) : m \in {"sub", "sll", "div", "rem"}}
        \union {R("mulh", 3, 2, 1), R("add", 0, 1, 2), R("sub", 2, 0, 2)}
        \union {I(m, 3, 1, imm) : m \in {"addi", "slti", "sltiu", "xori", "ori", "andi"},
                                  imm \in {-2048, -1, 2047}}
        \union {I(m, 1, 1, imm) : m \in {"slli", "srli", "srai"}, imm \in {0, 5, 15}}
        \union {I("lui", 2, 0, imm) : imm \in {4096, 8 * 4096}}
        \union {I("auipc", 2, 0, 3 * 4096), I("jal", 1, 0, 2052), I("jal", 0, 0, -2),
                I("jal", 2, 0, 1044488), I("jalr", 1, 1, -2048), I("jalr", 0, 2, 3)}
        \union {B(m, 1, 2, 2050) : m \in Branches}
        \union {B("beq", 1, 1, -4096), B("bne", 0, 2, -30), B("bltu", 1, 3, 4094)}
        \union {I(m, 2, 1, 5) : m \in Loads}
        \union {I("lw", 1, 1, -4), I("lb", 0, 1, 2047)}
        \union {B(m, 1, 2, imm) : m \in Stores, imm \in {-2048, 33}}
        \union {R("lr.w", 3, 1, 0), R("sc.w", 1, 1, 2), R("amoadd.w", 3, 1, 2),
                R("amoswap.w", 2, 1, 2)}
        \union {Raw(\h33, 3, 5, 1, 2, \h21), Raw(\h33, 3, 5, 1, 2, \h25),
                Raw(\h33, 3, 1, 1, 2, 1), Raw(\h33, 3, 1, 1, 3, 1), Raw(\h33, 3, 2, 1, 2, 1),
                Raw(\h33, 3, 4, 1, 2, 32), Raw(\h13, 3, 5, 1, 2, 1), Raw(\h67, 1, 1, 1, 0, 0),
                Raw(\h03, 1, 3, 1, 0, 0), Raw(\h23, 1, 3, 1, 0, 0), Raw(\h63, 8, 2, 1, 1, 0),
                Raw(\h0F, 0, 0, 0, 0, 0)}

=============================================================================

---------------------------- MODULE ByteMemory -----------------------------
(***************************************************************************)
(* What a program may expect of its loads, stores and atomic instructions   *)
(* by the instruction set: one array of bytes, words little-endian, every   *)
(* instruction atomic, narrow loads extended by sign or by zero.  LoadStore  *)
(* is shown to implement it for the programs named in its configuration.    *)
(***************************************************************************)
EXTENDS Integers, Bits

CONSTANTS
    ByteSize,       \* the number of values of a byte
    Bytes,          \* the addresses of memory
    Instructions,   \* what programs execute: records of op, addr, rs2
    InitBytes,      \* the loaded program image
    NoInstruction   \* what done is before the first instruction

VARIABLES
    mem,            \* mem[a]: the byte at a
    done            \* the last instruction, the value it left in rd (0 for
                    \* none) and how far it moved the pc

Loads == {"lb", "lbu", "lh", "lhu", "lw", "lr"}
Stores == {"sb", "sh", "sw", "sc"}

Width(op) ==
    IF op \in {"lb", "lbu", "sb"} THEN 1
    ELSE IF op \in {"lh", "lhu", "sh"} THEN 2 ELSE 4

(* The number of values of n bytes. *)
Weight(n) ==
    CASE n = 0 -> 1
      [] n = 1 -> ByteSize
      [] n = 2 -> ByteSize * ByteSize
      [] n = 3 -> ByteSize * ByteSize * ByteSize
      [] n = 4 -> ByteSize * ByteSize * ByteSize * ByteSize

(* The bytes of instruction i. *)
Touched(i) == i.addr .. i.addr + Width(i.op) - 1

Place(m, i, k) == IF k < Width(i.op) THEN m[i.addr + k] ELSE 0

Value(m, i) ==
    Place(m, i, 0)
      + ByteSize * (Place(m, i, 1) + ByteSize * (Place(m, i, 2) + ByteSize * Place(m, i, 3)))

WithValue(m, i, v) ==
    [a \in Bytes |-> IF a \in Touched(i) THEN (v \div Weight(a - i.addr)) % ByteSize
                     ELSE m[a]]

Signed(v, n) == IF v >= Weight(n) \div 2 THEN v - Weight(n) ELSE v

Extended(i, v) ==
    IF i.op \in {"lb", "lh"} THEN Signed(v, Width(i.op)) % Weight(4) ELSE v

Atomic(op, old, v) ==
    CASE op = "amoadd"  -> (old + v) % Weight(4)
      [] op = "amoswap" -> v
      [] op = "amoand"  -> BitAnd(old, v)
      [] op = "amoor"   -> BitOr(old, v)
      [] op = "amoxor"  -> BitXor(old, v)
      [] op = "amomin"  -> IF Signed(old, 4) <= Signed(v, 4) THEN old ELSE v
      [] op = "amomax"  -> IF Signed(old, 4) >= Signed(v, 4) THEN old ELSE v
      [] op = "amominu" -> IF old <= v THEN old ELSE v
      [] op = "amomaxu" -> IF old >= v THEN old ELSE v

Finished(i, v) == done' = [instr |-> i, rd |-> v, advance |-> 4]

Init ==
    /\ mem = InitBytes
    /\ done = NoInstruction

Load(i) ==
    /\ i.op \in Loads
    /\ Finished(i, Extended(i, Value(mem, i)))
    /\ UNCHANGED mem

(* SC.W leaves 0 in rd, which says that it has stored. *)
Store(i) ==
    /\ i.op \in Stores
    /\ Finished(i, 0)
    /\ mem' = WithValue(mem, i, i.rs2)

ReadModifyWrite(i) ==
    /\ i.op \notin Loads \union Stores
    /\ Finished(i, Value(mem, i))
    /\ mem' = WithValue(mem, i, Atomic(i.op, Value(mem, i), i.rs2))

Known(i) == i.op # "amobad" /\ Touched(i) \subseteq Bytes

(* An access that is not to memory, or by an instruction that there is not,   *)
(* leaves memory alone.                                                     *)
Elsewhere(i) ==
    /\ done'.instr = i
    /\ UNCHANGED mem

Next ==
    \E i \in Instructions :
        IF Known(i)
        THEN Load(i) \/ Store(i) \/ ReadModifyWrite(i)
        ELSE Elsewhere(i)

Spec == Init /\ [][Next]_<<mem, done>>

=============================================================================

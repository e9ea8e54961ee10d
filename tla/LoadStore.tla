----------------------------- MODULE LoadStore ------------------------------
(***************************************************************************)
(* The load, store and atomic instructions of Core::step, over the caches   *)
(* of CacheHierarchy: which way an access takes, by its address and by the  *)
(* region table of the PMA, and how bytes and halfwords are cut out of the  *)
(* words the caches deal in.                                                *)
(*                                                                         *)
(* Ways: through the own L1, to DDR in the end; past all caches to the memory *)
(* of the simulator, which is another one; for atomics always through the   *)
(* caches; and beyond memory to the UART and the CLINT.  Addresses are those of the emulator; Blocks and Words are the     *)
(* parts of memory the programs of a run use.  satp is 0.                   *)
(***************************************************************************)
EXTENDS CacheHierarchy, Pma, Bits

CONSTANTS
    ByteSize,       \* the number of values of a byte
    Programs,       \* sets of instructions that run together
    NoInstruction   \* what done is before the first instruction

VARIABLES
    program,        \* the member of Programs that runs
    memory,         \* the bytes of the simulator's memory, which no cache is over
    uart,           \* the UART's data and line control registers
    done            \* the last instruction, what it left in rd (0 for
                    \* nothing) and how far it moved the pc

machineVars == <<vars, program, memory, uart, done>>

BlockSize == 64
MemorySize == \h200000
UART_BASE == \h10000000
CORE_ID == \h10000010
CLINT_BASE == \h2000000
CLINT_ALIAS == \h20000000

HalfSize == ByteSize * ByteSize
WordSize == HalfSize * HalfSize

(* The number of values of n bytes. *)
Weight(n) ==
    CASE n = 0 -> 1 [] n = 1 -> ByteSize [] n = 2 -> HalfSize
      [] n = 3 -> HalfSize * ByteSize [] n = 4 -> WordSize

(* The word of the caches that address a is in. *)
At(a) == <<a - (a % BlockSize), (a % BlockSize) \div 4>>

ByteOf(w, k) == (w \div Weight(k)) % ByteSize

(* The word made of four bytes. *)
WordOf(b) == b[0] + ByteSize * (b[1] + ByteSize * (b[2] + ByteSize * b[3]))

Bytes == {b + 4 * x + k : b \in Blocks, x \in Words, k \in 0 .. 3}

(* The program image as load_program leaves it in the simulator's memory. *)
InitBytes == [a \in Bytes |-> ByteOf(InitDdr[At(a)[1]][At(a)[2]], a % 4)]

MachineInit ==
    /\ Init
    /\ program \in Programs
    /\ memory = InitBytes
    /\ uart = [dr |-> 0, lcr |-> 0]
    /\ done = NoInstruction

----------------------------------------------------------------------------
Width(op) ==
    IF op \in {"lb", "lbu", "sb"} THEN 1
    ELSE IF op \in {"lh", "lhu", "sh"} THEN 2 ELSE 4

(* The cast to int8_t or int16_t and back to a register. *)
Extend(op, v) ==
    IF op \in {"lb", "lh"} /\ v >= Weight(Width(op)) \div 2
    THEN v + (WordSize - Weight(Width(op))) ELSE v

(* What a cached load cuts out of word w: any odd halfword is the upper one. *)
Part(op, w, a) ==
    IF Width(op) = 1 THEN ByteOf(w, a % 4)
    ELSE IF Width(op) = 4 THEN w
    ELSE IF a % 4 = 0 THEN w % HalfSize ELSE w \div HalfSize

(* Mutant of Merge: the upper halfword of the old word is lost. *)
MergeClears(op, w, a, v) ==
    IF Width(op) = 1
    THEN WordOf([k \in 0 .. 3 |-> IF k = a % 4 THEN v % ByteSize ELSE ByteOf(w, k)])
    ELSE IF a % 4 = 0
    THEN v % HalfSize
    ELSE (w % HalfSize) + (v % HalfSize) * HalfSize

(* What SB and SH make of a cached word w. *)
Merge(op, w, a, v) ==
    IF Width(op) = 1
    THEN WordOf([k \in 0 .. 3 |-> IF k = a % 4 THEN v % ByteSize ELSE ByteOf(w, k)])
    ELSE IF a % 4 = 0
    THEN (w - (w % HalfSize)) + (v % HalfSize)
    ELSE (w % HalfSize) + (v % HalfSize) * HalfSize

(* Simulator::read_byte, read_halfword and read_word: 0 for what is not        *)
(* inside memory.                                                           *)
ReadMemory(n, a) ==
    IF a + n > MemorySize THEN 0
    ELSE WordOf([k \in 0 .. 3 |-> IF k < n THEN memory[a + k] ELSE 0])

(* Simulator::write_byte, write_halfword and write_word: dropped when not     *)
(* inside memory.                                                           *)
WriteMemory(n, a, v) ==
    IF a + n > MemorySize THEN memory
    ELSE [x \in Bytes |-> IF x - a \in 0 .. n - 1 THEN ByteOf(v, x - a) ELSE memory[x]]

(* The instruction is done, with v in rd. *)
Finish(i, v, advance) ==
    /\ done' = [instr |-> i, rd |-> v, advance |-> advance]
    /\ UNCHANGED program

----------------------------------------------------------------------------
(* Loads and stores of memory. *)

InMemory(i) == i.addr < MemorySize
Cached(i) == HasDataCache(DefaultRegions, i.addr)

LoadCached(i) ==
    /\ i.op \in {"lb", "lbu", "lh", "lhu", "lw"} /\ InMemory(i) /\ Cached(i)
    /\ Load(i.core, At(i.addr))
    /\ Finish(i, Extend(i.op, Part(i.op, out'.val, i.addr)), 4)
    /\ UNCHANGED <<memory, uart>>

(* Mutant of LoadUncached: a read through the L1. *)
LoadUncachedByCache(i) ==
    /\ i.op \in {"lb", "lbu", "lh", "lhu", "lw"} /\ InMemory(i) /\ ~Cached(i)
    /\ Load(i.core, At(i.addr))
    /\ Finish(i, Extend(i.op, Part(i.op, out'.val, i.addr)), 4)
    /\ UNCHANGED <<memory, uart>>

LoadUncached(i) ==
    /\ i.op \in {"lb", "lbu", "lh", "lhu", "lw"} /\ InMemory(i) /\ ~Cached(i)
    /\ Finish(i, Extend(i.op, ReadMemory(Width(i.op), i.addr)), 4)
    /\ out' = NoAccess
    /\ UNCHANGED <<l1, l2, ddr, memory, uart>>

StoreWordCached(i) ==
    /\ i.op = "sw" /\ InMemory(i) /\ Cached(i)
    /\ \/ StoreBack(i.core, At(i.addr), i.rs2)
       \/ StoreDirect(i.core, At(i.addr), i.rs2)
    /\ Finish(i, 0, 4)
    /\ UNCHANGED <<memory, uart>>

(* SB and SH read the word through the L1 and write it whole. *)
StorePartCached(i) ==
    LET p == <<"D", i.core>>
        b == At(i.addr)[1]
        x == At(i.addr)[2]
        r == Lookup(SetAt(p, b), Below, b)
        v == Merge(i.op, LineOf(r.set, b).data[x], i.addr, i.rs2)
        access == Report(i.core, "store", <<b, x>>, v)
    IN  /\ i.op \in {"sb", "sh"} /\ InMemory(i) /\ Cached(i)
        /\ IF <<b, x>> \in WriteThrough \union PageTable
           THEN Commit(p, b, Invalidate(r.set, b),
                       L2Write(r.mem, b, [y \in {x} |-> v]), access)
           ELSE Commit(p, b, PutWord(r.set, b, x, v, TRUE), r.mem, access)
        /\ Finish(i, 0, 4)
        /\ UNCHANGED <<memory, uart>>

StoreUncached(i) ==
    /\ i.op \in {"sb", "sh", "sw"} /\ InMemory(i) /\ ~Cached(i)
    /\ memory' = WriteMemory(Width(i.op), i.addr, i.rs2)
    /\ Finish(i, 0, 4)
    /\ out' = NoAccess
    /\ UNCHANGED <<l1, l2, ddr, uart>>

----------------------------------------------------------------------------
(* Atomics, which take the way of the caches whatever the PMA says. *)

(* The encodings of the instruction set; "amobad" stands for the others. *)
Funct5(op) ==
    CASE op = "amoadd" -> 0  [] op = "amoswap" -> 1  [] op = "lr" -> 2
      [] op = "sc" -> 3      [] op = "amoxor" -> 4   [] op = "amobad" -> 5
      [] op = "amoor" -> 8   [] op = "amoand" -> 12  [] op = "amomin" -> 16
      [] op = "amomax" -> 20 [] op = "amominu" -> 24 [] op = "amomaxu" -> 28
      [] OTHER -> -1

SignedWord(w) == IF w >= WordSize \div 2 THEN w - WordSize ELSE w

(* Case 0x04 is AMOAND and case 0x0C AMOXOR in the code. *)
AmoResult(f, old, v) ==
    CASE f = 0  -> (old + v) % WordSize
      [] f = 1  -> v
      [] f = 4  -> BitAnd(old, v)
      [] f = 8  -> BitOr(old, v)
      [] f = 12 -> BitXor(old, v)
      [] f = 16 -> IF SignedWord(old) < SignedWord(v) THEN old ELSE v
      [] f = 20 -> IF SignedWord(old) > SignedWord(v) THEN old ELSE v
      [] f = 24 -> IF old < v THEN old ELSE v
      [] f = 28 -> IF old > v THEN old ELSE v

(* The new value is computed from what the access returns. *)
ReadModifyWrite(i) ==
    /\ Funct5(i.op) \in {0, 1, 4, 8, 12} /\ InMemory(i)
    /\ \E v \in Values :
            /\ Amo(i.core, At(i.addr), v)
            /\ v = AmoResult(Funct5(i.op), out'.val, i.rs2)
    /\ Finish(i, out'.val, 4)
    /\ UNCHANGED <<memory, uart>>

MinMax(i) ==
    /\ Funct5(i.op) \in {16, 20, 24, 28} /\ InMemory(i)
    /\ \E v \in Values :
            /\ AmoMinMax(i.core, At(i.addr), v)
            /\ v = AmoResult(Funct5(i.op), out'.val, i.rs2)
    /\ Finish(i, out'.val, 4)
    /\ UNCHANGED <<memory, uart>>

(* LR.W reserves nothing, SC.W always stores. *)
LoadReserved(i) ==
    /\ i.op = "lr" /\ InMemory(i)
    /\ Load(i.core, At(i.addr))
    /\ Finish(i, out'.val, 4)
    /\ UNCHANGED <<memory, uart>>

StoreConditionally(i) ==
    /\ i.op = "sc" /\ InMemory(i)
    /\ StoreConditional(i.core, At(i.addr), i.rs2)
    /\ Finish(i, 0, 4)
    /\ UNCHANGED <<memory, uart>>

(* An atomic beyond main memory leaves 0 in rd; one that step does not know   *)
(* moves the pc twice.                                                      *)
NoAtomic(i) ==
    /\ Funct5(i.op) # -1
    /\ ~InMemory(i) \/ Funct5(i.op) = 5
    /\ Finish(i, 0, IF InMemory(i) THEN 8 ELSE 4)
    /\ out' = NoAccess
    /\ UNCHANGED <<l1, l2, ddr, memory, uart>>

----------------------------------------------------------------------------
(* Loads and stores beyond main memory. *)

AtUart(a) == UART_BASE <= a /\ a < UART_BASE + 32
AtClint(a) ==
    \/ CLINT_BASE <= a /\ a < CLINT_BASE + \h10000
    \/ CLINT_ALIAS <= a /\ a < CLINT_ALIAS + \h10000

(* get_device finds the UART at the first 16 of its 32 addresses. *)
HasDevice(a) == UART_BASE <= a /\ a < UART_BASE + 16

(* UART::read: the data register, the line status, the flags. *)
UartRead(offset) ==
    CASE offset \in {0, 1} -> uart.dr [] offset = 5 -> \h60 [] offset = 4 -> \h90
      [] OTHER -> 0

(* Mutant of UartWrite: the line control register keeps all of the value. *)
UartWriteWhole(offset, v) ==
    [dr |-> IF offset = 0 /\ uart.lcr < ByteSize \div 2 THEN v % ByteSize ELSE uart.dr,
     lcr |-> IF offset = 3 THEN v ELSE uart.lcr]

(* UART::write: a character is sent when DLAB, the top bit of lcr, is 0. *)
UartWrite(offset, v) ==
    [dr |-> IF offset = 0 /\ uart.lcr < ByteSize \div 2 THEN v % ByteSize ELSE uart.dr,
     lcr |-> IF offset = 3 THEN v % ByteSize ELSE uart.lcr]

(* What a register of the CLINT holds is left open here, see Clint. *)
LoadDevice(i) ==
    LET a == i.addr
    IN  /\ i.op \in {"lb", "lbu", "lh", "lhu", "lw"} /\ ~InMemory(i)
        /\ AtUart(a) \/ AtClint(a)
        /\ \E v \in IF a = CORE_ID THEN {IF i.op = "lw" THEN i.core ELSE 0}
                    ELSE IF HasDevice(a) THEN {UartRead(a - UART_BASE)}
                    ELSE IF AtClint(a) /\ i.op = "lw" THEN Values
                    ELSE {0} :
                Finish(i, v, 4)
        /\ out' = NoAccess
        /\ UNCHANGED <<l1, l2, ddr, memory, uart>>

(* SW sends the low byte, SB and SH all of rs2; a store of any width to the   *)
(* CLINT is one of a word, see Clint.                                       *)
StoreDevice(i) ==
    /\ i.op \in {"sb", "sh", "sw"} /\ ~InMemory(i)
    /\ AtUart(i.addr) \/ AtClint(i.addr)
    /\ uart' = IF HasDevice(i.addr)
               THEN UartWrite(i.addr - UART_BASE,
                              IF i.op = "sw" THEN i.rs2 % ByteSize ELSE i.rs2)
               ELSE uart
    /\ Finish(i, 0, 4)
    /\ out' = NoAccess
    /\ UNCHANGED <<l1, l2, ddr, memory>>

(* How far handle_exception moves the pc at an access fault: it stays there, so *)
(* that the access is tried for ever.                                       *)
HandleException == 0

AccessFault(i) ==
    /\ i.op \in {"lb", "lbu", "lh", "lhu", "lw", "sb", "sh", "sw"}
    /\ ~InMemory(i) /\ ~AtUart(i.addr) /\ ~AtClint(i.addr)
    /\ Finish(i, 0, HandleException)
    /\ out' = NoAccess
    /\ UNCHANGED <<l1, l2, ddr, memory, uart>>

MachineNext ==
    \E i \in program :
        \/ LoadCached(i)
        \/ LoadUncached(i)
        \/ StoreWordCached(i)
        \/ StorePartCached(i)
        \/ StoreUncached(i)
        \/ ReadModifyWrite(i)
        \/ MinMax(i)
        \/ LoadReserved(i)
        \/ StoreConditionally(i)
        \/ NoAtomic(i)
        \/ LoadDevice(i)
        \/ StoreDevice(i)
        \/ AccessFault(i)

MachineSpec == MachineInit /\ [][MachineNext]_machineVars

----------------------------------------------------------------------------
(* What instruction i asks of the caches. *)
Kinds(i) ==
    {k \in {"load", "store", "sc", "amo", "amominmax"} :
        CASE k = "load"  -> \/ i.op = "lr"
                            \/ Cached(i) /\ i.op \in {"lb", "lbu", "lh", "lhu", "lw", "sb", "sh"}
          [] k = "store" -> Cached(i) /\ i.op \in {"sb", "sh", "sw"}
          [] k = "sc"    -> i.op = "sc"
          [] k = "amo"   -> Funct5(i.op) \in {0, 1, 4, 8, 12}
          [] k = "amominmax" -> Funct5(i.op) \in {16, 20, 24, 28}}

AccessesOf(i) ==
    IF InMemory(i) THEN {<<i.core, k, At(i.addr)>> : k \in Kinds(i)} ELSE {}

(* The values are those of a word, a core's number is one, and Blocks and     *)
(* Words are the parts of memory that the programs touch: a word that an    *)
(* instruction is in, and every byte of an access past the caches.          *)
ASSUME LoadStoreAssumption ==
    /\ ByteSize \in Nat \ {0}
    /\ Values = 0 .. WordSize - 1
    /\ Cores \subseteq Values
    /\ \A b \in Blocks : b \in Nat /\ b % BlockSize = 0 /\ b + BlockSize <= MemorySize
    /\ Words \subseteq 0 .. 15
    /\ \A i \in UNION Programs :
        /\ i.core \in Cores /\ i.addr \in Nat /\ i.rs2 \in Values
        /\ AccessesOf(i) \subseteq Accesses
        /\ InMemory(i) => At(i.addr) \in Addrs
        /\ InMemory(i) /\ ~Cached(i) /\ i.addr + Width(i.op) <= MemorySize =>
               i.addr .. i.addr + Width(i.op) - 1 \subseteq Bytes

----------------------------------------------------------------------------
(* The memory the program sees, byte by byte. *)
LogicalBytes ==
    [a \in Bytes |->
        IF HasDataCache(DefaultRegions, a) THEN ByteOf(LogicalMem[At(a)], a % 4)
        ELSE memory[a]]

Memory == INSTANCE ByteMemory
            WITH Instructions <- UNION Programs, mem <- LogicalBytes

(* Type correctness: no path makes a byte or a word too large, or leaves an   *)
(* instruction without an effect on the pc that step knows.                 *)
MachineTypeOK ==
    /\ TypeOK
    /\ program \in Programs
    /\ memory \in [Bytes -> 0 .. ByteSize - 1]
    /\ uart \in [dr : 0 .. ByteSize - 1, lcr : 0 .. ByteSize - 1]
    /\ \/ done = NoInstruction
       \/ /\ done.instr \in program
          /\ done.rd \in 0 .. 255 \union Values
          /\ done.advance \in {0, 4, 8}

(* Whatever the width, the alignment within the word and the way they take,   *)
(* and whatever the caches displace in between, loads, stores and atomics   *)
(* act on one array of bytes as the instruction set says.  This needs the   *)
(* disciplines of CacheDiscipline.tla, which keeps atomics and write-back   *)
(* stores apart, and of LoadStoreDiscipline.tla.                            *)
ImplementsByteMemory == Memory!Spec

(* The blocks of which nothing is cached. *)
UncachedBlocks ==
    {b \in Blocks : \A a \in b .. b + BlockSize - 1 : ~HasDataCache(DefaultRegions, a)}

(* The two memories never come to hold different values of a word that        *)
(* somebody reads in both: what is not cached stays out of the caches and   *)
(* of DDR, where only atomics would put it, and what is cached is changed   *)
(* in DDR alone.  This needs ApartAssumption of LoadStoreDiscipline.tla.     *)
MemoriesApart ==
    /\ \A a \in Bytes : HasDataCache(DefaultRegions, a) => memory[a] = InitBytes[a]
    /\ \A b \in UncachedBlocks :
        /\ ddr[b] = InitDdr[b]
        /\ ~Hit(l2[Index2[b]], b)
        /\ \A p \in Ports : ~Hit(SetAt(p, b), b)

=============================================================================

------------------------------- MODULE Loader -------------------------------
(***************************************************************************)
(* Simulator::load_program: an ELF file or a raw binary is put into the      *)
(* simulator's memory, written out again word by word through the memory     *)
(* interface, which reaches the DDR memory behind the caches too, and the    *)
(* rest up to the MMIO region is cleared.  Cores fetch from the DDR memory   *)
(* and read uncached words from the simulator's; the two must agree.         *)
(***************************************************************************)
EXTENDS Naturals, Sequences, FiniteSetsExt

CONSTANTS
    Images,         \* the program files; see Image
    MemSize,        \* memory.size(), in bytes
    BssEnd,         \* bss_end: where the MMIO region begins
    PhaseAddr       \* the initialization phase of the monitor

(* What the ELF headers say: the program headers, of which only those of type  *)
(* PT_LOAD have load set, the symbols in the order of the symbol table, and  *)
(* the entry point.  A raw binary has nothing but its bytes.                *)
Segment == [load : BOOLEAN, vaddr : Nat, paddr : Nat, filesz : Nat,
            memsz : Nat, offset : Nat]
Symbol == [name : STRING, value : Nat]
Image == [kind : {"missing", "elf", "elf64", "raw"}, file : Seq(0 .. 255),
          segments : Seq(Segment), symbols : Seq(Symbol), entry : Nat]

(* A smaller memory than the MMIO region needs is not checked for: the        *)
(* clearing of the rest would run beyond it.                                *)
ASSUME LoaderAssumption ==
    /\ Images \subseteq Image
    /\ MemSize \in Nat /\ BssEnd \in Nat /\ PhaseAddr \in Nat
    /\ BssEnd <= PhaseAddr /\ PhaseAddr < MemSize

(* How a linker places a program: below the MMIO region, and no two segments   *)
(* in one word, as the sections of init_code/ldscript.ld end at words.       *)
(* load_program checks none of it; ProgramInBothMemories rests on it.        *)
Padded(n) == 4 * ((n + 3) \div 4)

Room(s) == s.paddr .. s.paddr + Padded(s.memsz) - 1

WellPlaced(im) ==
    /\ im.kind = "elf" =>
        /\ \A k \in DOMAIN im.segments :
            im.segments[k].load =>
                /\ im.segments[k].filesz <= im.segments[k].memsz
                /\ im.segments[k].paddr + Padded(im.segments[k].memsz) <= BssEnd
        /\ \A j, k \in DOMAIN im.segments :
            j # k /\ im.segments[j].load /\ im.segments[k].load =>
                Room(im.segments[j]) \cap Room(im.segments[k]) = {}
    /\ im.kind = "raw" /\ Len(im.file) <= MemSize => Padded(Len(im.file)) <= BssEnd

ASSUME PlacementAssumption == \A im \in Images : WellPlaced(im)

VARIABLES
    image,          \* the file given as --program
    phase,          \* where in load_program
    seg,            \* the segment to be treated next
    memory,         \* the bytes of the simulator's memory
    ddr,            \* the bytes of the DDR memory
    maxLoaded,      \* max_loaded_addr
    entry           \* entry_point, then the pc of every core

loaderVars == <<image, phase, seg, memory, ddr, maxLoaded, entry>>

Address == 0 .. MemSize - 1

LoaderInit ==
    /\ image \in Images
    /\ phase = "open"
    /\ seg = 1
    /\ memory = [a \in Address |-> IF a = PhaseAddr THEN 1 ELSE 0]
    /\ ddr = [a \in Address |-> 0]
    /\ maxLoaded = 0
    /\ entry = 0

(* The file is read; one of another class than 32 bits is refused, and so is  *)
(* a raw binary that is larger than the memory.                             *)
Open ==
    /\ phase = "open"
    /\ phase' = CASE image.kind = "missing" -> "failed"
                  [] image.kind = "elf64" -> "failed"
                  [] image.kind = "elf" -> "load"
                  [] image.kind = "raw" ->
                        IF Len(image.file) > MemSize THEN "failed" ELSE "copy"
    /\ entry' = IF image.kind = "elf" THEN image.entry ELSE entry
    /\ UNCHANGED <<image, seg, memory, ddr, maxLoaded>>

(* Mutant of Target: a segment goes where it runs, not where it is loaded. *)
VirtualTarget(s) == s.vaddr

(* The load address of a segment. *)
Target(s) == s.paddr

Fits(s) == s.load /\ Target(s) + s.memsz <= MemSize

(* The bytes a segment has in the file, where it lies within the file. *)
InFile(s) == s.offset + s.filesz <= Len(image.file)

LoadSegment ==
    /\ phase = "load" /\ seg <= Len(image.segments)
    /\ LET s == image.segments[seg]
           t == Target(s)
       IN  IF Fits(s)
           THEN /\ memory' = [a \in Address |->
                    CASE a \in t .. t + s.filesz - 1 /\ InFile(s) ->
                            image.file[s.offset + (a - t) + 1]
                      [] a \in t + s.filesz .. t + s.memsz - 1 -> 0
                      [] OTHER -> memory[a]]
                /\ maxLoaded' = Max({maxLoaded, t + s.memsz})
           ELSE UNCHANGED <<memory, maxLoaded>>
    /\ seg' = seg + 1
    /\ UNCHANGED <<image, phase, ddr, entry>>

(* find_symbol_start: the value of the first symbol of the name, or 0. *)
SymbolStart ==
    LET found == {k \in DOMAIN image.symbols : image.symbols[k].name = "_start"}
    IN  IF found = {} THEN 0 ELSE image.symbols[Min(found)].value

FindEntry ==
    /\ phase = "load" /\ seg > Len(image.segments)
    /\ entry' = IF SymbolStart # 0 THEN SymbolStart ELSE entry
    /\ phase' = "write"
    /\ seg' = 1
    /\ UNCHANGED <<image, memory, ddr, maxLoaded>>

(* Mutant of WriteOut: the last word is left out if it is not a whole one. *)
WriteOutWhole(t, n) ==
    LET words == {t + 4 * j : j \in 0 .. (n \div 4) - 1}
        InWord(a) == \E w \in words : a \in w .. w + 3
    IN  /\ ddr' = [a \in Address |-> IF InWord(a) THEN memory[a] ELSE ddr[a]]
        /\ UNCHANGED memory

(* write_word of the n bytes at t, a word at a time.  The last word is        *)
(* filled up with zeros, in both memories.                                  *)
WriteOut(t, n) ==
    LET words == {t + 4 * j : j \in 0 .. ((n + 3) \div 4) - 1}
        InWord(a) == \E w \in words : a \in w .. w + 3
        byte(a) == IF a < t + n THEN memory[a] ELSE 0
    IN  /\ ddr' = [a \in Address |-> IF InWord(a) THEN byte(a) ELSE ddr[a]]
        /\ memory' = [a \in Address |->
                IF \E w \in words : a \in w .. w + 3 /\ w + 4 <= MemSize
                THEN byte(a) ELSE memory[a]]

WriteSegment ==
    /\ phase = "write" /\ seg <= Len(image.segments)
    /\ LET s == image.segments[seg]
       IN  IF s.load /\ s.filesz > 0
           THEN WriteOut(Target(s), s.filesz)
           ELSE UNCHANGED <<memory, ddr>>
    /\ seg' = seg + 1
    /\ UNCHANGED <<image, phase, maxLoaded, entry>>

SegmentsWritten ==
    /\ phase = "write" /\ seg > Len(image.segments)
    /\ phase' = "clear"
    /\ UNCHANGED <<image, seg, memory, ddr, maxLoaded, entry>>

(* A raw binary goes to address 0, and that is where it starts. *)
CopyRaw ==
    /\ phase = "copy"
    /\ memory' = [a \in Address |->
                    IF a < Len(image.file) THEN image.file[a + 1] ELSE memory[a]]
    /\ phase' = "writeRaw"
    /\ UNCHANGED <<image, seg, ddr, maxLoaded, entry>>

WriteRaw ==
    /\ phase = "writeRaw"
    /\ WriteOut(0, Len(image.file))
    /\ maxLoaded' = Len(image.file)
    /\ phase' = "clear"
    /\ UNCHANGED <<image, seg, entry>>

(* The rest up to the MMIO region is cleared.  The caches hold nothing yet,   *)
(* so that invalidating them changes nothing.                               *)
ClearBss ==
    /\ phase = "clear"
    /\ memory' = [a \in Address |->
                    IF maxLoaded <= a /\ a < BssEnd THEN 0 ELSE memory[a]]
    /\ phase' = "loaded"
    /\ UNCHANGED <<image, seg, ddr, maxLoaded, entry>>

LoaderNext ==
    \/ Open \/ LoadSegment \/ FindEntry \/ WriteSegment \/ SegmentsWritten
    \/ CopyRaw \/ WriteRaw \/ ClearBss

----------------------------------------------------------------------------
(* What the file says is at an address: the byte of the segment loaded there, *)
(* or of the raw binary, and 0 where there is none.                         *)
Expected(a) ==
    IF image.kind = "raw"
    THEN IF a < Len(image.file) THEN image.file[a + 1] ELSE 0
    ELSE LET there == {k \in DOMAIN image.segments :
                        LET s == image.segments[k]
                        IN  s.load /\ InFile(s) /\ a \in s.paddr .. s.paddr + s.filesz - 1}
         IN  IF there = {} THEN 0
             ELSE LET s == image.segments[Max(there)]
                  IN  image.file[s.offset + (a - s.paddr) + 1]

(* Once load_program has returned, both memories hold the program, with its   *)
(* .bss cleared, whatever the order of its segments and whether or not they  *)
(* end at a word: cores that fetch from the one find what uncached loads and *)
(* page walks read from the other.  The monitor's phase is still set.        *)
ProgramInBothMemories ==
    phase = "loaded" =>
        /\ \A a \in 0 .. BssEnd - 1 : memory[a] = Expected(a) /\ ddr[a] = Expected(a)
        /\ memory[PhaseAddr] = 1

=============================================================================

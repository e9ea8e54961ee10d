---------------------------- MODULE MCDebugLoop ----------------------------
(* Three cores debug a program of four instructions: the store of the release  *)
(* signal, two others, and the jump to itself.                              *)
EXTENDS DebugLoop

Code == <<2, 0, 0, 0,  3, 0, 0, 0,  3, 0, 0, 0,  1, 0, 0, 0>>
Data == <<7, 8, 9, 7, 8, 9>>

Placed(load, vaddr, paddr, filesz, memsz, offset) ==
    [load |-> load, vaddr |-> vaddr, paddr |-> paddr, filesz |-> filesz,
     memsz |-> memsz, offset |-> offset]

Elf(segments, symbols, start) ==
    [kind |-> "elf", file |-> Code \o Data, segments |-> segments,
     symbols |-> symbols, entry |-> start]

Plain(k, file) ==
    [kind |-> k, file |-> file, segments |-> <<>>, symbols |-> <<>>, entry |-> 0]

MCImages == {
    \* .text, and .data with .bss that is loaded elsewhere than it runs
    Elf(<<Placed(TRUE, 0, 0, 16, 16, 0),
          Placed(FALSE, 0, 0, 6, 6, 16),
          Placed(TRUE, 24, 16, 6, 12, 16)>>,
        <<[name |-> "main", value |-> 4], [name |-> "_start", value |-> 0]>>, 0),
    \* .data first, which ends within a word; the code begins at _start
    Elf(<<Placed(TRUE, 0, 0, 3, 4, 16),
          Placed(TRUE, 4, 4, 16, 16, 0),
          Placed(TRUE, 20, 20, 0, 8, 0)>>,
        <<[name |-> "_start", value |-> 4]>>, 0),
    \* without symbols; the second segment lies beyond the end of the file
    Elf(<<Placed(TRUE, 4, 8, 16, 16, 0),
          Placed(TRUE, 0, 0, 4, 4, 20)>>, <<>>, 8),
    \* a raw binary, which ends within a word
    Plain("raw", Code \o <<7, 8>>),
    Plain("raw", [k \in 1 .. 41 |-> 3]),
    Plain("elf64", Code),
    Plain("missing", <<>>) }

MCBreakpoints == {4, 8}
MCCounts == {1, 2}

=============================================================================

---------------------------- MODULE MCLoadStore ----------------------------
(* One core with one-line caches at both levels and bytes of one bit.  The   *)
(* words are one of ordinary data, where the test of the atomics puts its   *)
(* own (0x81000), uart_mutex (0x82010), the release signal (0x98000), and    *)
(* the end of main memory.                                                  *)
EXTENDS LoadStoreDiscipline

MCBlocks == {\h81000, \h82000, \h98000, \h1FFFC0}
MCWords == {0, 4, 15}
MCIndex == [b \in MCBlocks |-> 0]
MCWays == {1}
MCInitDdr == [b \in MCBlocks |-> [w \in MCWords |-> 0]]
MCWriteThrough == {<<\h82000, 4>>}
MCValues == 0 .. 15

(* What the programs may ask of the caches: to load any word; the lock's word  *)
(* is only written below the L1 or through it, so that its loads find it    *)
(* clean.                                                                   *)
MCAccesses ==
    ({0} \X {"load"} \X (MCBlocks \X MCWords))
        \union ({0} \X {"store", "amominmax", "sc"} \X {<<\h81000, 0>>})
        \union ({0} \X {"store", "amo", "sc"} \X {<<\h82000, 4>>})

Instr(op, a, v) == [core |-> 0, op |-> op, addr |-> a, rs2 |-> v]
LoadAt(ops, a) == {Instr(op, a, 0) : op \in ops}

Data == \h81000
Lock == \h82010
Signal == \h98000

(* Data of all widths through the L1, which a load of the lock displaces. *)
MCWidths ==
    LoadAt({"lw", "lb", "lhu"}, Data) \union LoadAt({"lb", "lbu"}, Data + 3)
        \union LoadAt({"lh"}, Data + 2) \union LoadAt({"lr"}, Lock)
        \union {Instr("sw", Data, 9), Instr("sb", Data + 3, 0), Instr("sb", Data + 1, 3),
                Instr("sh", Data + 2, 9), Instr("sh", Data, 2), Instr("sc", Data, 5)}

(* The atomics that work in the L1, beside a lock that is only swapped and    *)
(* stored: its stores and its atomics work in L2.                           *)
MCLocked ==
    LoadAt({"lw"}, Data) \union LoadAt({"lr"}, Lock)
        \union {Instr("amomin", Data, 2), Instr("amomaxu", Data, 3),
                Instr("amomax", Data, 9), Instr("amominu", Data, 6)}
        \union {Instr("amoswap", Lock, 1), Instr("amoadd", Lock, 9),
                Instr("amoor", Lock, 12), Instr("sw", Lock, 0), Instr("sb", Lock + 1, 1),
                Instr("sc", Lock, 6), Instr("sw", Data, 5)}

(* A word that is not cached, at any alignment, and the end of memory. *)
MCUncached ==
    LoadAt({"lw", "lh", "lbu"}, Signal) \union LoadAt({"lh", "lhu", "lb"}, Signal + 1)
        \union {Instr("sw", Signal, 6), Instr("sb", Signal + 2, 1),
                Instr("sh", Signal + 1, 2), Instr("sw", MemorySize - 4, 9),
                Instr("sw", MemorySize - 2, 6), Instr("lw", MemorySize - 2, 0),
                Instr("lhu", MemorySize - 2, 0), Instr("amobad", Signal, 0)}

(* What lies beyond memory. *)
MCDevices ==
    LoadAt({"lw", "lb"}, CORE_ID) \union LoadAt({"lbu"}, UART_BASE)
        \union LoadAt({"lw"}, UART_BASE + 5) \union LoadAt({"lw"}, UART_BASE + 20)
        \union LoadAt({"lw", "lb"}, CLINT_BASE) \union LoadAt({"lb"}, MemorySize)
        \union {Instr("sw", UART_BASE, 3), Instr("sb", UART_BASE + 3, 1),
                Instr("sh", UART_BASE + 3, 4), Instr("sb", CLINT_BASE, 1),
                Instr("sw", MemorySize, 1), Instr("amoswap", UART_BASE, 1)}

MCPrograms == {MCWidths, MCLocked, MCUncached, MCDevices}

=============================================================================

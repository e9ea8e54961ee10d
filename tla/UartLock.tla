----------------------------- MODULE UartLock -----------------------------
(***************************************************************************)
(* uart_write of the guest (software/init_code/uart.c) on several cores:     *)
(* the spin lock uart_mutex, and the characters stored to the UART.          *)
(*                                                                         *)
(* The word uart_mutex is swapped in L2, past the L1.  What uart_unlock's    *)
(* store does depends on where the linker has put the word: in the range     *)
(* 0x82008..0x8201F it reaches L2 at once, elsewhere it stays in the L1 of   *)
(* the core until the block is displaced, and is lost if the core swaps     *)
(* again before that.  No core stores another word of its block.            *)
(***************************************************************************)
EXTENDS Naturals, Sequences

CONSTANTS
    Cores,
    Lengths         \* the lengths of the texts written

ASSUME UartAssumption == Lengths \subseteq Nat

VARIABLES
    through,        \* uart_mutex lies in the write-through range
    mutex,          \* uart_mutex in L2
    unlocked,       \* the cores whose L1 holds an unlocked uart_mutex, dirty
    at,             \* where in uart_write each core is; "out" of it
    len,            \* the length of the text each core writes
    i,              \* the characters of it already stored
    console         \* what the UART has put out: which core's character, and
                    \* whether it is the first and the last one of its text

uartVars == <<through, mutex, unlocked, at, len, i, console>>

Init ==
    /\ through \in BOOLEAN
    /\ mutex = 0
    /\ unlocked = {}
    /\ at = [c \in Cores |-> "out"]
    /\ len = [c \in Cores |-> 0]
    /\ i = [c \in Cores |-> 0]
    /\ console = <<>>

Write(c, n) ==
    /\ at[c] = "out"
    /\ at' = [at EXCEPT ![c] = "lock"]
    /\ len' = [len EXCEPT ![c] = n]
    /\ i' = [i EXCEPT ![c] = 0]
    /\ UNCHANGED <<through, mutex, unlocked, console>>

(* Mutant of Lock: the value that was swapped out is not looked at. *)
LockBlindly(c) ==
    /\ at[c] = "lock"
    /\ mutex' = 1
    /\ unlocked' = unlocked \ {c}
    /\ at' = [at EXCEPT ![c] = "put"]
    /\ UNCHANGED <<through, len, i, console>>

(* One round of uart_lock: amoswap.w, which drops the line of the own L1. *)
Lock(c) ==
    /\ at[c] = "lock"
    /\ mutex' = 1
    /\ unlocked' = unlocked \ {c}
    /\ at' = [at EXCEPT ![c] = IF mutex = 0 THEN "put" ELSE "lock"]
    /\ UNCHANGED <<through, len, i, console>>

(* Mutant of Put: the loop runs once too often. *)
PutOneMore(c) ==
    /\ at[c] = "put" /\ i[c] <= len[c]
    /\ console' = Append(console, [core |-> c, first |-> i[c] = 0, last |-> i[c] + 1 = len[c]])
    /\ i' = [i EXCEPT ![c] = @ + 1]
    /\ UNCHANGED <<through, mutex, unlocked, at, len>>

(* One character: a store to the UART, whose output_char puts it out. *)
Put(c) ==
    /\ at[c] = "put" /\ i[c] < len[c]
    /\ console' = Append(console, [core |-> c, first |-> i[c] = 0, last |-> i[c] + 1 = len[c]])
    /\ i' = [i EXCEPT ![c] = @ + 1]
    /\ UNCHANGED <<through, mutex, unlocked, at, len>>

(* The loop ends, and uart_unlock stores to uart_mutex. *)
Unlock(c) ==
    /\ at[c] = "put" /\ i[c] = len[c]
    /\ IF through THEN mutex' = 0 /\ UNCHANGED unlocked
       ELSE unlocked' = unlocked \union {c} /\ UNCHANGED mutex
    /\ at' = [at EXCEPT ![c] = "out"]
    /\ UNCHANGED <<through, len, i, console>>

(* The block of uart_mutex is displaced from the L1 of core c. *)
Displace(c) ==
    /\ c \in unlocked
    /\ mutex' = 0
    /\ unlocked' = unlocked \ {c}
    /\ UNCHANGED <<through, at, len, i, console>>

UartStep(c) == Lock(c) \/ Put(c) \/ Unlock(c)

Next ==
    \E c \in Cores :
        \/ \E n \in Lengths : Write(c, n)
        \/ UartStep(c)
        \/ Displace(c)

Spec == Init /\ [][Next]_uartVars

----------------------------------------------------------------------------
Char == [core : Cores, first : BOOLEAN, last : BOOLEAN]

(* Type correctness; the loop stays within its text. *)
UartTypeOK ==
    /\ through \in BOOLEAN
    /\ mutex \in {0, 1}
    /\ unlocked \in SUBSET Cores
    /\ at \in [Cores -> {"out", "lock", "put"}]
    /\ len \in [Cores -> Nat]
    /\ i \in [Cores -> Nat]
    /\ \A c \in Cores : i[c] <= len[c]
    /\ console \in Seq(Char)

(* uart_mutex keeps all but one core from the UART, whichever way the store   *)
(* of the unlock goes.                                                      *)
MutualExclusion == \A c, d \in Cores : (at[c] = "put" /\ at[d] = "put") => c = d

(* No core's output is cut in two by another's: behind a character that is    *)
(* not the last of its text comes the next one of the same text, and behind  *)
(* a last one the first of a text.                                          *)
WholeLines ==
    \A k \in 1 .. Len(console) - 1 :
        IF console[k].last THEN console[k + 1].first
        ELSE console[k + 1].core = console[k].core /\ ~console[k + 1].first

(* Where the lock is: with the core that puts characters, in the L1 of one    *)
(* core, or free; it may also be lost.                                      *)
LockInOnePlace ==
    /\ \A c \in Cores : at[c] = "put" => mutex = 1 /\ unlocked = {}
    /\ unlocked # {} => mutex = 1
    /\ \A c, d \in unlocked : c = d

(* The console ends within a text exactly while a core is within one. *)
LineOpen == console # <<>> /\ ~console[Len(console)].last
ConsoleOfHolder ==
    /\ \A c \in Cores :
        at[c] = "put" => /\ LineOpen <=> (0 < i[c] /\ i[c] < len[c])
                         /\ LineOpen => console[Len(console)].core = c
    /\ LineOpen => \E c \in Cores : at[c] = "put"
    /\ \A c \in Cores : at[c] = "lock" => i[c] = 0

(* The inductive invariant behind MutualExclusion and WholeLines. *)
UartInv ==
    UartTypeOK /\ MutualExclusion /\ LockInOnePlace /\ ConsoleOfHolder /\ WholeLines

=============================================================================

------------------------------- MODULE Clint -------------------------------
(***************************************************************************)
(* The core-local interrupt controller, src/interrupt/CLINT.cpp, and the    *)
(* way from a 32-bit store of the guest to it, Simulator::write_word in     *)
(* src/system/Simulator.cpp.  TrapUnit.tla composes it with the cores.      *)
(*                                                                         *)
(* The timer and the compare registers are two words wide, as in the code;   *)
(* WordSize, the number of values of a word, is 2^32 there.                *)
(***************************************************************************)
EXTENDS Naturals

CONSTANTS
    NumCores,   \* num_cores_
    WordSize,   \* the number of values of a machine word
    MaxTime     \* bound on the timer

ASSUME ClintAssumption ==
    /\ NumCores \in Nat \ {0}
    /\ WordSize \in Nat \ {0}
    /\ MaxTime \in Nat /\ MaxTime < WordSize * WordSize - 1

Cores == 0 .. NumCores - 1
Word == 0 .. WordSize - 1

VARIABLES
    msip,       \* msip_[c]: core c's software interrupt is pending
    mtimecmp,   \* mtimecmp_[c]
    mtime       \* mtime_

clintVars == <<msip, mtimecmp, mtime>>

(* All ones: the time that is never reached. *)
Never == WordSize * WordSize - 1

ClintInit ==
    /\ msip = [c \in Cores |-> FALSE]
    /\ mtimecmp = [c \in Cores |-> Never]
    /\ mtime = 0

----------------------------------------------------------------------------
CLINT_BASE == \h2000000
MSIP_BASE == 0
MTIMECMP_BASE == \h4000

(* The second address range of write_word and the offset it adds. *)
ALIAS_BASE == \h20000000
ALIAS_OFFSET == \h1E000000

(* The conversion of an address of the alias range to one of the CLINT. *)
ClintAddr(addr) ==
    IF addr \in ALIAS_BASE .. ALIAS_BASE + \hFFFF THEN addr + ALIAS_OFFSET ELSE addr

(* The addresses of a core's registers. *)
MsipAddr(c) == CLINT_BASE + MSIP_BASE + 4 * c
MtimecmpAddr(c) == CLINT_BASE + MTIMECMP_BASE + 8 * c

(* Mutant of ClintWrite: a store to MSIP can set the bit and not clear it. *)
ClintWriteOnlySets(addr, v) ==
    LET offset == ClintAddr(addr) - CLINT_BASE
        slot   == offset - MTIMECMP_BASE
    IN  CASE offset \in MSIP_BASE .. MSIP_BASE + NumCores * 4 - 1 ->
               /\ msip' = [msip EXCEPT ![offset \div 4] = @ \/ v # 0]
               /\ UNCHANGED <<mtimecmp, mtime>>
          [] slot \in 0 .. NumCores * 8 - 1 ->
               /\ mtimecmp' = [mtimecmp EXCEPT ![slot \div 8] = v]
               /\ UNCHANGED <<msip, mtime>>
          [] OTHER -> UNCHANGED clintVars

(* write_word and CLINT::write for a word v at address addr.  MTIMECMP takes  *)
(* v as the whole value, whichever of its words addr is; the timer itself    *)
(* and every other offset ignore a store of this size.                      *)
ClintWrite(addr, v) ==
    LET offset == ClintAddr(addr) - CLINT_BASE
        slot   == offset - MTIMECMP_BASE
    IN  CASE offset \in MSIP_BASE .. MSIP_BASE + NumCores * 4 - 1 ->
               /\ msip' = [msip EXCEPT ![offset \div 4] = v # 0]
               /\ UNCHANGED <<mtimecmp, mtime>>
          [] slot \in 0 .. NumCores * 8 - 1 ->
               /\ mtimecmp' = [mtimecmp EXCEPT ![slot \div 8] = v]
               /\ UNCHANGED <<msip, mtime>>
          [] OTHER -> UNCHANGED clintVars

(* update_timer(delta); the timer stays at the bound. *)
UpdateTimer(delta) ==
    /\ mtime' = IF mtime + delta <= MaxTime THEN mtime + delta ELSE MaxTime
    /\ UNCHANGED <<msip, mtimecmp>>

HasSoftwareInterrupt(c) == msip[c]

HasTimerInterrupt(c) == mtime >= mtimecmp[c]

ClintTypeOK ==
    /\ msip \in [Cores -> BOOLEAN]
    /\ mtimecmp \in [Cores -> 0 .. Never]
    /\ mtime \in 0 .. MaxTime

=============================================================================

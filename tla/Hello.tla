------------------------------- MODULE Hello -------------------------------
(***************************************************************************)
(* The guest program hello_rv32 with its start-up code (start.S), from the   *)
(* first instruction to the idle loop, on cores that the simulation loop     *)
(* steps in turn: in a cycle every released core executes an instruction,    *)
(* core 0 first.  A statement takes 1 to MaxCost instructions, of which the  *)
(* last one is its access to memory.                                        *)
(***************************************************************************)
EXTENDS UartLock

CONSTANTS
    NumCores,
    MaxCost,        \* bound on the instructions of a statement
    Text            \* the length of a line that the program prints

ASSUME HelloAssumption ==
    /\ NumCores \in Nat \ {0}
    /\ Cores = 0 .. NumCores - 1
    /\ MaxCost \in Nat \ {0}
    /\ Text \in Lengths

VARIABLES
    turn,           \* the core to step next; NumCores at the end of a cycle
    label,          \* the statement each core is at
    cost,           \* the instructions of it still to be executed
    signal,         \* the word at 0x98000 is the magic value
    released,       \* the other cores have been released
    initPhase,      \* the word at 0x98004
    greeted         \* history: the cores that have printed in the second phase

helloVars == <<turn, label, cost, signal, released, initPhase, greeted>>
vars == <<uartVars, helloVars>>

HelloInit ==
    /\ Init
    /\ turn = 0
    /\ label = [c \in Cores |-> IF c = 0 THEN "main" ELSE "wait_loop"]
    /\ cost = [c \in Cores |-> 1]
    /\ signal = FALSE
    /\ released = FALSE
    /\ initPhase = TRUE
    /\ greeted = {}

----------------------------------------------------------------------------
(* The statements. *)

(* Mutant of Following: the cores are released before the second line. *)
FollowingEarly ==
    [wait_loop |-> "set_sp", set_sp |-> "main", main |-> "get_initialization_phase",
     hello |-> "release_all_cores", release_all_cores |-> "hello_core",
     hello_core |-> "set_initialization_phase", set_initialization_phase |-> "main",
     greet |-> "idle", idle |-> "stopped"]

(* The order of the statements, where there is no choice. *)
Following ==
    [wait_loop |-> "set_sp", set_sp |-> "main", main |-> "get_initialization_phase",
     hello |-> "hello_core", hello_core |-> "release_all_cores",
     release_all_cores |-> "set_initialization_phase", set_initialization_phase |-> "main",
     greet |-> "idle", idle |-> "stopped"]

GoTo(c, next) ==
    /\ label' = [label EXCEPT ![c] = next]
    /\ \E n \in 1 .. MaxCost : cost' = [cost EXCEPT ![c] = n]

(* wait_loop, up to the load of the signal. *)
WaitLoop(c) ==
    /\ label[c] = "wait_loop"
    /\ GoTo(c, IF signal THEN Following[label[c]] ELSE label[c])
    /\ UNCHANGED <<uartVars, signal, initPhase, greeted>>

SetStack(c) ==
    /\ label[c] = "set_sp"
    /\ GoTo(c, Following[label[c]])
    /\ UNCHANGED <<uartVars, signal, initPhase, greeted>>

(* main, up to report_core_state. *)
Main(c) ==
    /\ label[c] = "main"
    /\ GoTo(c, Following[label[c]])
    /\ UNCHANGED <<uartVars, signal, initPhase, greeted>>

(* main knows the numbers of four cores. *)
Greeting == {c \in Cores : c <= 3}

(* A secondary core that sees the first phase returns, and start.S stops it. *)
GetPhase(c) ==
    /\ label[c] = "get_initialization_phase"
    /\ GoTo(c, IF initPhase THEN (IF c = 0 THEN "hello" ELSE "stopped")
               ELSE IF c \in Greeting THEN "greet" ELSE "idle")
    /\ UNCHANGED <<uartVars, signal, initPhase, greeted>>

(* printf: its text is formatted, and uart_write called. *)
PrintLine(c) ==
    /\ label[c] \in {"hello", "hello_core", "greet"}
    /\ Write(c, Text)
    /\ GoTo(c, label[c])
    /\ UNCHANGED <<signal, initPhase, greeted>>

(* Within uart_write, and the return from it. *)
InPrint(c) ==
    /\ at[c] # "out"
    /\ UartStep(c)
    /\ IF at'[c] = "out"
       THEN /\ GoTo(c, Following[label[c]])
            /\ greeted' = IF label[c] = "greet" THEN greeted \union {c} ELSE greeted
       ELSE GoTo(c, label[c]) /\ UNCHANGED greeted
    /\ UNCHANGED <<signal, initPhase>>

ReleaseAllCores(c) ==
    /\ label[c] = "release_all_cores"
    /\ signal' = TRUE
    /\ GoTo(c, Following[label[c]])
    /\ UNCHANGED <<uartVars, initPhase, greeted>>

(* The end of the first phase: main returns, and start.S calls it again. *)
SetPhase(c) ==
    /\ label[c] = "set_initialization_phase"
    /\ initPhase' = FALSE
    /\ GoTo(c, Following[label[c]])
    /\ UNCHANGED <<uartVars, signal, greeted>>

(* report_core_state and the endless loop at the end of main. *)
Idle(c) ==
    /\ label[c] = "idle"
    /\ GoTo(c, Following[label[c]])
    /\ UNCHANGED <<uartVars, signal, initPhase, greeted>>

Statement(c) ==
    \/ WaitLoop(c) \/ SetStack(c) \/ Main(c) \/ GetPhase(c)
    \/ at[c] = "out" /\ PrintLine(c)
    \/ InPrint(c) \/ ReleaseAllCores(c) \/ SetPhase(c) \/ Idle(c)

----------------------------------------------------------------------------
MayStep(c) == (c = 0 \/ released) /\ label[c] # "stopped"

(* The turn of a core: an instruction of its statement, or the last one. *)
Skip ==
    /\ turn \in Cores /\ ~MayStep(turn)
    /\ turn' = turn + 1
    /\ UNCHANGED <<uartVars, label, cost, signal, released, initPhase, greeted>>

Instruction ==
    /\ turn \in Cores /\ MayStep(turn) /\ cost[turn] > 1
    /\ cost' = [cost EXCEPT ![turn] = @ - 1]
    /\ turn' = turn + 1
    /\ UNCHANGED <<uartVars, label, signal, released, initPhase, greeted>>

LastInstruction ==
    /\ turn \in Cores /\ MayStep(turn) /\ cost[turn] = 1
    /\ Statement(turn)
    /\ turn' = turn + 1
    /\ UNCHANGED released

(* Between cycles the loop looks for the signal.  It leaves it in memory. *)
EndCycle ==
    /\ turn = NumCores
    /\ released' = (released \/ signal)
    /\ turn' = 0
    /\ UNCHANGED <<uartVars, label, cost, signal, initPhase, greeted>>

(* A block may be displaced in any access of its core. *)
Displaced == /\ \E c \in Cores : Displace(c)
             /\ UNCHANGED helloVars

HelloNext == Skip \/ Instruction \/ LastInstruction \/ EndCycle \/ Displaced

(* The loop is one thread of the host, which keeps running it. *)
HelloSpec ==
    HelloInit /\ [][HelloNext]_vars
        /\ WF_vars(Skip \/ Instruction \/ LastInstruction \/ EndCycle)

----------------------------------------------------------------------------
(* A released core finds the first phase over although the signal is stored    *)
(* before the phase is, every core gets the lock in the end, and each prints  *)
(* its line and comes to its idle loop, with uart_mutex in its range.         *)
EveryCoreGreets ==
    through => <>(greeted = Greeting /\ \A c \in Cores : label[c] = "stopped")

=============================================================================

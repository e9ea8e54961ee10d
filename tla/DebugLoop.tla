----------------------------- MODULE DebugLoop -----------------------------
(***************************************************************************)
(* A session of the interactive debugger: main loads a program and calls     *)
(* enter_debug_loop.  Commands step the cores through Simulator::debug_run,  *)
(* and a core that comes to a breakpoint opens another command loop within   *)
(* its own step (Core::step), so that command loops and calls of debug_run   *)
(* nest.  Nothing ever sets step_mode, which is left out.                    *)
(***************************************************************************)
EXTENDS Loader

CONSTANTS
    NumCores,
    Breakpoints,    \* the addresses given to break
    Counts,         \* the counts given to step
    MaxDepth        \* bound on the calls of debug_run that nest

(* There is a core 0; a count reaches debug_run as an unsigned number. *)
ASSUME DebugAssumption ==
    /\ NumCores \in Nat \ {0}
    /\ Counts \subseteq Nat
    /\ MaxDepth \in Nat

VARIABLES
    at,             \* what the thread does: "load", "prompt", in debug_run
                    \* between ("run") or within a cycle ("turn"), past the
                    \* breakpoint of a core ("execute"), or "ended"
    input,          \* standard input: "open", or "closed" at its end
    stack,          \* the calls of debug_run; see Frame
    pc, finished, released, signal,
    breakpoints, focus_core, active, continue_execution,
    cycles,         \* history: the cycles begun
    joined          \* history: how many of them a secondary core has no turn in

coreVars == <<pc, finished, released, signal, cycles, joined>>
debuggerVars == <<breakpoints, focus_core, active, continue_execution>>
vars == <<loaderVars, at, input, stack, coreVars, debuggerVars>>

Cores == 0 .. NumCores - 1

(* A call of debug_run: by which command, the steps left, and the core whose *)
(* turn it is, or NumCores between cycles.                                  *)
Frame == [by : {"step", "continue"}, left : Nat, core : 0 .. NumCores]
Top == stack[Len(stack)]

Init ==
    /\ LoaderInit
    /\ at = "load"
    /\ input = "open"
    /\ stack = <<>>
    /\ pc = [c \in Cores |-> 0]
    /\ finished = [c \in Cores |-> FALSE]
    /\ released = FALSE
    /\ signal = FALSE
    /\ breakpoints = {}
    /\ focus_core = 0
    /\ active = FALSE
    /\ continue_execution = FALSE
    /\ cycles = 0
    /\ joined = 0

(* load_program; then main enters the debug loop, or returns. *)
Load ==
    /\ at = "load"
    /\ LoaderNext
    /\ at' = CASE phase' = "loaded" -> "prompt"
               [] phase' = "failed" -> "ended"
               [] OTHER -> "load"
    /\ active' = (phase' = "loaded")
    /\ pc' = IF phase' = "loaded" THEN [c \in Cores |-> entry'] ELSE pc
    /\ UNCHANGED <<input, stack, finished, released, signal, cycles, joined,
                   breakpoints, focus_core, continue_execution>>

(* read_instruction: by way of the instruction cache, from the DDR memory.  An *)
(* instruction is told by its first byte.                                   *)
Fetched(a) == ddr[a]

(* The program of the cores; "stop" is a jump to itself. *)
Instr(a) ==
    CASE Fetched(a) = 1 -> "stop" [] Fetched(a) = 2 -> "signal" [] OTHER -> "other"

----------------------------------------------------------------------------
(* The command loop. *)

Prompting == at = "prompt" /\ active /\ ~continue_execution /\ input = "open"

(* Mutant of LeaveLoop: at the end of the input it asks again. *)
LeaveLoopIfTold ==
    /\ at = "prompt" /\ (~active \/ continue_execution)
    /\ at' = IF stack = <<>> THEN "ended" ELSE "execute"
    /\ continue_execution' = (continue_execution /\ stack = <<>>)
    /\ UNCHANGED <<loaderVars, input, stack, coreVars, breakpoints, focus_core, active>>

(* command_loop ends: main goes on, or the step that has opened it, after     *)
(* clear_step_mode.  At the end of the input active stays set.               *)
LeaveLoop ==
    /\ at = "prompt" /\ (~active \/ continue_execution \/ input = "closed")
    /\ at' = IF stack = <<>> THEN "ended" ELSE "execute"
    /\ continue_execution' = (continue_execution /\ stack = <<>>)
    /\ UNCHANGED <<loaderVars, input, stack, coreVars, breakpoints, focus_core, active>>

Break(a) ==
    /\ Prompting
    /\ breakpoints' = breakpoints \union {a}
    /\ UNCHANGED <<loaderVars, at, input, stack, coreVars, focus_core, active,
                   continue_execution>>

(* delete with a number, which counts in no particular order, or without. *)
Delete(removed) ==
    /\ Prompting
    /\ removed \subseteq breakpoints
    /\ breakpoints' = breakpoints \ removed
    /\ UNCHANGED <<loaderVars, at, input, stack, coreVars, focus_core, active,
                   continue_execution>>

(* step, next (a step of 1) and continue, all by way of debug_run. *)
Run(by, n) ==
    /\ Prompting /\ Len(stack) < MaxDepth
    /\ stack' = Append(stack, [by |-> by, left |-> n, core |-> NumCores])
    /\ at' = "run"
    /\ UNCHANGED <<loaderVars, input, coreVars, debuggerVars>>

Quit ==
    /\ Prompting
    /\ active' = FALSE
    /\ continue_execution' = TRUE
    /\ UNCHANGED <<loaderVars, at, input, stack, coreVars, breakpoints, focus_core>>

(* No more lines will come. *)
CloseInput ==
    /\ input' = "closed" /\ input = "open"
    /\ UNCHANGED <<loaderVars, at, stack, coreVars, debuggerVars>>

(* list, regs, mem, disasm, help and unknown commands change nothing. *)
Command ==
    \/ \E a \in Breakpoints : Break(a)
    \/ \E a \in breakpoints : Delete({a})
    \/ Delete(breakpoints)
    \/ \E n \in Counts : Run("step", n)
    \/ Run("continue", 1)
    \/ Quit

----------------------------------------------------------------------------
(* debug_run. *)

AllFinished == \A c \in Cores : finished[c]
AtBreakpoint == \E c \in Cores : pc[c] \in breakpoints

BeginCycle ==
    /\ at = "run" /\ Top.left > 0 /\ ~AllFinished
    /\ stack' = [stack EXCEPT ![Len(stack)].core = 0]
    /\ at' = "turn"
    /\ cycles' = cycles + 1
    /\ UNCHANGED <<loaderVars, input, pc, finished, released, signal, joined, debuggerVars>>

(* Mutant of Return: continue runs until a breakpoint only. *)
ReturnAtBreakpoint ==
    /\ at = "run" /\ (Top.left = 0 \/ AllFinished)
    /\ IF Top.by = "continue" /\ ~AtBreakpoint
       THEN stack' = [stack EXCEPT ![Len(stack)].left = 1] /\ UNCHANGED at
       ELSE stack' = SubSeq(stack, 1, Len(stack) - 1) /\ at' = "prompt"
    /\ UNCHANGED <<loaderVars, input, coreVars, debuggerVars>>

(* debug_run returns to its command.  continue calls it again unless a core   *)
(* is at a breakpoint, even an unreleased or a finished one, or all have      *)
(* finished.                                                                *)
Return ==
    /\ at = "run" /\ (Top.left = 0 \/ AllFinished)
    /\ IF Top.by = "continue" /\ ~AtBreakpoint /\ ~AllFinished
       THEN stack' = [stack EXCEPT ![Len(stack)].left = 1] /\ UNCHANGED at
       ELSE stack' = SubSeq(stack, 1, Len(stack) - 1) /\ at' = "prompt"
    /\ UNCHANGED <<loaderVars, input, coreVars, debuggerVars>>

(* Call k of debug_run is in a cycle in which core c has not had its turn. *)
Owing(k, c) == stack[k].core <= c
Owed(c) == {k \in 1 .. Len(stack) : Owing(k, c)}

(* The next core's turn; after the last one, the release signal is looked for *)
(* and the step counted.                                                    *)
NextTurn ==
    IF Top.core + 1 < NumCores
    THEN /\ stack' = [stack EXCEPT ![Len(stack)].core = @ + 1]
         /\ at' = "turn"
         /\ UNCHANGED <<released, joined>>
    ELSE /\ stack' = [stack EXCEPT ![Len(stack)] =
                        [Top EXCEPT !.core = NumCores, !.left = @ - 1]]
         /\ at' = "run"
         /\ released' = (released \/ signal')
         /\ joined' = IF released' /\ ~released
                      THEN cycles - Cardinality({k \in 1 .. Len(stack) - 1 : Owing(k, 1)})
                      ELSE joined

MayStep(c) == ~finished[c] /\ (c = 0 \/ released)

(* execute_core_step on a finished or an unreleased core. *)
SkipTurn ==
    /\ at = "turn" /\ ~MayStep(Top.core)
    /\ UNCHANGED <<loaderVars, input, pc, finished, signal, cycles, debuggerVars>>
    /\ NextTurn

CheckDebugBreakpoint(c) == pc[c] \in breakpoints

(* The beginning of Core::step: at a breakpoint it opens a command loop. *)
Step ==
    /\ at = "turn" /\ MayStep(Top.core)
    /\ IF CheckDebugBreakpoint(Top.core)
       THEN at' = "prompt" /\ active' = TRUE /\ focus_core' = Top.core
       ELSE at' = "execute" /\ UNCHANGED <<active, focus_core>>
    /\ UNCHANGED <<loaderVars, input, stack, coreVars, breakpoints, continue_execution>>

(* Mutant of Execute: a step that has opened a command loop is over then. *)
ExecuteOffBreakpoints ==
    /\ at = "execute"
    /\ LET c == Top.core
       IN  IF pc[c] \in breakpoints THEN UNCHANGED <<pc, signal, finished>>
           ELSE /\ pc' = [pc EXCEPT ![c] = IF Instr(@) = "stop" THEN @ ELSE @ + 4]
                /\ signal' = (signal \/ Instr(pc[c]) = "signal")
                /\ finished' = [finished EXCEPT ![c] = @ \/ Instr(pc'[c]) = "stop"]
    /\ NextTurn
    /\ UNCHANGED <<loaderVars, input, cycles, debuggerVars>>

(* The rest of Core::step, at the pc the core has by then, and the look for   *)
(* a jump to itself.                                                        *)
Execute ==
    /\ at = "execute"
    /\ LET c == Top.core
       IN  /\ pc' = [pc EXCEPT ![c] = IF Instr(@) = "stop" THEN @ ELSE @ + 4]
           /\ signal' = (signal \/ Instr(pc[c]) = "signal")
           /\ finished' = [finished EXCEPT ![c] = @ \/ Instr(pc'[c]) = "stop"]
    /\ NextTurn
    /\ UNCHANGED <<loaderVars, input, cycles, debuggerVars>>

Internal ==
    Load \/ LeaveLoop \/ BeginCycle \/ Return \/ SkipTurn \/ Step \/ Execute

Next == Command \/ CloseInput \/ Internal

(* One thread of the host does it all; only the commands are up to the user. *)
Spec == Init /\ [][Next]_vars /\ WF_vars(Internal)

----------------------------------------------------------------------------
(* However the command loops nest, and whatever they are left by, no core     *)
(* loses a turn or is given one too many: until it is finished, a core has    *)
(* executed an instruction for every cycle begun since it may step, but for   *)
(* those suspended on the stack in which its turn is still to come.          *)
NoTurnLost ==
    at \notin {"load", "ended"} =>
        \A c \in Cores : MayStep(c) =>
            pc[c] = entry + 4 * ((cycles - (IF c = 0 THEN 0 ELSE joined)) - Cardinality(Owed(c)))

(* At the end of its input the session ends, from however deep: every prompt  *)
(* that still comes is left at once, and every step and continue returns, as  *)
(* the program comes to its end.                                            *)
EndsAtEndOfInput == (input = "closed") ~> (at = "ended")

=============================================================================

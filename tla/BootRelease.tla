---------------------------- MODULE BootRelease ----------------------------
(***************************************************************************)
(* The simulation loop and the release of the secondary cores:             *)
(* Simulator::run, debug_run, execute_core_step and release_all_cores in    *)
(* src/system/Simulator.cpp, the boot part of Core::step, and class         *)
(* MultiCoreMonitor.                                                       *)
(*                                                                         *)
(* One thread does everything: in a cycle every core steps once, core 0     *)
(* first, then the loop looks for the release signal, advances the CLINT    *)
(* timer and counts the cycle.  What a core's program does in a step is     *)
(* reduced to what this loop can see of it: stores to the release signal    *)
(* and to the core state array, and whether the program counter has         *)
(* reached a jump to itself.                                               *)
(***************************************************************************)
EXTENDS Naturals

CONSTANTS
    NumCores,       \* num_cores
    Cycles,         \* the argument of run, or of debug_run
    ReportedStates  \* the states the program reports in the state array

ASSUME BootAssumption ==
    /\ NumCores \in Nat \ {0}
    /\ Cycles \in Nat
    /\ ReportedStates \subseteq {"HALT", "RUNNING", "IDLE", "ERROR"}

Cores == 0 .. NumCores - 1
Secondaries == Cores \ {0}

VARIABLES
    mode,           \* which loop runs: "run" or "debug" (debug_run)
    turn,           \* the core to step next; NumCores at the end of a cycle
    running,        \* FALSE once the loop has ended
    cycle,          \* current_cycle, or step of debug_run
    mtime,          \* the CLINT timer
    finished,       \* Core::has_finished
    hasBooted,      \* Core::has_booted
    bootedFlags,    \* Simulator::core_booted_flags
    releaseCalled,  \* Simulator::release_all_cores_called
    monitor,        \* MultiCoreMonitor::core_states_
    detected,       \* MultiCoreMonitor::release_signal_detected_
    processed,      \* MultiCoreMonitor::release_processed_
    releaseCycle,   \* MultiCoreMonitor::release_signal_cycle_
    signal,         \* the word at RELEASE_SIGNAL_ADDR is the magic value
    stateArray,     \* the core state array in memory at CORE_STATES_ADDR
    steps,          \* history: how many instructions each core has executed
    storedIn        \* history: the cycle in which a core first stored the
                    \* magic value; Cycles if none has

monitorVars == <<monitor, detected, processed, releaseCycle>>
bootVars == <<hasBooted, bootedFlags, releaseCalled>>
memVars == <<signal, stateArray, storedIn>>
vars == <<mode, turn, running, cycle, mtime, finished, hasBooted, bootedFlags,
          releaseCalled, monitor, detected, processed, releaseCycle, signal,
          stateArray, steps, storedIn>>

CoreState == {"HALT", "RUNNING", "IDLE", "ERROR"}

(* MultiCoreMonitor's constructor: core 0 runs, the others are halted. *)
InitialStates == [i \in Cores |-> IF i = 0 THEN "RUNNING" ELSE "HALT"]

(* Simulator's constructor writes the monitor's states to memory. *)
Init ==
    /\ mode \in {"run", "debug"}
    /\ turn = 0
    /\ running = (0 < Cycles)
    /\ cycle = 0
    /\ mtime = 0
    /\ finished = [i \in Cores |-> FALSE]
    /\ hasBooted = [i \in Cores |-> FALSE]
    /\ bootedFlags = [i \in Cores |-> FALSE]
    /\ releaseCalled = FALSE
    /\ monitor = InitialStates
    /\ detected = FALSE
    /\ processed = FALSE
    /\ releaseCycle = 0
    /\ signal = FALSE
    /\ stateArray = InitialStates
    /\ steps = [i \in Cores |-> 0]
    /\ storedIn = Cycles

----------------------------------------------------------------------------
(* A step of a core. *)

(* should_core_execute: core 0 may still run in ERROR, to recover. *)
ShouldCoreExecute(i) ==
    \/ monitor[i] = "RUNNING"
    \/ monitor[i] = "ERROR" /\ i = 0

(* execute_core_step: core 0 boots by itself, another core when its flag is  *)
(* set.                                                                     *)
MayStep(i) ==
    /\ ~finished[i]
    /\ hasBooted[i] \/ i = 0 \/ bootedFlags[i]

(* Mutant of SkipStep: an unreleased core is waited for instead of skipped. *)
SkipFinishedOnly ==
    /\ running /\ turn \in Cores /\ finished[turn]
    /\ turn' = turn + 1
    /\ UNCHANGED <<mode, running, cycle, mtime, finished, bootVars,
                   monitorVars, memVars, steps>>

(* execute_core_step on a finished or an unreleased core. *)
SkipStep ==
    /\ running /\ turn \in Cores /\ ~MayStep(turn)
    /\ turn' = turn + 1
    /\ UNCHANGED <<mode, running, cycle, mtime, finished, bootVars,
                   monitorVars, memVars, steps>>

(* What an instruction of core i may do to the memory the loop looks at. *)
StoreSignal(i) ==
    /\ signal' \in BOOLEAN
    /\ storedIn' = IF signal' /\ storedIn = Cycles THEN cycle ELSE storedIn
    /\ UNCHANGED stateArray

ReportState(i) ==
    /\ \E s \in ReportedStates : stateArray' = [stateArray EXCEPT ![i] = s]
    /\ UNCHANGED <<signal, storedIn>>

OtherInstruction == UNCHANGED memVars

(* The instruction of core i, if the monitor lets it run; Core::step returns *)
(* before the fetch otherwise.  The core is finished when its pc then       *)
(* points at a jump to itself.  Core::step finds has_booted set, so its own *)
(* boot code, and with it wait_for_boot, is never reached.                  *)
Step(i) ==
    IF ShouldCoreExecute(i)
    THEN /\ StoreSignal(i) \/ ReportState(i) \/ OtherInstruction
         /\ steps' = [steps EXCEPT ![i] = @ + 1]
         /\ \E f \in BOOLEAN : finished' = [finished EXCEPT ![i] = f]
    ELSE UNCHANGED <<memVars, steps, finished>>

(* Mutant of CoreStep: the call that boots a core does not step it yet. *)
BootOrStep ==
    /\ running /\ turn \in Cores /\ MayStep(turn)
    /\ hasBooted' = [hasBooted EXCEPT ![turn] = TRUE]
    /\ IF hasBooted[turn] THEN Step(turn) ELSE UNCHANGED <<memVars, steps, finished>>
    /\ turn' = turn + 1
    /\ UNCHANGED <<mode, running, cycle, mtime, bootedFlags, releaseCalled,
                   monitorVars>>

(* execute_core_step on a core that may step. *)
CoreStep ==
    /\ running /\ turn \in Cores /\ MayStep(turn)
    /\ hasBooted' = [hasBooted EXCEPT ![turn] = TRUE]
    /\ Step(turn)
    /\ turn' = turn + 1
    /\ UNCHANGED <<mode, running, cycle, mtime, bootedFlags, releaseCalled,
                   monitorVars>>

----------------------------------------------------------------------------
(* The end of a cycle. *)

(* Mutant of ReleaseAllCores: the loop stops one core short. *)
ReleaseAllButLast ==
    /\ bootedFlags' = [i \in Cores |-> i \in 1 .. NumCores - 2 \/ bootedFlags[i]]
    /\ hasBooted' = [i \in Cores |-> i \in 1 .. NumCores - 2 \/ hasBooted[i]]
    /\ releaseCalled' = TRUE

(* release_all_cores. *)
ReleaseAllCores ==
    /\ bootedFlags' = [i \in Cores |-> i # 0 \/ bootedFlags[i]]
    /\ hasBooted' = [i \in Cores |-> i # 0 \/ hasBooted[i]]
    /\ releaseCalled' = TRUE

(* handle_release_signal, for the cycle number it is given.  It writes the   *)
(* whole core state array over whatever the cores have reported there.      *)
HandleReleaseSignal(now) ==
    IF detected' /\ ~processed
    THEN /\ monitor' = [i \in Cores |-> IF i # 0 /\ monitor[i] = "HALT"
                                        THEN "RUNNING" ELSE monitor[i]]
         /\ stateArray' = monitor'
         /\ processed' = TRUE
         /\ releaseCycle' = now
    ELSE UNCHANGED <<monitor, stateArray, processed, releaseCycle>>

(* Mutant of CheckRelease: the cores are released in the cycle after the one  *)
(* in which the signal was detected.                                        *)
CheckReleaseLater(now) ==
    /\ detected' = (detected \/ signal)
    /\ IF signal /\ detected /\ ~releaseCalled
       THEN ReleaseAllCores /\ HandleReleaseSignal(now)
       ELSE UNCHANGED <<bootVars, monitor, processed, releaseCycle, stateArray>>
    /\ UNCHANGED <<signal, storedIn>>

(* check_release_signal, and the release if the signal is there for the      *)
(* first time.  debug_run does not look once it has released the cores.     *)
CheckRelease(now) ==
    /\ detected' = (detected \/ (signal /\ (mode = "run" \/ ~releaseCalled)))
    /\ IF signal /\ ~releaseCalled
       THEN ReleaseAllCores /\ HandleReleaseSignal(now)
       ELSE UNCHANGED <<bootVars, monitor, processed, releaseCycle, stateArray>>
    /\ UNCHANGED <<signal, storedIn>>

AllFinished == \A i \in Cores : finished[i]

(* The rest of an iteration of run once every core has stepped: update_timer *)
(* is called before the check and again after the cycle is counted.         *)
EndCycleRun ==
    /\ running /\ mode = "run" /\ turn = NumCores
    /\ CheckRelease(cycle)
    /\ mtime' = mtime + 2
    /\ cycle' = cycle + 1
    /\ turn' = 0
    /\ running' = (cycle + 1 < Cycles /\ ~AllFinished)
    /\ UNCHANGED <<mode, finished, steps>>

(* Mutant of EndCycleDebug: the loop condition is off by one. *)
EndCycleOneMore ==
    /\ running /\ mode = "debug" /\ turn = NumCores
    /\ CheckRelease(0)
    /\ mtime' = mtime + 1
    /\ cycle' = cycle + 1
    /\ turn' = 0
    /\ running' = (cycle < Cycles /\ ~AllFinished)
    /\ UNCHANGED <<mode, finished, steps>>

(* The same in debug_run, which has one call of update_timer and passes      *)
(* handle_release_signal a dummy cycle number.                              *)
EndCycleDebug ==
    /\ running /\ mode = "debug" /\ turn = NumCores
    /\ CheckRelease(0)
    /\ mtime' = mtime + 1
    /\ cycle' = cycle + 1
    /\ turn' = 0
    /\ running' = (cycle + 1 < Cycles /\ ~AllFinished)
    /\ UNCHANGED <<mode, finished, steps>>

Next == SkipStep \/ CoreStep \/ EndCycleRun \/ EndCycleDebug

(* The loop is one thread of the host, which keeps running it. *)
Spec == Init /\ [][Next]_vars /\ WF_vars(Next)

----------------------------------------------------------------------------
(* Type correctness of the loop, the cores, the monitor and the memory. *)
TypeOK ==
    /\ mode \in {"run", "debug"}
    /\ turn \in 0 .. NumCores
    /\ running \in BOOLEAN
    /\ releaseCalled \in BOOLEAN /\ detected \in BOOLEAN /\ processed \in BOOLEAN
    /\ signal \in BOOLEAN
    /\ cycle \in 0 .. Cycles /\ mtime \in Nat /\ releaseCycle \in Nat
    /\ finished \in [Cores -> BOOLEAN]
    /\ hasBooted \in [Cores -> BOOLEAN]
    /\ bootedFlags \in [Cores -> BOOLEAN]
    /\ monitor \in [Cores -> CoreState]
    /\ stateArray \in [Cores -> CoreState]
    /\ steps \in [Cores -> Nat]
    /\ storedIn \in 0 .. Cycles

(* The three records of the release, kept by the core, by Simulator and by   *)
(* MultiCoreMonitor, never disagree: no core is let through by one and held *)
(* back by another.                                                         *)
BootViewsAgree ==
    /\ processed <=> releaseCalled
    /\ \A i \in Secondaries :
        /\ hasBooted[i] <=> releaseCalled
        /\ bootedFlags[i] <=> releaseCalled
        /\ monitor[i] = IF releaseCalled THEN "RUNNING" ELSE "HALT"

(* The signal is only looked at between cycles, and a later instruction may  *)
(* overwrite it; still no release is lost, nor made up.                     *)
NoLostRelease == releaseCalled <=> storedIn < cycle

(* The number of instructions a core has had the time for. *)
StepsDue(i) ==
    (IF i = 0 THEN cycle ELSE IF releaseCalled THEN cycle - (storedIn + 1) ELSE 0)
        + (IF i < turn /\ (i = 0 \/ releaseCalled) THEN 1 ELSE 0)

(* Lock step: core 0 executes an instruction in every cycle, a secondary one *)
(* in every cycle after the one that stored the magic value and in none     *)
(* before, until it is finished.                                            *)
LockStep ==
    \A i \in Cores :
        /\ steps[i] <= StepsDue(i)
        /\ ~finished[i] => steps[i] = StepsDue(i)

(* Between cycles the signal is not set before the release; within one, it    *)
(* has been set in this cycle or not at all.  Core 0, which alone executes  *)
(* before the release, always runs.                                         *)
SignalPending ==
    /\ running => cycle < Cycles
    /\ monitor[0] = "RUNNING"
    /\ ~releaseCalled => /\ turn = 0 => ~signal
                         /\ storedIn = IF signal THEN cycle ELSE Cycles

(* The inductive invariant behind NoLostRelease and LockStep. *)
ReleaseInv ==
    TypeOK /\ BootViewsAgree /\ NoLostRelease /\ LockStep /\ SignalPending

(* The loop never gets stuck on a core that is not released or finished. *)
RunEnds == <>~running

=============================================================================

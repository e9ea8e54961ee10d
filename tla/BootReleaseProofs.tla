------------------------- MODULE BootReleaseProofs -------------------------
(***************************************************************************)
(* Proofs about the simulation loop, for any number of cores and of cycles: *)
(* the records of the release agree, no release is lost, and the cores run  *)
(* in lock step.  ReleaseInv is the inductive invariant; SignalPending is   *)
(* the part that says what the signal means between two looks at it.        *)
(***************************************************************************)
EXTENDS BootRelease, TLAPS

(* The initial state satisfies the inductive invariant. *)
LEMMA InitReleaseInv == Init => ReleaseInv
<1> SUFFICES ASSUME Init PROVE ReleaseInv
  OBVIOUS
<1> USE BootAssumption DEF Init, Cores, Secondaries, InitialStates
<1>a. 0 \in Cores
  OBVIOUS
<1>b. running \in BOOLEAN /\ (running => cycle < Cycles)
  <2>1. running = (0 < Cycles) /\ cycle = 0
    OBVIOUS
  <2>2. (0 < Cycles) \in BOOLEAN
    OBVIOUS
  <2>3. running \in BOOLEAN
    BY <2>1, <2>2, Zenon
  <2>4. running => 0 < Cycles
    BY <2>1, Zenon
  <2>5. QED
    BY <2>1, <2>3, <2>4
<1>1. TypeOK
  <2>1. /\ monitor \in [Cores -> CoreState]
        /\ stateArray \in [Cores -> CoreState]
    BY DEF CoreState
  <2>2. /\ finished \in [Cores -> BOOLEAN]
        /\ hasBooted \in [Cores -> BOOLEAN]
        /\ bootedFlags \in [Cores -> BOOLEAN]
        /\ steps \in [Cores -> Nat]
    OBVIOUS
  <2>3. /\ turn \in 0 .. NumCores
        /\ cycle \in 0 .. Cycles
        /\ storedIn \in 0 .. Cycles
        /\ mtime \in Nat /\ releaseCycle \in Nat
    OBVIOUS
  <2>4. QED
    BY <1>b, <2>1, <2>2, <2>3 DEF TypeOK
<1>2. BootViewsAgree
  BY DEF BootViewsAgree
<1>3. NoLostRelease
  BY DEF NoLostRelease
<1>4. LockStep
  BY DEF LockStep, StepsDue
<1>5. SignalPending
  BY <1>a, <1>b DEF SignalPending
<1>6. QED
  BY <1>1, <1>2, <1>3, <1>4, <1>5 DEF ReleaseInv

(* A skipped core changes nothing but whose turn it is. *)
LEMMA SkipStepInv ==
    ASSUME ReleaseInv, SkipStep
    PROVE  ReleaseInv'
<1> USE BootAssumption DEF ReleaseInv, SkipStep, bootVars, monitorVars, memVars
<1>1. TypeOK'
  BY DEF TypeOK, Cores
<1>2. BootViewsAgree'
  BY DEF BootViewsAgree
<1>3. NoLostRelease'
  BY DEF NoLostRelease
<1>4. LockStep'
  <2> SUFFICES ASSUME NEW i \in Cores
               PROVE  /\ steps[i] <= StepsDue(i)'
                      /\ ~finished[i] => steps[i] = StepsDue(i)'
    BY DEF LockStep
  <2>1. /\ steps[i] <= StepsDue(i)
        /\ ~finished[i] => steps[i] = StepsDue(i)
    BY DEF LockStep
  <2>2. CASE i # turn
    <3>1. StepsDue(i)' = StepsDue(i)
      BY <2>2 DEF StepsDue, TypeOK, Cores
    <3>2. QED
      BY <2>1, <3>1
  <2>3. CASE i = turn /\ finished[i]
    BY <2>1, <2>3 DEF StepsDue, TypeOK, Cores, NoLostRelease
  <2>4. CASE i = turn /\ ~finished[i]
    <3>1. i # 0 /\ ~releaseCalled
      BY <2>4 DEF MayStep, BootViewsAgree, Secondaries
    <3>2. StepsDue(i)' = StepsDue(i)
      BY <3>1 DEF StepsDue
    <3>3. QED
      BY <2>1, <3>2
  <2>5. QED
    BY <2>2, <2>3, <2>4
<1>5. SignalPending'
  BY DEF SignalPending, TypeOK, Cores, MayStep
<1>6. QED
  BY <1>1, <1>2, <1>3, <1>4, <1>5

(* A step of a core: before the release it is core 0's, and a signal it      *)
(* stores is one of this cycle.                                             *)
LEMMA CoreStepInv ==
    ASSUME ReleaseInv, CoreStep
    PROVE  ReleaseInv'
<1> USE BootAssumption DEF ReleaseInv, CoreStep
<1>1. ShouldCoreExecute(turn)
  BY DEF ShouldCoreExecute, SignalPending, BootViewsAgree, Secondaries, MayStep
<1>2. /\ StoreSignal(turn) \/ ReportState(turn) \/ OtherInstruction
      /\ steps' = [steps EXCEPT ![turn] = @ + 1]
  BY <1>1 DEF Step
<1>3. PICK f \in BOOLEAN : finished' = [finished EXCEPT ![turn] = f]
  BY <1>1 DEF Step
<1>4. ~releaseCalled => turn = 0
  BY DEF MayStep, BootViewsAgree, Secondaries
<1>5. /\ signal' \in BOOLEAN
      /\ storedIn' = storedIn \/ (storedIn = Cycles /\ storedIn' = cycle)
      /\ stateArray' \in [Cores -> CoreState]
  <2>1. CASE StoreSignal(turn)
    BY <2>1 DEF StoreSignal, TypeOK
  <2>2. CASE ReportState(turn)
    BY <2>2 DEF ReportState, TypeOK, CoreState
  <2>3. CASE OtherInstruction
    BY <2>3 DEF OtherInstruction, memVars, TypeOK
  <2>4. QED
    BY <1>2, <2>1, <2>2, <2>3
<1>6. ~releaseCalled => storedIn' = IF signal' THEN cycle ELSE Cycles
  <2>1. ~releaseCalled => ~signal /\ storedIn = Cycles
    BY <1>4 DEF SignalPending
  <2>2. CASE StoreSignal(turn)
    BY <2>1, <2>2 DEF StoreSignal
  <2>3. CASE ReportState(turn)
    BY <2>1, <2>3 DEF ReportState
  <2>4. CASE OtherInstruction
    BY <2>1, <2>4 DEF OtherInstruction, memVars
  <2>5. QED
    BY <1>2, <2>2, <2>3, <2>4
<1>7. cycle < Cycles
  BY DEF SignalPending
<1>8. TypeOK'
  BY <1>2, <1>3, <1>5, <1>7 DEF TypeOK, Cores, monitorVars
<1>9. BootViewsAgree'
  BY <1>4 DEF BootViewsAgree, Secondaries, monitorVars, TypeOK
<1>10. NoLostRelease'
  BY <1>5, <1>7 DEF NoLostRelease, TypeOK
<1>11. LockStep'
  <2> SUFFICES ASSUME NEW i \in Cores
               PROVE  /\ steps'[i] <= StepsDue(i)'
                      /\ ~finished'[i] => steps'[i] = StepsDue(i)'
    BY DEF LockStep
  <2>1. /\ steps[i] <= StepsDue(i)
        /\ ~finished[i] => steps[i] = StepsDue(i)
    BY DEF LockStep
  <2>2. releaseCalled => storedIn' = storedIn
    BY <1>5, <1>7 DEF NoLostRelease, TypeOK
  <2>3. CASE i # turn
    <3>1. StepsDue(i)' = StepsDue(i)
      BY <2>2, <2>3, SMTT(30) DEF StepsDue, TypeOK, Cores
    <3>2. steps'[i] = steps[i] /\ finished'[i] = finished[i]
      BY <1>2, <1>3, <2>3 DEF TypeOK
    <3>3. QED
      BY <2>1, <3>1, <3>2
  <2>4. CASE i = turn
    <3>1. StepsDue(i)' = StepsDue(i) + 1
      BY <1>4, <2>2, <2>4, SMTT(30) DEF StepsDue, TypeOK, Cores, NoLostRelease
    <3>2. steps'[i] = steps[i] + 1 /\ ~finished[i]
      BY <1>2, <2>4 DEF TypeOK, MayStep
    <3>3. QED
      BY <2>1, <3>1, <3>2 DEF TypeOK
  <2>5. QED
    BY <2>3, <2>4
<1>12. SignalPending'
  BY <1>6, <1>7 DEF SignalPending, monitorVars, TypeOK, Cores
<1>13. QED
  BY <1>8, <1>9, <1>10, <1>11, <1>12

(* What both loops do at the end of a cycle, for the number the monitor is   *)
(* given and whatever the timer shows.                                      *)
EndCycle(now) ==
    /\ running /\ turn = NumCores
    /\ CheckRelease(now)
    /\ mtime' \in Nat
    /\ cycle' = cycle + 1
    /\ turn' = 0
    /\ running' = (cycle + 1 < Cycles /\ ~AllFinished)
    /\ UNCHANGED <<mode, finished, steps>>

(* The release: everything that says a core may run says so afterwards. *)
LEMMA ReleaseEffect ==
    ASSUME ReleaseInv, NEW now \in Nat, EndCycle(now), signal, ~releaseCalled
    PROVE  /\ releaseCalled' = TRUE /\ processed' = TRUE /\ releaseCycle' = now
           /\ hasBooted' = [i \in Cores |-> i # 0 \/ hasBooted[i]]
           /\ bootedFlags' = [i \in Cores |-> i # 0 \/ bootedFlags[i]]
           /\ monitor' = [i \in Cores |-> "RUNNING"]
           /\ stateArray' = monitor'
           /\ detected' \in BOOLEAN
<1> USE DEF ReleaseInv
<1>1. ReleaseAllCores /\ HandleReleaseSignal(now)
  BY DEF EndCycle, CheckRelease
<1>2. detected' = TRUE
  BY DEF EndCycle, CheckRelease, TypeOK
<1>3. ~processed
  BY DEF BootViewsAgree
<1>4. /\ monitor' = [i \in Cores |-> IF i # 0 /\ monitor[i] = "HALT"
                                     THEN "RUNNING" ELSE monitor[i]]
      /\ stateArray' = monitor' /\ processed' = TRUE /\ releaseCycle' = now
  BY <1>1, <1>2, <1>3 DEF HandleReleaseSignal
<1>5. \A i \in Cores : monitor[i] = IF i = 0 THEN "RUNNING" ELSE "HALT"
  BY DEF BootViewsAgree, SignalPending, Secondaries
<1>6. monitor' = [i \in Cores |-> "RUNNING"]
  BY <1>4, <1>5
<1>7. QED
  BY <1>1, <1>2, <1>4, <1>6 DEF ReleaseAllCores

(* Without a signal, or after the release, the cycle ends without one. *)
LEMMA NoReleaseEffect ==
    ASSUME ReleaseInv, NEW now \in Nat, EndCycle(now), ~(signal /\ ~releaseCalled)
    PROVE  /\ UNCHANGED <<releaseCalled, processed, releaseCycle, hasBooted,
                          bootedFlags, monitor, stateArray>>
           /\ detected' \in BOOLEAN
<1>1. detected' \in BOOLEAN
  BY DEF EndCycle, CheckRelease, ReleaseInv, TypeOK
<1>2. QED
  BY <1>1 DEF EndCycle, CheckRelease, bootVars

(* The end of a cycle: a signal stored in it releases the cores. *)
LEMMA EndCycleInv ==
    ASSUME ReleaseInv, NEW now \in Nat, EndCycle(now)
    PROVE  ReleaseInv'
<1> USE BootAssumption
<1>0. /\ cycle \in Nat /\ storedIn \in Nat /\ running
      /\ signal \in BOOLEAN /\ releaseCalled \in BOOLEAN
      /\ releaseCalled <=> storedIn < cycle
      /\ running => cycle < Cycles
      /\ ~releaseCalled => storedIn = IF signal THEN cycle ELSE Cycles
  BY DEF EndCycle, ReleaseInv, TypeOK, NoLostRelease, SignalPending
<1>1. releaseCalled' <=> storedIn < cycle + 1
  <2>1. CASE signal /\ ~releaseCalled
    <3>1. releaseCalled' = TRUE
      BY <2>1, ReleaseEffect
    <3>2. QED
      BY <1>0, <2>1, <3>1
  <2>2. CASE ~(signal /\ ~releaseCalled)
    <3>1. releaseCalled' = releaseCalled
      BY <2>2, NoReleaseEffect
    <3>2. QED
      BY <1>0, <2>2, <3>1
  <2>3. QED
    BY <2>1, <2>2
<1>2. /\ storedIn' = storedIn /\ signal' = signal
      /\ cycle' = cycle + 1 /\ turn = NumCores /\ turn' = 0
      /\ mode' = mode /\ finished' = finished /\ steps' = steps
      /\ mtime' \in Nat
  BY DEF EndCycle, CheckRelease
<1>3. cycle < Cycles
  BY DEF ReleaseInv, SignalPending, EndCycle
<1>4. running' \in BOOLEAN /\ (running' => cycle' < Cycles)
  <2>1. running' = (cycle + 1 < Cycles /\ ~AllFinished)
    BY DEF EndCycle
  <2>2. (cycle + 1 < Cycles /\ ~AllFinished) \in BOOLEAN
    OBVIOUS
  <2>3. running' \in BOOLEAN
    BY <2>1, <2>2, Zenon
  <2>4. running' => cycle + 1 < Cycles
    BY <2>1, Zenon
  <2>5. QED
    BY <1>2, <2>3, <2>4
<1>5. /\ monitor' \in [Cores -> CoreState] /\ stateArray' \in [Cores -> CoreState]
      /\ hasBooted' \in [Cores -> BOOLEAN] /\ bootedFlags' \in [Cores -> BOOLEAN]
      /\ releaseCalled' \in BOOLEAN /\ processed' \in BOOLEAN
      /\ detected' \in BOOLEAN /\ releaseCycle' \in Nat
  <2>1. CASE signal /\ ~releaseCalled
    BY <2>1, ReleaseEffect DEF CoreState
  <2>2. CASE ~(signal /\ ~releaseCalled)
    BY <2>2, NoReleaseEffect DEF ReleaseInv, TypeOK
  <2>3. QED
    BY <2>1, <2>2
<1>6. TypeOK'
  BY <1>2, <1>3, <1>4, <1>5 DEF ReleaseInv, TypeOK
<1>7. BootViewsAgree'
  <2>1. CASE signal /\ ~releaseCalled
    BY <2>1, ReleaseEffect DEF BootViewsAgree, Secondaries
  <2>2. CASE ~(signal /\ ~releaseCalled)
    BY <2>2, NoReleaseEffect DEF ReleaseInv, BootViewsAgree
  <2>3. QED
    BY <2>1, <2>2
<1>8. NoLostRelease'
  BY <1>1, <1>2 DEF NoLostRelease
<1>9. LockStep'
  <2> SUFFICES ASSUME NEW i \in Cores
               PROVE  StepsDue(i)' = StepsDue(i)
    BY <1>2 DEF ReleaseInv, LockStep
  <2>1. i < NumCores /\ ~(i < 0)
    BY DEF Cores
  <2>2. CASE i = 0
    BY <1>0, <1>2, <2>1, <2>2 DEF StepsDue
  <2>3. CASE i # 0 /\ releaseCalled
    <3>1. releaseCalled' = releaseCalled
      BY <2>3, NoReleaseEffect
    <3>2. QED
      BY <1>0, <1>2, <2>1, <2>3, <3>1 DEF StepsDue
  <2>4. CASE i # 0 /\ ~releaseCalled /\ signal
    <3>1. releaseCalled' = TRUE
      BY <2>4, ReleaseEffect
    <3>2. QED
      BY <1>0, <1>2, <2>1, <2>4, <3>1 DEF StepsDue
  <2>5. CASE i # 0 /\ ~releaseCalled /\ ~signal
    <3>1. releaseCalled' = releaseCalled
      BY <2>5, NoReleaseEffect
    <3>2. QED
      BY <1>0, <1>2, <2>1, <2>5, <3>1 DEF StepsDue
  <2>6. QED
    BY <1>0, <2>2, <2>3, <2>4, <2>5
<1>10. SignalPending'
  <2>1. 0 \in Cores
    BY DEF Cores
  <2>2. CASE signal /\ ~releaseCalled
    BY <1>2, <1>4, <2>1, <2>2, ReleaseEffect DEF SignalPending
  <2>3. CASE ~signal /\ ~releaseCalled
    BY <1>2, <1>4, <2>3, NoReleaseEffect DEF ReleaseInv, SignalPending
  <2>4. CASE releaseCalled
    BY <1>2, <1>4, <2>4, NoReleaseEffect DEF ReleaseInv, SignalPending
  <2>5. QED
    BY <2>2, <2>3, <2>4
<1>11. QED
  BY <1>6, <1>7, <1>8, <1>9, <1>10 DEF ReleaseInv

(* ReleaseInv is an invariant of the loop. *)
THEOREM ReleaseInvariant == Spec => []ReleaseInv
<1>1. ReleaseInv /\ [Next]_vars => ReleaseInv'
  <2> SUFFICES ASSUME ReleaseInv, [Next]_vars PROVE ReleaseInv'
    OBVIOUS
  <2>1. CASE SkipStep
    BY <2>1, SkipStepInv
  <2>2. CASE CoreStep
    BY <2>2, CoreStepInv
  <2>3. CASE EndCycleRun
    <3>1. cycle \in Nat /\ EndCycle(cycle)
      BY <2>3, BootAssumption DEF EndCycleRun, EndCycle, ReleaseInv, TypeOK
    <3>2. QED
      BY <3>1, EndCycleInv
  <2>4. CASE EndCycleDebug
    <3>1. EndCycle(0)
      BY <2>4 DEF EndCycleDebug, EndCycle, ReleaseInv, TypeOK
    <3>2. QED
      BY <3>1, EndCycleInv
  <2>5. CASE UNCHANGED vars
    BY <2>5 DEF vars, ReleaseInv, TypeOK, BootViewsAgree, NoLostRelease,
                LockStep, StepsDue, SignalPending
  <2>6. QED
    BY <2>1, <2>2, <2>3, <2>4, <2>5 DEF Next
<1>2. QED
  BY <1>1, InitReleaseInv, PTL DEF Spec

(* The core, Simulator and MultiCoreMonitor agree on who may run. *)
THEOREM BootViewsAgreeHolds == Spec => []BootViewsAgree
<1>1. ReleaseInv => BootViewsAgree
  BY DEF ReleaseInv
<1>2. QED
  BY <1>1, ReleaseInvariant, PTL

(* Every stored release signal releases the cores at the end of its cycle,   *)
(* and nothing else does.                                                   *)
THEOREM NoLostReleaseHolds == Spec => []NoLostRelease
<1>1. ReleaseInv => NoLostRelease
  BY DEF ReleaseInv
<1>2. QED
  BY <1>1, ReleaseInvariant, PTL

(* The cores run in lock step, the secondary ones from the cycle after the   *)
(* release signal was stored.                                               *)
THEOREM LockStepHolds == Spec => []LockStep
<1>1. ReleaseInv => LockStep
  BY DEF ReleaseInv
<1>2. QED
  BY <1>1, ReleaseInvariant, PTL


(* No step of the loop takes a counter, a core's records or the monitor's     *)
(* states out of their range, up to the end of run and of debug_run.        *)
THEOREM TypeCorrect == Spec => []TypeOK
<1>1. ReleaseInv => TypeOK
  BY DEF ReleaseInv
<1>2. QED
  BY <1>1, ReleaseInvariant, PTL

=============================================================================

-------------------------- MODULE DebugLoopProofs --------------------------
(***************************************************************************)
(* Proofs about the debugger session of DebugLoop.tla, for any number of     *)
(* cores, any breakpoints and counts, and command loops nested to any depth.  *)
(***************************************************************************)
EXTENDS DebugLoop, FiniteSetTheorems, SequenceTheorems, WellFoundedInduction, TLAPS

USE DebugAssumption

----------------------------------------------------------------------------
(* The inductive invariant. *)

LoadingOK ==
    at = "load" =>
        /\ stack = <<>> /\ ~released /\ cycles = 0
        /\ \A c \in Cores : ~finished[c]

(* The cycle of every call of debug_run but one that is between cycles is     *)
(* suspended in the turn of a core.                                         *)
StackOK ==
    /\ stack \in Seq(Frame)
    /\ at \in {"run", "turn", "execute"} => stack # <<>>
    /\ at = "run" => Top.core = NumCores
    /\ \A k \in 1 .. Len(stack) :
        \/ stack[k].core < NumCores /\ stack[k].left > 0
        \/ k = Len(stack) /\ at = "run"

(* Until the release the secondary cores stay where they are, and only core 0 *)
(* can have opened a command loop.                                          *)
UnreleasedOK ==
    ~released =>
        /\ \A k \in 1 .. Len(stack) :
            stack[k].core = 0 \/ (k = Len(stack) /\ at \in {"run", "turn"})
        /\ \A c \in Cores \ {0} :
            /\ ~finished[c]
            /\ at \notin {"load", "ended"} => pc[c] = entry

DebugTypeOK ==
    /\ at \in {"load", "prompt", "run", "turn", "execute", "ended"}
    /\ image \in Images
    /\ entry \in Nat
    /\ pc \in [Cores -> Nat]
    /\ finished \in [Cores -> BOOLEAN]
    /\ released \in BOOLEAN
    /\ cycles \in Nat
    /\ joined \in Int

TurnInv == DebugTypeOK /\ LoadingOK /\ StackOK /\ UnreleasedOK /\ NoTurnLost

----------------------------------------------------------------------------
(* The stack of calls. *)

(* The calls that owe a core its turn can be counted. *)
LEMMA OwedFinite ==
    ASSUME stack \in Seq(Frame), NEW c
    PROVE  /\ IsFiniteSet(Owed(c))
           /\ Cardinality(Owed(c)) \in Nat
<1>1. Len(stack) \in Nat
    BY LenProperties
<1>2. IsFiniteSet(1 .. Len(stack))
    BY <1>1, FS_Interval
<1>3. Owed(c) \in SUBSET (1 .. Len(stack))
    BY DEF Owed
<1>4. IsFiniteSet(Owed(c))
    BY <1>2, <1>3, FS_Subset
<1> QED
    BY <1>4, FS_CardinalityType

(* What is left of the stack when its top is replaced. *)
LEMMA TopReplaced ==
    ASSUME stack \in Seq(Frame), stack # <<>>, NEW f \in Frame,
           stack' = [stack EXCEPT ![Len(stack)] = f]
    PROVE  /\ stack' \in Seq(Frame) /\ stack' # <<>>
           /\ Len(stack) \in Nat \ {0} /\ Len(stack') = Len(stack)
           /\ stack'[Len(stack)] = f
           /\ \A k \in 1 .. Len(stack) - 1 : stack'[k] = stack[k]
           /\ Top \in Frame
<1>1. Len(stack) \in Nat \ {0} /\ Len(stack) \in 1 .. Len(stack)
    BY EmptySeq
<1>2. /\ stack' \in Seq(Frame)
      /\ Len(stack') = Len(stack)
      /\ \A j \in 1 .. Len(stack) : stack'[j] = IF j = Len(stack) THEN f ELSE stack[j]
    BY <1>1, ExceptSeq
<1>3. stack' # <<>>
    BY <1>1, <1>2, EmptySeq
<1>4. Top \in Frame
    BY <1>1, ElementOfSeq DEF Top
<1>5. stack'[Len(stack)] = f /\ \A k \in 1 .. Len(stack) - 1 : stack'[k] = stack[k]
    BY ONLY <1>1, <1>2
<1> QED
    BY ONLY <1>1, <1>2, <1>3, <1>4, <1>5

(* A new call between cycles owes nobody a turn. *)
LEMMA CallPushed ==
    ASSUME stack \in Seq(Frame), NEW f \in Frame, stack' = Append(stack, f)
    PROVE  /\ stack' \in Seq(Frame) /\ stack' # <<>>
           /\ Len(stack) \in Nat /\ Len(stack') = Len(stack) + 1
           /\ stack'[Len(stack')] = f
           /\ \A k \in 1 .. Len(stack) : stack'[k] = stack[k]
<1>1. /\ stack' \in Seq(Frame)
      /\ Len(stack) \in Nat /\ Len(stack') = Len(stack) + 1
      /\ stack'[Len(stack) + 1] = f
      /\ \A k \in 1 .. Len(stack) : stack'[k] = stack[k]
    BY LenProperties
<1>2. stack' # <<>>
    BY <1>1, EmptySeq
<1> QED
    BY <1>1, <1>2

LEMMA CallPopped ==
    ASSUME stack \in Seq(Frame), stack # <<>>,
           stack' = SubSeq(stack, 1, Len(stack) - 1)
    PROVE  /\ stack' \in Seq(Frame)
           /\ Len(stack) \in Nat \ {0} /\ Len(stack') = Len(stack) - 1
           /\ \A k \in 1 .. Len(stack) - 1 : stack'[k] = stack[k]
<1>1. Len(stack) \in Nat \ {0}
    BY EmptySeq
<1>2. \A k \in 1 .. Len(stack) - 1 : stack[k] \in Frame
    BY <1>1, ElementOfSeq
<1>3. /\ stack' \in Seq(Frame)
      /\ Len(stack') = IF 1 <= Len(stack) - 1 THEN (Len(stack) - 1) - 1 + 1 ELSE 0
      /\ \A k \in 1 .. (Len(stack) - 1) - 1 + 1 : stack'[k] = stack[1 + k - 1]
    BY <1>1, <1>2, SubSeqProperties
<1>4. Len(stack') = Len(stack) - 1
    <2> DEFINE n == Len(stack)
               m == Len(stack')
    <2>1. n \in Nat \ {0} /\ m = IF 1 <= n - 1 THEN (n - 1) - 1 + 1 ELSE 0
        BY <1>1, <1>3
    <2> HIDE DEF n, m
    <2>2. m = n - 1
        BY ONLY <2>1
    <2> QED
        BY <2>2 DEF n, m
<1>5. ASSUME NEW k \in 1 .. Len(stack) - 1 PROVE stack'[k] = stack[k]
    <2>1. k \in 1 .. (Len(stack) - 1) - 1 + 1 /\ 1 + k - 1 = k
        BY <1>1, <1>5
    <2> QED
        BY ONLY <1>3, <2>1
<1> QED
    BY ONLY <1>1, <1>3, <1>4, <1>5

(* The end of a turn moves the top of the stack on to the next core, or past  *)
(* the last one.                                                            *)
LEMMA TurnEnds ==
    ASSUME StackOK, at \in {"turn", "execute"}, NextTurn
    PROVE  /\ stack' \in Seq(Frame) /\ stack' # <<>>
           /\ Len(stack) \in Nat \ {0} /\ Len(stack') = Len(stack)
           /\ \A k \in 1 .. Len(stack) - 1 : stack'[k] = stack[k]
           /\ Top.core \in Cores
           /\ stack'[Len(stack)].core = Top.core + 1
           /\ at' = IF Top.core + 1 < NumCores THEN "turn" ELSE "run"
           /\ at' = "turn" => stack'[Len(stack)].left > 0
<1>1. stack \in Seq(Frame) /\ stack # <<>>
    BY DEF StackOK
<1>2. Len(stack) \in Nat \ {0} /\ Top \in Frame
    BY <1>1, EmptySeq, ElementOfSeq DEF Top
<1>3. Top.core < NumCores /\ Top.left > 0 /\ Top.core \in Nat /\ Top.left \in Nat
    BY <1>2 DEF StackOK, Top, Frame
<1>4. Top.core \in Cores
    BY <1>3 DEF Cores
<1>5. CASE Top.core + 1 < NumCores
    <2> DEFINE f == [Top EXCEPT !.core = Top.core + 1]
    <2>1. f \in Frame /\ f.core = Top.core + 1 /\ f.left > 0
        BY <1>2, <1>3, <1>5 DEF Frame
    <2>2. stack' = [stack EXCEPT ![Len(stack)] = f] /\ at' = "turn"
        BY <1>5 DEF NextTurn, Top
    <2> HIDE DEF f
    <2> QED
        BY <1>1, <1>4, <1>5, <2>1, <2>2, TopReplaced
<1>6. CASE ~(Top.core + 1 < NumCores)
    <2> DEFINE left == Top.left - 1
               f == [Top EXCEPT !.core = NumCores, !.left = left]
    <2>1. left \in Nat /\ NumCores = Top.core + 1 /\ NumCores \in 0 .. NumCores
        BY <1>3, <1>6
    <2>2. stack' = [stack EXCEPT ![Len(stack)] = f] /\ at' = "run"
        BY <1>6 DEF NextTurn, Top
    <2> HIDE DEF left
    <2>3. f \in Frame
        BY <1>2, <2>1 DEF Frame
    <2>4. f.core = Top.core + 1
        BY <1>2, <2>1 DEF Frame
    <2> HIDE DEF f
    <2>5. /\ stack' \in Seq(Frame) /\ stack' # <<>>
          /\ Len(stack) \in Nat \ {0} /\ Len(stack') = Len(stack)
          /\ stack'[Len(stack)] = f
          /\ \A k \in 1 .. Len(stack) - 1 : stack'[k] = stack[k]
        BY <1>1, <2>2, <2>3, TopReplaced
    <2> QED
        BY <1>4, <1>6, <2>2, <2>4, <2>5
<1> QED
    BY <1>5, <1>6

(* Only the core whose turn it was is owed one turn less. *)
LEMMA OneTurnLess ==
    ASSUME StackOK, at \in {"turn", "execute"}, NextTurn, NEW c \in Cores
    PROVE  /\ Cardinality(Owed(c)) \in Nat
           /\ Cardinality(Owed(c))' =
                IF c = Top.core THEN Cardinality(Owed(c)) - 1 ELSE Cardinality(Owed(c))
<1>1. /\ Len(stack) \in Nat \ {0} /\ Len(stack') = Len(stack)
      /\ \A k \in 1 .. Len(stack) - 1 : stack'[k] = stack[k]
      /\ Top.core \in Cores
      /\ stack'[Len(stack)].core = Top.core + 1
    BY TurnEnds
<1>2. c \in Int /\ Top.core \in Int
    BY <1>1 DEF Cores
<1>3. Owed(c)' = IF c = Top.core THEN Owed(c) \ {Len(stack)} ELSE Owed(c)
    <2>1. \A k \in 1 .. Len(stack) - 1 : (stack'[k].core <= c) <=> (stack[k].core <= c)
        BY <1>1
    <2>2. (stack'[Len(stack)].core <= c) <=> (Top.core <= c /\ c # Top.core)
        BY <1>1, <1>2
    <2>3. Top.core = stack[Len(stack)].core
        BY DEF Top
    <2>4. Owed(c)' = {k \in 1 .. Len(stack) : stack'[k].core <= c}
        BY <1>1 DEF Owed, Owing
    <2>5. Owed(c) = {k \in 1 .. Len(stack) : stack[k].core <= c}
        BY DEF Owed, Owing
    <2> QED
        BY <1>1, <2>1, <2>2, <2>3, <2>4, <2>5
<1>4. c = Top.core => Len(stack) \in Owed(c)
    BY <1>1, <1>2 DEF Owed, Owing, Top
<1>5. IsFiniteSet(Owed(c)) /\ Cardinality(Owed(c)) \in Nat
    BY OwedFinite DEF StackOK
<1>6. CASE c = Top.core
    <2>1. Cardinality(Owed(c) \ {Len(stack)}) = Cardinality(Owed(c)) - 1
        BY <1>4, <1>5, <1>6, FS_RemoveElement
    <2> QED
        BY <1>3, <1>5, <1>6, <2>1
<1>7. CASE c # Top.core
    BY <1>3, <1>5, <1>7
<1> QED
    BY <1>6, <1>7


----------------------------------------------------------------------------
(* The steps that take no turn. *)

(* NoTurnLost as the proofs use it. *)
TurnsKept(c) ==
    MayStep(c) =>
        pc[c] = entry + 4 * ((cycles - (IF c = 0 THEN 0 ELSE joined)) - Cardinality(Owed(c)))

(* What the commands and the opening and closing of command loops leave.     *)
LEMMA CoresKept ==
    ASSUME TurnInv, UNCHANGED <<loaderVars, stack, coreVars>>,
           at' \in {"load", "prompt", "run", "turn", "execute", "ended"},
           at \in {"load", "ended"} => at' = at,
           at' = "load" => at = "load"
    PROVE  DebugTypeOK' /\ LoadingOK' /\ NoTurnLost'
<1>1. /\ image' = image /\ entry' = entry /\ stack' = stack /\ pc' = pc
      /\ finished' = finished /\ released' = released
      /\ cycles' = cycles /\ joined' = joined
    BY DEF loaderVars, coreVars
<1>2. DebugTypeOK'
    BY <1>1 DEF TurnInv, DebugTypeOK
<1>3. LoadingOK'
    BY <1>1 DEF TurnInv, LoadingOK
<1>4. \A c : TurnsKept(c)' <=> TurnsKept(c)
    BY <1>1 DEF TurnsKept, MayStep, Owed, Owing
<1>5. NoTurnLost'
    BY <1>4 DEF TurnInv, NoTurnLost, TurnsKept
<1> QED
    BY <1>2, <1>3, <1>5

LEMMA SameControl ==
    ASSUME TurnInv, UNCHANGED <<loaderVars, stack, coreVars, at>>
    PROVE  TurnInv'
<1>1. DebugTypeOK' /\ LoadingOK' /\ NoTurnLost'
    BY CoresKept DEF TurnInv, DebugTypeOK
<1>2. /\ at' = at /\ stack' = stack /\ released' = released /\ pc' = pc
      /\ finished' = finished /\ entry' = entry
    BY DEF loaderVars, coreVars
<1>3. StackOK' /\ UnreleasedOK'
    BY <1>2 DEF TurnInv, StackOK, UnreleasedOK, Top
<1> QED
    BY <1>1, <1>3 DEF TurnInv

LEMMA LeaveLoopInv == TurnInv /\ LeaveLoop => TurnInv'
<1> SUFFICES ASSUME TurnInv, LeaveLoop PROVE TurnInv'
    OBVIOUS
<1>1. /\ at = "prompt" /\ at' = (IF stack = <<>> THEN "ended" ELSE "execute")
      /\ UNCHANGED <<loaderVars, stack, coreVars>>
    BY DEF LeaveLoop
<1>2. DebugTypeOK' /\ LoadingOK' /\ NoTurnLost'
    BY <1>1, CoresKept
<1>3. /\ stack' = stack /\ released' = released /\ pc' = pc
      /\ finished' = finished /\ entry' = entry
    BY <1>1 DEF loaderVars, coreVars
<1>4. StackOK'
    BY <1>1, <1>3 DEF TurnInv, StackOK, Top
<1>5. UnreleasedOK'
    BY <1>1, <1>3 DEF TurnInv, UnreleasedOK
<1> QED
    BY <1>2, <1>4, <1>5 DEF TurnInv

LEMMA StepInv == TurnInv /\ Step => TurnInv'
<1> SUFFICES ASSUME TurnInv, Step PROVE TurnInv'
    OBVIOUS
<1>1. /\ at = "turn" /\ MayStep(Top.core) /\ at' \in {"prompt", "execute"}
      /\ UNCHANGED <<loaderVars, stack, coreVars>>
    BY DEF Step
<1>2. DebugTypeOK' /\ LoadingOK' /\ NoTurnLost'
    BY <1>1, CoresKept
<1>3. /\ stack' = stack /\ released' = released /\ pc' = pc
      /\ finished' = finished /\ entry' = entry
    BY <1>1 DEF loaderVars, coreVars
<1>4. StackOK'
    BY <1>1, <1>3 DEF TurnInv, StackOK, Top
<1>5. UnreleasedOK'
    BY <1>1, <1>3 DEF TurnInv, UnreleasedOK, MayStep, Top
<1> QED
    BY <1>2, <1>4, <1>5 DEF TurnInv


(* Calls, returns and new cycles: a core owed a turn more has a cycle more.   *)
LEMMA TurnsBalanced ==
    ASSUME TurnInv, UNCHANGED <<loaderVars, pc, finished, released, joined>>,
           at \notin {"load", "ended"}, at' \in {"prompt", "run", "turn"},
           cycles' \in Nat, stack' \in Seq(Frame),
           \A c \in Cores : cycles' - Cardinality(Owed(c)') = cycles - Cardinality(Owed(c))
    PROVE  DebugTypeOK' /\ LoadingOK' /\ NoTurnLost'
<1>1. /\ image' = image /\ entry' = entry /\ pc' = pc
      /\ finished' = finished /\ released' = released /\ joined' = joined
    BY DEF loaderVars
<1>2. DebugTypeOK'
    BY <1>1 DEF TurnInv, DebugTypeOK
<1>3. LoadingOK'
    BY DEF LoadingOK
<1>4. ASSUME NEW c \in Cores, MayStep(c)'
      PROVE  pc'[c] = entry' + 4 * ((cycles' - (IF c = 0 THEN 0 ELSE joined'))
                                        - Cardinality(Owed(c)'))
    <2>1. MayStep(c)
        BY <1>1, <1>4 DEF MayStep
    <2>2. pc[c] = entry + 4 * ((cycles - (IF c = 0 THEN 0 ELSE joined)) - Cardinality(Owed(c)))
        BY <2>1 DEF TurnInv, NoTurnLost
    <2>3. Cardinality(Owed(c)) \in Nat /\ Cardinality(Owed(c)') \in Nat
        <3>1. Cardinality(Owed(c)) \in Nat
            BY OwedFinite DEF TurnInv, StackOK
        <3>2. Cardinality(Owed(c)') \in Nat
            <4>1. Len(stack') \in Nat
                BY LenProperties
            <4>2. IsFiniteSet(1 .. Len(stack'))
                BY <4>1, FS_Interval
            <4>3. Owed(c)' \in SUBSET (1 .. Len(stack'))
                BY DEF Owed
            <4> QED
                BY <4>2, <4>3, FS_Subset, FS_CardinalityType
        <3> QED
            BY <3>1, <3>2
    <2>4. cycles' - Cardinality(Owed(c)') = cycles - Cardinality(Owed(c))
        OBVIOUS
    <2>5. cycles \in Nat /\ joined \in Int /\ entry \in Nat
        BY DEF TurnInv, DebugTypeOK
    <2> DEFINE start == IF c = 0 THEN 0 ELSE joined
               owed == Cardinality(Owed(c))
               owes == Cardinality(Owed(c)')
    <2>6. start \in Int /\ (cycles - start) - owed = (cycles' - start) - owes
        BY <2>3, <2>4, <2>5
    <2>7. pc[c] = entry + 4 * ((cycles - start) - owed)
        BY <2>2
    <2> HIDE DEF start, owed, owes
    <2>8. pc[c] = entry + 4 * ((cycles' - start) - owes)
        BY <2>6, <2>7
    <2> QED
        BY <1>1, <2>8 DEF start, owes
<1>5. NoTurnLost'
    BY <1>4 DEF NoTurnLost
<1> QED
    BY <1>2, <1>3, <1>5

LEMMA RunInv ==
    ASSUME TurnInv, NEW by \in {"step", "continue"}, NEW n \in Nat, Run(by, n)
    PROVE  TurnInv'
<1> DEFINE f == [by |-> by, left |-> n, core |-> NumCores]
<1>1. /\ at = "prompt" /\ at' = "run"
      /\ stack' = Append(stack, f) /\ stack \in Seq(Frame)
      /\ UNCHANGED <<loaderVars, coreVars>>
    BY DEF Run, Prompting, TurnInv, StackOK
<1>2. f \in Frame /\ f.core = NumCores
    BY DEF Frame
<1> HIDE DEF f
<1>3. /\ stack' \in Seq(Frame) /\ stack' # <<>>
      /\ Len(stack) \in Nat /\ Len(stack') = Len(stack) + 1
      /\ stack'[Len(stack')] = f
      /\ \A k \in 1 .. Len(stack) : stack'[k] = stack[k]
    BY <1>1, <1>2, CallPushed
<1>4. UNCHANGED <<loaderVars, pc, finished, released, joined>> /\ cycles' = cycles
    BY <1>1 DEF coreVars
<1>5. ASSUME NEW c \in Cores PROVE Owed(c)' = Owed(c)
    <2>1. c < NumCores
        BY DEF Cores
    <2>2. ~(stack'[Len(stack) + 1].core <= c)
        BY <1>2, <1>3, <2>1 DEF Cores
    <2>3. \A k \in 1 .. Len(stack) : stack'[k].core <= c <=> stack[k].core <= c
        BY <1>3
    <2>4. Owed(c)' = {k \in 1 .. Len(stack) + 1 : stack'[k].core <= c}
        BY <1>3 DEF Owed, Owing
    <2>5. Owed(c) = {k \in 1 .. Len(stack) : stack[k].core <= c}
        BY DEF Owed, Owing
    <2> QED
        BY <1>3, <2>2, <2>3, <2>4, <2>5
<1>6. DebugTypeOK' /\ LoadingOK' /\ NoTurnLost'
    <2>1. cycles' \in Nat
        BY <1>4 DEF TurnInv, DebugTypeOK
    <2>2. \A c \in Cores : cycles' - Cardinality(Owed(c)') = cycles - Cardinality(Owed(c))
        BY <1>4, <1>5
    <2> QED
        BY <1>1, <1>3, <1>4, <2>1, <2>2, TurnsBalanced
<1>7. StackOK'
    BY <1>1, <1>2, <1>3 DEF TurnInv, StackOK, Top
<1>8. UnreleasedOK'
    BY <1>1, <1>3, <1>4 DEF TurnInv, UnreleasedOK, loaderVars
<1> QED
    BY <1>6, <1>7, <1>8 DEF TurnInv


LEMMA BeginCycleInv == TurnInv /\ BeginCycle => TurnInv'
<1> SUFFICES ASSUME TurnInv, BeginCycle PROVE TurnInv'
    OBVIOUS
<1> DEFINE f == [Top EXCEPT !.core = 0]
<1>1. /\ at = "run" /\ at' = "turn" /\ Top.left > 0 /\ cycles' = cycles + 1
      /\ stack \in Seq(Frame) /\ stack # <<>> /\ Top.core = NumCores
      /\ UNCHANGED <<loaderVars, pc, finished, released, joined>>
    BY DEF BeginCycle, TurnInv, StackOK
<1>2. Top \in Frame
    BY <1>1, EmptySeq, ElementOfSeq DEF Top
<1>3. f \in Frame /\ f.core = 0 /\ f.left > 0
    <2>1. 0 \in 0 .. NumCores
        OBVIOUS
    <2>2. f \in Frame /\ f.core = 0 /\ f.left = Top.left
        BY <1>2, <2>1 DEF Frame
    <2> QED
        BY <1>1, <2>2
<1>4. stack' = [stack EXCEPT ![Len(stack)] = f]
    BY DEF BeginCycle, Top
<1> HIDE DEF f
<1>5. /\ stack' \in Seq(Frame) /\ stack' # <<>>
      /\ Len(stack) \in Nat \ {0} /\ Len(stack') = Len(stack)
      /\ stack'[Len(stack)] = f
      /\ \A k \in 1 .. Len(stack) - 1 : stack'[k] = stack[k]
    BY <1>1, <1>3, <1>4, TopReplaced
<1>6. ASSUME NEW c \in Cores
      PROVE  cycles' - Cardinality(Owed(c)') = cycles - Cardinality(Owed(c))
    <2>1. c \in Nat /\ c < NumCores
        BY DEF Cores
    <2>2. Len(stack) \notin Owed(c)
        BY <1>1, <2>1 DEF Owed, Owing, Top
    <2>3. stack'[Len(stack)].core <= c
        BY <1>3, <1>5, <2>1
    <2>4. \A k \in 1 .. Len(stack) - 1 : stack'[k].core <= c <=> stack[k].core <= c
        BY <1>5
    <2>5. Owed(c)' = {k \in 1 .. Len(stack) : stack'[k].core <= c}
        BY <1>5 DEF Owed, Owing
    <2>6. Owed(c) = {k \in 1 .. Len(stack) : stack[k].core <= c}
        BY DEF Owed, Owing
    <2>7. Owed(c)' = Owed(c) \union {Len(stack)}
        BY <1>5, <2>3, <2>4, <2>5, <2>6
    <2>8. IsFiniteSet(Owed(c)) /\ Cardinality(Owed(c)) \in Nat
        BY <1>1, OwedFinite
    <2>9. Cardinality(Owed(c)') = Cardinality(Owed(c)) + 1
        BY <2>2, <2>7, <2>8, FS_AddElement
    <2>10. cycles \in Nat
        BY DEF TurnInv, DebugTypeOK
    <2> QED
        BY <1>1, <2>8, <2>9, <2>10
<1>7. DebugTypeOK' /\ LoadingOK' /\ NoTurnLost'
    <2>1. cycles' \in Nat
        BY <1>1 DEF TurnInv, DebugTypeOK
    <2> QED
        BY <1>1, <1>5, <1>6, <2>1, TurnsBalanced
<1>8. StackOK'
    <2>1. \A k \in 1 .. Len(stack) - 1 : stack[k].core < NumCores /\ stack[k].left > 0
        BY <1>1, <1>5 DEF TurnInv, StackOK
    <2>2. \A k \in 1 .. Len(stack') : stack'[k].core < NumCores /\ stack'[k].left > 0
        BY <1>3, <1>5, <2>1
    <2> QED
        BY <1>1, <1>5, <2>2 DEF StackOK
<1>9. UnreleasedOK'
    BY <1>1, <1>5 DEF TurnInv, UnreleasedOK, loaderVars
<1> QED
    BY <1>7, <1>8, <1>9 DEF TurnInv

LEMMA ReturnInv == TurnInv /\ Return => TurnInv'
<1> SUFFICES ASSUME TurnInv, Return PROVE TurnInv'
    OBVIOUS
<1>1. /\ at = "run" /\ stack \in Seq(Frame) /\ stack # <<>> /\ Top.core = NumCores
      /\ UNCHANGED <<loaderVars, pc, finished, released, joined>> /\ cycles' = cycles
    BY DEF Return, TurnInv, StackOK, coreVars
<1>2. Len(stack) \in Nat \ {0} /\ Top \in Frame
    BY <1>1, EmptySeq, ElementOfSeq DEF Top
<1>3. cycles' \in Nat
    BY <1>1 DEF TurnInv, DebugTypeOK
<1>4. ASSUME NEW c \in Cores PROVE Len(stack) \notin Owed(c)
    <2>1. c \in Nat /\ c < NumCores
        BY DEF Cores
    <2> QED
        BY <1>1, <2>1 DEF Owed, Owing, Top
<1>5. CASE /\ stack' = [stack EXCEPT ![Len(stack)].left = 1]
           /\ at' = at
    <2> DEFINE f == [Top EXCEPT !.left = 1]
    <2>1. f \in Frame /\ f.core = NumCores
        BY <1>1, <1>2 DEF Frame
    <2>2. stack' = [stack EXCEPT ![Len(stack)] = f]
        BY <1>5 DEF Top
    <2> HIDE DEF f
    <2>3. /\ stack' \in Seq(Frame) /\ stack' # <<>> /\ Len(stack') = Len(stack)
          /\ stack'[Len(stack)] = f
          /\ \A k \in 1 .. Len(stack) - 1 : stack'[k] = stack[k]
        BY <1>1, <2>1, <2>2, TopReplaced
    <2>4. ASSUME NEW c \in Cores PROVE Owed(c)' = Owed(c)
        <3>1. \A k \in 1 .. Len(stack) : stack'[k].core = stack[k].core
            BY <1>1, <1>2, <2>1, <2>3 DEF Top
        <3> QED
            BY <2>3, <3>1 DEF Owed, Owing
    <2>5. DebugTypeOK' /\ LoadingOK' /\ NoTurnLost'
        <3>1. \A c \in Cores : cycles' - Cardinality(Owed(c)') = cycles - Cardinality(Owed(c))
            BY <1>1, <2>4
        <3> QED
            BY <1>1, <1>3, <1>5, <2>3, <3>1, TurnsBalanced
    <2>6. StackOK'
        BY <1>1, <1>2, <1>5, <2>1, <2>3 DEF TurnInv, StackOK, Top
    <2>7. UnreleasedOK'
        BY <1>1, <1>2, <1>5, <2>3 DEF TurnInv, UnreleasedOK, loaderVars
    <2> QED
        BY <2>5, <2>6, <2>7 DEF TurnInv
<1>6. CASE /\ stack' = SubSeq(stack, 1, Len(stack) - 1)
           /\ at' = "prompt"
    <2>1. /\ stack' \in Seq(Frame) /\ Len(stack') = Len(stack) - 1
          /\ \A k \in 1 .. Len(stack) - 1 : stack'[k] = stack[k]
        BY <1>1, <1>6, CallPopped
    <2>2. ASSUME NEW c \in Cores PROVE Owed(c)' = Owed(c)
        <3>1. Owed(c)' = {k \in 1 .. Len(stack) - 1 : stack[k].core <= c}
            BY <2>1 DEF Owed, Owing
        <3>2. Owed(c) = {k \in 1 .. Len(stack) : stack[k].core <= c}
            BY DEF Owed, Owing
        <3> QED
            BY <1>2, <1>4, <3>1, <3>2
    <2>3. DebugTypeOK' /\ LoadingOK' /\ NoTurnLost'
        <3>1. \A c \in Cores : cycles' - Cardinality(Owed(c)') = cycles - Cardinality(Owed(c))
            BY <1>1, <2>2
        <3> QED
            BY <1>1, <1>3, <1>6, <2>1, <3>1, TurnsBalanced
    <2>4. StackOK'
        <3>1. \A k \in 1 .. Len(stack) - 1 : stack[k].core < NumCores /\ stack[k].left > 0
            BY <1>1, <1>2 DEF TurnInv, StackOK
        <3>2. \A k \in 1 .. Len(stack') : stack'[k].core < NumCores /\ stack'[k].left > 0
            BY <2>1, <3>1
        <3> QED
            BY <1>6, <2>1, <3>2 DEF StackOK
    <2>5. UnreleasedOK'
        BY <1>1, <1>2, <1>6, <2>1 DEF TurnInv, UnreleasedOK, loaderVars
    <2> QED
        BY <2>3, <2>4, <2>5 DEF TurnInv
<1> QED
    BY <1>5, <1>6 DEF Return


----------------------------------------------------------------------------
(* The steps that take a turn. *)

(* The cycles that release the secondary cores within them are those every    *)
(* one of them is still owed a turn in.                                     *)
LEMMA JoinedAtRelease ==
    ASSUME TurnInv, at \in {"turn", "execute"}, NextTurn, ~released, released',
           NEW c \in Cores, c # 0
    PROVE  /\ Cardinality(Owed(c)') \in Nat
           /\ joined' = cycles - Cardinality(Owed(c)')
<1>1. /\ Len(stack) \in Nat \ {0} /\ Len(stack') = Len(stack)
      /\ \A k \in 1 .. Len(stack) - 1 : stack'[k] = stack[k]
      /\ stack'[Len(stack)].core = Top.core + 1
      /\ Top.core \in Cores
    BY TurnEnds DEF TurnInv
<1>2. /\ Top.core + 1 = NumCores
      /\ joined' = cycles - Cardinality({k \in 1 .. Len(stack) - 1 : Owing(k, 1)})
    <2>1. ~(Top.core + 1 < NumCores)
        BY Zenon DEF NextTurn
    <2>2. joined' = cycles - Cardinality({k \in 1 .. Len(stack) - 1 : Owing(k, 1)})
        BY <2>1, Zenon DEF NextTurn
    <2>3. Top.core + 1 = NumCores
        <3>1. Top.core \in Cores
            BY <1>1
        <3> QED
            BY ONLY DebugAssumption, <3>1, <2>1 DEF Cores
    <2> QED
        BY <2>2, <2>3
<1>3. \A k \in 1 .. Len(stack) - 1 : stack[k].core = 0
    BY <1>1 DEF TurnInv, UnreleasedOK
<1>4. c \in Nat /\ c < NumCores /\ 0 <= c
    BY DEF Cores
<1>5. {k \in 1 .. Len(stack) - 1 : Owing(k, 1)} = 1 .. Len(stack) - 1
    BY <1>3 DEF Owing
<1>6. Owed(c)' = 1 .. Len(stack) - 1
    <2>1. Owed(c)' = {k \in 1 .. Len(stack) : stack'[k].core <= c}
        BY <1>1 DEF Owed, Owing
    <2>2. \A k \in 1 .. Len(stack) - 1 : stack'[k].core <= c
        BY <1>1, <1>3, <1>4
    <2>3. ~(stack'[Len(stack)].core <= c)
        BY <1>1, <1>2, <1>4
    <2> QED
        BY <1>1, <2>1, <2>2, <2>3
<1>7. Cardinality(1 .. Len(stack) - 1) \in Nat
    <2>1. Len(stack) - 1 \in Int
        BY <1>1
    <2>2. IsFiniteSet(1 .. Len(stack) - 1)
        BY <2>1, FS_Interval
    <2> QED
        BY <2>2, FS_CardinalityType
<1> QED
    BY <1>2, <1>5, <1>6, <1>7

(* A turn that moves a core that may step, and no other, one instruction on.  *)
LEMMA TurnInvKept ==
    ASSUME TurnInv, at \in {"turn", "execute"}, NextTurn,
           UNCHANGED <<loaderVars, cycles>>,
           pc' \in [Cores -> Nat], finished' \in [Cores -> BOOLEAN],
           \A c \in Cores \ {Top.core} : pc'[c] = pc[c] /\ finished'[c] = finished[c],
           finished[Top.core] => finished'[Top.core],
           MayStep(Top.core) /\ ~finished'[Top.core] => pc'[Top.core] = pc[Top.core] + 4,
           ~released /\ Top.core # 0 =>
                pc'[Top.core] = pc[Top.core] /\ finished'[Top.core] = finished[Top.core]
    PROVE  TurnInv'
<1>1. /\ stack' \in Seq(Frame) /\ stack' # <<>>
      /\ Len(stack) \in Nat \ {0} /\ Len(stack') = Len(stack)
      /\ \A k \in 1 .. Len(stack) - 1 : stack'[k] = stack[k]
      /\ Top.core \in Cores
      /\ stack'[Len(stack)].core = Top.core + 1
      /\ at' = IF Top.core + 1 < NumCores THEN "turn" ELSE "run"
      /\ at' = "turn" => stack'[Len(stack)].left > 0
    BY TurnEnds DEF TurnInv
<1>2. entry' = entry /\ image' = image /\ cycles' = cycles
    BY DEF loaderVars
<1>3. at' \in {"turn", "run"} /\ (released => released')
    BY <1>1 DEF NextTurn
<1>4. /\ at \notin {"load", "ended"} /\ cycles \in Nat /\ joined \in Int /\ entry \in Nat
      /\ released \in BOOLEAN /\ pc \in [Cores -> Nat]
    BY DEF TurnInv, DebugTypeOK
<1>5. released => joined' = joined
    BY <1>3 DEF NextTurn
<1>6. \A c \in Cores \ {0} : ~released => pc'[c] = entry /\ ~finished'[c]
    BY <1>4 DEF TurnInv, UnreleasedOK
<1>7. DebugTypeOK'
    <2>1. released' \in BOOLEAN
        BY <1>4 DEF NextTurn
    <2>2. joined' \in Int
        <3>1. Cardinality({k \in 1 .. Len(stack) - 1 : Owing(k, 1)}) \in Nat
            <4>1. Len(stack) - 1 \in Int
                BY <1>1
            <4>2. IsFiniteSet(1 .. Len(stack) - 1)
                BY <4>1, FS_Interval
            <4>3. {k \in 1 .. Len(stack) - 1 : Owing(k, 1)} \in SUBSET (1 .. Len(stack) - 1)
                OBVIOUS
            <4> QED
                BY <4>2, <4>3, FS_Subset, FS_CardinalityType
        <3> QED
            BY <1>4, <3>1 DEF NextTurn
    <2> QED
        BY <1>2, <1>3, <2>1, <2>2 DEF TurnInv, DebugTypeOK
<1>8. LoadingOK'
    BY <1>3 DEF LoadingOK
<1>9. StackOK'
    <2>1. \A k \in 1 .. Len(stack) - 1 : stack'[k].core < NumCores /\ stack'[k].left > 0
        BY <1>1 DEF TurnInv, StackOK
    <2>2. at' = "run" => stack'[Len(stack')].core = NumCores
        BY <1>1 DEF Cores
    <2>3. at' = "turn" => stack'[Len(stack)].core < NumCores /\ stack'[Len(stack)].left > 0
        BY <1>1
    <2>4. \A k \in 1 .. Len(stack') :
            \/ stack'[k].core < NumCores /\ stack'[k].left > 0
            \/ k = Len(stack') /\ at' = "run"
        BY <1>1, <1>3, <2>1, <2>3
    <2> QED
        BY <1>1, <1>3, <2>2, <2>4 DEF StackOK, Top
<1>10. UnreleasedOK'
    <2>1. ~released => \A k \in 1 .. Len(stack) - 1 : stack'[k].core = 0
        BY <1>1 DEF TurnInv, UnreleasedOK
    <2>2. ~released => \A k \in 1 .. Len(stack') :
            stack'[k].core = 0 \/ (k = Len(stack') /\ at' \in {"run", "turn"})
        BY <1>1, <1>3, <2>1
    <2> QED
        BY <1>2, <1>3, <1>6, <2>2 DEF UnreleasedOK
<1>11. ASSUME NEW c \in Cores, MayStep(c)'
       PROVE  pc'[c] = entry' + 4 * ((cycles' - (IF c = 0 THEN 0 ELSE joined'))
                                         - Cardinality(Owed(c)'))
    <2>1. ~finished'[c] /\ (c = 0 \/ released')
        BY <1>11 DEF MayStep
    <2>2. CASE c = 0 \/ released
        <3> DEFINE start == IF c = 0 THEN 0 ELSE joined
                   owed == Cardinality(Owed(c))
                   owes == Cardinality(Owed(c)')
        <3>1. MayStep(c)
            BY <2>1, <2>2 DEF MayStep
        <3>2. /\ pc[c] = entry + 4 * ((cycles - start) - owed)
              /\ start = (IF c = 0 THEN 0 ELSE joined') /\ start \in Int
            <4>1. pc[c] = entry + 4 * ((cycles - start) - owed)
                BY <1>4, <3>1 DEF TurnInv, NoTurnLost
            <4>2. start = (IF c = 0 THEN 0 ELSE joined') /\ start \in Int
                <5>1. c # 0 => joined' = joined
                    BY <1>5, <2>2, Zenon
                <5>2. joined \in Int /\ 0 \in Int
                    BY <1>4
                <5> QED
                    BY <5>1, <5>2, Zenon
            <4> QED
                BY <4>1, <4>2
        <3>3. owed \in Nat /\ owes = IF c = Top.core THEN owed - 1 ELSE owed
            BY OneTurnLess DEF TurnInv
        <3>4. pc'[c] = IF c = Top.core THEN pc[c] + 4 ELSE pc[c]
            BY <2>1, <3>1
        <3>5. pc'[c] = entry + 4 * ((cycles - start) - owes)
            <4> HIDE DEF start, owed, owes
            <4>1. pc[c] \in Nat
                BY <1>4
            <4>2. CASE c = Top.core
                BY <1>4, <3>2, <3>3, <3>4, <4>1, <4>2
            <4>3. CASE c # Top.core
                BY <1>4, <3>2, <3>3, <3>4, <4>1, <4>3
            <4> QED
                BY <4>2, <4>3
        <3> HIDE DEF owes
        <3> QED
            BY <1>2, <3>2, <3>5 DEF owes
    <2>3. CASE c # 0 /\ ~released
        <3> DEFINE owes == Cardinality(Owed(c)')
        <3>1. owes \in Nat /\ joined' = cycles - owes
            BY <2>1, <2>3, JoinedAtRelease
        <3>2. pc'[c] = entry
            BY <1>6, <2>3
        <3> HIDE DEF owes
        <3>3. entry = entry + 4 * ((cycles - joined') - owes)
            BY <1>4, <3>1
        <3> QED
            BY <1>2, <2>3, <3>2, <3>3 DEF owes
    <2> QED
        BY <2>2, <2>3
<1>12. NoTurnLost'
    BY <1>11 DEF NoTurnLost
<1> QED
    BY <1>7, <1>8, <1>9, <1>10, <1>12 DEF TurnInv


LEMMA SkipTurnInv == TurnInv /\ SkipTurn => TurnInv'
<1> SUFFICES ASSUME TurnInv, SkipTurn PROVE TurnInv'
    OBVIOUS
<1>1. /\ at = "turn" /\ ~MayStep(Top.core) /\ NextTurn
      /\ UNCHANGED <<loaderVars, cycles>> /\ pc' = pc /\ finished' = finished
    BY DEF SkipTurn
<1>2. pc \in [Cores -> Nat] /\ finished \in [Cores -> BOOLEAN]
    BY DEF TurnInv, DebugTypeOK
<1> QED
    BY <1>1, <1>2, TurnInvKept

LEMMA ExecuteInv == TurnInv /\ Execute => TurnInv'
<1> SUFFICES ASSUME TurnInv, Execute PROVE TurnInv'
    OBVIOUS
<1> DEFINE t == Top.core
<1>1. /\ at = "execute" /\ NextTurn /\ UNCHANGED <<loaderVars, cycles>>
      /\ pc' = [pc EXCEPT ![t] = IF Instr(pc[t]) = "stop" THEN pc[t] ELSE pc[t] + 4]
      /\ finished' = [finished EXCEPT ![t] = finished[t] \/ Instr(pc'[t]) = "stop"]
    BY DEF Execute
<1>2. pc \in [Cores -> Nat] /\ finished \in [Cores -> BOOLEAN]
    BY DEF TurnInv, DebugTypeOK
<1>3. t \in Cores
    BY <1>1, TurnEnds DEF TurnInv
<1>4. ~released => t = 0
    <2>1. Len(stack) \in 1 .. Len(stack)
        BY <1>1, TurnEnds DEF TurnInv
    <2> QED
        BY <1>1, <2>1 DEF TurnInv, UnreleasedOK, Top
<1> HIDE DEF t
<1>5. /\ pc' \in [Cores -> Nat] /\ finished' \in [Cores -> BOOLEAN]
      /\ \A c \in Cores \ {t} : pc'[c] = pc[c] /\ finished'[c] = finished[c]
      /\ finished[t] => finished'[t]
    BY <1>1, <1>2, <1>3
<1>6. ~finished'[t] => pc'[t] = pc[t] + 4
    <2>1. pc'[t] = IF Instr(pc[t]) = "stop" THEN pc[t] ELSE pc[t] + 4
        BY <1>1, <1>2, <1>3
    <2>2. ~finished'[t] => Instr(pc'[t]) # "stop"
        BY <1>1, <1>2, <1>3
    <2> QED
        BY <2>1, <2>2
<1> QED
    BY <1>1, <1>4, <1>5, <1>6, TurnInvKept DEF t

----------------------------------------------------------------------------
(* The program is loaded. *)

(* A nonempty set of naturals has a least element. *)
LEMMA Least ==
    ASSUME NEW T, T \subseteq Nat, T # {}
    PROVE  \E x \in T : \A y \in T : x <= y
<1> DEFINE R == {ss \in Nat \X Nat : ss[1] < ss[2]}
<1>1. IsWellFoundedOn(R, Nat)
    BY NatLessThanWellFounded DEF OpToRel
<1> HIDE DEF R
<1>2. PICK x \in T : \A y \in T : ~(<<y, x>> \in R)
    BY <1>1, WFMin
<1>3. \A y \in T : ~(y < x)
    BY <1>2 DEF R
<1> QED
    BY <1>3

(* The entry point is one of the numbers of the file. *)
LEMMA EntryInNat ==
    ASSUME image \in Images, entry \in Nat, LoaderNext
    PROVE  image' = image /\ entry' \in Nat
<1>1. image.entry \in Nat /\ image.symbols \in Seq(Symbol)
    BY LoaderAssumption DEF Image
<1>2. SymbolStart \in Nat
    <2> DEFINE found == {k \in DOMAIN image.symbols : image.symbols[k].name = "_start"}
    <2>1. DOMAIN image.symbols = 1 .. Len(image.symbols)
        BY <1>1, LenProperties
    <2>2. ASSUME found # {} PROVE Min(found) \in DOMAIN image.symbols
        <3>1. \E x \in found : \A y \in found : x <= y
            <4>1. found \subseteq Nat
                BY <2>1
            <4> HIDE DEF found
            <4> QED
                BY <2>2, <4>1, Least
        <3>2. Min(found) \in found
            <4> HIDE DEF found
            <4> QED
                BY <3>1 DEF Min
        <3> QED
            BY <3>2
    <2>3. \A k \in DOMAIN image.symbols : image.symbols[k].value \in Nat
        <3>1. \A k \in DOMAIN image.symbols : image.symbols[k] \in Symbol
            BY <1>1, <2>1, ElementOfSeq
        <3> QED
            BY <3>1 DEF Symbol
    <2> QED
        BY <2>2, <2>3 DEF SymbolStart
<1> QED
    BY <1>1, <1>2 DEF LoaderNext, Open, LoadSegment, FindEntry, WriteSegment, SegmentsWritten,
                      CopyRaw, WriteRaw, ClearBss

LEMMA LoadInv == TurnInv /\ Load => TurnInv'
<1> SUFFICES ASSUME TurnInv, Load PROVE TurnInv'
    OBVIOUS
<1>1. /\ at = "load" /\ LoaderNext
      /\ UNCHANGED <<stack, finished, released, cycles, joined>>
      /\ pc' = IF phase' = "loaded" THEN [c \in Cores |-> entry'] ELSE pc
    BY DEF Load
<1>2. /\ at' \in {"load", "prompt", "ended"}
      /\ at' = "prompt" => phase' = "loaded"
    BY DEF Load
<1>3. /\ stack = <<>> /\ ~released /\ cycles = 0
      /\ \A c \in Cores : ~finished[c]
    BY <1>1 DEF TurnInv, LoadingOK
<1>4. image' \in Images /\ entry' \in Nat
    BY <1>1, EntryInNat DEF TurnInv, DebugTypeOK
<1>5. DebugTypeOK'
    BY <1>1, <1>2, <1>4 DEF TurnInv, DebugTypeOK
<1>6. LoadingOK'
    BY <1>1, <1>3 DEF LoadingOK
<1>7. Len(stack') = 0
    BY <1>1, <1>3
<1>8. StackOK'
    BY <1>1, <1>2, <1>7 DEF TurnInv, StackOK
<1>9. UnreleasedOK'
    BY <1>1, <1>2, <1>3, <1>7 DEF UnreleasedOK
<1>10. NoTurnLost'
    <2>1. ASSUME at' = "prompt", NEW c \in Cores, MayStep(c)'
          PROVE  pc'[c] = entry' + 4 * ((cycles' - (IF c = 0 THEN 0 ELSE joined'))
                                            - Cardinality(Owed(c)'))
        <3>1. c = 0 /\ pc'[c] = entry' /\ cycles' = 0
            BY <1>1, <1>2, <1>3, <2>1 DEF MayStep
        <3>2. Owed(c)' = {}
            BY <1>7 DEF Owed
        <3>3. Cardinality(Owed(c)') = 0
            BY <3>2, FS_EmptySet
        <3> QED
            BY <1>4, <3>1, <3>3
    <2> QED
        BY <1>2, <2>1 DEF NoTurnLost
<1> QED
    BY <1>5, <1>6, <1>8, <1>9, <1>10 DEF TurnInv

----------------------------------------------------------------------------
(* The theorem. *)

LEMMA TurnInit == Init => TurnInv
<1> SUFFICES ASSUME Init PROVE TurnInv
    OBVIOUS
<1>1. /\ at = "load" /\ stack = <<>> /\ released = FALSE /\ cycles = 0 /\ joined = 0
      /\ pc = [c \in Cores |-> 0] /\ finished = [c \in Cores |-> FALSE]
      /\ image \in Images /\ entry = 0
    BY DEF Init, LoaderInit
<1>2. stack \in Seq(Frame) /\ Len(stack) = 0
    BY <1>1, EmptySeq
<1>3. pc \in [Cores -> Nat] /\ finished \in [Cores -> BOOLEAN]
    BY <1>1
<1>4. DebugTypeOK
    <2>1. entry \in Nat /\ cycles \in Nat /\ joined \in Int
        BY <1>1
    <2>2. released \in BOOLEAN
        BY <1>1, Zenon
    <2> QED
        BY <1>1, <1>3, <2>1, <2>2, Zenon DEF DebugTypeOK
<1>5. LoadingOK
    BY <1>1 DEF LoadingOK
<1>6. StackOK
    BY <1>1, <1>2 DEF StackOK
<1>7. UnreleasedOK
    BY <1>1, <1>2 DEF UnreleasedOK
<1>8. NoTurnLost
    BY <1>1 DEF NoTurnLost
<1> QED
    BY <1>4, <1>5, <1>6, <1>7, <1>8 DEF TurnInv

LEMMA TurnNext == TurnInv /\ [Next]_vars => TurnInv'
<1> SUFFICES ASSUME TurnInv, [Next]_vars PROVE TurnInv'
    OBVIOUS
<1>1. CASE Command
    <2>1. CASE \E n \in Counts : Run("step", n)
        BY <2>1, RunInv
    <2>2. CASE Run("continue", 1)
        BY <2>2, RunInv
    <2>3. CASE UNCHANGED <<loaderVars, stack, coreVars, at>>
        BY <2>3, SameControl
    <2> QED
        BY <1>1, <2>1, <2>2, <2>3 DEF Command, Break, Delete, Quit
<1>2. CASE CloseInput \/ UNCHANGED vars
    BY <1>2, SameControl DEF CloseInput, vars
<1>3. CASE Internal
    BY <1>3, LoadInv, LeaveLoopInv, BeginCycleInv, ReturnInv, SkipTurnInv, StepInv, ExecuteInv
        DEF Internal
<1> QED
    BY <1>1, <1>2, <1>3 DEF Next

LEMMA TurnInvHolds == Spec => []TurnInv
BY TurnInit, TurnNext, PTL DEF Spec

(* However the command loops of Debugger nest in the steps of cores that      *)
(* Simulator::debug_run gives out, every core that may step has executed one *)
(* instruction for each cycle begun since, but for the turns still owed to   *)
(* it: for any number of cores, any program and any session.                *)
THEOREM NoTurnLostHolds == Spec => []NoTurnLost
BY TurnInvHolds, PTL DEF TurnInv

----------------------------------------------------------------------------
(* The loader: its inductive invariant. *)

Below == 0 .. BssEnd - 1

(* Segment k of the file supplies the byte at address a. *)
Holds(k, a) ==
    LET s == image.segments[k]
    IN  s.load /\ InFile(s) /\ a \in s.paddr .. s.paddr + s.filesz - 1

Byte(k, a) ==
    image.file[image.segments[k].offset + (a - image.segments[k].paddr) + 1]

(* The bytes b are what the first n segments supply at a. *)
Supplied(n, a, b) ==
    \/ \E k \in 1 .. n : Holds(k, a) /\ b = Byte(k, a)
    \/ (\A k \in 1 .. n : ~Holds(k, a)) /\ b = 0

MemoryHas(n) == \A a \in Below : Supplied(n, a, memory[a])
DdrHas(n) == \A a \in Below : Supplied(n, a, ddr[a])

(* No segment but those from n on reaches beyond maxLoaded. *)
Reached(n) ==
    \A k \in 1 .. n : image.segments[k].load =>
        image.segments[k].paddr + image.segments[k].memsz <= maxLoaded

Segments == Len(image.segments)

LoadingElfOK ==
    phase \in {"load", "write"} =>
        /\ image.kind = "elf"
        /\ seg \in 1 .. Segments + 1
        /\ phase = "load" => MemoryHas(seg - 1) /\ DdrHas(0) /\ Reached(seg - 1)
        /\ phase = "write" => MemoryHas(Segments) /\ DdrHas(seg - 1) /\ Reached(Segments)

LoadingRawOK ==
    phase \in {"copy", "writeRaw"} =>
        /\ image.kind = "raw" /\ Len(image.file) <= MemSize
        /\ DdrHas(0)
        /\ phase = "copy" => MemoryHas(0)
        /\ phase = "writeRaw" => \A a \in Below : memory[a] = Expected(a)

LoadedOK ==
    phase \in {"clear", "loaded"} =>
        /\ \A a \in Below : memory[a] = Expected(a) /\ ddr[a] = Expected(a)
        /\ phase = "clear" => \A a \in Below : maxLoaded <= a => Expected(a) = 0

LoaderInv ==
    /\ phase \in {"open", "load", "write", "copy", "writeRaw", "clear", "loaded", "failed"}
    /\ image \in Images /\ maxLoaded \in Nat
    /\ memory[PhaseAddr] = 1
    /\ phase = "open" => seg = 1 /\ MemoryHas(0) /\ DdrHas(0)
    /\ LoadingElfOK /\ LoadingRawOK /\ LoadedOK

----------------------------------------------------------------------------
(* Where a linker places segments. *)

LEMMA PaddedBounds ==
    ASSUME NEW n \in Nat
    PROVE  /\ Padded(n) \in Nat /\ n <= Padded(n)
           /\ \A m \in Nat : m <= n => Padded(m) <= Padded(n)
BY DEF Padded

(* The segments of a program, its bytes, and the room of each segment. *)
LEMMA SegmentsPlaced ==
    ASSUME image \in Images, NEW k \in 1 .. Segments
    PROVE  /\ image.segments[k].load \in BOOLEAN
           /\ image.segments[k].paddr \in Nat /\ image.segments[k].filesz \in Nat
           /\ image.segments[k].memsz \in Nat /\ image.segments[k].offset \in Nat
           /\ image.kind = "elf" /\ image.segments[k].load =>
                /\ image.segments[k].filesz <= image.segments[k].memsz
                /\ image.segments[k].paddr + Padded(image.segments[k].memsz) <= BssEnd
<1>1. image.segments \in Seq(Segment)
    BY LoaderAssumption DEF Image
<1>2. k \in DOMAIN image.segments /\ image.segments[k] \in Segment
    BY <1>1, ElementOfSeq, LenProperties DEF Segments
<1>3. WellPlaced(image)
    BY PlacementAssumption
<1> QED
    BY <1>2, <1>3 DEF WellPlaced, Segment

(* No two segments share a word. *)
LEMMA RoomsApart ==
    ASSUME image \in Images, image.kind = "elf",
           NEW j \in 1 .. Segments, NEW k \in 1 .. Segments, j # k,
           image.segments[j].load, image.segments[k].load, NEW a
    PROVE  ~(a \in Room(image.segments[j]) /\ a \in Room(image.segments[k]))
<1>1. image.segments \in Seq(Segment)
    BY LoaderAssumption DEF Image
<1>2. j \in DOMAIN image.segments /\ k \in DOMAIN image.segments
    BY <1>1, LenProperties DEF Segments
<1>3. WellPlaced(image)
    BY PlacementAssumption
<1> QED
    BY <1>2, <1>3 DEF WellPlaced

LEMMA HeldBytes ==
    ASSUME NEW k, NEW a, Holds(k, a)
    PROVE  a \in image.segments[k].paddr
                    .. image.segments[k].paddr + image.segments[k].filesz - 1
BY DEF Holds

(* The bytes a segment supplies lie in its room. *)
LEMMA HeldInRoom ==
    ASSUME image \in Images, image.kind = "elf", NEW k \in 1 .. Segments,
           NEW a, Holds(k, a)
    PROVE  image.segments[k].load /\ a \in Room(image.segments[k])
<1>1. /\ image.segments[k].paddr \in Nat /\ image.segments[k].filesz \in Nat
      /\ image.segments[k].memsz \in Nat /\ image.segments[k].load
      /\ image.segments[k].filesz <= image.segments[k].memsz
    BY SegmentsPlaced DEF Holds
<1>2. image.segments[k].memsz <= Padded(image.segments[k].memsz)
      /\ Padded(image.segments[k].memsz) \in Nat
    BY <1>1, PaddedBounds
<1>3. a \in image.segments[k].paddr .. image.segments[k].paddr + image.segments[k].filesz - 1
    BY DEF Holds
<1> QED
    BY <1>1, <1>2, <1>3 DEF Room

(* So that at most one segment supplies a byte. *)
LEMMA OneHolder ==
    ASSUME image \in Images, image.kind = "elf",
           NEW j \in 1 .. Segments, NEW k \in 1 .. Segments, NEW a,
           Holds(j, a), a \in Room(image.segments[k]), image.segments[k].load
    PROVE  j = k
BY HeldInRoom, RoomsApart

(* Once all segments are treated, their bytes are what the file says. *)
LEMMA SuppliedIsExpected ==
    ASSUME image \in Images, image.kind = "elf", NEW a, NEW b, Supplied(Segments, a, b)
    PROVE  b = Expected(a)
<1> DEFINE there == {k \in DOMAIN image.segments :
                        LET s == image.segments[k]
                        IN  s.load /\ InFile(s) /\ a \in s.paddr .. s.paddr + s.filesz - 1}
<1>1. DOMAIN image.segments = 1 .. Segments /\ Segments \in Nat
    BY LoaderAssumption, LenProperties DEF Image, Segments
<1>2. there = {k \in 1 .. Segments : Holds(k, a)}
    BY <1>1 DEF Holds
<1> HIDE DEF there
<1>3. Expected(a) = IF there = {} THEN 0 ELSE Byte(Max(there), a)
    BY DEF Expected, Byte, there
<1>4. CASE there = {}
    BY <1>2, <1>3, <1>4 DEF Supplied
<1>5. CASE there # {}
    <2>1. PICK k \in 1 .. Segments : Holds(k, a) /\ b = Byte(k, a)
        BY <1>2, <1>5 DEF Supplied
    <2>2. there = {k}
        BY <1>2, <2>1, HeldInRoom, OneHolder
    <2>3. Max(there) = k
        BY <1>1, <2>2 DEF Max
    <2> QED
        BY <1>3, <1>5, <2>1, <2>3
<1> QED
    BY <1>4, <1>5

----------------------------------------------------------------------------
(* The steps of the loader. *)

Bounded == MemSize \in Nat /\ BssEnd \in Nat /\ PhaseAddr \in Nat
           /\ BssEnd <= PhaseAddr /\ PhaseAddr < MemSize

LEMMA InMemory ==
    /\ Bounded
    /\ PhaseAddr \in Address /\ PhaseAddr \notin Below
    /\ \A a \in Below : a \in Address /\ a \in Nat
BY LoaderAssumption DEF Bounded, Address, Below

(* write_word of n bytes at t writes the words they take up, no other. *)
LEMMA WriteOutEffect ==
    ASSUME NEW t \in Nat, NEW n \in Nat, WriteOut(t, n), NEW a \in Address
    PROVE  /\ a \in t .. t + n - 1 => ddr'[a] = memory[a] /\ memory'[a] = memory[a]
           /\ a \in t + n .. t + Padded(n) - 1 =>
                ddr'[a] = 0 /\ (memory'[a] = 0 \/ memory'[a] = memory[a])
           /\ a \notin t .. t + Padded(n) - 1 =>
                ddr'[a] = ddr[a] /\ memory'[a] = memory[a]
<1> DEFINE words == {t + 4 * j : j \in 0 .. ((n + 3) \div 4) - 1}
           InWord == \E w \in words : a \in w .. w + 3
           Inside == \E w \in words : a \in w .. w + 3 /\ w + 4 <= MemSize
           byte == IF a < t + n THEN memory[a] ELSE 0
<1>1. /\ ddr'[a] = IF InWord THEN byte ELSE ddr[a]
      /\ memory'[a] = IF Inside THEN byte ELSE memory[a]
    BY DEF WriteOut
<1>2. a \in Nat
    BY LoaderAssumption DEF Address
<1>3. InWord <=> a \in t .. t + Padded(n) - 1
    <2>1. ASSUME NEW j \in 0 .. ((n + 3) \div 4) - 1, a \in t + 4 * j .. (t + 4 * j) + 3
          PROVE  a \in t .. t + Padded(n) - 1
        BY <1>2, <2>1 DEF Padded
    <2>2. ASSUME a \in t .. t + Padded(n) - 1
          PROVE  \E j \in 0 .. ((n + 3) \div 4) - 1 : a \in t + 4 * j .. (t + 4 * j) + 3
        <3> DEFINE j == (a - t) \div 4
        <3>1. j \in 0 .. ((n + 3) \div 4) - 1 /\ a \in t + 4 * j .. (t + 4 * j) + 3
            BY <1>2, <2>2 DEF Padded
        <3> QED
            BY <3>1
    <2> QED
        BY <2>1, <2>2
<1>4. Inside => InWord
    OBVIOUS
<1>5. Padded(n) \in Nat /\ n <= Padded(n)
    BY PaddedBounds
<1> HIDE DEF words, InWord, Inside
<1>6. a \in t .. t + n - 1 => InWord /\ byte = memory[a]
    BY <1>2, <1>3, <1>5
<1>7. a \in t + n .. t + Padded(n) - 1 => InWord /\ byte = 0
    BY <1>2, <1>3, <1>5
<1> HIDE DEF byte
<1> QED
    BY <1>1, <1>3, <1>4, <1>6, <1>7

LEMMA LargerOfTwo ==
    ASSUME NEW x \in Nat, NEW y \in Nat
    PROVE  Max({x, y}) \in Nat /\ x <= Max({x, y}) /\ y <= Max({x, y})
<1>1. \E z \in {x, y} : \A w \in {x, y} : z >= w
    OBVIOUS
<1>2. Max({x, y}) \in {x, y} /\ \A w \in {x, y} : Max({x, y}) >= w
    BY <1>1 DEF Max
<1> QED
    BY <1>2

(* What a segment leaves of an address outside its room. *)
LEMMA NotHeld ==
    ASSUME image \in Images, image.kind = "elf", NEW k \in 1 .. Segments,
           NEW n \in Nat, n = k - 1, NEW a, NEW b, Supplied(n, a, b), ~Holds(k, a)
    PROVE  Supplied(k, a, b)
<1>1. 1 .. k = (1 .. n) \union {k}
    OBVIOUS
<1> QED
    BY <1>1 DEF Supplied

LEMMA LoadSegmentInv ==
    ASSUME LoaderInv, LoadSegment
    PROVE  LoaderInv'
<1>1. /\ phase = "load" /\ phase' = "load" /\ image' = image /\ ddr' = ddr
      /\ seg' = seg + 1 /\ image.kind = "elf" /\ image \in Images
      /\ seg \in 1 .. Segments /\ Segments \in Nat /\ Segments' = Segments
    <2>1. /\ phase = "load" /\ UNCHANGED <<image, phase, ddr, entry>> /\ seg' = seg + 1
          /\ seg <= Segments
        BY DEF LoadSegment, Segments
    <2>2. image.kind = "elf" /\ seg \in 1 .. Segments + 1 /\ image \in Images
        BY <2>1 DEF LoaderInv, LoadingElfOK
    <2>3. Segments \in Nat
        BY <2>2, LoaderAssumption, LenProperties DEF Image, Segments
    <2> QED
        BY <2>1, <2>2, <2>3 DEF Segments
<1>2. /\ MemoryHas(seg - 1) /\ DdrHas(0) /\ Reached(seg - 1)
      /\ memory[PhaseAddr] = 1 /\ maxLoaded \in Nat
    BY <1>1 DEF LoaderInv, LoadingElfOK
<1> DEFINE s == image.segments[seg]
           end == s.paddr + s.memsz
<1>3. /\ s.load \in BOOLEAN /\ s.paddr \in Nat /\ s.filesz \in Nat /\ s.memsz \in Nat
      /\ s.load => s.filesz <= s.memsz /\ s.paddr + Padded(s.memsz) <= BssEnd
    BY <1>1, SegmentsPlaced
<1>4. Padded(s.memsz) \in Nat /\ s.memsz <= Padded(s.memsz)
    BY <1>3, PaddedBounds
<1>5. s.load => end <= BssEnd /\ end \in Nat /\ Fits(s)
    BY <1>3, <1>4, InMemory DEF Fits, Target, Bounded
<1>6. ~s.load => memory' = memory /\ maxLoaded' = maxLoaded
    BY <1>1 DEF LoadSegment, Fits
<1>7. s.load => /\ memory' = [a \in Address |->
                    CASE a \in s.paddr .. s.paddr + s.filesz - 1 /\ InFile(s) ->
                            image.file[s.offset + (a - s.paddr) + 1]
                      [] a \in s.paddr + s.filesz .. s.paddr + s.memsz - 1 -> 0
                      [] OTHER -> memory[a]]
                /\ maxLoaded' = Max({maxLoaded, end})
    BY <1>5 DEF LoadSegment, Target
<1>8. ASSUME NEW a \in Below PROVE Supplied(seg, a, memory'[a])
    <2>1. Supplied(seg - 1, a, memory[a])
        BY <1>2, <1>8 DEF MemoryHas
    <2>2. CASE ~s.load
        <3>1. ~Holds(seg, a)
            BY <2>2 DEF Holds
        <3> QED
            BY <1>1, <1>6, <2>1, <2>2, <3>1, NotHeld
    <2>3. CASE s.load
        <3>1. a \in Nat /\ a \in Address
            BY <1>8, InMemory
        <3>2. Holds(seg, a) <=> InFile(s) /\ a \in s.paddr .. s.paddr + s.filesz - 1
            BY <2>3 DEF Holds
        <3>3. CASE Holds(seg, a)
            <4>1. memory'[a] = Byte(seg, a)
                <5>1. a \in s.paddr .. s.paddr + s.filesz - 1 /\ InFile(s)
                    BY <3>2, <3>3
                <5>2. a \notin s.paddr + s.filesz .. s.paddr + s.memsz - 1
                    BY <1>3, <3>1, <5>1
                <5> HIDE DEF s
                <5>3. memory'[a] = image.file[s.offset + (a - s.paddr) + 1]
                    BY <1>7, <2>3, <3>1, <5>1, <5>2
                <5> QED
                    BY <5>3 DEF Byte, s
            <4> QED
                BY <1>1, <3>3, <4>1 DEF Supplied
        <3>4. CASE ~Holds(seg, a) /\ a \in s.paddr + s.filesz .. s.paddr + s.memsz - 1
            <4>1. memory'[a] = 0
                BY <1>7, <2>3, <3>1, <3>2, <3>4
            <4>2. a \in Room(s)
                BY <1>3, <1>4, <3>1, <3>4 DEF Room
            <4>3. \A k \in 1 .. Segments : Holds(k, a) => k = seg
                BY <1>1, <2>3, <4>2, OneHolder
            <4>4. \A k \in 1 .. seg : ~Holds(k, a)
                BY <1>1, <3>4, <4>3
            <4> QED
                BY <4>1, <4>4 DEF Supplied
        <3>5. CASE ~Holds(seg, a) /\ a \notin s.paddr + s.filesz .. s.paddr + s.memsz - 1
            <4>1. memory'[a] = memory[a]
                BY <1>7, <2>3, <3>1, <3>2, <3>5
            <4> QED
                BY <1>1, <2>1, <3>5, <4>1, NotHeld
        <3> QED
            BY <3>3, <3>4, <3>5
    <2> QED
        BY <1>3, <2>2, <2>3
<1>9. maxLoaded' \in Nat /\ maxLoaded <= maxLoaded' /\ (s.load => end <= maxLoaded')
    BY <1>2, <1>3, <1>5, <1>6, <1>7, LargerOfTwo
<1>10. memory'[PhaseAddr] = 1
    <2>1. CASE ~s.load
        BY <1>2, <1>6, <2>1
    <2>2. CASE s.load
        <3>1. /\ PhaseAddr \notin s.paddr .. s.paddr + s.filesz - 1
              /\ PhaseAddr \notin s.paddr + s.filesz .. s.paddr + s.memsz - 1
            BY <1>3, <1>5, <2>2, InMemory DEF Bounded
        <3> QED
            BY <1>2, <1>7, <2>2, <3>1, InMemory
    <2> QED
        BY <1>3, <2>1, <2>2
<1>11. Reached(seg - 1)'
    <2>1. ASSUME NEW k \in 1 .. seg, image.segments[k].load
          PROVE  image.segments[k].paddr + image.segments[k].memsz <= maxLoaded'
        <3>1. CASE k = seg
            BY <1>9, <2>1, <3>1
        <3>2. CASE k # seg
            <4>1. k \in 1 .. seg - 1 /\ k \in 1 .. Segments
                BY <1>1, <3>2
            <4>2. image.segments[k].paddr + image.segments[k].memsz <= maxLoaded
                BY <1>2, <2>1, <4>1 DEF Reached
            <4>3. image.segments[k].paddr \in Nat /\ image.segments[k].memsz \in Nat
                BY <1>1, <4>1, SegmentsPlaced
            <4> QED
                BY <1>2, <1>9, <4>2, <4>3
        <3> QED
            BY <3>1, <3>2
    <2>2. seg' - 1 = seg
        BY <1>1
    <2> QED
        BY <1>1, <2>1, <2>2 DEF Reached
<1>12. MemoryHas(seg - 1)'
    <2>1. seg' - 1 = seg
        BY <1>1
    <2> QED
        BY <1>1, <1>8, <2>1 DEF MemoryHas, Supplied, Holds, Byte, InFile
<1>13. DdrHas(0)'
    BY <1>1, <1>2 DEF DdrHas, Supplied, Holds, Byte, InFile
<1>14. LoadingElfOK'
    BY <1>1, <1>11, <1>12, <1>13 DEF LoadingElfOK
<1> QED
    BY <1>1, <1>9, <1>10, <1>14 DEF LoaderInv, LoadingRawOK, LoadedOK

LEMMA OpenInv == LoaderInv /\ Open => LoaderInv'
<1> SUFFICES ASSUME LoaderInv, Open PROVE LoaderInv'
    OBVIOUS
<1>1. /\ phase = "open" /\ image' = image /\ seg' = seg /\ memory' = memory
      /\ ddr' = ddr /\ maxLoaded' = maxLoaded
      /\ image \in Images /\ seg = 1 /\ MemoryHas(0) /\ DdrHas(0)
      /\ memory[PhaseAddr] = 1 /\ maxLoaded \in Nat
    BY DEF Open, LoaderInv
<1>2. \/ phase' = "failed"
      \/ phase' = "load" /\ image.kind = "elf"
      \/ phase' = "copy" /\ image.kind = "raw" /\ Len(image.file) <= MemSize
    <2>1. image.kind \in {"missing", "elf", "elf64", "raw"} /\ Len(image.file) \in Nat
        BY <1>1, LoaderAssumption, LenProperties DEF Image
    <2> QED
        BY <2>1, InMemory DEF Open, Bounded
<1>3. MemoryHas(0)' /\ DdrHas(0)'
    BY <1>1 DEF MemoryHas, DdrHas, Supplied
<1>4. Segments \in Nat /\ Segments' = Segments
    BY <1>1, LoaderAssumption, LenProperties DEF Image, Segments
<1>5. LoadingElfOK'
    <2>1. CASE phase' = "load"
        <3>1. MemoryHas(seg - 1)'
            BY <1>1, <1>3
        <3>2. Reached(seg - 1)'
            BY <1>1 DEF Reached
        <3> QED
            BY <1>1, <1>2, <1>3, <1>4, <2>1, <3>1, <3>2 DEF LoadingElfOK
    <2>2. CASE phase' # "load"
        BY <1>2, <2>2 DEF LoadingElfOK
    <2> QED
        BY <2>1, <2>2
<1>6. LoadingRawOK'
    BY <1>1, <1>2, <1>3 DEF LoadingRawOK
<1> QED
    BY <1>1, <1>2, <1>5, <1>6 DEF LoaderInv, LoadedOK

LEMMA FindEntryInv == LoaderInv /\ FindEntry => LoaderInv'
<1> SUFFICES ASSUME LoaderInv, FindEntry PROVE LoaderInv'
    OBVIOUS
<1>1. /\ phase = "load" /\ phase' = "write" /\ image' = image /\ memory' = memory
      /\ ddr' = ddr /\ maxLoaded' = maxLoaded /\ seg' = 1
      /\ image \in Images /\ memory[PhaseAddr] = 1 /\ maxLoaded \in Nat
      /\ seg > Segments
    BY DEF FindEntry, LoaderInv, Segments
<1>2. Segments \in Nat /\ Segments' = Segments
    BY <1>1, LoaderAssumption, LenProperties DEF Image, Segments
<1>3. /\ image.kind = "elf" /\ seg \in 1 .. Segments + 1
      /\ MemoryHas(seg - 1) /\ DdrHas(0) /\ Reached(seg - 1)
    BY <1>1 DEF LoaderInv, LoadingElfOK
<1>4. seg - 1 = Segments
    BY <1>1, <1>2, <1>3
<1>5. MemoryHas(Segments) /\ Reached(Segments)
    BY <1>3, <1>4
<1>6. MemoryHas(Segments)' /\ Reached(Segments)'
    BY <1>1, <1>2, <1>5 DEF MemoryHas, Reached, Supplied, Holds, Byte, InFile
<1>7. DdrHas(seg - 1)'
    <2>1. seg' - 1 = 0
        BY <1>1
    <2> QED
        BY <1>1, <1>3, <2>1 DEF DdrHas, Supplied
<1>8. LoadingElfOK'
    BY <1>1, <1>2, <1>3, <1>6, <1>7 DEF LoadingElfOK
<1> QED
    BY <1>1, <1>8 DEF LoaderInv, LoadingRawOK, LoadedOK

(* The write of a segment brings its bytes into the DDR memory, and fills the *)
(* last word up with zeros, which is all there is in the simulator's memory. *)
LEMMA WriteSegmentInv == LoaderInv /\ WriteSegment => LoaderInv'
<1> SUFFICES ASSUME LoaderInv, WriteSegment PROVE LoaderInv'
    OBVIOUS
<1> DEFINE s == image.segments[seg]
<1>1. /\ phase = "write" /\ phase' = "write" /\ image' = image
      /\ maxLoaded' = maxLoaded /\ seg' = seg + 1 /\ seg <= Segments
      /\ image \in Images /\ memory[PhaseAddr] = 1 /\ maxLoaded \in Nat
    BY DEF WriteSegment, LoaderInv, Segments
<1>2. Segments \in Nat /\ Segments' = Segments
    BY <1>1, LoaderAssumption, LenProperties DEF Image, Segments
<1>3. /\ image.kind = "elf" /\ seg \in 1 .. Segments + 1
      /\ MemoryHas(Segments) /\ DdrHas(seg - 1) /\ Reached(Segments)
    BY <1>1 DEF LoaderInv, LoadingElfOK
<1>4. seg \in 1 .. Segments /\ seg' - 1 = seg
    BY <1>1, <1>2, <1>3
<1>5. /\ s.load \in BOOLEAN /\ s.paddr \in Nat /\ s.filesz \in Nat /\ s.memsz \in Nat
      /\ s.load => s.filesz <= s.memsz /\ s.paddr + Padded(s.memsz) <= BssEnd
    BY <1>1, <1>3, <1>4, SegmentsPlaced
<1>6. \/ s.load /\ s.filesz > 0 /\ WriteOut(s.paddr, s.filesz)
      \/ ~(s.load /\ s.filesz > 0) /\ memory' = memory /\ ddr' = ddr
    BY DEF WriteSegment, Target
<1>7. CASE s.load /\ s.filesz > 0 /\ WriteOut(s.paddr, s.filesz)
    <2> DEFINE end == s.paddr + s.filesz
               wend == s.paddr + Padded(s.filesz)
    <2>1. /\ end \in Nat /\ wend \in Nat /\ end <= wend /\ wend <= BssEnd
          /\ wend <= s.paddr + Padded(s.memsz) /\ Padded(s.memsz) \in Nat
        BY <1>5, <1>7, PaddedBounds, InMemory DEF Bounded
    <2>2. ASSUME NEW a \in Address
          PROVE  /\ a \in s.paddr .. end - 1 => ddr'[a] = memory[a] /\ memory'[a] = memory[a]
                 /\ a \in end .. wend - 1 =>
                        ddr'[a] = 0 /\ (memory'[a] = 0 \/ memory'[a] = memory[a])
                 /\ a \notin s.paddr .. wend - 1 => ddr'[a] = ddr[a] /\ memory'[a] = memory[a]
        <3> DEFINE t == s.paddr
                   n == s.filesz
        <3>1. t \in Nat /\ n \in Nat /\ WriteOut(t, n)
            BY <1>5, <1>7
        <3> HIDE DEF t, n
        <3>2. /\ a \in t .. (t + n) - 1 => ddr'[a] = memory[a] /\ memory'[a] = memory[a]
              /\ a \in t + n .. (t + Padded(n)) - 1 =>
                    ddr'[a] = 0 /\ (memory'[a] = 0 \/ memory'[a] = memory[a])
              /\ a \notin t .. (t + Padded(n)) - 1 =>
                    ddr'[a] = ddr[a] /\ memory'[a] = memory[a]
            <4>1. t + n - 1 = (t + n) - 1 /\ t + Padded(n) - 1 = (t + Padded(n)) - 1
                BY <3>1, PaddedBounds
            <4> QED
                BY ONLY <2>2, <3>1, <4>1, WriteOutEffect
        <3> QED
            BY <3>2, Zenon DEF t, n, end, wend
    <2>3. ASSUME NEW a \in Below
          PROVE  Supplied(Segments, a, memory'[a]) /\ Supplied(seg, a, ddr'[a])
        <3>1. a \in Address /\ a \in Nat
            BY <2>3, InMemory
        <3>2. Supplied(Segments, a, memory[a]) /\ Supplied(seg - 1, a, ddr[a])
            BY <1>3, <2>3 DEF MemoryHas, DdrHas
        <3>3. Holds(seg, a) => a \in s.paddr .. end - 1
            <4>1. Holds(seg, a) => a \in s.paddr .. s.paddr + s.filesz - 1
                BY HeldBytes, Zenon DEF s
            <4>2. s.paddr + s.filesz - 1 = end - 1
                BY <1>5
            <4> QED
                BY <4>1, <4>2, Zenon
        <3>4. a \in s.paddr .. wend - 1 => \A k \in 1 .. Segments : Holds(k, a) => k = seg
            <4>1. a \in s.paddr .. wend - 1 => a \in Room(s)
                BY <1>5, <2>1, <3>1 DEF Room
            <4> QED
                BY <1>1, <1>3, <1>4, <1>7, <4>1, OneHolder
        <3>5. CASE a \in s.paddr .. end - 1
            <4>1. ddr'[a] = memory[a] /\ memory'[a] = memory[a]
                BY <2>2, <3>1, <3>5
            <4>2. \A k \in 1 .. Segments : Holds(k, a) => k = seg
                BY <1>5, <2>1, <3>1, <3>4, <3>5
            <4>3. Supplied(seg, a, memory[a])
                <5>1. CASE Holds(seg, a)
                    <6>1. memory[a] = Byte(seg, a)
                        BY <1>4, <3>2, <4>2, <5>1 DEF Supplied
                    <6> QED
                        BY <1>4, <5>1, <6>1 DEF Supplied
                <5>2. CASE ~Holds(seg, a)
                    <6>1. \A k \in 1 .. Segments : ~Holds(k, a)
                        BY <4>2, <5>2
                    <6>2. memory[a] = 0
                        BY <3>2, <6>1 DEF Supplied
                    <6>3. \A k \in 1 .. seg : ~Holds(k, a)
                        BY <1>2, <1>4, <6>1
                    <6> QED
                        BY <6>2, <6>3 DEF Supplied
                <5> QED
                    BY <5>1, <5>2
            <4> QED
                BY <3>2, <4>1, <4>3
        <3>6. CASE a \in end .. wend - 1
            <4>1. ddr'[a] = 0 /\ (memory'[a] = 0 \/ memory'[a] = memory[a])
                BY <2>2, <3>1, <3>6
            <4>2. ~Holds(seg, a)
                BY <2>1, <3>1, <3>3, <3>6
            <4>3. \A k \in 1 .. Segments : ~Holds(k, a)
                BY <1>5, <2>1, <3>1, <3>4, <3>6, <4>2
            <4>4. memory[a] = 0
                BY <3>2, <4>3 DEF Supplied
            <4>5. \A k \in 1 .. seg : ~Holds(k, a)
                BY <1>2, <1>4, <4>3
            <4> QED
                BY <4>1, <4>3, <4>4, <4>5 DEF Supplied
        <3>7. CASE a \notin s.paddr .. wend - 1
            <4>1. ddr'[a] = ddr[a] /\ memory'[a] = memory[a]
                BY <2>2, <3>1, <3>7
            <4>2. ~Holds(seg, a)
                BY <1>5, <2>1, <3>1, <3>3, <3>7
            <4>3. Supplied(seg, a, ddr[a])
                BY <1>1, <1>3, <1>4, <3>2, <4>2, NotHeld
            <4> QED
                BY <3>2, <4>1, <4>3
        <3> QED
            BY <1>5, <2>1, <3>1, <3>5, <3>6, <3>7
    <2>4. memory'[PhaseAddr] = 1
        <3>1. PhaseAddr \notin s.paddr .. wend - 1
            BY <2>1, InMemory DEF Bounded
        <3> QED
            BY <1>1, <2>2, <3>1, InMemory
    <2>5. MemoryHas(Segments)' /\ DdrHas(seg - 1)'
        BY <1>1, <1>2, <1>4, <2>3 DEF MemoryHas, DdrHas, Supplied, Holds, Byte, InFile
    <2>6. Reached(Segments)'
        BY <1>1, <1>2, <1>3 DEF Reached
    <2>7. LoadingElfOK'
        BY <1>1, <1>2, <1>3, <1>4, <2>5, <2>6 DEF LoadingElfOK
    <2> QED
        BY <1>1, <2>4, <2>7 DEF LoaderInv, LoadingRawOK, LoadedOK
<1>8. CASE ~(s.load /\ s.filesz > 0) /\ memory' = memory /\ ddr' = ddr
    <2>1. ASSUME NEW a \in Below
          PROVE  Supplied(Segments, a, memory'[a]) /\ Supplied(seg, a, ddr'[a])
        <3>1. Supplied(Segments, a, memory[a]) /\ Supplied(seg - 1, a, ddr[a])
            BY <1>3, <2>1 DEF MemoryHas, DdrHas
        <3>2. ~Holds(seg, a)
            BY <1>5, <1>8 DEF Holds
        <3> QED
            BY <1>1, <1>3, <1>4, <1>8, <3>1, <3>2, NotHeld
    <2>2. MemoryHas(Segments)' /\ DdrHas(seg - 1)'
        BY <1>1, <1>2, <1>4, <2>1 DEF MemoryHas, DdrHas, Supplied, Holds, Byte, InFile
    <2>3. Reached(Segments)'
        BY <1>1, <1>2, <1>3 DEF Reached
    <2>4. LoadingElfOK'
        BY <1>1, <1>2, <1>3, <1>4, <2>2, <2>3 DEF LoadingElfOK
    <2> QED
        BY <1>1, <1>8, <2>4 DEF LoaderInv, LoadingRawOK, LoadedOK
<1> QED
    BY <1>6, <1>7, <1>8


(* Beyond what was loaded the file says nothing. *)
LEMMA SegmentsWrittenInv == LoaderInv /\ SegmentsWritten => LoaderInv'
<1> SUFFICES ASSUME LoaderInv, SegmentsWritten PROVE LoaderInv'
    OBVIOUS
<1>1. /\ phase = "write" /\ phase' = "clear" /\ image' = image /\ memory' = memory
      /\ ddr' = ddr /\ maxLoaded' = maxLoaded
      /\ image \in Images /\ memory[PhaseAddr] = 1 /\ maxLoaded \in Nat
      /\ seg > Segments
    BY DEF SegmentsWritten, LoaderInv, Segments
<1>2. Segments \in Nat
    BY <1>1, LoaderAssumption, LenProperties DEF Image, Segments
<1>3. /\ image.kind = "elf" /\ seg \in 1 .. Segments + 1
      /\ MemoryHas(Segments) /\ DdrHas(seg - 1) /\ Reached(Segments)
    BY <1>1 DEF LoaderInv, LoadingElfOK
<1>4. seg - 1 = Segments
    BY <1>1, <1>2, <1>3
<1>5. ASSUME NEW a \in Below PROVE memory[a] = Expected(a) /\ ddr[a] = Expected(a)
    <2>1. Supplied(Segments, a, memory[a]) /\ Supplied(Segments, a, ddr[a])
        BY <1>3, <1>4, <1>5 DEF MemoryHas, DdrHas
    <2> QED
        BY <1>1, <1>3, <2>1, SuppliedIsExpected
<1>6. ASSUME NEW a \in Below, maxLoaded <= a PROVE Expected(a) = 0
    <2>1. ASSUME NEW k \in 1 .. Segments, Holds(k, a) PROVE FALSE
        <3> DEFINE s == image.segments[k]
        <3>1. s.load /\ a \in s.paddr .. s.paddr + s.filesz - 1
            BY <2>1, HeldBytes DEF Holds
        <3>2. /\ s.paddr \in Nat /\ s.filesz \in Nat /\ s.memsz \in Nat
              /\ s.filesz <= s.memsz /\ a \in Nat
            BY <1>1, <1>3, <1>6, <3>1, SegmentsPlaced, InMemory
        <3>3. s.paddr + s.memsz <= maxLoaded
            BY <1>3, <3>1 DEF Reached
        <3> HIDE DEF s
        <3> QED
            BY <1>1, <1>6, <3>1, <3>2, <3>3
    <2>2. Supplied(Segments, a, 0)
        BY <2>1 DEF Supplied
    <2> QED
        BY <1>1, <1>3, <2>2, SuppliedIsExpected
<1>7. \A a : Expected(a)' = Expected(a)
    BY <1>1 DEF Expected, InFile
<1>8. LoadedOK'
    BY <1>1, <1>5, <1>6, <1>7 DEF LoadedOK
<1> QED
    BY <1>1, <1>8 DEF LoaderInv, LoadingElfOK, LoadingRawOK

(* A raw binary lies below the MMIO region. *)
LEMMA RawPlaced ==
    ASSUME image \in Images, image.kind = "raw", Len(image.file) <= MemSize
    PROVE  /\ Len(image.file) \in Nat /\ Padded(Len(image.file)) \in Nat
           /\ Len(image.file) <= Padded(Len(image.file))
           /\ Padded(Len(image.file)) <= BssEnd
<1>1. Len(image.file) \in Nat
    BY LoaderAssumption, LenProperties DEF Image
<1>2. Padded(Len(image.file)) <= BssEnd
    BY PlacementAssumption DEF WellPlaced
<1> QED
    BY <1>1, <1>2, PaddedBounds

LEMMA CopyRawInv == LoaderInv /\ CopyRaw => LoaderInv'
<1> SUFFICES ASSUME LoaderInv, CopyRaw PROVE LoaderInv'
    OBVIOUS
<1>1. /\ phase = "copy" /\ phase' = "writeRaw" /\ image' = image /\ ddr' = ddr
      /\ maxLoaded' = maxLoaded
      /\ image \in Images /\ memory[PhaseAddr] = 1 /\ maxLoaded \in Nat
    BY DEF CopyRaw, LoaderInv
<1>2. /\ image.kind = "raw" /\ Len(image.file) <= MemSize
      /\ DdrHas(0) /\ MemoryHas(0)
    BY <1>1 DEF LoaderInv, LoadingRawOK
<1>3. \A a \in Address :
        memory'[a] = IF a < Len(image.file) THEN image.file[a + 1] ELSE memory[a]
    BY DEF CopyRaw
<1>4. ASSUME NEW a \in Below PROVE memory'[a] = Expected(a)
    <2>1. a \in Address /\ memory[a] = 0
        BY <1>2, <1>4, InMemory DEF MemoryHas, Supplied
    <2> QED
        BY <1>2, <1>3, <2>1 DEF Expected
<1>5. memory'[PhaseAddr] = 1
    <2>1. ~(PhaseAddr < Len(image.file))
        BY <1>1, <1>2, RawPlaced, InMemory DEF Bounded
    <2> QED
        BY <1>1, <1>3, <2>1, InMemory
<1>6. \A a : Expected(a)' = Expected(a)
    BY <1>1 DEF Expected, InFile
<1>7. DdrHas(0)'
    BY <1>1, <1>2 DEF DdrHas, Supplied
<1>8. LoadingRawOK'
    BY <1>1, <1>2, <1>4, <1>6, <1>7 DEF LoadingRawOK
<1> QED
    BY <1>1, <1>5, <1>8 DEF LoaderInv, LoadingElfOK, LoadedOK

LEMMA WriteRawInv == LoaderInv /\ WriteRaw => LoaderInv'
<1> SUFFICES ASSUME LoaderInv, WriteRaw PROVE LoaderInv'
    OBVIOUS
<1> DEFINE n == Len(image.file)
<1>1. /\ phase = "writeRaw" /\ phase' = "clear" /\ image' = image
      /\ maxLoaded' = n /\ WriteOut(0, n)
      /\ image \in Images /\ memory[PhaseAddr] = 1
    BY DEF WriteRaw, LoaderInv
<1>2. /\ image.kind = "raw" /\ n <= MemSize
      /\ DdrHas(0) /\ \A a \in Below : memory[a] = Expected(a)
    BY <1>1 DEF LoaderInv, LoadingRawOK
<1>3. n \in Nat /\ Padded(n) \in Nat /\ n <= Padded(n) /\ Padded(n) <= BssEnd
    BY <1>1, <1>2, RawPlaced
<1>4. \A a : Expected(a) = IF a < n THEN image.file[a + 1] ELSE 0
    BY <1>2 DEF Expected
<1> HIDE DEF n
<1>5. ASSUME NEW a \in Address
      PROVE  /\ a < n => ddr'[a] = memory[a] /\ memory'[a] = memory[a]
             /\ n <= a /\ a < Padded(n) =>
                    ddr'[a] = 0 /\ (memory'[a] = 0 \/ memory'[a] = memory[a])
             /\ Padded(n) <= a => ddr'[a] = ddr[a] /\ memory'[a] = memory[a]
    <2>1. /\ a \in 0 .. 0 + n - 1 => ddr'[a] = memory[a] /\ memory'[a] = memory[a]
          /\ a \in 0 + n .. 0 + Padded(n) - 1 =>
                ddr'[a] = 0 /\ (memory'[a] = 0 \/ memory'[a] = memory[a])
          /\ a \notin 0 .. 0 + Padded(n) - 1 => ddr'[a] = ddr[a] /\ memory'[a] = memory[a]
        BY <1>1, <1>3, <1>5, WriteOutEffect
    <2>2. a \in Nat
        BY <1>5, LoaderAssumption DEF Address
    <2> QED
        BY <1>3, <2>1, <2>2
<1>6. ASSUME NEW a \in Below PROVE memory'[a] = Expected(a) /\ ddr'[a] = Expected(a)
    <2>1. a \in Address /\ a \in Nat /\ memory[a] = Expected(a) /\ ddr[a] = 0
        BY <1>2, <1>6, InMemory DEF DdrHas, Supplied
    <2>2. CASE a < n
        BY <1>5, <2>1, <2>2
    <2>3. CASE ~(a < n)
        <3>1. Expected(a) = 0 /\ n <= a
            BY <1>3, <1>4, <2>1, <2>3
        <3>2. a < Padded(n) \/ Padded(n) <= a
            BY <1>3, <2>1
        <3> QED
            BY <1>5, <2>1, <3>1, <3>2
    <2> QED
        BY <2>2, <2>3
<1>7. ASSUME NEW a \in Below, maxLoaded' <= a PROVE Expected(a) = 0
    <2>1. a \in Nat
        BY <1>7, InMemory
    <2> QED
        BY <1>1, <1>3, <1>4, <1>7, <2>1
<1>8. memory'[PhaseAddr] = 1
    BY <1>1, <1>3, <1>5, InMemory DEF Bounded
<1>9. \A a : Expected(a)' = Expected(a)
    BY <1>1 DEF Expected, InFile
<1>10. LoadedOK'
    BY <1>1, <1>6, <1>7, <1>9 DEF LoadedOK
<1> QED
    BY <1>1, <1>3, <1>8, <1>10 DEF LoaderInv, LoadingElfOK, LoadingRawOK

LEMMA ClearBssInv == LoaderInv /\ ClearBss => LoaderInv'
<1> SUFFICES ASSUME LoaderInv, ClearBss PROVE LoaderInv'
    OBVIOUS
<1>1. /\ phase = "clear" /\ phase' = "loaded" /\ image' = image /\ ddr' = ddr
      /\ maxLoaded' = maxLoaded
      /\ image \in Images /\ memory[PhaseAddr] = 1 /\ maxLoaded \in Nat
    BY DEF ClearBss, LoaderInv
<1>2. /\ \A a \in Below : memory[a] = Expected(a) /\ ddr[a] = Expected(a)
      /\ \A a \in Below : maxLoaded <= a => Expected(a) = 0
    BY <1>1 DEF LoaderInv, LoadedOK
<1>3. \A a \in Address :
        memory'[a] = IF maxLoaded <= a /\ a < BssEnd THEN 0 ELSE memory[a]
    BY DEF ClearBss
<1>4. \A a \in Below : memory'[a] = Expected(a) /\ ddr'[a] = Expected(a)
    BY <1>1, <1>2, <1>3, InMemory
<1>5. memory'[PhaseAddr] = 1
    <2>1. ~(PhaseAddr < BssEnd)
        BY InMemory DEF Bounded
    <2> QED
        BY <1>1, <1>3, <2>1, InMemory
<1>6. \A a : Expected(a)' = Expected(a)
    BY <1>1 DEF Expected, InFile
<1>7. LoadedOK'
    BY <1>1, <1>4, <1>6 DEF LoadedOK
<1> QED
    BY <1>1, <1>5, <1>7 DEF LoaderInv, LoadingElfOK, LoadingRawOK

----------------------------------------------------------------------------
(* Both memories hold the program. *)

LEMMA LoaderInitInv == LoaderInit => LoaderInv
<1> SUFFICES ASSUME LoaderInit PROVE LoaderInv
    OBVIOUS
<1>1. /\ image \in Images /\ phase = "open" /\ seg = 1 /\ maxLoaded = 0
      /\ \A a \in Address : memory[a] = (IF a = PhaseAddr THEN 1 ELSE 0) /\ ddr[a] = 0
    BY DEF LoaderInit
<1>2. memory[PhaseAddr] = 1
    BY <1>1, InMemory
<1>3. \A a \in Below : memory[a] = 0 /\ ddr[a] = 0
    BY <1>1, InMemory
<1>4. MemoryHas(0) /\ DdrHas(0)
    BY <1>3 DEF MemoryHas, DdrHas, Supplied
<1> QED
    BY <1>1, <1>2, <1>4 DEF LoaderInv, LoadingElfOK, LoadingRawOK, LoadedOK

(* Nothing but load_program touches the two memories in a session. *)
LEMMA LoaderNextInv == LoaderInv /\ [Next]_vars => LoaderInv'
<1> SUFFICES ASSUME LoaderInv, [Next]_vars PROVE LoaderInv'
    OBVIOUS
<1>1. CASE LoaderNext
    BY <1>1, OpenInv, LoadSegmentInv, FindEntryInv, WriteSegmentInv, SegmentsWrittenInv,
       CopyRawInv, WriteRawInv, ClearBssInv DEF LoaderNext
<1>2. CASE UNCHANGED loaderVars
    <2>1. /\ image' = image /\ phase' = phase /\ seg' = seg /\ memory' = memory
          /\ ddr' = ddr /\ maxLoaded' = maxLoaded
        BY <1>2 DEF loaderVars
    <2>2. \A a : Expected(a)' = Expected(a)
        BY <2>1 DEF Expected, InFile
    <2>3. Segments' = Segments
        BY <2>1 DEF Segments
    <2>4. LoadingElfOK'
        BY <2>1, <2>3 DEF LoaderInv, LoadingElfOK, MemoryHas, DdrHas, Reached, Supplied,
                          Holds, Byte, InFile
    <2>5. LoadingRawOK'
        BY <2>1, <2>2 DEF LoaderInv, LoadingRawOK, MemoryHas, DdrHas, Supplied
    <2>6. LoadedOK'
        BY <2>1, <2>2 DEF LoaderInv, LoadedOK
    <2>7. phase = "open" => MemoryHas(0)' /\ DdrHas(0)'
        BY <2>1 DEF LoaderInv, MemoryHas, DdrHas, Supplied
    <2> QED
        BY <2>1, <2>4, <2>5, <2>6, <2>7 DEF LoaderInv
<1>3. CASE UNCHANGED vars
    BY <1>2, <1>3 DEF vars
<1>4. CASE Command \/ CloseInput
    BY <1>2, <1>4 DEF Command, Break, Delete, Run, Quit, CloseInput
<1>5. CASE Internal
    BY <1>1, <1>2, <1>5 DEF Internal, Load, LeaveLoop, BeginCycle, Return, SkipTurn, Step, Execute
<1> QED
    BY <1>3, <1>4, <1>5 DEF Next

(* Whatever well-placed program load_program is given, an ELF file with its   *)
(* segments in any order and of any length or a raw binary, the simulator's  *)
(* memory and the DDR memory both hold it when the debugger starts, with its *)
(* .bss cleared, and the monitor's phase is as it was.                       *)
THEOREM ProgramInBothMemoriesHolds == Spec => []ProgramInBothMemories
<1>1. LoaderInv => ProgramInBothMemories
    BY DEF LoaderInv, LoadedOK, ProgramInBothMemories, Below
<1>2. Init => LoaderInv
    BY LoaderInitInv DEF Init
<1> QED
    BY <1>1, <1>2, LoaderNextInv, PTL DEF Spec


=============================================================================

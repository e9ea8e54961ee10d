------------------------------- MODULE Plic --------------------------------
(***************************************************************************)
(* The platform-level interrupt controller, class PLIC of                   *)
(* src/interrupt/PLIC.cpp: sources that become pending, targets (the cores) *)
(* that claim the best of them and complete it.  A bitmap is the set of the *)
(* bits that are 1; source 0 is reserved.                                   *)
(*                                                                         *)
(* Every operation is one call, under plic_mutex_ where the code takes it;   *)
(* `locked' is a mutex that the thread which holds it has locked again.     *)
(* In the emulator Core::update_mip_csr asks has_pending_interrupts and      *)
(* nothing calls the other operations, so their callers are left open.      *)
(***************************************************************************)
EXTENDS Integers

CONSTANTS
    NumSources,     \* num_sources_
    NumTargets,     \* num_targets_
    Levels,         \* the priorities and thresholds that are written
    MaxRaises       \* bound on the calls that raise a source or, with
                    \* claim_interrupt, hand one out

ASSUME PlicAssumption ==
    /\ NumSources \in Nat \ {0, 1}
    /\ NumTargets \in Nat \ {0}
    /\ Levels \subseteq Nat
    /\ MaxRaises \in Nat

Sources == 1 .. NumSources - 1      \* is_valid_source_id
Targets == 0 .. NumTargets - 1      \* is_valid_target_id

VARIABLES
    priorities, \* priorities_
    pending,    \* pending_
    enable,     \* enable_[t]
    thresholds, \* thresholds_
    claimed,    \* claimed_[t]; 0 for none
    locked,     \* plic_mutex_ has been locked twice by one thread
    raises,     \* the calls counted against MaxRaises
    owed        \* history: owed[s] is the number of times s became pending
                \* for which no claim has returned s yet

configVars == <<priorities, enable, thresholds>>
plicVars == <<priorities, pending, enable, thresholds, claimed, locked, raises, owed>>

PlicInit ==
    /\ priorities = [s \in Sources |-> 0]
    /\ pending = {}
    /\ enable = [t \in Targets |-> {}]
    /\ thresholds = [t \in Targets |-> 0]
    /\ claimed = [t \in Targets |-> 0]
    /\ locked = FALSE
    /\ raises = 0
    /\ owed = [s \in Sources |-> 0]

----------------------------------------------------------------------------
(* Mutant of Better: the last of several equal sources wins. *)
BetterOrEqual(t, best, s) ==
    IF /\ s \in pending /\ s \in enable[t]
       /\ priorities[s] > thresholds[t]
       /\ priorities[s] >= IF best = 0 THEN 0 ELSE priorities[best]
    THEN s ELSE best

(* The body of the loop of find_highest_priority_pending: source s is looked  *)
(* at when the best so far is `best'.                                       *)
Better(t, best, s) ==
    IF /\ s \in pending /\ s \in enable[t]
       /\ priorities[s] > thresholds[t]
       /\ priorities[s] > IF best = 0 THEN 0 ELSE priorities[best]
    THEN s ELSE best

(* The best for target t after the sources up to n. *)
BestUpTo(t) ==
    LET best[n \in 0 .. NumSources - 1] ==
            IF n = 0 THEN 0 ELSE Better(t, best[n - 1], n)
    IN  best

(* find_highest_priority_pending. *)
FindHighest(t) == BestUpTo(t)[NumSources - 1]

(* update_pending_bit(s, true) for set_pending. *)
Raise(s) ==
    /\ raises < MaxRaises
    /\ s \notin pending
    /\ pending' = pending \union {s}
    /\ raises' = raises + 1
    /\ owed' = [owed EXCEPT ![s] = @ + 1]
    /\ UNCHANGED <<configVars, claimed, locked>>

(* set_pending(s, false). *)
Lower(s) ==
    /\ s \in pending
    /\ pending' = pending \ {s}
    /\ owed' = [owed EXCEPT ![s] = @ - 1]
    /\ UNCHANGED <<configVars, claimed, locked, raises>>

(* Mutant of SetPriority: the level is not cut to three bits. *)
SetPriorityUnmasked(s, level) ==
    /\ ~locked
    /\ priorities' = [priorities EXCEPT ![s] = level]
    /\ UNCHANGED <<pending, enable, thresholds, claimed, locked, raises, owed>>

(* set_priority and the write to a priority register. *)
SetPriority(s, level) ==
    /\ ~locked
    /\ priorities' = [priorities EXCEPT ![s] = level % 8]
    /\ UNCHANGED <<pending, enable, thresholds, claimed, locked, raises, owed>>

(* set_threshold and the write to a threshold register. *)
SetThreshold(t, level) ==
    /\ ~locked
    /\ thresholds' = [thresholds EXCEPT ![t] = level % 8]
    /\ UNCHANGED <<priorities, pending, enable, claimed, locked, raises, owed>>

(* set_enable, which takes no lock. *)
SetEnable(t, s, enabled) ==
    /\ enable' = [enable EXCEPT ![t] = IF enabled THEN @ \union {s} ELSE @ \ {s}]
    /\ UNCHANGED <<priorities, pending, thresholds, claimed, locked, raises, owed>>

(* Mutant of Claim: the pending bit is left. *)
ClaimLeavesPending(t) ==
    LET s == FindHighest(t)
    IN  /\ ~locked /\ claimed[t] = 0 /\ s # 0
        /\ claimed' = [claimed EXCEPT ![t] = s]
        /\ owed' = [owed EXCEPT ![s] = @ - 1]
        /\ UNCHANGED <<configVars, pending, locked, raises>>

(* claim, on a target that holds no claim and has a source to take.  On any   *)
(* other it changes nothing: it returns the claim that is held, or 0.       *)
Claim(t) ==
    LET s == FindHighest(t)
    IN  /\ ~locked /\ claimed[t] = 0 /\ s # 0
        /\ claimed' = [claimed EXCEPT ![t] = s]
        /\ pending' = pending \ {s}
        /\ owed' = [owed EXCEPT ![s] = @ - 1]
        /\ UNCHANGED <<configVars, locked, raises>>

(* claim_interrupt: target t is given source s, whatever either was doing. *)
ClaimInterrupt(t, s) ==
    /\ ~locked /\ raises < MaxRaises
    /\ claimed' = [claimed EXCEPT ![t] = s]
    /\ pending' = pending \ {s}
    /\ raises' = raises + 1
    /\ owed' = [owed EXCEPT ![s] = 0]
    /\ UNCHANGED <<configVars, locked>>


(* complete and complete_interrupt; a source the target does not hold is     *)
(* ignored.                                                                 *)
Complete(t, s) ==
    /\ ~locked /\ claimed[t] = s
    /\ claimed' = [claimed EXCEPT ![t] = 0]
    /\ UNCHANGED <<configVars, pending, locked, raises, owed>>

(* read and write on the claim/complete register lock the mutex and then     *)
(* call claim and complete, which lock it again: the call never returns.    *)
MmioClaimComplete ==
    /\ ~locked
    /\ locked' = TRUE
    /\ UNCHANGED <<configVars, pending, claimed, raises, owed>>

Configure ==
    \/ \E s \in Sources, level \in Levels : SetPriority(s, level)
    \/ \E t \in Targets, level \in Levels : SetThreshold(t, level)
    \/ \E t \in Targets, s \in Sources, e \in BOOLEAN : SetEnable(t, s, e)

PlicNext ==
    \/ Configure
    \/ \E s \in Sources : Raise(s) \/ Lower(s)
    \/ \E t \in Targets : Claim(t)
    \/ \E t \in Targets, s \in Sources : Complete(t, s) \/ ClaimInterrupt(t, s)
    \/ MmioClaimComplete

(* Every target keeps claiming and completes what it has claimed. *)
Fairness == \A t \in Targets :
                /\ WF_plicVars(Claim(t))
                /\ WF_plicVars(\E s \in Sources : Complete(t, s))

PlicSpec == PlicInit /\ [][PlicNext]_plicVars /\ Fairness

----------------------------------------------------------------------------
(* Type correctness: priorities and thresholds keep to three bits. *)
PlicTypeOK ==
    /\ priorities \in [Sources -> 0 .. 7]
    /\ pending \subseteq Sources
    /\ enable \in [Targets -> SUBSET Sources]
    /\ thresholds \in [Targets -> 0 .. 7]
    /\ claimed \in [Targets -> Sources \union {0}]
    /\ locked \in BOOLEAN
    /\ raises \in 0 .. MaxRaises
    /\ owed \in [Sources -> Int]

(* The sources target t would be interrupted for. *)
Candidates(t) ==
    {s \in pending \cap enable[t] : priorities[s] > thresholds[t]}

(* The loop of find_highest_priority_pending returns a candidate of the       *)
(* highest priority, the lowest-numbered one of several, and 0 if and only  *)
(* if there is none, so that a target's line is up exactly when a claim     *)
(* would be served.                                                         *)
FindsBest ==
    \A t \in Targets :
        LET best == FindHighest(t)
        IN  IF Candidates(t) = {} THEN best = 0
            ELSE /\ best \in Candidates(t)
                 /\ \A s \in Candidates(t) :
                        \/ priorities[s] < priorities[best]
                        \/ priorities[s] = priorities[best] /\ best <= s

(* However claims of several targets, re-raised sources and configuration    *)
(* changes interleave, a source that becomes pending is returned by exactly *)
(* one claim: it is owed while it is pending and at no other time.          *)
DeliveredOnce == \A s \in Sources : owed[s] = IF s \in pending THEN 1 ELSE 0


=============================================================================

----------------------------- MODULE Coherence -----------------------------
(***************************************************************************)
(* The MSI directory of src/memory/Coherence.cpp: for every address and    *)
(* every core one of INVALID, SHARED and MODIFIED, moved by the four        *)
(* handlers of class CacheCoherence, with the statistics they keep.         *)
(*                                                                         *)
(* An address the directory has never seen is represented by a row of       *)
(* INVALID: the first-access branches of handle_read and handle_write do    *)
(* exactly what their INVALID branches do on such a row.                    *)
(***************************************************************************)
EXTENDS Naturals, FiniteSets

CONSTANTS
    Cores,      \* the cores the controller was built for (num_cores)
    Addrs,      \* the cache-line addresses that are looked up
    MaxOps      \* bound on the operations counted by the statistics

ASSUME CoherenceAssumption ==
    /\ IsFiniteSet(Cores)
    /\ IsFiniteSet(Addrs)
    /\ MaxOps \in Nat

VARIABLES
    directory,  \* directory[a][c]: the state of address a in core c's cache
    stats,      \* CoherenceStats
    latest      \* history: latest[a] is the set of cores whose copy of a
                \* holds the value written last

vars == <<directory, stats, latest>>

CoherenceState == {"INVALID", "SHARED", "MODIFIED"}

Counters == {"read_hits", "read_misses", "write_hits", "write_misses",
             "invalidations", "broadcasts"}

CoherenceStats == [Counters -> Nat]

Init ==
    /\ directory = [a \in Addrs |-> [c \in Cores |-> "INVALID"]]
    /\ stats = [k \in Counters |-> 0]
    /\ latest = [a \in Addrs |-> {}]

----------------------------------------------------------------------------
(* Mutant of OtherHolders: the loop forgets to skip core c itself. *)
HoldersWithSelf(c, a) == {d \in Cores : directory[a][d] # "INVALID"}

(* The cores other than c that hold a copy of a. *)
OtherHolders(c, a) == {d \in Cores \ {c} : directory[a][d] # "INVALID"}

(* The invalidations counter once every other holder has lost its copy. *)
Invalidations(c, a) == stats["invalidations"] + Cardinality(OtherHolders(c, a))

(* The counters stay below MaxOps operations. *)
Budget == stats["read_hits"] + stats["read_misses"] + stats["write_hits"]
            + stats["write_misses"] + stats["broadcasts"] < MaxOps

(* Mutants of SharedRow: the owner keeps MODIFIED; the reader of an idle     *)
(* line is granted a state the controller does not have.                    *)
SharedRowKeepsOwner(c, a) == [directory[a] EXCEPT ![c] = "SHARED"]

SharedRowGrantsExclusive(c, a) ==
    [d \in Cores |-> IF d = c
                     THEN IF \E e \in Cores : directory[a][e] # "INVALID"
                          THEN "SHARED" ELSE "EXCLUSIVE"
                     ELSE IF directory[a][d] = "MODIFIED" THEN "SHARED"
                          ELSE directory[a][d]]

(* The row of address a after a read miss of c: c becomes SHARED and a core  *)
(* that had the line MODIFIED is downgraded to SHARED.                      *)
SharedRow(c, a) ==
    [d \in Cores |-> IF d = c \/ directory[a][d] = "MODIFIED"
                     THEN "SHARED" ELSE directory[a][d]]

(* handle_read on a core that holds no copy. *)
ReadMiss(c, a) ==
    /\ Budget
    /\ directory[a][c] = "INVALID"
    /\ directory' = [directory EXCEPT ![a] = SharedRow(c, a)]
    /\ stats' = [stats EXCEPT !["read_misses"] = @ + 1]
    /\ latest' = [latest EXCEPT ![a] = @ \union {c}]

(* handle_read on a core that already holds the line. *)
ReadHit(c, a) ==
    /\ Budget
    /\ directory[a][c] # "INVALID"
    /\ stats' = [stats EXCEPT !["read_hits"] = @ + 1]
    /\ UNCHANGED <<directory, latest>>

(* The row of address a once c is in state s and every other core has been  *)
(* invalidated.                                                             *)
Exclusive(c, s) == [d \in Cores |-> IF d = c THEN s ELSE "INVALID"]

(* handle_write on a core that holds no copy. *)
WriteMiss(c, a) ==
    /\ Budget
    /\ directory[a][c] = "INVALID"
    /\ directory' = [directory EXCEPT ![a] = Exclusive(c, "MODIFIED")]
    /\ stats' = [stats EXCEPT !["write_misses"] = @ + 1,
                              !["invalidations"] = Invalidations(c, a)]
    /\ latest' = [latest EXCEPT ![a] = {c}]

(* handle_write on a SHARED line invalidates the other holders. *)
WriteHitShared(c, a) ==
    /\ Budget
    /\ directory[a][c] = "SHARED"
    /\ directory' = [directory EXCEPT ![a] = Exclusive(c, "MODIFIED")]
    /\ stats' = [stats EXCEPT !["write_hits"] = @ + 1,
                              !["invalidations"] = Invalidations(c, a)]
    /\ latest' = [latest EXCEPT ![a] = {c}]

(* handle_write on a MODIFIED line touches no other core: it relies on the  *)
(* writer being the only holder.                                            *)
WriteHitModified(c, a) ==
    /\ Budget
    /\ directory[a][c] = "MODIFIED"
    /\ stats' = [stats EXCEPT !["write_hits"] = @ + 1]
    /\ latest' = [latest EXCEPT ![a] = {c}]
    /\ UNCHANGED directory

(* invalidate_other_cores. *)
InvalidateOtherCores(c, a) ==
    /\ directory' = [directory EXCEPT ![a] = Exclusive(c, directory[a][c])]
    /\ stats' = [stats EXCEPT !["invalidations"] = Invalidations(c, a)]
    /\ UNCHANGED latest

(* Mutant of BroadcastUpdate: the broadcast is counted and nothing else. *)
BroadcastOnlyCounted(c, a) ==
    /\ Budget
    /\ stats' = [stats EXCEPT !["broadcasts"] = @ + 1]
    /\ latest' = [latest EXCEPT ![a] = {c}]
    /\ UNCHANGED directory

(* broadcast_update: c has a new value for a, and the others lose theirs. *)
BroadcastUpdate(c, a) ==
    /\ Budget
    /\ directory' = [directory EXCEPT ![a] = Exclusive(c, directory[a][c])]
    /\ stats' = [stats EXCEPT !["broadcasts"] = @ + 1,
                              !["invalidations"] = Invalidations(c, a)]
    /\ latest' = [latest EXCEPT ![a] = {c}]

Next ==
    \E c \in Cores, a \in Addrs :
        \/ ReadMiss(c, a)
        \/ ReadHit(c, a)
        \/ WriteMiss(c, a)
        \/ WriteHitShared(c, a)
        \/ WriteHitModified(c, a)
        \/ InvalidateOtherCores(c, a)
        \/ BroadcastUpdate(c, a)

Spec == Init /\ [][Next]_vars

----------------------------------------------------------------------------
(* Type correctness of the directory and of the statistics. *)
TypeOK ==
    /\ directory \in [Addrs -> [Cores -> CoherenceState]]
    /\ stats \in CoherenceStats
    /\ latest \in [Addrs -> SUBSET Cores]

(* Single writer, multiple readers: a core that may write a line without    *)
(* telling anyone (WriteHitModified) is its only holder.                    *)
SingleWriter ==
    \A a \in Addrs, c, d \in Cores :
        directory[a][c] = "MODIFIED" /\ d # c => directory[a][d] = "INVALID"

(* No core holds a copy that an earlier write, by whichever core, made      *)
(* stale: a read hit may be served without looking at any other cache.      *)
NoStaleCopy ==
    \A a \in Addrs, c \in Cores :
        directory[a][c] # "INVALID" => c \in latest[a]

(* The copies in existence, over all addresses. *)
Copies == {p \in Addrs \X Cores : directory[p[1]][p[2]] # "INVALID"}

(* Every copy was made by a counted miss and is either still held or was    *)
(* counted as invalidated: print_stats adds up after any history.           *)
CopiesAccounted ==
    Cardinality(Copies) + stats["invalidations"]
        = stats["read_misses"] + stats["write_misses"]

=============================================================================

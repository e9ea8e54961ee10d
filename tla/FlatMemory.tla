---------------------------- MODULE FlatMemory -----------------------------
(***************************************************************************)
(* What a program may expect of the memory: one array of words, every       *)
(* access atomic.  The cache hierarchy implements it for the programs of     *)
(* CacheDiscipline.tla.                                                     *)
(***************************************************************************)
CONSTANTS
    Cores,      \* the cores that access the memory
    Addrs,      \* the word addresses
    Values,     \* the values of a word
    InitMem,    \* the loaded program image: a function from Addrs to Values
    NoAccess    \* what out is before the first access

VARIABLES
    mem,        \* mem[a]: the value of the word at a
    out         \* the access made last: who, what, where, and the value the
                \* core got (a read) or wrote (a store)

vars == <<mem, out>>

Access == [core : Cores, op : {"load", "fetch", "store", "amo"},
           addr : Addrs, val : Values]

TypeOK ==
    /\ mem \in [Addrs -> Values]
    /\ out \in Access \union {NoAccess}

Init ==
    /\ mem = InitMem
    /\ out = NoAccess

Read(c, op, a) ==
    /\ out' = [core |-> c, op |-> op, addr |-> a, val |-> mem[a]]
    /\ UNCHANGED mem

Write(c, a, v) ==
    /\ out' = [core |-> c, op |-> "store", addr |-> a, val |-> v]
    /\ mem' = [mem EXCEPT ![a] = v]

(* An atomic read-modify-write: the core gets the value that v replaces. *)
ReadModifyWrite(c, a, v) ==
    /\ out' = [core |-> c, op |-> "amo", addr |-> a, val |-> mem[a]]
    /\ mem' = [mem EXCEPT ![a] = v]

Next ==
    \E c \in Cores, a \in Addrs :
        \/ Read(c, "load", a)
        \/ Read(c, "fetch", a)
        \/ \E v \in Values : Write(c, a, v) \/ ReadModifyWrite(c, a, v)

Spec == Init /\ [][Next]_vars

=============================================================================

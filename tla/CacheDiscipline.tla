-------------------------- MODULE CacheDiscipline ---------------------------
(***************************************************************************)
(* The programs for which the caches of CacheHierarchy.tla hide themselves.  *)
(* Nothing in src/memory/Cache.cpp keeps two L1 caches coherent, nor a       *)
(* write that goes below an L1 with the line the L1 holds, so which accesses *)
(* the cores make decides whether the memory looks flat.                    *)
(***************************************************************************)
EXTENDS CacheHierarchy

(* Core c makes an access of one of these kinds to one of these words of      *)
(* block b.                                                                 *)
Makes(c, ops, b, words) ==
    \E x \in Words, op \in ops : <<c, op, <<b, x>>>> \in Accesses /\ <<b, x>> \in words

Direct == WriteThrough \union PageTable

(* Core c may have block b dirty in its data cache. *)
WritesInL1(c, b) ==
    \/ Makes(c, {"amominmax", "sc"}, b, Addrs \ WriteThrough)
    \/ Makes(c, {"store"}, b, Addrs \ Direct)

(* Core c may write words of block b in its data cache and through it. *)
WritesBoth(c, b) == Makes(c, {"amominmax", "sc"}, b, WriteThrough)

(* Core c may write words of block b past its data cache. *)
WritesBelow(c, b) == Makes(c, {"amo"}, b, Addrs) \/ Makes(c, {"store"}, b, Direct)

(* Port p may have block b in its cache. *)
Caches(p, b) ==
    \/ p[1] = "I" /\ Makes(p[2], {"fetch"}, b, Addrs)
    \/ p[1] = "D" /\ \/ Makes(p[2], {"load"}, b, Addrs)
                     \/ WritesInL1(p[2], b)
                     \/ WritesBoth(p[2], b)

(* A block that a core writes is in no cache but that core's data cache, and  *)
(* no core writes past its data cache a block that is dirty in it.           *)
ASSUME DisciplineAssumption ==
    \A c \in Cores, b \in Blocks :
        /\ WritesInL1(c, b) \/ WritesBoth(c, b) \/ WritesBelow(c, b) =>
               \A q \in Ports \ {<<"D", c>>} : ~Caches(q, b)
        /\ ~(WritesInL1(c, b) /\ WritesBelow(c, b))

=============================================================================

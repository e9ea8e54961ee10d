-------------------------------- MODULE Pma --------------------------------
(***************************************************************************)
(* The physical memory attributes, class PMAController of src/memory/PMA.cpp: *)
(* a list of regions in the order of their first addresses, in which the    *)
(* first region that contains an address decides.  Of the attributes of a   *)
(* region the emulator only asks for data_cache.                            *)
(***************************************************************************)
EXTENDS Integers, SequencesExt

(* A call of addRegion.  Whatever the memory type says of caches is           *)
(* overridden by the cache policy.                                          *)
Region(lo, hi, policy) ==
    [lo |-> lo, hi |-> hi,
     data_cache |-> policy \in {"WRITE_BACK", "WRITE_THROUGH"}]

(* lower_bound and insert: before the first region that does not start        *)
(* below.  Regions that overlap are both kept.                              *)
AddRegion(regions, r) ==
    SelectSeq(regions, LAMBDA e : e.lo < r.lo) \o <<r>>
        \o SelectSeq(regions, LAMBDA e : e.lo >= r.lo)

(* findEntry: the position of the first region that contains addr. *)
Containing(regions, addr) ==
    {i \in DOMAIN regions : regions[i].lo <= addr /\ addr <= regions[i].hi}

FindRegion(regions, addr) ==
    CHOOSE i \in Containing(regions, addr) :
        \A j \in Containing(regions, addr) : i <= j

HasDataCache(regions, addr) ==
    /\ Containing(regions, addr) # {}
    /\ regions[FindRegion(regions, addr)].data_cache

(* initializeDefaultRegions, as the calls it makes. *)
DefaultCalls ==
    <<Region(\h0, \hFFF, "WRITE_BACK"),
      Region(\h2000, \hFFFF, "WRITE_BACK"),
      Region(\h10000, \h4EFFF, "WRITE_BACK"),
      Region(\h50000, \h7FFFF, "WRITE_BACK"),
      Region(\h80000, \h82007, "WRITE_BACK"),
      Region(\h82008, \h8201F, "WRITE_THROUGH"),
      Region(\h82020, \h87FFF, "WRITE_BACK"),
      Region(\h90000, \h9FFFF, "UNCACHED"),
      Region(\h10000000, \h1000001F, "UNCACHED"),
      Region(\hA0000, \hA3FFF, "WRITE_BACK"),
      Region(\hA4000, \hA7FFF, "WRITE_BACK"),
      Region(\hA8000, \hABFFF, "WRITE_BACK"),
      Region(\hAC000, \hAFFFF, "WRITE_BACK")>>

DefaultRegions == FoldLeft(AddRegion, <<>>, DefaultCalls)

=============================================================================

------------------------------- MODULE Regions -------------------------------
(***************************************************************************)
(* Lookups over a list of classified regions, as memregion.rs offers them  *)
(* to the pointer scans.  A region is [offset, size, type].                *)
(***************************************************************************)
EXTENDS Naturals, Sequences

RegionType == {"UninitData", "InitData", "Code"}
Unknown == "Unknown"

Covers(r, offset) == offset >= r.offset /\ offset < r.offset + r.size

\* get_type: the first region of the list that covers the offset.
GetType(regions, offset) ==
  LET hits == {k \in DOMAIN regions : Covers(regions[k], offset)}
  IN  IF hits = {} THEN Unknown
      ELSE regions[CHOOSE k \in hits : \A l \in hits : k <= l].type

\* max_code_addr: the highest end of a code region, 0 without one.
MaxCodeAddr(regions) ==
  LET ends == {regions[k].offset + regions[k].size :
                 k \in {l \in DOMAIN regions : regions[l].type = "Code"}}
  IN  IF ends = {} THEN 0 ELSE CHOOSE e \in ends : \A f \in ends : f <= e
=============================================================================

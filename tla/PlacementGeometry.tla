--------------------------- MODULE PlacementGeometry ---------------------------
(***************************************************************************)
(* Where an object is and which memory regions it touches: laxity-types,    *)
(* the placements of laxity-core and the projection of a platform profile.  *)
(* A region is [id, name, base, bytes]; addresses are naturals, since the   *)
(* code widens to 128 bits before it adds an address to a length.           *)
(***************************************************************************)
EXTENDS Integers, Sequences, FiniteSets, SequencesExt, FiniteSetsExt

CONSTANT Nothing   \* an absent optional field, Rust's None

ASSUME NothingIsNoNumber == Nothing \notin Int

Optional(S) == S \cup {Nothing}
Listed(list) == list \in Seq(ToSet(list))

Ok(value) == [ok |-> TRUE, value |-> value]
Refused(why) == [ok |-> FALSE, value |-> why]

\* SelectSeq, in a form a proof can unfold
Selected(seq, Test(_)) ==
  FlattenSeq([i \in DOMAIN seq |-> IF Test(seq[i]) THEN <<seq[i]>> ELSE <<>>])

FirstOf(seq, Test(_)) ==
  LET i == SelectInSeq(seq, Test) IN IF i = 0 THEN Nothing ELSE seq[i]

\* the elements of a set in an order on it: each has the place that as many before it leave it
InOrder(S, before) ==
  [k \in 1..Cardinality(S) |-> CHOOSE x \in S : Cardinality({y \in S : <<y, x>> \in before}) = k - 1]

Ascending(S) == InOrder(S, {p \in S \X S : p[1] < p[2]})

\* sort_by: positions that neither come before the other stay as they are
Sorted(seq, before) ==
  LET order == InOrder(DOMAIN seq, {p \in (DOMAIN seq) \X (DOMAIN seq) :
                 p \in before \/ (<<p[2], p[1]>> \notin before /\ p[1] < p[2])})
  IN  [k \in DOMAIN seq |-> seq[order[k]]]

SortedBy(seq, Before(_, _)) ==
  Sorted(seq, {p \in (DOMAIN seq) \X (DOMAIN seq) : Before(seq[p[1]], seq[p[2]])})

Larger(a, b) == IF a > b THEN a ELSE b
Smaller(a, b) == IF a < b THEN a ELSE b

overlap_bytes(addr, bytes, region) ==
  Larger(0, Smaller(addr + bytes, region.base + region.bytes) - Larger(addr, region.base))

region_of(addr, regions) ==
  LET Holds(region) == region.base <= addr /\ addr - region.base < region.bytes
      found == FirstOf(regions, Holds)
  IN  IF found = Nothing THEN Nothing ELSE found.id

regions_spanned(addr, bytes, regions) ==
  Ascending({r.id : r \in {q \in ToSet(regions) : overlap_bytes(addr, bytes, q) # 0}})

region_named(regions, name) == FirstOf(regions, LAMBDA r : r.name = name)

\* mutant: an object is in the region it starts in
StartRegion(placement, regions) ==
  LET id == region_of(placement.addr, regions) IN IF id = Nothing THEN <<>> ELSE <<id>>

\* a placed object with no bytes still has the region its address is in
Regions(placement, regions) ==
  regions_spanned(placement.addr, Larger(placement.bytes, 1), regions)

occupied_regions(placements, regions) ==
  UNION {ToSet(Regions(p, regions)) : p \in ToSet(placements)}

\* the profile as the cost model reads it: the regions, each with a size and a number of its own
Profile(document) ==
  LET listed == document.memory_regions
      numbered == \A i \in DOMAIN listed :
                    /\ listed[i].bytes > 0
                    /\ listed[i].id \notin {Nothing, 0}
                    /\ \A j \in 1..(i - 1) : listed[j].id # listed[i].id
  IN  IF listed = <<>> \/ document.clock_hz \in {Nothing, 0} \/ ~numbered
        THEN Refused("profile")
        ELSE Ok([platform |-> document.platform, clock_hz |-> document.clock_hz,
                 regions |-> listed])
=============================================================================

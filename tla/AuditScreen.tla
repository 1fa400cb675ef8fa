----------------------------- MODULE AuditScreen -----------------------------
(***************************************************************************)
(* The audit as a screen (tui audit.rs): the objects of a finished audit,   *)
(* largest first, the overlaps of each, and what each would cost at the     *)
(* base of every region the profile declares.                               *)
(***************************************************************************)
EXTENDS PlacementAudit

RowBefore(a, b) ==
  \/ a.bytes > b.bytes
  \/ a.bytes = b.bytes /\ Spelling(a.name) < Spelling(b.name)

TermsOfObject(name) == Selected(audit.cost.terms, LAMBDA t : t.key.object = name)

PlacedRow(p) ==
  [name |-> p.name, bytes |-> p.bytes, sized |-> TRUE, regions |-> Regions(p, profile.regions),
   overlaps |-> TermsOfObject(p.name)]

\* an object placed at run time is shown with its declared size and no region
RunTimeRow(r) ==
  [name |-> r.name, bytes |-> IF r.declared_bytes = Nothing THEN 0 ELSE r.declared_bytes,
   sized |-> r.declared_bytes # Nothing, regions |-> Nothing, overlaps |-> <<>>]

screen_objects ==
  SortedBy([i \in DOMAIN audit.placements |-> PlacedRow(audit.placements[i])]
             \o [i \in DOMAIN audit.runtime_placed |-> RunTimeRow(audit.runtime_placed[i])],
           RowBefore)

\* one candidate region: its price, and how many of the endpoints in it have one
candidate_row(object, region) ==
  LET asked == candidate(object.name, object.bytes, region, profile, characterisation, work)
      priced == object.sized /\ asked.ok
      here == Selected(work.requesters, LAMBDA r : r.region = region.id)
  IN  [region |-> region.name, here |-> Len(here), priced |-> priced,
       low |-> IF priced THEN asked.value.low ELSE Nothing,
       high |-> IF priced THEN asked.value.high ELSE Nothing,
       carried |-> IF priced THEN Cardinality(Priced(asked.value.terms)) ELSE 0]

what_if_rows(object) ==
  [i \in DOMAIN profile.regions |-> candidate_row(object, profile.regions[i])]

\* the rows the cursor moves over; an audit that was refused has none
objects_shown == IF stage = "done" THEN screen_objects ELSE <<>>

select_object(selected, step) ==
  LET count == Len(objects_shown)
  IN  IF count = 0 THEN selected ELSE (selected + step + count) % count
-----------------------------------------------------------------------------
\* What the screen says a placed object would cost in the one region it is in already is what the
\* audit charges it there: the same coefficients, the same endpoints and the same arithmetic, and
\* where the screen has no price for that region, the audit charges the object nothing.  The object
\* is the first placed of its name, which the coefficients of the name are charged to, and the region
\* has no byte of another one, in which it could lie at the base of this one.
WhatIfAgreesWithTotal ==
  stage = "done" =>
    \A k \in DOMAIN audit.placements, i \in DOMAIN profile.regions :
      LET regions == profile.regions
          object == PlacedRow(audit.placements[k])
          row == what_if_rows(object)[i]
          charged == Totalled(object.overlaps)
          Leads == \A j \in 1..(k - 1) : audit.placements[j].name # object.name
          Bytes(r) == r.base..(r.base + r.bytes - 1)
          Apart == \A j \in DOMAIN regions \ {i} : Bytes(regions[i]) \cap Bytes(regions[j]) = {}
      IN  Leads /\ Apart /\ object.regions = <<regions[i].id>> /\ object.bytes <= regions[i].bytes =>
            IF row.priced
              THEN /\ row.low = charged.low /\ row.high = charged.high
                   /\ row.carried = Cardinality(Priced(charged.terms))
              ELSE object.overlaps = <<>>
=============================================================================

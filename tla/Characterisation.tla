--------------------------- MODULE Characterisation ---------------------------
(***************************************************************************)
(* The characterisation file: what each coefficient and each quiet charge   *)
(* rests on, and what the reader refuses.  An entry as written carries the  *)
(* optional fields of every basis; an entry as read carries one basis, its  *)
(* low and high ends (the same for a measured number, Nothing for an        *)
(* unmeasured one) and the campaign it was measured in.                     *)
(***************************************************************************)
EXTENDS PlacementGeometry

Absent(field) == field = Nothing
Ranged(entry) == ~Absent(entry.minimum) /\ ~Absent(entry.maximum)

BasisAllowed(entry, platform) ==
  CASE entry.basis = "measured" ->
         ~Absent(entry.value) /\ Absent(entry.minimum) /\ Absent(entry.maximum)
    [] entry.basis = "borrowed" ->
         Ranged(entry) /\ Absent(entry.value) /\ entry.borrowed_from \notin {Nothing, platform}
    [] entry.basis = "bounded" ->
         Ranged(entry) /\ Absent(entry.value) /\ Absent(entry.borrowed_from)
    [] entry.basis = "mean" ->
         Ranged(entry) /\ Absent(entry.value) /\ ~Absent(entry.cells) /\ entry.cells >= 2
    [] entry.basis = "unmeasured" ->
         Absent(entry.value) /\ Absent(entry.minimum) /\ Absent(entry.maximum)
    [] OTHER -> FALSE

basis_of(entry) ==
  [basis |-> entry.basis,
   low |-> IF entry.basis = "measured" THEN entry.value ELSE entry.minimum,
   high |-> IF entry.basis = "measured" THEN entry.value ELSE entry.maximum]

campaigns_of(raw) ==
  \A i \in DOMAIN raw :
    /\ raw[i].complete     \* a note, an image of 64 hex digits, a date and captures
    /\ \A j \in 1..(i - 1) : raw[j].name # raw[i].name

source_of(entry, campaigns) ==
  \/ entry.basis = "unmeasured"
  \/ \E c \in ToSet(campaigns) : c.name = entry.campaign

EntryAllowed(entry, file) ==
  BasisAllowed(entry, file.platform) /\ source_of(entry, file.campaign)

ReadEntry(key, entry) == [key |-> key, basis |-> basis_of(entry)]

read_characterisation(file) ==
  LET c == file.coefficient  q == file.quiet
      allowed ==
        /\ campaigns_of(file.campaign)
        /\ \A e \in ToSet(c) \cup ToSet(q) : EntryAllowed(e, file)
        /\ \A i, j \in DOMAIN q : q[i].key = q[j].key => i = j
  IN  IF ~allowed THEN Refused("characterisation")
      ELSE Ok([platform |-> file.platform,
               coefficients |-> [i \in DOMAIN c |-> ReadEntry(c[i].key, c[i])],
               quiet |-> [i \in DOMAIN q |-> ReadEntry(q[i].key, q[i])]])

quiet_charge(characterisation, region, victim) ==
  FirstOf(characterisation.quiet, LAMBDA q : q.key = [region |-> region, victim |-> victim])
=============================================================================

-------------------------- MODULE PlacementAuditProofs --------------------------
(***************************************************************************)
(* Theorems about PlacementAudit and its screen, for every project, every   *)
(* image a build may leave and every characterisation: nothing is dropped   *)
(* on the way to the report, its total is what the bytes of the placement   *)
(* say, and the screen prices an object as the report does.                 *)
(***************************************************************************)
EXTENDS AuditScreen, DataLemmas

(* Nothing is dropped. *)

\* A list of anything.
IsList(list) == \E S : list \in Seq(S)
Names(list) == {list[i].name : i \in DOMAIN list}

\* The objects declared up to the k-th have each gone one of three ways.
WentSomewhere(report, objects, k) ==
  /\ IsList(report.placements) /\ IsList(report.unplaced) /\ IsList(report.runtime_placed)
  /\ Len(report.placements) + Len(report.unplaced) + Len(report.runtime_placed) = k
  /\ {objects[i].name : i \in 1..k} =
       Names(report.placements) \cup ToSet(report.unplaced) \cup Names(report.runtime_placed)

\* An object placed at run time is listed with room for its coefficients.
HasRoom(entry) == {"name", "coefficients"} \subseteq DOMAIN entry
AllHaveRoom(report) == \A entry \in ToSet(report.runtime_placed) : HasRoom(entry)

AuditFields == DOMAIN audit = DOMAIN NoAudit /\ DOMAIN work = DOMAIN NoWork

Declares(objects) ==
  /\ IsList(objects)
  /\ \A i \in DOMAIN objects : objects[i].symbol_kind \in {"object", "reservation"}

\* Nothing is reported before the objects are placed, and then each that is behind the cursor is.
\* The two files that are read first were not refused.
AuditStands ==
  /\ AuditFields
  /\ Declares(work.objects)
  /\ stage \notin {"find", "refused"} => read_characterisation(project.characterisation).ok
  /\ stage \in {"find", "project", "requesters", "source"} =>
       WentSomewhere(audit, work.objects, 0) /\ AllHaveRoom(audit)
  /\ stage = "place" =>
       /\ at \in 1..(Len(work.objects) + 1)
       /\ WentSomewhere(audit, work.objects, at - 1) /\ AllHaveRoom(audit)
  /\ stage = "done" => NothingIsDropped

\* One entry more in a list.
LEMMA ListGrows ==
  ASSUME NEW list, IsList(list), NEW entry
  PROVE  LET longer == Append(list, entry)
         IN  /\ IsList(longer) /\ Len(list) \in Nat /\ Len(longer) = Len(list) + 1
             /\ ToSet(longer) = ToSet(list) \cup {entry}
             /\ Names(longer) = Names(list) \cup {entry.name}
  <1> DEFINE longer == Append(list, entry)
  <1>1. PICK S : list \in Seq(S)  BY DEF IsList
  <1>2. list \in Seq(S \cup {entry})  BY <1>1
  <1>3. /\ longer \in Seq(S \cup {entry}) /\ Len(list) \in Nat /\ Len(longer) = Len(list) + 1
        /\ DOMAIN list = 1..Len(list) /\ DOMAIN longer = 1..(Len(list) + 1)
        /\ longer[Len(list) + 1] = entry /\ \A i \in 1..Len(list) : longer[i] = list[i]
    BY <1>2
  <1> HIDE DEF longer
  <1>4. DOMAIN longer = DOMAIN list \cup {Len(list) + 1}  BY <1>3
  <1>5. ToSet(longer) = ToSet(list) \cup {entry}  BY <1>3, <1>4 DEF ToSet
  <1>6. Names(longer) = Names(list) \cup {entry.name}  BY <1>3, <1>4 DEF Names
  <1> QED  BY <1>3, <1>5, <1>6 DEF IsList, longer

\* Nothing is placed before an audit runs.
LEMMA AuditStarts ==
  ASSUME NEW projects, AuditInit(projects)
  PROVE  AuditStands
  <1>1. /\ stage = "find" /\ work = NoWork /\ audit = NoAudit
    BY DEF AuditInit
  <1>2. /\ audit.placements = <<>> /\ audit.unplaced = <<>> /\ audit.runtime_placed = <<>>
    BY <1>1 DEF NoAudit
  <1>3. WentSomewhere(audit, work.objects, 0) /\ AllHaveRoom(audit) /\ Declares(work.objects)
    <2>1. IsList(<<>>) /\ Len(<<>>) = 0 /\ DOMAIN <<>> = {} /\ 1..0 = {}
      <3>1. <<>> \in Seq({})  OBVIOUS
      <3> QED  BY <3>1 DEF IsList
    <2> QED  BY <1>1, <1>2, <2>1 DEF WentSomewhere, AllHaveRoom, Names, ToSet, Declares, NoWork
  <1> QED  BY <1>1, <1>3 DEF AuditStands, AuditFields

\* Each element of a list, or nothing in its place; and the elements that stay.
Picks(parts, s) ==
  /\ parts = [i \in DOMAIN s |-> parts[i]]
  /\ \A i \in DOMAIN s : parts[i] \in {<<>>, <<s[i]>>}
Picked(parts, s) == {s[i] : i \in {j \in DOMAIN s : parts[j] = <<s[j]>>}}

\* A selection is a list, of the elements that pass.
LEMMA SelectionIs ==
  ASSUME NEW S, NEW s \in Seq(S), NEW parts, Picks(parts, s)
  PROVE  FlattenSeq(parts) \in Seq(S) /\ ToSet(FlattenSeq(parts)) = Picked(parts, s)
  <1>0. parts = [i \in DOMAIN s |-> parts[i]] /\ \A i \in DOMAIN s : parts[i] \in {<<>>, <<s[i]>>}
    BY DEF Picks
  <1>1. parts \in Seq(Seq(S)) /\ Len(parts) = Len(s) /\ DOMAIN s = 1..Len(s)
    <2>1. \A i \in DOMAIN s : parts[i] \in Seq(S)
      <3>1. \A i \in DOMAIN s : s[i] \in S  OBVIOUS
      <3>2. <<>> \in Seq(S) /\ \A x \in S : <<x>> \in Seq(S)  OBVIOUS
      <3> QED  BY <1>0, <3>1, <3>2
    <2>2. DOMAIN s = 1..Len(s) /\ Len(s) \in Nat  OBVIOUS
    <2> QED  BY <1>0, <2>1, <2>2
  <1>2. /\ FlattenSeq(parts) \in Seq(S)
        /\ ToSet(FlattenSeq(parts)) = UNION {ToSet(parts[i]) : i \in DOMAIN s}
    BY <1>1, FlattenType, FlattenRange
  <1>3. \A x : ToSet(<<x>>) = {x} /\ <<x>> # <<>>  BY DEF ToSet
  <1>4. ToSet(<<>>) = {}  BY DEF ToSet
  <1>5. \A i \in DOMAIN s : ToSet(parts[i]) = IF parts[i] = <<s[i]>> THEN {s[i]} ELSE {}
    BY <1>0, <1>3, <1>4
  <1>6. ASSUME NEW x
        PROVE  x \in ToSet(FlattenSeq(parts)) <=> x \in Picked(parts, s)
    <2>1. x \in ToSet(FlattenSeq(parts)) <=> \E i \in DOMAIN s : x \in ToSet(parts[i])
      BY <1>2
    <2>2. x \in Picked(parts, s) <=> \E i \in DOMAIN s : parts[i] = <<s[i]>> /\ x = s[i]
      BY DEF Picked
    <2> QED  BY <1>5, <2>1, <2>2
  <1> QED  BY <1>2, <1>6

LEMMA ObjectsAreDeclared ==
  ASSUME NEW given, Parsed(given), given.document # Nothing
  PROVE  Declares(objects_of(given.document))
  <1> DEFINE all == given.document.object
             parts == [i \in DOMAIN all |->
                         IF all[i].workload = WorkloadName THEN <<all[i]>> ELSE <<>>]
             mine == FlattenSeq(parts)
  <1>1. all \in Seq(ToSet(all)) /\ \A o \in ToSet(all) : o.symbol_kind \in {"object", "reservation"}
    BY DEF Parsed, ParsedDocument, Listed
  <1>2. mine \in Seq(ToSet(all))
    <2>1. Picks(parts, all)  BY DEF Picks
    <2> HIDE DEF parts, all
    <2> QED  BY <1>1, <2>1, SelectionIs
  <1>3. objects_of(given.document) = [i \in DOMAIN mine |-> ObjectSpec(mine[i])]
    BY DEF objects_of, Selected
  <1> DEFINE specs == [i \in DOMAIN mine |-> ObjectSpec(mine[i])]
  <1> HIDE DEF mine, all
  <1>4. DOMAIN mine = 1..Len(mine) /\ Len(mine) \in Nat  BY <1>2
  <1>5. \A i \in DOMAIN mine : specs[i].symbol_kind \in {"object", "reservation"}
    <2> TAKE i \in DOMAIN mine
    <2>1. mine[i] \in ToSet(all)  BY <1>2
    <2> QED  BY <1>1, <2>1 DEF ObjectSpec
  <1>6. specs \in Seq({specs[i] : i \in DOMAIN mine})  BY <1>4
  <1> QED  BY <1>3, <1>5, <1>6 DEF Declares, IsList

\* One object more, in one list more.
LEMMA OneMore ==
  ASSUME NEW before, NEW after, NEW objects, NEW k \in Nat \ {0}, NEW entry,
         WentSomewhere(before, objects, k - 1),
         \/ /\ entry.name = objects[k].name
            /\ after.placements = Append(before.placements, entry)
            /\ after.unplaced = before.unplaced /\ after.runtime_placed = before.runtime_placed
         \/ /\ entry = objects[k].name
            /\ after.unplaced = Append(before.unplaced, entry)
            /\ after.placements = before.placements /\ after.runtime_placed = before.runtime_placed
         \/ /\ entry.name = objects[k].name
            /\ after.runtime_placed = Append(before.runtime_placed, entry)
            /\ after.placements = before.placements /\ after.unplaced = before.unplaced
  PROVE  WentSomewhere(after, objects, k)
  <1> DEFINE p == before.placements
             u == before.unplaced
             r == before.runtime_placed
             UpTo0(n) == {objects[i].name : i \in 1..n}
             name == objects[k].name
  <1>1. /\ IsList(p) /\ IsList(u) /\ IsList(r) /\ Len(p) + Len(u) + Len(r) = k - 1
        /\ UpTo0(k - 1) = Names(p) \cup ToSet(u) \cup Names(r)
    BY DEF WentSomewhere
  <1>2. UpTo0(k) = UpTo0(k - 1) \cup {name}
    <2>1. 1..k = (1..(k - 1)) \cup {k}  OBVIOUS
    <2> QED  BY <2>1
  <1> DEFINE More(list) == Append(list, entry)
  <1>3. ASSUME NEW list, IsList(list)
        PROVE  /\ IsList(More(list)) /\ Len(list) \in Nat
               /\ Len(More(list)) = Len(list) + 1
               /\ ToSet(More(list)) = ToSet(list) \cup {entry}
               /\ Names(More(list)) = Names(list) \cup {entry.name}
    BY <1>3, ListGrows, Zenon
  <1> DEFINE P == after.placements
             U == after.unplaced
             R == after.runtime_placed
  <1>4. \/ entry.name = name /\ P = More(p) /\ U = u /\ R = r
        \/ entry = name /\ U = More(u) /\ P = p /\ R = r
        \/ entry.name = name /\ R = More(r) /\ P = p /\ U = u
    OBVIOUS
  <1>5. /\ IsList(P) /\ IsList(U) /\ IsList(R)
        /\ Len(P) + Len(U) + Len(R) = k
        /\ Names(P) \cup ToSet(U) \cup Names(R) = Names(p) \cup ToSet(u) \cup Names(r) \cup {name}
    <2> HIDE DEF name, UpTo0, More, P, U, R, p, u, r
    <2>1. CASE entry.name = name /\ P = More(p) /\ U = u /\ R = r
      <3>1. IsList(P) /\ IsList(U) /\ IsList(R)  BY <1>1, <1>3, <2>1, Zenon
      <3>2. Len(p) \in Nat /\ Len(u) \in Nat /\ Len(r) \in Nat /\ Len(P) = Len(p) + 1
        BY <1>1, <1>3, <2>1, Zenon
      <3>3. Names(P) = Names(p) \cup {name}  BY <1>1, <1>3, <2>1, Zenon
      <3>4. Len(P) + Len(U) + Len(R) = k
        <4>1. Len(U) = Len(u) /\ Len(R) = Len(r)  BY <2>1
        <4>2. Len(p) + Len(u) + Len(r) = k - 1  BY <1>1
        <4> QED  BY <3>2, <4>1, <4>2
      <3>5. Names(P) \cup ToSet(U) \cup Names(R) = Names(p) \cup ToSet(u) \cup Names(r) \cup {name}
        BY <2>1, <3>3
      <3> QED  BY <3>1, <3>4, <3>5
    <2>2. CASE entry = name /\ U = More(u) /\ P = p /\ R = r
      <3>1. IsList(P) /\ IsList(U) /\ IsList(R)  BY <1>1, <1>3, <2>2, Zenon
      <3>2. Len(p) \in Nat /\ Len(u) \in Nat /\ Len(r) \in Nat /\ Len(U) = Len(u) + 1
        BY <1>1, <1>3, <2>2, Zenon
      <3>3. ToSet(U) = ToSet(u) \cup {name}  BY <1>1, <1>3, <2>2, Zenon
      <3>4. Len(P) + Len(U) + Len(R) = k
        <4>1. Len(P) = Len(p) /\ Len(R) = Len(r)  BY <2>2
        <4>2. Len(p) + Len(u) + Len(r) = k - 1  BY <1>1
        <4> QED  BY <3>2, <4>1, <4>2
      <3>5. Names(P) \cup ToSet(U) \cup Names(R) = Names(p) \cup ToSet(u) \cup Names(r) \cup {name}
        BY <2>2, <3>3
      <3> QED  BY <3>1, <3>4, <3>5
    <2>3. CASE entry.name = name /\ R = More(r) /\ P = p /\ U = u
      <3>1. IsList(P) /\ IsList(U) /\ IsList(R)  BY <1>1, <1>3, <2>3, Zenon
      <3>2. Len(p) \in Nat /\ Len(u) \in Nat /\ Len(r) \in Nat /\ Len(R) = Len(r) + 1
        BY <1>1, <1>3, <2>3, Zenon
      <3>3. Names(R) = Names(r) \cup {name}  BY <1>1, <1>3, <2>3, Zenon
      <3>4. Len(P) + Len(U) + Len(R) = k
        <4>1. Len(P) = Len(p) /\ Len(U) = Len(u)  BY <2>3
        <4>2. Len(p) + Len(u) + Len(r) = k - 1  BY <1>1
        <4> QED  BY <3>2, <4>1, <4>2
      <3>5. Names(P) \cup ToSet(U) \cup Names(R) = Names(p) \cup ToSet(u) \cup Names(r) \cup {name}
        BY <2>3, <3>3
      <3> QED  BY <3>1, <3>4, <3>5
    <2> QED  BY <1>4, <2>1, <2>2, <2>3
  <1>6. UpTo0(k) = Names(P) \cup ToSet(U) \cup Names(R)
    <2> HIDE DEF UpTo0, P, U, R, p, u, r, name
    <2> QED  BY <1>1, <1>2, <1>5
  <1> QED  BY <1>5, <1>6 DEF WentSomewhere

\* Where one object goes: one of three lists, under its name.
GoesUnder(answer, name) ==
  \/ answer.as = "placed" /\ answer.entry.name = name
  \/ answer.as = "unplaced" /\ answer.entry = name
  \/ answer.as = "run time" /\ answer.entry.name = name /\ HasRoom(answer.entry)

LEMMA ObjectGoes ==
  ASSUME AuditFields, Declares(work.objects), at \in 1..Len(work.objects),
         WentSomewhere(audit, work.objects, at - 1), AllHaveRoom(audit),
         audit' = WithObject(audit, work.objects[at])
  PROVE  DOMAIN audit' = DOMAIN audit /\ WentSomewhere(audit', work.objects, at) /\ AllHaveRoom(audit')
  <1> DEFINE spec == work.objects[at]
             parts == NamedIn(found, spec.symbols)
             whole == IF parts = <<>> THEN Nothing ELSE Whole(spec.name, parts)
             answer == Answer(spec, parts, whole)
             Added(as, list) == IF answer.as = as THEN Append(list, answer.entry) ELSE list
             after == WithObject(audit, spec)
  <1>1. /\ DOMAIN after = DOMAIN audit
        /\ after.placements = Added("placed", audit.placements)
        /\ after.unplaced = Added("unplaced", audit.unplaced)
        /\ after.runtime_placed = Added("run time", audit.runtime_placed)
    BY DEF WithObject, AuditFields, NoAudit
  <1>2. at \in Nat \ {0} /\ at \in DOMAIN work.objects
    BY DEF Declares, IsList
  <1>3. GoesUnder(answer, spec.name)
    <2>1. spec.symbol_kind \in {"object", "reservation"}  BY <1>2 DEF Declares
    <2>2. parts # <<>> => whole.name = spec.name  BY DEF Whole
    <2> HIDE DEF spec, parts, whole
    <2> QED  BY <2>1, <2>2 DEF GoesUnder, HasRoom, Answer, Placed, Unplaced, AtRunTime
  <1> DEFINE entry == answer.entry
  <1> HIDE DEF answer, after
  <1>4. \/ /\ entry.name = spec.name
           /\ after.placements = Append(audit.placements, entry)
           /\ after.unplaced = audit.unplaced /\ after.runtime_placed = audit.runtime_placed
        \/ /\ entry = spec.name
           /\ after.unplaced = Append(audit.unplaced, entry)
           /\ after.placements = audit.placements /\ after.runtime_placed = audit.runtime_placed
        \/ /\ entry.name = spec.name
           /\ after.runtime_placed = Append(audit.runtime_placed, entry)
           /\ after.placements = audit.placements /\ after.unplaced = audit.unplaced
    BY <1>1, <1>3 DEF GoesUnder
  <1>5. WentSomewhere(after, work.objects, at)
    <2> HIDE DEF entry
    <2> QED  BY <1>2, <1>4, OneMore
  <1>6. AllHaveRoom(after)
    <2>1. CASE answer.as = "run time"
      <3>1. after.runtime_placed = Append(audit.runtime_placed, entry) /\ HasRoom(entry)
        BY <1>1, <1>3, <2>1 DEF GoesUnder
      <3>2. IsList(audit.runtime_placed)  BY DEF WentSomewhere
      <3>3. ToSet(after.runtime_placed) = ToSet(audit.runtime_placed) \cup {entry}
        <4> HIDE DEF entry
        <4> QED  BY <3>1, <3>2, ListGrows
      <3> QED  BY <3>1, <3>3 DEF AllHaveRoom
    <2>2. CASE answer.as # "run time"
      BY <1>1, <2>2 DEF AllHaveRoom
    <2> QED  BY <2>1, <2>2
  <1> QED  BY <1>1, <1>5, <1>6 DEF after

LEMMA SelectedFrom ==
  ASSUME NEW S, NEW s \in Seq(S), NEW T
  PROVE  LET parts == [i \in DOMAIN s |-> IF s[i] \in T THEN <<s[i]>> ELSE <<>>]
         IN  FlattenSeq(parts) \in Seq(S) /\ ToSet(FlattenSeq(parts)) = ToSet(s) \cap T
  <1> DEFINE parts == [i \in DOMAIN s |-> IF s[i] \in T THEN <<s[i]>> ELSE <<>>]
  <1>1. Picks(parts, s)  BY DEF Picks
  <1>2. \A i \in DOMAIN s : parts[i] = <<s[i]>> <=> s[i] \in T
    <2>1. \A x : <<x>> # <<>>  OBVIOUS
    <2> QED  BY <2>1
  <1> HIDE DEF parts
  <1>3. FlattenSeq(parts) \in Seq(S) /\ ToSet(FlattenSeq(parts)) = Picked(parts, s)
    BY <1>1, SelectionIs
  <1>4. Picked(parts, s) = ToSet(s) \cap T
    BY <1>2 DEF ToSet, Picked
  <1> QED  BY <1>3, <1>4 DEF parts

\* The ways a coefficient is accounted for.
Ways(report, c) ==
  {way \in {"kept", "run time", "unattached"} :
     CASE way = "kept" -> c \in ToSet(report.kept)
       [] way = "run time" -> \E r \in ToSet(report.runtime_placed) :
                                r.name = c.key.object /\ c \in ToSet(r.coefficients)
       [] way = "unattached" -> c \in ToSet(report.unattached)}

\* Narrowing keeps the lists of objects, and every coefficient goes one way: with its object where
\* that is placed, beside the first of its name placed at run time, or with the unattached.
LEMMA NarrowDropsNothing ==
  ASSUME AuditFields, IsList(audit.placements), IsList(audit.runtime_placed), AllHaveRoom(audit),
         IsList(characterisation.coefficients)
  PROVE  LET narrowed == Narrow(audit)
         IN  /\ DOMAIN narrowed = DOMAIN audit
             /\ narrowed.placements = audit.placements /\ narrowed.unplaced = audit.unplaced
             /\ Len(narrowed.runtime_placed) = Len(audit.runtime_placed)
             /\ Names(narrowed.runtime_placed) = Names(audit.runtime_placed)
             /\ \A c \in ToSet(characterisation.coefficients) : Cardinality(Ways(narrowed, c)) = 1
  <1> DEFINE names == {p.name : p \in ToSet(audit.placements)}
             all == characterisation.coefficients
             rt == audit.runtime_placed
             RunTime(c) == SelectInSeq(rt, LAMBDA r : r.name = c.key.object)
             Apart(c) == c.key.object \notin names
             MineAt(i) == Selected(all, LAMBDA c : Apart(c) /\ RunTime(c) = i)
             Kept == Selected(all, LAMBDA c : ~Apart(c))
             Standing == [i \in DOMAIN rt |-> [rt[i] EXCEPT !.coefficients = MineAt(i)]]
             narrowed == Narrow(audit)
  <1>1. /\ DOMAIN narrowed = DOMAIN audit
        /\ narrowed.placements = audit.placements /\ narrowed.unplaced = audit.unplaced
        /\ narrowed.kept = Kept /\ narrowed.unattached = MineAt(0)
        /\ narrowed.runtime_placed = Standing
    <2>1. narrowed = [audit EXCEPT !.kept = Kept, !.unattached = MineAt(0), !.runtime_placed = Standing]
      BY DEF Narrow
    <2>2. {"placements", "unplaced", "kept", "unattached", "runtime_placed"} \subseteq DOMAIN audit
      BY DEF AuditFields, NoAudit
    <2> HIDE DEF Kept, MineAt, Standing, narrowed
    <2> QED  BY <2>1, <2>2
  <1>2. PICK S : all \in Seq(S)  BY DEF IsList
  <1>3. DOMAIN rt = 1..Len(rt) /\ Len(rt) \in Nat  BY DEF IsList
  <1>4. ASSUME NEW c
        PROVE  \/ RunTime(c) = 0 /\ \A i \in DOMAIN rt : rt[i].name # c.key.object
               \/ RunTime(c) \in DOMAIN rt /\ rt[RunTime(c)].name = c.key.object
    <2> DEFINE I == {i \in 1..Len(rt) : rt[i].name = c.key.object}
    <2>1. RunTime(c) = IF I # {} THEN Min(I) ELSE 0  BY DEF SelectInSeq
    <2>2. I \in SUBSET Nat /\ I \subseteq DOMAIN rt  BY <1>3
    <2>3. \A i \in I : rt[i].name = c.key.object  OBVIOUS
    <2>4. I = {} => \A i \in DOMAIN rt : rt[i].name # c.key.object  BY <1>3
    <2> HIDE DEF I, RunTime
    <2>5. I # {} => Min(I) \in I  BY <2>2, MinIsLeast
    <2> QED  BY <2>1, <2>2, <2>3, <2>4, <2>5
  <1> HIDE DEF RunTime, Apart, all
  <1>5. ASSUME NEW i PROVE ToSet(MineAt(i)) = {c \in ToSet(all) : Apart(c) /\ RunTime(c) = i}
    <2> DEFINE T == {c \in ToSet(all) : Apart(c) /\ RunTime(c) = i}
               parts == [j \in DOMAIN all |-> IF all[j] \in T THEN <<all[j]>> ELSE <<>>]
    <2>1. MineAt(i) = FlattenSeq([j \in DOMAIN all |->
                      IF Apart(all[j]) /\ RunTime(all[j]) = i THEN <<all[j]>> ELSE <<>>])
      BY DEF Selected
    <2>2. [j \in DOMAIN all |-> IF Apart(all[j]) /\ RunTime(all[j]) = i THEN <<all[j]>> ELSE <<>>]
            = parts
      <3>1. \A j \in DOMAIN all : all[j] \in T <=> Apart(all[j]) /\ RunTime(all[j]) = i
        BY DEF ToSet
      <3> HIDE DEF T
      <3> QED  BY <3>1
    <2>3. ToSet(FlattenSeq(parts)) = ToSet(all) \cap T
      <3> HIDE DEF T
      <3> QED  BY <1>2, SelectedFrom
    <2>4. ToSet(all) \cap T = T  OBVIOUS
    <2> HIDE DEF MineAt, parts, T
    <2>5. ToSet(MineAt(i)) = T  BY <2>1, <2>2, <2>3, <2>4
    <2> QED  BY <2>5 DEF T
  <1>6. ToSet(Kept) = {c \in ToSet(all) : ~Apart(c)}
    <2> DEFINE T == {c \in ToSet(all) : ~Apart(c)}
               parts == [j \in DOMAIN all |-> IF all[j] \in T THEN <<all[j]>> ELSE <<>>]
    <2>1. Kept = FlattenSeq([j \in DOMAIN all |-> IF ~Apart(all[j]) THEN <<all[j]>> ELSE <<>>])
      BY DEF Selected
    <2>2. [j \in DOMAIN all |-> IF ~Apart(all[j]) THEN <<all[j]>> ELSE <<>>] = parts
      <3>1. \A j \in DOMAIN all : all[j] \in T <=> ~Apart(all[j])
        BY DEF ToSet
      <3> HIDE DEF T
      <3> QED  BY <3>1
    <2>3. ToSet(FlattenSeq(parts)) = ToSet(all) \cap T
      <3> HIDE DEF T
      <3> QED  BY <1>2, SelectedFrom
    <2>4. ToSet(all) \cap T = T  OBVIOUS
    <2> HIDE DEF Kept, parts, T
    <2>5. ToSet(Kept) = T  BY <2>1, <2>2, <2>3, <2>4
    <2> QED  BY <2>5 DEF T
  <1> HIDE DEF MineAt, Kept, narrowed
  <1>7. /\ DOMAIN Standing = DOMAIN rt
        /\ \A i \in DOMAIN rt : Standing[i].name = rt[i].name /\ Standing[i].coefficients = MineAt(i)
    <2>1. \A i \in DOMAIN rt : {"name", "coefficients"} \subseteq DOMAIN rt[i]
      BY DEF AllHaveRoom, HasRoom, ToSet
    <2> QED  BY <2>1
  <1>8. Standing = [i \in DOMAIN rt |-> Standing[i]]
    OBVIOUS
  <1> HIDE DEF Standing
  <1>8a. Standing \in Seq({Standing[i] : i \in DOMAIN rt}) /\ Len(Standing) = Len(rt)
    BY <1>3, <1>8
  <1>9. Names(Standing) = Names(rt)  BY <1>7 DEF Names
  <1>10. ASSUME NEW c \in ToSet(all) PROVE Cardinality(Ways(narrowed, c)) = 1
    <2>1. /\ c \in ToSet(narrowed.kept) <=> ~Apart(c)
          /\ c \in ToSet(narrowed.unattached) <=> Apart(c) /\ RunTime(c) = 0
      BY <1>1, <1>5, <1>6
    <2>2. (\E r \in ToSet(narrowed.runtime_placed) : r.name = c.key.object /\ c \in ToSet(r.coefficients))
            <=> Apart(c) /\ RunTime(c) # 0
      <3>1. ASSUME NEW r \in ToSet(Standing), c \in ToSet(r.coefficients)
            PROVE  Apart(c) /\ RunTime(c) # 0
        <4>1. PICK i \in DOMAIN rt : r = Standing[i]  BY <1>7 DEF ToSet
        <4>2. c \in ToSet(MineAt(i))  BY <1>7, <3>1, <4>1
        <4>3. i # 0  BY <1>3
        <4> QED  BY <1>5, <4>2, <4>3
      <3>2. ASSUME Apart(c), RunTime(c) # 0
            PROVE  \E r \in ToSet(Standing) : r.name = c.key.object /\ c \in ToSet(r.coefficients)
        <4> DEFINE i == RunTime(c)
        <4>1. i \in DOMAIN rt /\ rt[i].name = c.key.object  BY <1>4, <3>2
        <4>2. c \in ToSet(MineAt(i))  BY <1>5, <3>2
        <4> HIDE DEF i
        <4>3. Standing[i] \in ToSet(Standing)  BY <1>7, <4>1 DEF ToSet
        <4> QED  BY <1>7, <4>1, <4>2, <4>3
      <3> QED  BY <1>1, <3>1, <3>2
    <2> DEFINE way == IF ~Apart(c) THEN "kept" ELSE IF RunTime(c) = 0 THEN "unattached" ELSE "run time"
    <2>3. Ways(narrowed, c) = {way}
      BY <2>1, <2>2 DEF Ways
    <2> HIDE DEF way
    <2> QED  BY <2>3, FS_Singleton
  <1> QED  BY <1>1, <1>8a, <1>9, <1>10 DEF narrowed, all

\* Before an object is placed it does not matter which are declared.
LEMMA NoneYet ==
  ASSUME NEW report, NEW before, NEW after, WentSomewhere(report, before, 0)
  PROVE  WentSomewhere(report, after, 0)
  <1>1. 1..0 = {}  OBVIOUS
  <1>2. {before[i].name : i \in 1..0} = {after[i].name : i \in 1..0}  BY <1>1
  <1> QED  BY <1>2 DEF WentSomewhere

\* What is measured is a list.
LEMMA CoefficientsAreAList ==
  ASSUME Parsed(project), read_characterisation(project.characterisation).ok
  PROVE  IsList(characterisation.coefficients)
  <1> DEFINE c == project.characterisation.coefficient
             entries == [i \in DOMAIN c |-> ReadEntry(c[i].key, c[i])]
  <1>1. c \in Seq(ToSet(c))  BY DEF Parsed, Listed
  <1>2. characterisation.coefficients = entries
    BY DEF characterisation, read_characterisation, Ok, Refused
  <1> HIDE DEF c
  <1>3. DOMAIN c = 1..Len(c) /\ Len(c) \in Nat  BY <1>1
  <1>4. entries \in Seq({entries[i] : i \in DOMAIN c})  BY <1>3
  <1> QED  BY <1>2, <1>4 DEF IsList

\* The price is the last step, and what was narrowed for it is what is reported.
LEMMA PriceDropsNothing ==
  ASSUME AuditStands, Parsed(project), Price, stage' = "done"
  PROVE  DOMAIN audit' = DOMAIN audit /\ NothingIsDropped'
  <1> DEFINE narrowed == Narrow(audit)
  <1>1. /\ stage = "place" /\ at > Len(work.objects) /\ UNCHANGED <<project, work>>
        /\ \E charge, quiet : audit' = [narrowed EXCEPT !.cost = charge, !.quiet = quiet]
    <2> HIDE DEF narrowed
    <2> QED  BY DEF Price, Given, Stop, Go, narrowed
  <1>2. /\ AuditFields /\ at \in 1..(Len(work.objects) + 1) /\ Len(work.objects) \in Nat
        /\ WentSomewhere(audit, work.objects, at - 1) /\ AllHaveRoom(audit)
        /\ read_characterisation(project.characterisation).ok
    BY <1>1 DEF AuditStands, Declares, IsList
  <1>3. at - 1 = Len(work.objects)  BY <1>1, <1>2
  <1>4. WentSomewhere(audit, work.objects, Len(work.objects))  BY <1>2, <1>3
  <1>5. IsList(characterisation.coefficients)  BY <1>2, CoefficientsAreAList
  <1>6. /\ DOMAIN narrowed = DOMAIN audit
        /\ narrowed.placements = audit.placements /\ narrowed.unplaced = audit.unplaced
        /\ Len(narrowed.runtime_placed) = Len(audit.runtime_placed)
        /\ Names(narrowed.runtime_placed) = Names(audit.runtime_placed)
        /\ \A c \in ToSet(characterisation.coefficients) : Cardinality(Ways(narrowed, c)) = 1
    BY <1>2, <1>4, <1>5, NarrowDropsNothing DEF WentSomewhere
  <1> HIDE DEF narrowed
  <1>7. /\ DOMAIN audit' = DOMAIN audit
        /\ audit'.placements = audit.placements /\ audit'.unplaced = audit.unplaced
        /\ audit'.runtime_placed = narrowed.runtime_placed
        /\ audit'.kept = narrowed.kept /\ audit'.unattached = narrowed.unattached
    BY <1>1, <1>2, <1>6 DEF AuditFields, NoAudit
  <1>8. \A c : Ways(audit', c) = Ways(narrowed, c)  BY <1>7 DEF Ways
  <1>9. characterisation' = characterisation  BY <1>1 DEF characterisation
  <1>10. \A c \in ToSet(characterisation'.coefficients) : Cardinality(Ways(audit', c)) = 1
    BY <1>6, <1>8, <1>9
  <1>11. /\ Len(audit'.placements) + Len(audit'.unplaced) + Len(audit'.runtime_placed)
               = Len(work'.objects)
         /\ Names(work'.objects) = Names(audit'.placements) \cup ToSet(audit'.unplaced)
                                      \cup Names(audit'.runtime_placed)
    <2>1. Names(work.objects) = {work.objects[i].name : i \in 1..Len(work.objects)}
      BY DEF Names, AuditStands, Declares, IsList
    <2> QED  BY <1>1, <1>4, <1>6, <1>7, <2>1 DEF WentSomewhere
  <1> QED  BY <1>7, <1>10, <1>11 DEF NothingIsDropped, Ways, Names

LEMMA AuditKeeps ==
  ASSUME AuditStands, Parsed(project), AuditNext
  PROVE  AuditStands' /\ project' = project
  <1>1. AuditFields /\ Declares(work.objects)  BY DEF AuditStands
  <1>2. CASE Find
    <2>1. /\ stage = "find" /\ UNCHANGED <<project, work, audit>>
          /\ \/ stage' = "refused"
             \/ stage' = "project" /\ read_characterisation(project.characterisation).ok
      BY <1>2 DEF Find, Given, Stop, Go
    <2> QED  BY <1>1, <2>1 DEF AuditStands, AuditFields
  <1>3. CASE ProjectObjects
    <2>1. stage = "project" /\ UNCHANGED project
      BY <1>3 DEF ProjectObjects, Given
    <2>2. /\ UNCHANGED audit /\ DOMAIN work' = DOMAIN work /\ Declares(work'.objects)
          /\ stage' \in {"refused", "source", "requesters"}
      <3> DEFINE document == project.document
      <3>1. CASE document = Nothing
        <4>1. work' = [NoWork EXCEPT !.unresolved = {"no configuration"}] /\ UNCHANGED audit
              /\ stage' = "source"
          BY <1>3, <3>1 DEF ProjectObjects, Go
        <4>2. work'.objects = <<>> /\ DOMAIN work' = DOMAIN NoWork  BY <4>1 DEF NoWork
        <4>3. Declares(<<>>)
          <5>1. <<>> \in Seq({}) /\ DOMAIN <<>> = {}  OBVIOUS
          <5> QED  BY <5>1 DEF Declares, IsList
        <4> QED  BY <1>1, <4>1, <4>2, <4>3 DEF AuditFields
      <3>2. CASE document # Nothing /\ ~from_toml(document)
        BY <1>1, <1>3, <3>2 DEF ProjectObjects, Go, Stop
      <3>3. CASE document # Nothing /\ from_toml(document)
        <4>1. UNCHANGED audit /\ stage' = "requesters"
          BY <1>3, <3>3 DEF ProjectObjects, Go
        <4>2. work'.objects = objects_of(document) /\ DOMAIN work' = DOMAIN NoWork
          BY <1>3, <3>3 DEF ProjectObjects, NoWork
        <4>3. Declares(objects_of(document))  BY <3>3, ObjectsAreDeclared
        <4> QED  BY <1>1, <4>1, <4>2, <4>3 DEF AuditFields
      <3> QED  BY <3>1, <3>2, <3>3
    <2>3. WentSomewhere(audit, work'.objects, 0)  BY <2>1, NoneYet DEF AuditStands
    <2> QED  BY <1>1, <2>1, <2>2, <2>3 DEF AuditStands, AuditFields
  <1>4. CASE ProjectRequester
    <2>1. /\ stage = "requesters" /\ UNCHANGED <<project, stage, audit>>
          /\ \E x : work' = [work EXCEPT !.unresolved = x] \/ work' = [work EXCEPT !.requesters = x]
      BY <1>4 DEF ProjectRequester, Given
    <2>2. DOMAIN work' = DOMAIN work /\ work'.objects = work.objects
      BY <1>1, <2>1 DEF AuditFields, NoWork
    <2> QED  BY <1>1, <2>1, <2>2 DEF AuditStands, AuditFields
  <1>5. CASE Projected
    <2>1. stage = "requesters" /\ stage' = "source" /\ UNCHANGED <<project, work, audit>>
      BY <1>5 DEF Projected, Given, Go
    <2> QED  BY <1>1, <2>1 DEF AuditStands, AuditFields
  <1>6. CASE ReadObjects
    <2>1. /\ stage = "source" /\ UNCHANGED <<project, work>>
          /\ \/ stage' = "refused" /\ UNCHANGED audit
             \/ /\ stage' = "place" /\ at' = 1
                /\ \E m, c : audit' = [audit EXCEPT !.mismatch = m, !.contradictions = c]
      BY <1>6 DEF ReadObjects, Given, Go, Stop
    <2>2. /\ DOMAIN audit' = DOMAIN audit /\ audit'.placements = audit.placements
          /\ audit'.unplaced = audit.unplaced /\ audit'.runtime_placed = audit.runtime_placed
      BY <1>1, <2>1 DEF AuditFields, NoAudit
    <2>3. WentSomewhere(audit', work.objects, 0) /\ AllHaveRoom(audit')
      BY <2>1, <2>2 DEF AuditStands, WentSomewhere, AllHaveRoom
    <2>4. Len(work.objects) \in Nat  BY <1>1 DEF Declares, IsList
    <2>5. CASE stage' = "refused"  BY <1>1, <2>1, <2>5 DEF AuditStands, AuditFields
    <2>6. CASE stage' = "place"
      <3>0. at' = 1  BY <2>1, <2>6
      <3>1. at' \in 1..(Len(work.objects) + 1) /\ at' - 1 = 0  BY <2>4, <3>0
      <3>2. WentSomewhere(audit', work'.objects, at' - 1)  BY <2>1, <2>3, <3>1
      <3>3. work' = work /\ AuditFields'  BY <1>1, <2>1, <2>2 DEF AuditFields
      <3> QED  BY <1>1, <2>1, <2>3, <2>6, <3>1, <3>2, <3>3 DEF AuditStands
    <2> QED  BY <2>1, <2>5, <2>6
  <1>7. CASE PlaceObject
    <2>1. /\ stage = "place" /\ at <= Len(work.objects) /\ at' = at + 1
          /\ UNCHANGED <<project, stage, work>> /\ audit' = WithObject(audit, work.objects[at])
      BY <1>7 DEF PlaceObject, Given
    <2>2. /\ at \in 1..Len(work.objects) /\ Len(work.objects) \in Nat
          /\ WentSomewhere(audit, work.objects, at - 1) /\ AllHaveRoom(audit)
      BY <1>1, <2>1 DEF AuditStands, Declares, IsList
    <2>3. /\ DOMAIN audit' = DOMAIN audit /\ WentSomewhere(audit', work.objects, at)
          /\ AllHaveRoom(audit')
      BY <1>1, <2>1, <2>2, ObjectGoes
    <2>4. at' \in 1..(Len(work.objects) + 1) /\ at' - 1 = at  BY <2>1, <2>2
    <2> QED  BY <1>1, <2>1, <2>3, <2>4 DEF AuditStands, AuditFields
  <1>8. CASE Price
    <2>1. /\ stage = "place" /\ UNCHANGED <<project, work>>
          /\ stage' = "done" \/ (stage' = "refused" /\ UNCHANGED audit)
      BY <1>8 DEF Price, Given, Go, Stop
    <2>2. stage' = "done" => DOMAIN audit' = DOMAIN audit /\ NothingIsDropped'
      BY <1>8, PriceDropsNothing
    <2> QED  BY <1>1, <2>1, <2>2 DEF AuditStands, AuditFields
  <1>9. CASE Rebuild
    <2>1. stage # "done" /\ UNCHANGED <<project, stage, work, at, audit>>
      BY <1>9 DEF Rebuild
    <2> QED  BY <1>1, <2>1 DEF AuditStands, AuditFields
  <1> QED
    BY <1>2, <1>3, <1>4, <1>5, <1>6, <1>7, <1>8, <1>9 DEF AuditNext, AuditStep

LEMMA AuditStaysAsItIs ==
  ASSUME UNCHANGED auditVars
  PROVE  AuditStands' = AuditStands /\ project' = project
  <1>1. UNCHANGED <<project, stage, work, at, audit>>  BY DEF auditVars
  <1>2. NothingIsDropped' = NothingIsDropped  BY <1>1 DEF NothingIsDropped, characterisation
  <1> QED  BY <1>1, <1>2 DEF AuditStands, AuditFields

-----------------------------------------------------------------------------
(* Orders. *)

\* A relation that puts any two elements of a set one before the other.
Orders(before, S) ==
  /\ \A x \in S : <<x, x>> \notin before
  /\ \A x, y \in S : x # y => <<x, y>> \in before \/ <<y, x>> \in before
  /\ \A x, y, z \in S : <<x, y>> \in before /\ <<y, z>> \in before => <<x, z>> \in before

Ahead(S, before, x) == {y \in S : <<y, x>> \in before}

\* How many are before an element tells where it is.
LEMMA Ranks ==
  ASSUME NEW S, IsFiniteSet(S), NEW before, Orders(before, S), NEW x \in S
  PROVE  /\ Cardinality(Ahead(S, before, x)) \in 0..(Cardinality(S) - 1)
         /\ \A y \in S : <<y, x>> \in before =>
              Cardinality(Ahead(S, before, y)) < Cardinality(Ahead(S, before, x))
  <1>1. /\ Cardinality(S) \in Nat
        /\ IsFiniteSet(S \ {x}) /\ Cardinality(S \ {x}) = Cardinality(S) - 1
    BY FS_CardinalityType, FS_RemoveElement
  <1>2. Ahead(S, before, x) \in SUBSET (S \ {x})  BY DEF Ahead, Orders
  <1>3. /\ IsFiniteSet(Ahead(S, before, x))
        /\ Cardinality(Ahead(S, before, x)) <= Cardinality(S) - 1
        /\ Cardinality(Ahead(S, before, x)) \in Nat
    BY <1>1, <1>2, FS_Subset, FS_CardinalityType
  <1>4. ASSUME NEW y \in S, <<y, x>> \in before
        PROVE  Cardinality(Ahead(S, before, y)) < Cardinality(Ahead(S, before, x))
    <2>1. Ahead(S, before, y) \in SUBSET Ahead(S, before, x)  BY <1>4 DEF Ahead, Orders
    <2>2. y \in Ahead(S, before, x) /\ y \notin Ahead(S, before, y)  BY <1>4 DEF Ahead, Orders
    <2>3. /\ Cardinality(Ahead(S, before, y)) <= Cardinality(Ahead(S, before, x))
          /\ Cardinality(Ahead(S, before, x)) # Cardinality(Ahead(S, before, y))
          /\ Cardinality(Ahead(S, before, y)) \in Nat
      BY <1>3, <2>1, <2>2, FS_Subset, FS_CardinalityType
    <2> QED  BY <1>3, <2>3
  <1> QED  BY <1>1, <1>3, <1>4

\* Every element of the set is in it once, and nothing else.
LEMMA OrderHasAll ==
  ASSUME NEW S, IsFiniteSet(S), NEW before, Orders(before, S)
  PROVE  /\ InOrder(S, before) \in Seq(S) /\ Len(InOrder(S, before)) = Cardinality(S)
         /\ DOMAIN InOrder(S, before) = 1..Cardinality(S)
         /\ ToSet(InOrder(S, before)) = S
  <1> DEFINE N == Cardinality(S)
             f == [x \in S |-> Cardinality(Ahead(S, before, x))]
  <1>1. N \in Nat  BY FS_CardinalityType
  <1>2. f \in Injection(S, 0..(N - 1))
    <2>1. f \in [S -> 0..(N - 1)]  BY Ranks
    <2>2. ASSUME NEW x \in S, NEW y \in S, f[x] = f[y] PROVE x = y
      <3>1. /\ Cardinality(Ahead(S, before, x)) \in Int
            /\ Cardinality(Ahead(S, before, x)) = Cardinality(Ahead(S, before, y))
        BY <2>2, Ranks
      <3>2. <<x, y>> \notin before /\ <<y, x>> \notin before
        <4>1. <<x, y>> \in before =>
                Cardinality(Ahead(S, before, x)) < Cardinality(Ahead(S, before, y))
          BY Ranks
        <4>2. <<y, x>> \in before =>
                Cardinality(Ahead(S, before, y)) < Cardinality(Ahead(S, before, x))
          BY Ranks
        <4> QED  BY <3>1, <4>1, <4>2
      <3> QED  BY <3>2 DEF Orders
    <2> HIDE DEF f
    <2> QED  BY <2>1, <2>2 DEF Injection, IsInjective
  <1>3. f \in Surjection(S, 0..(N - 1))
    <2>1. IsFiniteSet(0..(N - 1)) /\ Cardinality(0..(N - 1)) = N
      <3>1. 0 \in Int /\ N - 1 \in Int  BY <1>1
      <3>2. /\ IsFiniteSet(0..(N - 1))
            /\ Cardinality(0..(N - 1)) = IF 0 > N - 1 THEN 0 ELSE N - 1 - 0 + 1
        BY <3>1, FS_Interval
      <3> QED  BY <1>1, <3>2
    <2> HIDE DEF f
    <2> QED  BY <1>2, <2>1, FS_Injection
  <1> DEFINE A == InOrder(S, before)
             At(k) == CHOOSE x \in S : Cardinality(Ahead(S, before, x)) = k - 1
  <1>4. A = [k \in 1..N |-> At(k)]  BY DEF InOrder, Ahead
  <1>5. \A k \in 1..N : At(k) \in S /\ Cardinality(Ahead(S, before, At(k))) = k - 1
    <2>1. TAKE k \in 1..N
    <2>2. k - 1 \in 0..(N - 1)  BY <1>1
    <2>3. \E x \in S : f[x] = k - 1  BY <1>3, <2>2 DEF Surjection
    <2>4. \E x \in S : Cardinality(Ahead(S, before, x)) = k - 1  BY <2>3
    <2> QED  BY <2>4
  <1>6. ASSUME NEW x \in S PROVE \E k \in 1..N : At(k) = x
    <2> DEFINE k == Cardinality(Ahead(S, before, x)) + 1
    <2>1. Cardinality(Ahead(S, before, x)) \in 0..(N - 1)  BY Ranks
    <2>2. k \in 1..N /\ k - 1 = Cardinality(Ahead(S, before, x))  BY <1>1, <2>1
    <2> HIDE DEF k, At, f
    <2>3. At(k) \in S /\ Cardinality(Ahead(S, before, At(k))) = Cardinality(Ahead(S, before, x))
      BY <1>5, <2>2
    <2>4. At(k) = x
      <3>1. f[At(k)] = f[x]  BY <2>3 DEF f
      <3> QED  BY <1>2, <2>3, <3>1 DEF Injection, IsInjective
    <2> QED  BY <2>2, <2>4
  <1> HIDE DEF A, At, N
  <1>7. A \in Seq(S) /\ Len(A) = N /\ DOMAIN A = 1..N  BY <1>1, <1>4, <1>5
  <1>8. ToSet(A) = S  BY <1>4, <1>5, <1>6, <1>7 DEF ToSet
  <1> QED  BY <1>7, <1>8 DEF A, N

LEMMA AscendingHasAll ==
  ASSUME NEW S \in SUBSET Int, IsFiniteSet(S)
  PROVE  /\ Ascending(S) \in Seq(S) /\ Len(Ascending(S)) = Cardinality(S)
         /\ ToSet(Ascending(S)) = S
  <1> DEFINE less == {p \in S \X S : p[1] < p[2]}
  <1>1. \A x, y \in S : <<x, y>> \in less <=> x < y  OBVIOUS
  <1> HIDE DEF less
  <1>2. Orders(less, S)  BY <1>1 DEF Orders
  <1>3. Ascending(S) = InOrder(S, less)  BY DEF Ascending, less
  <1> QED  BY <1>2, <1>3, OrderHasAll

\* A relation of which neither way holds between two positions only where they are alike.
Weakly(before, S) ==
  /\ \A x \in S : <<x, x>> \notin before
  /\ \A x, y, z \in S : <<x, z>> \in before => <<x, y>> \in before \/ <<y, z>> \in before
  /\ \A x, y \in S : ~(<<x, y>> \in before /\ <<y, x>> \in before)

\* Sorting keeps what is sorted.
LEMMA SortedHasAll ==
  ASSUME NEW T, NEW seq \in Seq(T), NEW before, Weakly(before, DOMAIN seq)
  PROVE  /\ Sorted(seq, before) \in Seq(T) /\ Len(Sorted(seq, before)) = Len(seq)
         /\ DOMAIN Sorted(seq, before) = DOMAIN seq
         /\ ToSet(Sorted(seq, before)) = ToSet(seq)
  <1> DEFINE D == DOMAIN seq
             stable == {p \in D \X D : p \in before \/ (<<p[2], p[1]>> \notin before /\ p[1] < p[2])}
             order == InOrder(D, stable)
             sorted == [k \in D |-> seq[order[k]]]
  <1>1. D = 1..Len(seq) /\ Len(seq) \in Nat  OBVIOUS
  <1>6. Sorted(seq, before) = sorted  BY DEF Sorted
  <1>2. IsFiniteSet(D) /\ Cardinality(D) = Len(seq)
    <2>1. 1 \in Int /\ Len(seq) \in Int  BY <1>1
    <2>2. /\ IsFiniteSet(1..Len(seq))
          /\ Cardinality(1..Len(seq)) = IF 1 > Len(seq) THEN 0 ELSE Len(seq) - 1 + 1
      BY <2>1, FS_Interval
    <2> HIDE DEF D
    <2> QED  BY <1>1, <2>2
  <1>3. \A x, y \in D : <<x, y>> \in stable <=>
          <<x, y>> \in before \/ (<<y, x>> \notin before /\ x < y)
    OBVIOUS
  <1> HIDE DEF stable
  <1>4. Orders(stable, D)
    <2>1. \A x, y, z \in D : /\ ~(x < x) /\ (x # y => x < y \/ y < x)
                            /\ (x < y /\ y < z => x < z)
      BY <1>1
    <2> HIDE DEF D
    <2>2. Weakly(before, D)  BY DEF D
    <2>3. \A x \in D : <<x, x>> \notin stable  BY <1>3, <2>1, <2>2 DEF Weakly
    <2>4. \A x, y \in D : x # y => <<x, y>> \in stable \/ <<y, x>> \in stable
      BY <1>3, <2>1, <2>2 DEF Weakly
    <2>5. \A x, y, z \in D : <<x, y>> \in stable /\ <<y, z>> \in stable => <<x, z>> \in stable
      <3>1. TAKE x, y, z \in D
      <3>2. HAVE <<x, y>> \in stable /\ <<y, z>> \in stable
      <3>3. <<y, x>> \notin before /\ <<z, y>> \notin before
        BY <1>3, <2>2, <3>2 DEF Weakly
      <3>4. <<z, x>> \notin before  BY <2>2, <3>3 DEF Weakly
      <3>5. CASE <<x, y>> \in before
        <4>1. <<x, z>> \in before \/ <<z, y>> \in before  BY <2>2, <3>5 DEF Weakly
        <4> QED  BY <1>3, <3>3, <4>1
      <3>6. CASE <<y, z>> \in before
        <4>1. <<y, x>> \in before \/ <<x, z>> \in before  BY <2>2, <3>6 DEF Weakly
        <4> QED  BY <1>3, <3>3, <4>1
      <3>7. CASE <<x, y>> \notin before /\ <<y, z>> \notin before
        <4>1. x < y /\ y < z  BY <1>3, <3>2, <3>7
        <4>2. x < z  BY <2>1, <4>1
        <4> QED  BY <1>3, <3>4, <4>2
      <3> QED  BY <3>5, <3>6, <3>7
    <2> QED  BY <2>3, <2>4, <2>5 DEF Orders
  <1>5. order \in Seq(D) /\ DOMAIN order = D /\ ToSet(order) = D
    <2> HIDE DEF D
    <2>1. /\ order \in Seq(D) /\ DOMAIN order = 1..Cardinality(D) /\ ToSet(order) = D
      BY <1>2, <1>4, OrderHasAll
    <2> QED  BY <1>1, <1>2, <2>1
  <1> HIDE DEF order
  <1>7. \A k \in D : order[k] \in D  BY <1>5
  <1>8. sorted \in Seq(T) /\ Len(sorted) = Len(seq) /\ DOMAIN sorted = D
    <2>1. \A k \in 1..Len(seq) : seq[order[k]] \in T  BY <1>1, <1>7
    <2> QED  BY <1>1, <2>1
  <1>9. ToSet(sorted) = ToSet(seq)
    <2>1. \A i \in D : \E k \in D : order[k] = i  BY <1>5 DEF ToSet
    <2> QED  BY <1>7, <1>8, <2>1 DEF ToSet
  <1> QED  BY <1>6, <1>8, <1>9

-----------------------------------------------------------------------------
(* What a placement touches. *)

GoodRegions(regions) ==
  /\ IsList(regions)
  /\ \A i \in DOMAIN regions :
       /\ regions[i].id \in Nat /\ regions[i].base \in Nat /\ regions[i].bytes \in Nat
       /\ regions[i] # Nothing /\ regions[i].name # Nothing
  /\ \A i, j \in DOMAIN regions : regions[i].id = regions[j].id => i = j

\* A profile that is read numbers its regions.
LEMMA RegionsAreGood ==
  ASSUME Parsed(project), Profile(project.profile).ok
  PROVE  GoodRegions(profile.regions)
  <1> DEFINE listed == project.profile.memory_regions
  <1>1. /\ listed \in Seq(ToSet(listed))
        /\ \A r \in ToSet(listed) :
             /\ r.id \in Optional(Nat) /\ r.base \in Nat /\ r.bytes \in Nat
             /\ r # Nothing /\ r.name # Nothing
    BY DEF Parsed, Listed
  <1>2. /\ \A i \in DOMAIN listed :
             listed[i].id # Nothing /\ \A j \in 1..(i - 1) : listed[j].id # listed[i].id
        /\ profile.regions = listed
    BY DEF profile, Profile, Ok, Refused
  <1> HIDE DEF listed
  <1>3. DOMAIN listed = 1..Len(listed) /\ Len(listed) \in Nat  BY <1>1
  <1>4. \A i \in DOMAIN listed :
          /\ listed[i].id \in Nat /\ listed[i].base \in Nat /\ listed[i].bytes \in Nat
          /\ listed[i] # Nothing /\ listed[i].name # Nothing
    BY <1>1, <1>2 DEF ToSet, Optional
  <1>5. ASSUME NEW i \in DOMAIN listed, NEW j \in DOMAIN listed, listed[i].id = listed[j].id
        PROVE  i = j
    <2>1. i \in 1..(j - 1) \/ j \in 1..(i - 1) \/ i = j  BY <1>3
    <2> QED  BY <1>2, <1>5, <2>1
  <1> QED  BY <1>1, <1>2, <1>4, <1>5 DEF GoodRegions, IsList

\* The first of a list with an index in a set.
First(list, I) == IF I = {} THEN Nothing ELSE list[Min(I)]

LEMMA FirstIs ==
  ASSUME NEW list, IsList(list), NEW I \in SUBSET (1..Len(list)), I # {}
  PROVE  Min(I) \in I /\ Min(I) \in DOMAIN list /\ Min(I) # 0 /\ First(list, I) = list[Min(I)]
  <1>1. DOMAIN list = 1..Len(list) /\ Len(list) \in Nat  BY DEF IsList
  <1>2. I \in SUBSET Nat  BY <1>1
  <1>3. Min(I) \in I  BY <1>2, MinIsLeast
  <1>4. Min(I) \in DOMAIN list /\ Min(I) # 0
    <2>1. \A i \in I : i \in DOMAIN list /\ i # 0  BY <1>1
    <2> QED  BY <1>3, <2>1
  <1>5. First(list, I) = list[Min(I)]  BY DEF First
  <1> QED  BY <1>3, <1>4, <1>5

AttachedAt(placements, c) == {i \in 1..Len(placements) : placements[i].name = c.key.object}
EndpointAt(requesters, c) ==
  {i \in 1..Len(requesters) :
     requesters[i].name = c.key.requester /\ requesters[i].endpoint = c.key.endpoint}
RegionAt(regions, id) == {i \in 1..Len(regions) : regions[i].id = id}

LEMMA AttachedIsFirst ==
  ASSUME NEW placements, IsList(placements), NEW c
  PROVE  Attached(placements, c) = First(placements, AttachedAt(placements, c))
  <1> DEFINE I == AttachedAt(placements, c)
  <1>1. Attached(placements, c) =
          LET i == IF I # {} THEN Min(I) ELSE 0 IN IF i = 0 THEN Nothing ELSE placements[i]
    BY DEF Attached, FirstOf, SelectInSeq, AttachedAt
  <1>2. I \in SUBSET (1..Len(placements))  BY DEF AttachedAt
  <1> HIDE DEF I
  <1>3. I # {} => Min(I) # 0  BY <1>2, FirstIs
  <1> QED  BY <1>1, <1>3 DEF First, I

LEMMA EndpointIsFirst ==
  ASSUME NEW requesters, IsList(requesters), NEW c
  PROVE  Endpoint(requesters, c) = First(requesters, EndpointAt(requesters, c))
  <1> DEFINE I == EndpointAt(requesters, c)
  <1>1. Endpoint(requesters, c) =
          LET i == IF I # {} THEN Min(I) ELSE 0 IN IF i = 0 THEN Nothing ELSE requesters[i]
    BY DEF Endpoint, FirstOf, SelectInSeq, EndpointAt
  <1>2. I \in SUBSET (1..Len(requesters))  BY DEF EndpointAt
  <1> HIDE DEF I
  <1>3. I # {} => Min(I) # 0  BY <1>2, FirstIs
  <1> QED  BY <1>1, <1>3 DEF First, I

RegionOf(regions, id) == FirstOf(regions, LAMBDA q : q.id = id)

\* A region that is declared is found by its number.
LEMMA RegionIsFound ==
  ASSUME NEW regions, GoodRegions(regions), NEW k \in DOMAIN regions
  PROVE  RegionOf(regions, regions[k].id) = regions[k]
  <1> DEFINE I == RegionAt(regions, regions[k].id)
  <1>1. RegionOf(regions, regions[k].id) =
          LET i == IF I # {} THEN Min(I) ELSE 0 IN IF i = 0 THEN Nothing ELSE regions[i]
    BY DEF RegionOf, FirstOf, SelectInSeq, RegionAt
  <1>2. I \in SUBSET (1..Len(regions)) /\ k \in I /\ IsList(regions)
        /\ \A i \in I : i \in DOMAIN regions /\ regions[i].id = regions[k].id
    BY DEF RegionAt, GoodRegions, IsList
  <1> HIDE DEF I
  <1>3. Min(I) # 0 /\ Min(I) \in I  BY <1>2, FirstIs
  <1>4. Min(I) = k  BY <1>2, <1>3 DEF GoodRegions
  <1> QED  BY <1>1, <1>2, <1>3, <1>4

\* The overlap is not empty where one byte is in both.
OneByte(p, region) ==
  \E byte \in p.addr..(p.addr + Larger(p.bytes, 1) - 1) :
    byte \in region.base..(region.base + region.bytes - 1)

LEMMA OverlapIsBytes ==
  ASSUME NEW addr \in Nat, NEW n \in Nat \ {0}, NEW base \in Nat, NEW m \in Nat
  PROVE  Larger(0, Smaller(addr + n, base + m) - Larger(addr, base)) # 0
           <=> \E byte \in addr..(addr + n - 1) : byte \in base..(base + m - 1)
  <1> DEFINE top == Smaller(addr + n, base + m)  low == Larger(addr, base)
  <1>1. /\ top \in Int /\ low \in Int
        /\ top <= addr + n /\ top <= base + m /\ (top = addr + n \/ top = base + m)
        /\ low >= addr /\ low >= base /\ (low = addr \/ low = base)
    BY DEF Smaller, Larger
  <1> HIDE DEF top, low
  <1>2. Larger(0, top - low) # 0 <=> top > low  BY <1>1 DEF Larger
  <1>3. ASSUME top > low PROVE \E byte \in addr..(addr + n - 1) : byte \in base..(base + m - 1)
    <2>1. low \in addr..(addr + n - 1) /\ low \in base..(base + m - 1)  BY <1>1, <1>3
    <2> QED  BY <2>1
  <1>4. ASSUME NEW byte \in addr..(addr + n - 1), byte \in base..(base + m - 1) PROVE top > low
    BY <1>1, <1>4
  <1> QED  BY <1>2, <1>3, <1>4 DEF top, low

\* The regions of a placement are those it has a byte in.
LEMMA Touches ==
  ASSUME NEW regions, GoodRegions(regions), NEW k \in DOMAIN regions,
         NEW p, p.addr \in Nat, p.bytes \in Int
  PROVE  regions[k].id \in ToSet(Regions(p, regions)) <=> OneByte(p, regions[k])
  <1> DEFINE n == Larger(p.bytes, 1)
             Over(q) == overlap_bytes(p.addr, n, q) # 0
             ids == {r.id : r \in {q \in ToSet(regions) : Over(q)}}
  <1>1. n \in Nat \ {0}  BY DEF Larger
  <1>2. Regions(p, regions) = Ascending(ids)  BY DEF Regions, regions_spanned
  <1>3. Over(regions[k]) <=> OneByte(p, regions[k])
    <2>1. regions[k].base \in Nat /\ regions[k].bytes \in Nat  BY DEF GoodRegions
    <2> QED  BY <1>1, <2>1, OverlapIsBytes DEF overlap_bytes, OneByte
  <1> HIDE DEF Over, n
  <1>4. ids \in SUBSET Int /\ IsFiniteSet(ids)
    <2> DEFINE all == {regions[i].id : i \in DOMAIN regions}
               f == [i \in DOMAIN regions |-> regions[i].id]
    <2>1. f \in Surjection(DOMAIN regions, all)  BY DEF Surjection
    <2>2. IsFiniteSet(DOMAIN regions)
      <3>1. DOMAIN regions = 1..Len(regions) /\ Len(regions) \in Int  BY DEF GoodRegions, IsList
      <3> QED  BY <3>1, FS_Interval
    <2>3. IsFiniteSet(all)
      <3> HIDE DEF f, all
      <3> QED  BY <2>1, <2>2, FS_Surjection
    <2>4. ids \in SUBSET all  BY DEF ToSet
    <2>5. all \in SUBSET Int  BY DEF GoodRegions
    <2> HIDE DEF all, ids
    <2> QED  BY <2>3, <2>4, <2>5, FS_Subset
  <1>5. ToSet(Regions(p, regions)) = ids
    <2> HIDE DEF ids
    <2> QED  BY <1>2, <1>4, AscendingHasAll
  <1>6. regions[k].id \in ids <=> Over(regions[k])  BY DEF ToSet, GoodRegions
  <1> QED  BY <1>3, <1>5, <1>6

-----------------------------------------------------------------------------
(* What a placement costs. *)

\* What is priced: sizes and addresses, rates, and coefficients with both ends or neither, each of
\* an object that is placed and an endpoint that is declared.
Sized(placements) ==
  /\ IsList(placements)
  /\ \A p \in ToSet(placements) : p.addr \in Nat /\ p.bytes \in Int /\ p.name \in ToSet(NameOrder)

Rated(requesters, regions) ==
  /\ IsList(requesters)
  /\ \A r \in ToSet(requesters) :
       /\ r.transactions_per_second \in Optional(Int)
       /\ \E k \in DOMAIN regions : regions[k].id = r.region

Based(c) ==
  /\ c.basis.low \in Optional(Int) /\ c.basis.high \in Optional(Int)
  /\ c.basis.high # Nothing => c.basis.low # Nothing

Priceable(placements, requesters, kept, regions, window) ==
  /\ Sized(placements) /\ Rated(requesters, regions) /\ GoodRegions(regions) /\ window \in Nat
  /\ IsList(kept)
  /\ \A c \in ToSet(kept) :
       Based(c) /\ Attached(placements, c) # Nothing /\ Endpoint(requesters, c) # Nothing

\* The terms of one coefficient, and what the bytes say of it.
TermsAt(placements, requesters, c, regions, window) ==
  TermsOf(c, Attached(placements, c), Endpoint(requesters, c), regions, window)
MeetsAt(placements, requesters, c, regions) ==
  OneByte(Attached(placements, c), RegionOf(regions, Endpoint(requesters, c).region))
KnownAt(requesters, c) ==
  c.basis.high # Nothing /\ Endpoint(requesters, c).transactions_per_second # Nothing
ChargeAt(requesters, c, end, window) ==
  end * window * Endpoint(requesters, c).transactions_per_second

LEMMA Product ==
  ASSUME NEW end \in Int, NEW rate \in Int, NEW window \in Nat
  PROVE  end * (rate * window) = end * window * rate /\ end * (rate * window) \in Int
  OBVIOUS

\* One coefficient has one term where its object has a byte in the region its requester touches,
\* and a number in it where the rate and the coefficient are numbers.
LEMMA OneTerm ==
  ASSUME NEW placements, NEW requesters, NEW kept, NEW regions, NEW window,
         Priceable(placements, requesters, kept, regions, window), NEW c \in ToSet(kept)
  PROVE  LET terms == TermsAt(placements, requesters, c, regions, window)
         IN  /\ MeetsAt(placements, requesters, c, regions) => \E term : terms = <<term>>
             /\ ~MeetsAt(placements, requesters, c, regions) => terms = <<>>
             /\ \A term : terms = <<term>> =>
                  /\ term.high # Nothing <=> KnownAt(requesters, c)
                  /\ KnownAt(requesters, c) =>
                       /\ term.low = ChargeAt(requesters, c, c.basis.low, window)
                       /\ term.high = ChargeAt(requesters, c, c.basis.high, window)
                       /\ term.low \in Int /\ term.high \in Int
  <1> DEFINE p == Attached(placements, c)
             r == Endpoint(requesters, c)
             rate == r.transactions_per_second
             transactions == Times(rate, window)
             term0 == [key |-> c.key, region |-> r.region, basis |-> c.basis.basis,
                       low |-> Times(c.basis.low, transactions),
                       high |-> Times(c.basis.high, transactions)]
             terms == TermsAt(placements, requesters, c, regions, window)
  <1>0. /\ IsList(placements) /\ IsList(requesters) /\ window \in Nat /\ GoodRegions(regions)
        /\ Based(c) /\ p # Nothing /\ r # Nothing
    BY DEF Priceable, Sized, Rated
  <1>1. p.addr \in Nat /\ p.bytes \in Int
    <2> DEFINE I == AttachedAt(placements, c)
    <2>1. p = First(placements, I)  BY <1>0, AttachedIsFirst
    <2>2. I \in SUBSET (1..Len(placements))  BY DEF AttachedAt
    <2> HIDE DEF I, p
    <2>3. I # {}  BY <1>0, <2>1 DEF First
    <2>4. p \in ToSet(placements)  BY <1>0, <2>1, <2>2, <2>3, FirstIs DEF ToSet
    <2> QED  BY <2>4 DEF Priceable, Sized
  <1>2. rate \in Optional(Int) /\ \E k \in DOMAIN regions : regions[k].id = r.region
    <2> DEFINE I == EndpointAt(requesters, c)
    <2>1. r = First(requesters, I)  BY <1>0, EndpointIsFirst
    <2>2. I \in SUBSET (1..Len(requesters))  BY DEF EndpointAt
    <2> HIDE DEF I, r
    <2>3. I # {}  BY <1>0, <2>1 DEF First
    <2>4. r \in ToSet(requesters)  BY <1>0, <2>1, <2>2, <2>3, FirstIs DEF ToSet
    <2> QED  BY <2>4 DEF Priceable, Rated
  <1>3. r.region \in ToSet(Regions(p, regions)) <=> MeetsAt(placements, requesters, c, regions)
    <2>1. PICK k \in DOMAIN regions : regions[k].id = r.region  BY <1>2
    <2>2. RegionOf(regions, r.region) = regions[k]  BY <1>0, <2>1, RegionIsFound
    <2>3. regions[k].id \in ToSet(Regions(p, regions)) <=> OneByte(p, regions[k])
      <3> HIDE DEF p
      <3> QED  BY <1>0, <1>1, Touches
    <2> QED  BY <2>1, <2>2, <2>3 DEF MeetsAt
  <1>4. terms = IF r.region \notin ToSet(Regions(p, regions)) THEN <<>> ELSE <<term0>>
    BY DEF TermsAt, TermsOf
  <1>5. /\ term0.high # Nothing <=> KnownAt(requesters, c)
        /\ KnownAt(requesters, c) =>
             /\ term0.low = ChargeAt(requesters, c, c.basis.low, window)
             /\ term0.high = ChargeAt(requesters, c, c.basis.high, window)
             /\ term0.low \in Int /\ term0.high \in Int
    <2> DEFINE low == c.basis.low  high == c.basis.high
    <2>1. term0.low = Times(low, transactions) /\ term0.high = Times(high, transactions)
      OBVIOUS
    <2>2. low \in Optional(Int) /\ high \in Optional(Int) /\ (high # Nothing => low # Nothing)
      BY <1>0 DEF Based
    <2>3. KnownAt(requesters, c) <=> high # Nothing /\ rate # Nothing  BY DEF KnownAt
    <2>4. \A end : ChargeAt(requesters, c, end, window) = end * window * rate  BY DEF ChargeAt
    <2>5. window # Nothing  BY <1>0, NothingIsNoNumber
    <2> HIDE DEF low, high, rate, term0
    <2>6. CASE high # Nothing /\ rate # Nothing
      <3>1. low \in Int /\ high \in Int /\ rate \in Int  BY <1>2, <2>2, <2>6 DEF Optional
      <3>2. transactions = rate * window  BY <2>6, <2>5 DEF Times
      <3>3. rate * window \in Int  BY <1>0, <3>1
      <3>4. transactions # Nothing  BY <3>2, <3>3, NothingIsNoNumber
      <3>5. low # Nothing  BY <2>2, <2>6
      <3> HIDE DEF transactions
      <3>6. Times(low, transactions) = low * transactions
        BY <3>4, <3>5 DEF Times
      <3>7. Times(high, transactions) = high * transactions
        BY <3>4, <2>6 DEF Times
      <3>8. /\ low * (rate * window) = low * window * rate /\ low * (rate * window) \in Int
            /\ high * (rate * window) = high * window * rate /\ high * (rate * window) \in Int
        BY <1>0, <3>1, Product
      <3>9. /\ term0.low = low * window * rate /\ term0.low \in Int
            /\ term0.high = high * window * rate /\ term0.high \in Int
        BY <2>1, <3>2, <3>6, <3>7, <3>8, Zenon
      <3>10. term0.high # Nothing  BY <3>9, NothingIsNoNumber
      <3> QED  BY <2>3, <2>4, <2>6, <3>9, <3>10 DEF low, high
    <2>7. CASE high = Nothing \/ rate = Nothing
      <3>1. rate = Nothing => transactions = Nothing  BY DEF Times
      <3> HIDE DEF transactions
      <3>2. term0.high = Nothing  BY <2>1, <2>7, <3>1 DEF Times
      <3> QED  BY <2>3, <2>7, <3>2
    <2> QED  BY <2>6, <2>7
  <1> HIDE DEF term0, terms, p, r
  <1>6. \A term : <<term>> = <<term0>> => term = term0  OBVIOUS
  <1>7. \A term : <<term>> # <<>>  OBVIOUS
  <1> QED  BY <1>3, <1>4, <1>5, <1>6, <1>7 DEF terms

\* A cost whose low ends, high ends and verdict are what the bytes say of the coefficients in it.
IsWhatTheBytesSay(total, placements, requesters, kept, regions, window) ==
  LET charged == {i \in DOMAIN kept : MeetsAt(placements, requesters, kept[i], regions)}
      known == {i \in charged : KnownAt(requesters, kept[i])}
  IN  /\ total.low = SumFunction([i \in known |->
                        ChargeAt(requesters, kept[i], kept[i].basis.low, window)])
      /\ total.high = SumFunction([i \in known |->
                        ChargeAt(requesters, kept[i], kept[i].basis.high, window)])
      /\ Verdict(total) = "at least" <=> charged # known

\* The verdict is a bound where a term has no number.
LEMMA VerdictIs ==
  ASSUME NEW T, NEW terms \in Seq(T), NEW total, total.terms = terms
  PROVE  Verdict(total) = "at least" <=> \E t \in ToSet(terms) : t.high = Nothing
  <1> DEFINE blank == DOMAIN terms \ Priced(terms)
  <1>1. IsFiniteSet(blank)
    <2>1. IsFiniteSet(DOMAIN terms)
      <3>1. DOMAIN terms = 1..Len(terms) /\ Len(terms) \in Int  OBVIOUS
      <3> QED  BY <3>1, FS_Interval
    <2> QED  BY <2>1, FS_Subset
  <1>2. unpriced(total) = Cardinality(blank)  BY DEF unpriced
  <1>3. unpriced(total) = 0 <=> blank = {}
    <2> HIDE DEF blank
    <2> QED  BY <1>1, <1>2, FS_EmptySet
  <1>4. blank = {} <=> ~ \E t \in ToSet(terms) : t.high = Nothing
    BY DEF Priced, ToSet
  <1>5. terms = <<>> => blank = {}
    <2>1. DOMAIN <<>> = {}  OBVIOUS
    <2> QED  BY <2>1
  <1> HIDE DEF blank
  <1>6. Verdict(total) = "at least" <=> unpriced(total) # 0
    <2>1. CASE terms = <<>>  BY <1>3, <1>5, <2>1 DEF Verdict
    <2>2. CASE terms # <<>> /\ unpriced(total) = 0 /\ is_point_estimate(total)
      BY <2>2 DEF Verdict
    <2>3. CASE terms # <<>> /\ unpriced(total) = 0 /\ ~is_point_estimate(total)
      BY <2>3 DEF Verdict
    <2>4. CASE terms # <<>> /\ unpriced(total) # 0  BY <2>4 DEF Verdict
    <2> QED  BY <2>1, <2>2, <2>3, <2>4
  <1> QED  BY <1>3, <1>4, <1>6

\* The terms of all coefficients, one after the other, add up to that.
LEMMA TotalIsOfTheBytes ==
  ASSUME NEW placements, NEW requesters, NEW kept, NEW regions, NEW window,
         Priceable(placements, requesters, kept, regions, window)
  PROVE  IsWhatTheBytesSay(
           Totalled(FlattenSeq([i \in DOMAIN kept |->
                      TermsAt(placements, requesters, kept[i], regions, window)])),
           placements, requesters, kept, regions, window)
  <1> DEFINE Terms(i) == TermsAt(placements, requesters, kept[i], regions, window)
             Meets(i) == MeetsAt(placements, requesters, kept[i], regions)
             Known(i) == KnownAt(requesters, kept[i])
             Low(i) == ChargeAt(requesters, kept[i], kept[i].basis.low, window)
             High(i) == ChargeAt(requesters, kept[i], kept[i].basis.high, window)
             parts == [i \in DOMAIN kept |-> Terms(i)]
             T == {parts[i][1] : i \in {j \in DOMAIN kept : Meets(j)}}
             flat == FlattenSeq(parts)
             total == Totalled(flat)
             charged == {i \in DOMAIN kept : Meets(i)}
             known == {i \in charged : Known(i)}
             n == Len(kept)
  <1>0. DOMAIN kept = 1..n /\ n \in Nat  BY DEF Priceable, IsList
  <1>1. \A i \in DOMAIN kept :
          /\ Meets(i) => \E term : parts[i] = <<term>>
          /\ ~Meets(i) => parts[i] = <<>>
          /\ \A term : parts[i] = <<term>> =>
               /\ term.high # Nothing <=> Known(i)
               /\ Known(i) =>
                    /\ term.low = Low(i) /\ term.high = High(i)
                    /\ term.low \in Int /\ term.high \in Int
    <2> TAKE i \in DOMAIN kept
    <2>1. kept[i] \in ToSet(kept)  BY DEF ToSet
    <2>2. parts[i] = Terms(i)  OBVIOUS
    <2> HIDE DEF parts
    <2> QED  BY <2>1, <2>2, OneTerm
  <1>1a. DOMAIN parts = DOMAIN kept /\ parts = [i \in DOMAIN kept |-> parts[i]]  OBVIOUS
  <1> HIDE DEF Terms, Meets, Known, Low, High, parts, n
  <1>2. \A i \in DOMAIN kept :
          IF Meets(i) THEN parts[i] = <<parts[i][1]>> ELSE parts[i] = <<>>
    BY <1>1
  <1>3. /\ parts \in Seq(Seq(T)) /\ Len(parts) = n /\ \A i \in DOMAIN parts : Len(parts[i]) <= 1
    <2>1. \A i \in DOMAIN kept : parts[i] \in Seq(T) /\ Len(parts[i]) <= 1
      <3>1. TAKE i \in DOMAIN kept
      <3>2. CASE Meets(i)
        <4>1. parts[i][1] \in T  BY <3>2
        <4> HIDE DEF T
        <4>2. <<parts[i][1]>> \in Seq(T) /\ Len(<<parts[i][1]>>) = 1  BY <4>1
        <4>3. parts[i] = <<parts[i][1]>>  BY <1>2, <3>2
        <4>4. Len(parts[i]) = 1  BY <4>2, <4>3, Zenon
        <4>5. parts[i] \in Seq(T)  BY <4>2, <4>3, Zenon
        <4> QED  BY <4>4, <4>5
      <3>3. CASE ~Meets(i)
        <4>1. <<>> \in Seq(T) /\ Len(<<>>) = 0  OBVIOUS
        <4>2. parts[i] = <<>>  BY <1>2, <3>3
        <4>3. Len(parts[i]) = 0  BY <4>1, <4>2, Zenon
        <4>4. parts[i] \in Seq(T)  BY <4>1, <4>2, Zenon
        <4> QED  BY <4>3, <4>4
      <3> QED  BY <3>2, <3>3
    <2> HIDE DEF T
    <2> QED  BY <1>0, <1>1a, <2>1
  <1>4. \A i \in DOMAIN kept : parts[i] # <<>> <=> Meets(i)
    <2>1. \A x : <<x>> # <<>>  OBVIOUS
    <2> QED  BY <1>2, <2>1
  <1>5. \A i \in DOMAIN kept : Meets(i) =>
          /\ parts[i][1].high # Nothing <=> Known(i)
          /\ Known(i) => /\ parts[i][1].low = Low(i) /\ parts[i][1].high = High(i)
                         /\ parts[i][1].low \in Int /\ parts[i][1].high \in Int
    BY <1>1, <1>2
  <1>6. flat \in Seq(T) /\ ToSet(flat) = UNION {ToSet(parts[i]) : i \in 1..n}
    <2> HIDE DEF T
    <2> QED  BY <1>3, FlattenType, FlattenRange
  <1>7. ToSet(flat) = T
    <2>1. \A x : ToSet(<<x>>) = {x}  BY DEF ToSet
    <2>2. ToSet(<<>>) = {}  BY DEF ToSet
    <2>3. \A i \in DOMAIN kept : ToSet(parts[i]) = IF Meets(i) THEN {parts[i][1]} ELSE {}
      BY <1>2, <2>1, <2>2
    <2> HIDE DEF flat
    <2>4. ASSUME NEW x PROVE x \in ToSet(flat) <=> x \in T
      <3>1. x \in ToSet(flat) <=> \E i \in DOMAIN kept : x \in ToSet(parts[i])  BY <1>0, <1>6
      <3>2. x \in T <=> \E i \in DOMAIN kept : Meets(i) /\ x = parts[i][1]  OBVIOUS
      <3> HIDE DEF T
      <3> QED  BY <2>3, <3>1, <3>2
    <2> HIDE DEF T
    <2> QED  BY <2>4
  <1> DEFINE P == {t \in T : t.high # Nothing}
  <1>8. InSet(flat, P) = Priced(flat)
    <2>1. \A j \in DOMAIN flat : flat[j] \in T  BY <1>6
    <2> HIDE DEF flat, T
    <2> QED  BY <2>1 DEF InSet, Priced
  <1>9. PartsIn(parts, n, P) = known
    <2>1. \A i \in 1..n : parts[i] # <<>> /\ parts[i][1] \in P <=> Meets(i) /\ Known(i)
      BY <1>0, <1>4, <1>5
    <2> HIDE DEF P
    <2> QED  BY <1>0, <2>1 DEF PartsIn
  <1>10. \A t \in P : t.low \in Int /\ t.high \in Int
    BY <1>5
  <1>11. total.low = SumFunction([i \in known |-> Low(i)])
    <2> DEFINE v == [t \in P |-> t.low]
    <2>1. IntegersOn(v, P)  BY <1>10 DEF IntegersOn
    <2>2. SumIn(flat, P, v) = SumParts(parts, n, P, v)
      <3> HIDE DEF P, T, flat, v
      <3>1. SumIn(FlattenSeq(parts), P, v) = SumParts(parts, Len(parts), P, v)
        BY <1>3, <2>1, SumOfFlattened
      <3> QED  BY <1>3, <3>1 DEF flat
    <2>3. [j \in InSet(flat, P) |-> v[flat[j]]] = [j \in Priced(flat) |-> flat[j].low]
      <3>1. \A j \in InSet(flat, P) : v[flat[j]] = flat[j].low  BY DEF InSet
      <3> HIDE DEF P, flat, v
      <3> QED  BY <1>8, <3>1
    <2>4. [i \in PartsIn(parts, n, P) |-> v[parts[i][1]]] = [i \in known |-> Low(i)]
      <3>1. \A i \in PartsIn(parts, n, P) : v[parts[i][1]] = parts[i][1].low  BY DEF PartsIn
      <3>2. \A i \in known : parts[i][1].low = Low(i)  BY <1>5
      <3> HIDE DEF P, v, known
      <3> QED  BY <1>9, <3>1, <3>2
    <2> HIDE DEF P, v, known, flat
    <2>5. total.low = SumFunction([j \in Priced(flat) |-> flat[j].low])  BY DEF Totalled
    <2> HIDE DEF total
    <2> QED  BY <2>2, <2>3, <2>4, <2>5 DEF SumIn, SumParts
  <1>12. total.high = SumFunction([i \in known |-> High(i)])
    <2> DEFINE v == [t \in P |-> t.high]
    <2>1. IntegersOn(v, P)  BY <1>10 DEF IntegersOn
    <2>2. SumIn(flat, P, v) = SumParts(parts, n, P, v)
      <3> HIDE DEF P, T, flat, v
      <3>1. SumIn(FlattenSeq(parts), P, v) = SumParts(parts, Len(parts), P, v)
        BY <1>3, <2>1, SumOfFlattened
      <3> QED  BY <1>3, <3>1 DEF flat
    <2>3. [j \in InSet(flat, P) |-> v[flat[j]]] = [j \in Priced(flat) |-> flat[j].high]
      <3>1. \A j \in InSet(flat, P) : v[flat[j]] = flat[j].high  BY DEF InSet
      <3> HIDE DEF P, flat, v
      <3> QED  BY <1>8, <3>1
    <2>4. [i \in PartsIn(parts, n, P) |-> v[parts[i][1]]] = [i \in known |-> High(i)]
      <3>1. \A i \in PartsIn(parts, n, P) : v[parts[i][1]] = parts[i][1].high  BY DEF PartsIn
      <3>2. \A i \in known : parts[i][1].high = High(i)  BY <1>5
      <3> HIDE DEF P, v, known
      <3> QED  BY <1>9, <3>1, <3>2
    <2> HIDE DEF P, v, known, flat
    <2>5. total.high = SumFunction([j \in Priced(flat) |-> flat[j].high])  BY DEF Totalled
    <2> HIDE DEF total
    <2> QED  BY <2>2, <2>3, <2>4, <2>5 DEF SumIn, SumParts
  <1>13. Verdict(total) = "at least" <=> charged # known
    <2>1. total.terms = flat  BY DEF Totalled
    <2>2. Verdict(total) = "at least" <=> \E t \in ToSet(flat) : t.high = Nothing
      <3> HIDE DEF flat, total, T
      <3> QED  BY <1>6, <2>1, VerdictIs
    <2>3. (\E t \in T : t.high = Nothing) <=> \E i \in charged : ~Known(i)
      BY <1>5
    <2>4. charged # known <=> \E i \in charged : ~Known(i)  OBVIOUS
    <2> QED  BY <1>7, <2>2, <2>3, <2>4
  <1> HIDE DEF total
  <1>14. IsWhatTheBytesSay(total, placements, requesters, kept, regions, window)
    BY <1>11, <1>12, <1>13 DEF IsWhatTheBytesSay, Meets, Known, Low, High
  <1> QED  BY <1>14 DEF total, parts, Terms

-----------------------------------------------------------------------------
(* What is written of an image and read back. *)

\* A name has its place among the names.
LEMMA SpellingIsANumber ==
  ASSUME NEW name \in ToSet(NameOrder)
  PROVE  Spelling(name) \in Int
  <1>1. \E i \in DOMAIN NameOrder : NameOrder[i] = name  BY DEF ToSet
  <1>2. Spelling(name) \in DOMAIN NameOrder  BY <1>1 DEF Spelling
  <1>3. DOMAIN NameOrder = 1..Len(NameOrder)  BY NamesAreListed DEF Listed
  <1> QED  BY <1>2, <1>3

\* A table in order is the list it was made from.
LEMMA TableIsAllOfIt ==
  ASSUME NEW list, Located(list)
  PROVE  /\ InTableOrder(list) \in Seq(ToSet(list)) /\ Len(InTableOrder(list)) = Len(list)
         /\ ToSet(InTableOrder(list)) = ToSet(list)
  <1> DEFINE D == DOMAIN list
             before == {p \in D \X D : WrittenBefore(list[p[1]], list[p[2]])}
             Addr(i) == list[i].addr
             Place(i) == Spelling(list[i].name)
  <1>1. InTableOrder(list) = Sorted(list, before)  BY DEF InTableOrder, SortedBy
  <1>2. /\ list \in Seq(ToSet(list))
        /\ \A e \in ToSet(list) : e.addr \in Nat /\ e.name \in ToSet(NameOrder)
    BY DEF Located, Listed
  <1>3. \A i \in D : Addr(i) \in Int /\ Place(i) \in Int
    <2> TAKE i \in D
    <2>1. list[i] \in ToSet(list)  BY DEF ToSet
    <2> QED  BY <1>2, <2>1, SpellingIsANumber
  <1>4. \A i, j \in D : <<i, j>> \in before <=>
          Addr(i) < Addr(j) \/ (Addr(i) = Addr(j) /\ Place(i) < Place(j))
    BY DEF WrittenBefore
  <1> HIDE DEF before, Addr, Place
  <1>5. Weakly(before, D)
    <2> HIDE DEF D
    <2>1. \A x \in D : <<x, x>> \notin before  BY <1>3, <1>4
    <2>2. \A x, y, z \in D : <<x, z>> \in before => <<x, y>> \in before \/ <<y, z>> \in before
      BY <1>3, <1>4
    <2>3. \A x, y \in D : ~(<<x, y>> \in before /\ <<y, x>> \in before)
      <3> SUFFICES ASSUME NEW x \in D, NEW y \in D
                   PROVE  ~(<<x, y>> \in before /\ <<y, x>> \in before)
        OBVIOUS
      <3>1. /\ Addr(x) \in Int /\ Addr(y) \in Int /\ Place(x) \in Int /\ Place(y) \in Int  BY <1>3
      <3>2. /\ <<x, y>> \in before <=>
                 Addr(x) < Addr(y) \/ (Addr(x) = Addr(y) /\ Place(x) < Place(y))
            /\ <<y, x>> \in before <=>
                 Addr(y) < Addr(x) \/ (Addr(y) = Addr(x) /\ Place(y) < Place(x))
        BY <1>4
      <3>3. ~ /\ Addr(x) < Addr(y) \/ (Addr(x) = Addr(y) /\ Place(x) < Place(y))
              /\ Addr(y) < Addr(x) \/ (Addr(y) = Addr(x) /\ Place(y) < Place(x))
        BY <3>1
      <3> QED  BY <3>2, <3>3
    <2> QED  BY <2>1, <2>2, <2>3 DEF Weakly
  <1> DEFINE T == ToSet(list)
  <1> HIDE DEF T
  <1>6. list \in Seq(T)  BY <1>2 DEF T
  <1>7. /\ Sorted(list, before) \in Seq(T) /\ Len(Sorted(list, before)) = Len(list)
        /\ ToSet(Sorted(list, before)) = ToSet(list)
    BY <1>5, <1>6, SortedHasAll
  <1> QED  BY <1>1, <1>7 DEF T

\* What is read of a file has the regions its address and size give it.
OfRegions(list, regions) ==
  \A e \in ToSet(list) : e = AllocatedObject(e.name, e.addr, e.bytes, e.section, regions)

LEMMA AllocatedIsOfRegions ==
  ASSUME NEW name, NEW addr, NEW bytes, NEW section, NEW regions,
         NEW e, e = AllocatedObject(name, addr, bytes, section, regions)
  PROVE  e = AllocatedObject(e.name, e.addr, e.bytes, e.section, regions)
  BY DEF AllocatedObject

LEMMA ReadIsOfRegions ==
  ASSUME ReadSource.ok
  PROVE  OfRegions(ReadSource.value, profile.regions)
  <1> DEFINE regions == profile.regions
  <1>1. CASE source = "elf" /\ disk.elf # Nothing
    <2> DEFINE mine == Selected(disk.elf.symbols, LAMBDA symbol :
                         /\ symbol.bytes # 0
                         /\ symbol.kind \notin {"file", "section"}
                         /\ symbol.alloc
                         /\ symbol.section \notin DebugSections)
               Entry(s) == AllocatedObject(s.name, ByteAddress(s), s.bytes, s.section, regions)
               list == [i \in DOMAIN mine |-> Entry(mine[i])]
    <2>1. ReadSource = parse_elf(disk.elf, regions)  BY <1>1 DEF ReadSource
    <2>2. ReadSource.value = list  BY <2>1 DEF parse_elf, Ok, Refused
    <2> HIDE DEF mine
    <2>3. \A e \in ToSet(list) : \E s : e = Entry(s)  BY DEF ToSet
    <2> HIDE DEF list
    <2>4. \A e \in ToSet(list) : e = AllocatedObject(e.name, e.addr, e.bytes, e.section, regions)
      BY <2>3, AllocatedIsOfRegions
    <2> QED  BY <2>2, <2>4 DEF OfRegions
  <1>2. CASE ~(source = "elf" /\ disk.elf # Nothing) /\ source = "table" /\ disk.table # Nothing
    <2> DEFINE all == disk.table.object
               Entry(s) == AllocatedObject(s.name, s.addr, s.bytes, s.section, regions)
               list == [i \in DOMAIN all |-> Entry(all[i])]
    <2>1. ReadSource = parse_table(disk.table, profile.platform, regions)  BY <1>2 DEF ReadSource
    <2>2. ReadSource.value = list  BY <2>1 DEF parse_table, Ok, Refused
    <2> HIDE DEF all
    <2>3. \A e \in ToSet(list) : \E s : e = Entry(s)  BY DEF ToSet
    <2> HIDE DEF list
    <2>4. \A e \in ToSet(list) : e = AllocatedObject(e.name, e.addr, e.bytes, e.section, regions)
      BY <2>3, AllocatedIsOfRegions
    <2> QED  BY <2>2, <2>4 DEF OfRegions
  <1>3. CASE ~(source = "elf" /\ disk.elf # Nothing) /\ ~(source = "table" /\ disk.table # Nothing)
    <2>1. ReadSource = Refused("no file")  BY <1>3 DEF ReadSource
    <2> QED  BY <2>1 DEF Refused
  <1> QED  BY <1>1, <1>2, <1>3

\* The regions of an address are of the profile.
LEMMA SpannedAreDeclared ==
  ASSUME NEW regions, GoodRegions(regions), NEW addr, NEW bytes
  PROVE  LET ids == regions_spanned(addr, bytes, regions)
         IN  /\ DOMAIN ids = 1..Len(ids) /\ ids = [i \in DOMAIN ids |-> ids[i]]
             /\ \A i \in DOMAIN ids : \E k \in DOMAIN regions : ids[i] = regions[k].id
  <1> DEFINE Over(q) == overlap_bytes(addr, bytes, q) # 0
             S == {r.id : r \in {q \in ToSet(regions) : Over(q)}}
  <1>1. regions_spanned(addr, bytes, regions) = Ascending(S)  BY DEF regions_spanned
  <1> HIDE DEF Over
  <1>2. \A id \in S : \E k \in DOMAIN regions : id = regions[k].id  BY DEF ToSet
  <1>3. S \in SUBSET Int /\ IsFiniteSet(S)
    <2> DEFINE all == {regions[i].id : i \in DOMAIN regions}
               f == [i \in DOMAIN regions |-> regions[i].id]
    <2>1. f \in Surjection(DOMAIN regions, all)  BY DEF Surjection
    <2>2. IsFiniteSet(DOMAIN regions)
      <3>1. DOMAIN regions = 1..Len(regions) /\ Len(regions) \in Int  BY DEF GoodRegions, IsList
      <3> QED  BY <3>1, FS_Interval
    <2>3. IsFiniteSet(all)
      <3> HIDE DEF f, all
      <3> QED  BY <2>1, <2>2, FS_Surjection
    <2>4. S \in SUBSET all  BY <1>2
    <2>5. all \in SUBSET Int  BY DEF GoodRegions
    <2> HIDE DEF all, S
    <2> QED  BY <2>3, <2>4, <2>5, FS_Subset
  <1> HIDE DEF S
  <1>4. Ascending(S) \in Seq(S)  BY <1>3, AscendingHasAll
  <1> DEFINE ids == Ascending(S)
  <1> HIDE DEF ids
  <1>5. ids \in Seq(S)  BY <1>4 DEF ids
  <1>6. /\ DOMAIN ids = 1..Len(ids) /\ ids = [i \in DOMAIN ids |-> ids[i]]
        /\ \A i \in DOMAIN ids : ids[i] \in S
    BY <1>5
  <1> QED  BY <1>1, <1>2, <1>6 DEF ids

UniqueNames(regions) == \A i, j \in DOMAIN regions : regions[i].name = regions[j].name => i = j

\* The number of a region is spelled by its name, and a name of its own leads back to it.
LEMMA LabelIsTheName ==
  ASSUME NEW regions, GoodRegions(regions), NEW k \in DOMAIN regions
  PROVE  label_of(regions[k].id, regions) = regions[k].name /\ regions[k].name # Nothing
  <1>1. RegionOf(regions, regions[k].id) = regions[k]  BY RegionIsFound
  <1>2. regions[k] # Nothing /\ regions[k].name # Nothing  BY DEF GoodRegions
  <1> QED  BY <1>1, <1>2 DEF label_of, RegionOf

LEMMA NameIsTheNumber ==
  ASSUME NEW regions, GoodRegions(regions), UniqueNames(regions), NEW k \in DOMAIN regions
  PROVE  id_of(regions[k].name, regions) = regions[k].id
  <1> DEFINE I == {i \in 1..Len(regions) : regions[i].name = regions[k].name}
  <1>1. region_named(regions, regions[k].name) =
          LET i == IF I # {} THEN Min(I) ELSE 0 IN IF i = 0 THEN Nothing ELSE regions[i]
    BY DEF region_named, FirstOf, SelectInSeq
  <1>2. I \in SUBSET (1..Len(regions)) /\ k \in I /\ IsList(regions)
        /\ \A i \in I : i \in DOMAIN regions /\ regions[i].name = regions[k].name
    BY DEF GoodRegions, IsList
  <1> HIDE DEF I
  <1>3. Min(I) # 0 /\ Min(I) \in I  BY <1>2, FirstIs
  <1>4. Min(I) = k  BY <1>2, <1>3 DEF UniqueNames
  <1>5. regions[k] # Nothing  BY DEF GoodRegions
  <1> QED  BY <1>1, <1>2, <1>3, <1>4, <1>5 DEF id_of

\* The region an object starts in is declared, where there is one.
LEMMA StartIsDeclared ==
  ASSUME NEW regions, GoodRegions(regions), NEW addr
  PROVE  \/ region_of(addr, regions) = Nothing
         \/ \E k \in DOMAIN regions : region_of(addr, regions) = regions[k].id
  <1> DEFINE I == {i \in 1..Len(regions) :
                     regions[i].base <= addr /\ addr - regions[i].base < regions[i].bytes}
             first == IF I # {} THEN Min(I) ELSE 0
             hit == IF first = 0 THEN Nothing ELSE regions[first]
  <1>1. region_of(addr, regions) = IF hit = Nothing THEN Nothing ELSE hit.id
    BY DEF region_of, FirstOf, SelectInSeq
  <1>2. I \in SUBSET (1..Len(regions)) /\ IsList(regions)  BY DEF GoodRegions
  <1> HIDE DEF I
  <1>3. I # {} => Min(I) \in DOMAIN regions  BY <1>2, FirstIs
  <1> QED  BY <1>1, <1>3

\* An entry as a table spells it, and as the table is read back.
Spelled(e, regions) ==
  [e EXCEPT !.region_ids = [i \in DOMAIN @ |-> label_of(@[i], regions)],
            !.start_region = IF @ = Nothing THEN Nothing ELSE label_of(@, regions)]

LEMMA EntryReadsBack ==
  ASSUME NEW regions, GoodRegions(regions),
         NEW e, e = AllocatedObject(e.name, e.addr, e.bytes, e.section, regions)
  PROVE  LET s == Spelled(e, regions)
         IN  /\ s.name = e.name /\ s.addr = e.addr /\ s.bytes = e.bytes /\ s.section = e.section
             /\ s.region_ids = [i \in DOMAIN e.region_ids |-> label_of(e.region_ids[i], regions)]
             /\ s.start_region = IF e.start_region = Nothing THEN Nothing
                                 ELSE label_of(e.start_region, regions)
             /\ e.region_ids = regions_spanned(e.addr, e.bytes, regions)
             /\ e.start_region = region_of(e.addr, regions)
  BY DEF Spelled, AllocatedObject

LEMMA EntryAgrees ==
  ASSUME NEW regions, GoodRegions(regions), UniqueNames(regions),
         NEW e, e = AllocatedObject(e.name, e.addr, e.bytes, e.section, regions)
  PROVE  LET s == Spelled(e, regions)
         IN  /\ [i \in DOMAIN s.region_ids |-> id_of(s.region_ids[i], regions)] = e.region_ids
             /\ IF s.start_region = Nothing THEN e.start_region = Nothing
                ELSE /\ id_of(s.start_region, regions) = e.start_region
                     /\ e.start_region # Nothing
  <1> DEFINE ids == e.region_ids
             s == Spelled(e, regions)
             Back(id) == id_of(label_of(id, regions), regions)
  <1>1. /\ s.region_ids = [i \in DOMAIN ids |-> label_of(ids[i], regions)]
        /\ s.start_region = IF e.start_region = Nothing THEN Nothing
                            ELSE label_of(e.start_region, regions)
        /\ ids = regions_spanned(e.addr, e.bytes, regions)
        /\ e.start_region = region_of(e.addr, regions)
    BY EntryReadsBack
  <1> HIDE DEF s
  <1>2. \A k \in DOMAIN regions : Back(regions[k].id) = regions[k].id
    BY LabelIsTheName, NameIsTheNumber
  <1>3. /\ ids = [i \in DOMAIN ids |-> ids[i]]
        /\ \A i \in DOMAIN ids : \E k \in DOMAIN regions : ids[i] = regions[k].id
    BY <1>1, SpannedAreDeclared
  <1>4. \A i \in DOMAIN ids : Back(ids[i]) = ids[i]  BY <1>2, <1>3
  <1>5. [i \in DOMAIN s.region_ids |-> id_of(s.region_ids[i], regions)] = ids
    <2>1. /\ DOMAIN s.region_ids = DOMAIN ids
          /\ \A i \in DOMAIN ids : s.region_ids[i] = label_of(ids[i], regions)
      BY <1>1
    <2>2. [i \in DOMAIN s.region_ids |-> id_of(s.region_ids[i], regions)] = [i \in DOMAIN ids |-> ids[i]]
      BY <1>4, <2>1
    <2> QED  BY <1>3, <2>2
  <1>6. IF s.start_region = Nothing THEN e.start_region = Nothing
        ELSE id_of(s.start_region, regions) = e.start_region /\ e.start_region # Nothing
    <2>1. CASE e.start_region = Nothing  BY <1>1, <2>1
    <2>2. CASE e.start_region # Nothing
      <3>1. PICK k \in DOMAIN regions : e.start_region = regions[k].id
        BY <1>1, <2>2, StartIsDeclared
      <3>2. s.start_region = label_of(regions[k].id, regions)  BY <1>1, <2>2, <3>1
      <3>3. s.start_region # Nothing  BY <3>2, LabelIsTheName
      <3>4. id_of(s.start_region, regions) = e.start_region  BY <1>2, <3>1, <3>2
      <3> QED  BY <2>2, <3>3, <3>4
    <2> QED  BY <2>1, <2>2
  <1> QED  BY <1>5, <1>6 DEF s

\* An entry of a table, as it is recomputed and as it is compared.
Reread(row, regions) == AllocatedObject(row.name, row.addr, row.bytes, row.section, regions)
AgreesWith(row, e, regions) ==
  /\ [i \in DOMAIN row.region_ids |-> id_of(row.region_ids[i], regions)] = e.region_ids
  /\ IF row.start_region = Nothing THEN e.start_region = Nothing
     ELSE id_of(row.start_region, regions) = e.start_region /\ e.start_region # Nothing

LEMMA RereadIsTheEntry ==
  ASSUME NEW regions, NEW e, e = AllocatedObject(e.name, e.addr, e.bytes, e.section, regions)
  PROVE  Reread(Spelled(e, regions), regions) = e
  <1> DEFINE s == Spelled(e, regions)
  <1>1. DOMAIN e = {"name", "addr", "bytes", "section", "region_ids", "start_region"}
    BY DEF AllocatedObject
  <1>2. s.name = e.name /\ s.addr = e.addr /\ s.bytes = e.bytes /\ s.section = e.section
    BY <1>1 DEF Spelled
  <1> HIDE DEF s
  <1>3. Reread(s, regions) = AllocatedObject(e.name, e.addr, e.bytes, e.section, regions)
    BY <1>2 DEF Reread
  <1> QED  BY <1>3 DEF s

Parses(back, rows, regions) ==
  /\ back.ok <=> \A i \in DOMAIN rows : AgreesWith(rows[i], Reread(rows[i], regions), regions)
  /\ back.ok => back.value = [i \in DOMAIN rows |-> Reread(rows[i], regions)]

LEMMA ParsesBack ==
  ASSUME NEW table, NEW regions
  PROVE  Parses(parse_table(table, table.platform, regions), table.object, regions)
  <1> DEFINE rows == table.object
             back == parse_table(table, table.platform, regions)
             bad == \E row \in ToSet(rows) : ~AgreesWith(row, Reread(row, regions), regions)
             value == [i \in DOMAIN rows |-> Reread(rows[i], regions)]
  <1>1. back = IF bad THEN Refused("table") ELSE Ok(value)
    BY DEF parse_table, AgreesWith, Reread
  <1>2. bad <=> \E i \in DOMAIN rows : ~AgreesWith(rows[i], Reread(rows[i], regions), regions)
    BY DEF ToSet
  <1> HIDE DEF bad, value, back
  <1>3. /\ back.ok <=> ~bad
        /\ back.ok => back.value = value
    BY <1>1 DEF Ok, Refused
  <1> QED  BY <1>2, <1>3 DEF back, value, Parses

\* What is written of a list and read back is the list, in the order of a table.
LEMMA RowsReadBack ==
  ASSUME NEW regions, GoodRegions(regions), NEW list, OfRegions(list, regions),
         NEW sorted \in Seq(ToSet(list)), Len(sorted) = Len(list), ToSet(sorted) = ToSet(list),
         NEW platform, NEW table, table.platform = platform,
         table.object = [i \in DOMAIN sorted |-> Spelled(sorted[i], regions)]
  PROVE  LET back == parse_table(table, platform, regions)
         IN  /\ back.ok => ToSet(back.value) = ToSet(list) /\ Len(back.value) = Len(list)
             /\ UniqueNames(regions) => back.ok
  <1> DEFINE D == DOMAIN sorted
             back == parse_table(table, platform, regions)
             rows == table.object
  <1>3. /\ back.ok <=> \A i \in DOMAIN rows :
                         AgreesWith(rows[i], Reread(rows[i], regions), regions)
        /\ back.ok => back.value = [i \in DOMAIN rows |-> Reread(rows[i], regions)]
    <2>1. Parses(parse_table(table, table.platform, regions), table.object, regions)  BY ParsesBack
    <2>2. Parses(back, rows, regions)  BY <2>1
    <2> HIDE DEF back, rows
    <2> QED  BY <2>2 DEF Parses
  <1> HIDE DEF rows, back
  <1>4. \A i \in D :
          sorted[i] = AllocatedObject(sorted[i].name, sorted[i].addr, sorted[i].bytes,
                                      sorted[i].section, regions)
    BY DEF OfRegions, ToSet
  <1>5. DOMAIN rows = D /\ \A i \in D : rows[i] = Spelled(sorted[i], regions)
    BY DEF rows
  <1>6. \A i \in D : Reread(rows[i], regions) = sorted[i]
    BY <1>4, <1>5, RereadIsTheEntry
  <1>7. ASSUME back.ok PROVE ToSet(back.value) = ToSet(list) /\ Len(back.value) = Len(list)
    <2>1. back.value = [i \in D |-> sorted[i]]  BY <1>3, <1>5, <1>6, <1>7
    <2>2. back.value = sorted  BY <2>1
    <2> QED  BY <2>2
  <1>8. ASSUME UniqueNames(regions) PROVE back.ok
    <2>1. \A i \in D : AgreesWith(Spelled(sorted[i], regions), sorted[i], regions)
      BY <1>4, <1>8, EntryAgrees DEF AgreesWith
    <2> QED  BY <1>3, <1>5, <1>6, <2>1
  <1> QED  BY <1>7, <1>8 DEF back

LEMMA TableReadsBack ==
  ASSUME NEW list, Located(list), NEW regions, GoodRegions(regions), OfRegions(list, regions),
         NEW platform
  PROVE  LET back == parse_table(write_table(list, platform, Nothing, regions), platform, regions)
         IN  /\ back.ok => ToSet(back.value) = ToSet(list) /\ Len(back.value) = Len(list)
             /\ UniqueNames(regions) => back.ok
  <1> DEFINE sorted == InTableOrder(list)
             table == write_table(list, platform, Nothing, regions)
  <1>1. /\ sorted \in Seq(ToSet(list)) /\ Len(sorted) = Len(list) /\ ToSet(sorted) = ToSet(list)
    BY TableIsAllOfIt
  <1>2. /\ table.platform = platform
        /\ table.object = [i \in DOMAIN sorted |-> Spelled(sorted[i], regions)]
    BY DEF write_table, Spelled
  <1> HIDE DEF sorted, table
  <1>3. LET back == parse_table(table, platform, regions)
        IN  /\ back.ok => ToSet(back.value) = ToSet(list) /\ Len(back.value) = Len(list)
            /\ UniqueNames(regions) => back.ok
    BY <1>1, <1>2, RowsReadBack
  <1> QED  BY <1>3 DEF table

-----------------------------------------------------------------------------
(* What an audit carries. *)

RegionsOf == profile.regions

SizedSpec(spec) ==
  /\ spec.symbol_kind \in {"object", "reservation"}
  /\ spec.declared_bytes \in Optional(Nat) /\ spec.declared_address \in Optional(Nat)
  /\ spec.name \in ToSet(NameOrder)

\* The coefficients of the objects placed.
KeptOf(all, placements) ==
  Only(all, {c \in ToSet(all) : c.key.object \in {p.name : p \in ToSet(placements)}})

\* A report has charged the coefficients of what it placed, each at the endpoint it names.
ChargedAt(report, placements, requesters, all, regions, window) ==
  /\ window # 0
  /\ report.kept = KeptOf(all, placements)
  /\ \A c \in ToSet(report.kept) :
       Attached(placements, c) # Nothing /\ Endpoint(requesters, c) # Nothing
  /\ report.cost = Totalled(FlattenSeq([i \in DOMAIN report.kept |->
                     TermsAt(placements, requesters, report.kept[i], regions, window)]))

Charged ==
  ChargedAt(audit, audit.placements, work.requesters, characterisation.coefficients, RegionsOf,
            work.window)

\* What is priced at the end is sized, rated and measured at every stage before it, and the two files
\* that are read first were not refused.
AuditNumbers ==
  /\ Parsed(project) /\ Readable(disk)
  /\ stage \notin {"find", "refused"} =>
       Profile(project.profile).ok /\ read_characterisation(project.characterisation).ok
  /\ stage = "requesters" => at \in Nat \ {0} /\ project.document # Nothing
  /\ work.window \in Nat /\ Rated(work.requesters, RegionsOf)
  /\ \A o \in ToSet(work.objects) : SizedSpec(o)
  /\ Located(found) /\ (stage = "place" => OfRegions(found, RegionsOf))
  /\ Sized(audit.placements)
  /\ stage = "done" => TotalIsThePlacement /\ Charged

LEMMA NumbersStart ==
  ASSUME NEW projects, AuditInit(projects), Parsed(project)
  PROVE  AuditNumbers
  <1>1. /\ stage = "find" /\ work = NoWork /\ found = <<>> /\ audit = NoAudit /\ disk = project.disk
    BY DEF AuditInit
  <1>2. /\ audit.placements = <<>> /\ work.window = UNDECLARED_WINDOW
        /\ work.requesters = <<>> /\ work.objects = <<>>
    BY <1>1 DEF NoAudit, NoWork
  <1>3. ToSet(<<>>) = {} /\ IsList(<<>>) /\ Listed(<<>>)
    <2>1. <<>> \in Seq({}) /\ DOMAIN <<>> = {}  OBVIOUS
    <2>2. ToSet(<<>>) = {}  BY <2>1 DEF ToSet
    <2> QED  BY <2>1, <2>2 DEF IsList, Listed
  <1>4. Readable(disk)  BY <1>1 DEF Parsed
  <1> QED  BY <1>1, <1>2, <1>3, <1>4, WindowIsANumber DEF AuditNumbers, Rated, Located, Sized

\* What the object file holds is located.
Entered(e) == e.addr \in Nat /\ e.bytes \in Nat /\ e.name \in ToSet(NameOrder)

LEMMA LocatedList ==
  ASSUME NEW list, NEW n \in Nat, DOMAIN list = 1..n, list = [i \in 1..n |-> list[i]],
         \A i \in 1..n : Entered(list[i])
  PROVE  Located(list)
  <1>1. \A i \in 1..n : list[i] \in ToSet(list)  BY DEF ToSet
  <1> DEFINE T == ToSet(list)
  <1> HIDE DEF T
  <1>2. list \in Seq(T)  BY <1>1 DEF T
  <1>3. \A e \in T : Entered(e)  BY DEF ToSet, T
  <1> QED  BY <1>2, <1>3 DEF Located, Listed, Entered, T

LEMMA ImageIsLocated ==
  ASSUME NEW image, Located(image.symbols), NEW regions, parse_elf(image, regions).ok
  PROVE  Located(parse_elf(image, regions).value)
  <1> DEFINE all == image.symbols
             Counts(s) == /\ s.bytes # 0
                          /\ s.kind \notin {"file", "section"}
                          /\ s.alloc
                          /\ s.section \notin DebugSections
             parts == [i \in DOMAIN all |-> IF Counts(all[i]) THEN <<all[i]>> ELSE <<>>]
             mine == FlattenSeq(parts)
             Entry(s) == AllocatedObject(s.name, ByteAddress(s), s.bytes, s.section, regions)
             list == [i \in DOMAIN mine |-> Entry(mine[i])]
  <1>1. parse_elf(image, regions).value = list
    BY DEF parse_elf, Ok, Refused, Selected
  <1>2. all \in Seq(ToSet(all)) /\ \A s \in ToSet(all) : Entered(s)
    BY DEF Located, Listed, Entered
  <1>3. mine \in Seq(ToSet(all))
    <2>1. Picks(parts, all)  BY DEF Picks
    <2> HIDE DEF parts, all
    <2> QED  BY <1>2, <2>1, SelectionIs
  <1>4. \A s : Entered(s) => Entered(Entry(s))
    <2>1. \A a \in Nat : a - (a % 2) \in Nat  OBVIOUS
    <2> QED  BY <2>1 DEF Entered, AllocatedObject, ByteAddress
  <1> HIDE DEF mine, all, Entry
  <1>5. DOMAIN mine = 1..Len(mine) /\ Len(mine) \in Nat  BY <1>3
  <1>6. \A i \in DOMAIN mine : mine[i] \in ToSet(all)  BY <1>3
  <1>7. \A i \in 1..Len(mine) : Entered(list[i])
    BY <1>2, <1>4, <1>5, <1>6
  <1>8. DOMAIN list = 1..Len(mine) /\ list = [i \in 1..Len(mine) |-> list[i]]  BY <1>5
  <1> HIDE DEF list
  <1> QED  BY <1>1, <1>5, <1>7, <1>8, LocatedList

LEMMA TableIsLocated ==
  ASSUME NEW table, Located(table.object), NEW platform, NEW regions,
         parse_table(table, platform, regions).ok
  PROVE  Located(parse_table(table, platform, regions).value)
  <1> DEFINE all == table.object
             Entry(e) == AllocatedObject(e.name, e.addr, e.bytes, e.section, regions)
             list == [i \in DOMAIN all |-> Entry(all[i])]
  <1>1. parse_table(table, platform, regions).value = list
    BY DEF parse_table, Ok, Refused
  <1>2. all \in Seq(ToSet(all)) /\ \A s \in ToSet(all) : Entered(s)
    BY DEF Located, Listed, Entered
  <1>3. \A s : Entered(s) => Entered(Entry(s))  BY DEF Entered, AllocatedObject
  <1> HIDE DEF all, Entry
  <1>4. DOMAIN all = 1..Len(all) /\ Len(all) \in Nat  BY <1>2
  <1>5. \A i \in DOMAIN all : all[i] \in ToSet(all)  BY <1>2
  <1>6. \A i \in 1..Len(all) : Entered(list[i])
    BY <1>2, <1>3, <1>4, <1>5
  <1>7. DOMAIN list = 1..Len(all) /\ list = [i \in 1..Len(all) |-> list[i]]  BY <1>4
  <1> HIDE DEF list
  <1> QED  BY <1>1, <1>4, <1>6, <1>7, LocatedList

\* What is read of it too.
LEMMA ReadIsLocated ==
  ASSUME Readable(disk), ReadSource.ok
  PROVE  Located(ReadSource.value)
  <1>1. CASE source = "elf" /\ disk.elf # Nothing
    <2>1. ReadSource = parse_elf(disk.elf, profile.regions)  BY <1>1 DEF ReadSource
    <2>2. Located(disk.elf.symbols)  BY <1>1 DEF Readable
    <2> QED  BY <2>1, <2>2, ImageIsLocated
  <1>2. CASE ~(source = "elf" /\ disk.elf # Nothing) /\ source = "table" /\ disk.table # Nothing
    <2>1. ReadSource = parse_table(disk.table, profile.platform, profile.regions)
      BY <1>2 DEF ReadSource
    <2>2. Located(disk.table.object)  BY <1>2 DEF Readable
    <2> QED  BY <2>1, <2>2, TableIsLocated
  <1>3. CASE ~(source = "elf" /\ disk.elf # Nothing) /\ ~(source = "table" /\ disk.table # Nothing)
    <2>1. ReadSource = Refused("no file")  BY <1>3 DEF ReadSource
    <2> QED  BY <2>1 DEF Refused
  <1> QED  BY <1>1, <1>2, <1>3

\* A region found by a name has that name.
LEMMA NamedIsDeclared ==
  ASSUME NEW regions, IsList(regions), NEW name, region_named(regions, name) # Nothing
  PROVE  \E k \in DOMAIN regions :
           region_named(regions, name) = regions[k] /\ regions[k].name = name
  <1> DEFINE I == {i \in 1..Len(regions) : regions[i].name = name}
  <1>1. region_named(regions, name) =
          LET i == IF I # {} THEN Min(I) ELSE 0 IN IF i = 0 THEN Nothing ELSE regions[i]
    BY DEF region_named, FirstOf, SelectInSeq
  <1>2. I \in SUBSET (1..Len(regions)) /\ \A i \in I : regions[i].name = name  OBVIOUS
  <1> HIDE DEF I
  <1>3. I # {}  BY <1>1
  <1>4. Min(I) # 0 /\ Min(I) \in DOMAIN regions /\ Min(I) \in I  BY <1>2, <1>3, FirstIs
  <1> QED  BY <1>1, <1>2, <1>3, <1>4

\* An object of several symbols has an address and a size.
LEMMA WholeIsSized ==
  ASSUME NEW parts, Located(parts), parts # <<>>, NEW name
  PROVE  Whole(name, parts).addr \in Nat /\ Whole(name, parts).bytes \in Int
  <1> DEFINE A == {p.addr : p \in ToSet(parts)}
             f == [i \in DOMAIN parts |-> parts[i].bytes]
  <1>1. /\ parts \in Seq(ToSet(parts))
        /\ \A p \in ToSet(parts) : p.addr \in Nat /\ p.bytes \in Nat
    BY DEF Located, Listed
  <1>2. DOMAIN parts = 1..Len(parts) /\ Len(parts) \in Nat /\ Len(parts) # 0  BY <1>1
  <1>3. \A i \in DOMAIN parts : parts[i] \in ToSet(parts)  BY DEF ToSet
  <1>4. A \in SUBSET Nat /\ A # {}
    <2>1. 1 \in DOMAIN parts  BY <1>2
    <2> QED  BY <1>1, <1>3, <2>1
  <1>5. Min(A) \in Nat
    <2> HIDE DEF A
    <2>1. Min(A) \in A  BY <1>4, MinIsLeast
    <2> QED  BY <1>4, <2>1
  <1>6. SumFunction(f) \in Int
    <2>1. DOMAIN f = 1..Len(parts) /\ \A i \in DOMAIN f : f[i] \in Int  BY <1>1, <1>2, <1>3
    <2>2. IsFiniteSet(DOMAIN f)  BY <1>2, <2>1, FS_Interval
    <2> HIDE DEF f
    <2> QED  BY <2>1, <2>2, SumIsInt
  <1> QED  BY <1>5, <1>6 DEF Whole

\* The symbols of an object are located where they are found.
LEMMA SymbolsAreLocated ==
  ASSUME Located(found), NEW symbols
  PROVE  Located(NamedIn(found, symbols))
  <1> DEFINE T == {e \in ToSet(found) : e.name \in ToSet(symbols)}
             parts == [i \in DOMAIN found |-> IF found[i] \in T THEN <<found[i]>> ELSE <<>>]
             mine == FlattenSeq(parts)
  <1>1. /\ found \in Seq(ToSet(found))
        /\ \A e \in ToSet(found) : e.addr \in Nat /\ e.bytes \in Nat
    BY DEF Located, Listed
  <1>2. NamedIn(found, symbols) = mine
    <2>1. NamedIn(found, symbols) = FlattenSeq([i \in DOMAIN found |->
            IF found[i].name \in ToSet(symbols) THEN <<found[i]>> ELSE <<>>])
      BY DEF NamedIn, Selected
    <2>2. \A i \in DOMAIN found : found[i] \in T <=> found[i].name \in ToSet(symbols)
      BY DEF ToSet
    <2> HIDE DEF T
    <2>3. [i \in DOMAIN found |-> IF found[i].name \in ToSet(symbols) THEN <<found[i]>> ELSE <<>>]
            = parts
      BY <2>2
    <2> QED  BY <2>1, <2>3
  <1>3. mine \in Seq(ToSet(found)) /\ ToSet(mine) = ToSet(found) \cap T
    <2> HIDE DEF T
    <2> QED  BY <1>1, SelectedFrom
  <1> HIDE DEF mine
  <1>4. mine \in Seq(ToSet(mine))
    <2> DEFINE S == ToSet(mine)
    <2>1. DOMAIN mine = 1..Len(mine) /\ Len(mine) \in Nat /\ mine = [i \in 1..Len(mine) |-> mine[i]]
      BY <1>3
    <2>2. \A i \in DOMAIN mine : mine[i] \in S  BY DEF ToSet
    <2> HIDE DEF S
    <2>3. mine \in Seq(S)  BY <2>1, <2>2
    <2> QED  BY <2>3 DEF S
  <1> QED  BY <1>1, <1>2, <1>3, <1>4 DEF Located, Listed

\* Where an object is placed has an address and a size.
LEMMA PlacedIsSized ==
  ASSUME Located(found), GoodRegions(RegionsOf), NEW spec, SizedSpec(spec),
         NEW parts, parts = NamedIn(found, spec.symbols),
         NEW whole, parts # <<>> => whole = Whole(spec.name, parts),
         NEW answer, answer = Answer(spec, parts, whole), answer.as = "placed"
  PROVE  /\ answer.entry.addr \in Nat /\ answer.entry.bytes \in Int
         /\ answer.entry.name \in ToSet(NameOrder)
  <1> DEFINE region == region_named(profile.regions, spec.declared_region)
             Declared == [name |-> spec.name, bytes |-> spec.declared_bytes,
                          addr |-> IF spec.declared_address = Nothing THEN region.base
                                   ELSE spec.declared_address]
  <1>1. Located(parts)  BY SymbolsAreLocated
  <1>2. \A x : Unplaced(spec).as # "placed" /\ AtRunTime(spec, x).as # "placed"
    BY DEF Unplaced, AtRunTime
  <1>3. parts # <<>>
    <2>1. CASE parts = <<>>
      <3>1. answer = Unplaced(spec)  BY <2>1 DEF Answer
      <3> QED  BY <1>2, <3>1
    <2> QED  BY <2>1
  <1>4. \/ answer = Placed(whole)
        \/ spec.declared_bytes # Nothing /\ region # Nothing /\ answer = Placed(Declared)
    <2>1. CASE spec.symbol_kind = "object"
      <3>1. answer = IF Regions(whole, profile.regions) = <<>> THEN Unplaced(spec) ELSE Placed(whole)
        BY <1>3, <2>1 DEF Answer
      <3> QED  BY <1>2, <3>1
    <2>2. CASE spec.symbol_kind = "reservation"
      <3>1. answer = IF spec.declared_bytes = Nothing THEN Unplaced(spec)
                     ELSE IF spec.declared_region = Nothing THEN AtRunTime(spec, whole)
                     ELSE IF region = Nothing THEN Unplaced(spec)
                     ELSE Placed(Declared)
        BY <1>3, <2>2 DEF Answer
      <3> HIDE DEF region
      <3> QED  BY <1>2, <3>1
    <2> QED  BY <2>1, <2>2 DEF SizedSpec
  <1>5. CASE answer = Placed(whole)
    <2>1. whole.addr \in Nat /\ whole.bytes \in Int  BY <1>1, <1>3, WholeIsSized
    <2>2. answer.entry = whole  BY <1>5 DEF Placed
    <2>3. whole.name \in ToSet(NameOrder)  BY <1>3 DEF Whole, SizedSpec
    <2> QED  BY <2>1, <2>2, <2>3
  <1>6. CASE spec.declared_bytes # Nothing /\ region # Nothing /\ answer = Placed(Declared)
    <2>1. PICK k \in DOMAIN RegionsOf : region = RegionsOf[k]
      BY <1>6, NamedIsDeclared DEF GoodRegions, RegionsOf
    <2>2. region.base \in Nat  BY <2>1 DEF GoodRegions
    <2>3. spec.declared_bytes \in Nat  BY <1>6 DEF SizedSpec, Optional
    <2>4. spec.declared_address # Nothing => spec.declared_address \in Nat
      BY DEF SizedSpec, Optional
    <2>5. answer.entry = Declared  BY <1>6 DEF Placed
    <2>6. spec.name \in ToSet(NameOrder)  BY DEF SizedSpec
    <2> HIDE DEF region
    <2> QED  BY <2>2, <2>3, <2>4, <2>5, <2>6
  <1> QED  BY <1>4, <1>5, <1>6

\* The objects a document declares have numbers for sizes and addresses, or none.
LEMMA ObjectsAreNumbers ==
  ASSUME NEW given, Parsed(given), given.document # Nothing
  PROVE  \A o \in ToSet(objects_of(given.document)) : SizedSpec(o)
  <1> DEFINE all == given.document.object
             parts == [i \in DOMAIN all |->
                         IF all[i].workload = WorkloadName THEN <<all[i]>> ELSE <<>>]
             mine == FlattenSeq(parts)
             specs == [i \in DOMAIN mine |-> ObjectSpec(mine[i])]
  <1>1. /\ all \in Seq(ToSet(all))
        /\ \A o \in ToSet(all) : /\ o.symbol_kind \in {"object", "reservation"}
                                 /\ o.size \in Optional(Nat) /\ o.address \in Optional(Nat)
                                 /\ o.name \in ToSet(NameOrder)
    BY DEF Parsed, ParsedDocument, Listed
  <1>2. mine \in Seq(ToSet(all))
    <2>1. Picks(parts, all)  BY DEF Picks
    <2> HIDE DEF parts, all
    <2> QED  BY <1>1, <2>1, SelectionIs
  <1>3. objects_of(given.document) = specs  BY DEF objects_of, Selected
  <1> HIDE DEF mine, all
  <1>4. \A i \in DOMAIN mine : SizedSpec(specs[i])
    <2> TAKE i \in DOMAIN mine
    <2>1. mine[i] \in ToSet(all)  BY <1>2
    <2> QED  BY <1>1, <2>1 DEF ObjectSpec, SizedSpec
  <1>5. DOMAIN specs = DOMAIN mine  OBVIOUS
  <1> HIDE DEF specs
  <1> QED  BY <1>3, <1>4, <1>5 DEF ToSet

\* One object more keeps the placements sized.
LEMMA ObjectKeepsSized ==
  ASSUME AuditFields, Located(found), GoodRegions(RegionsOf), Sized(audit.placements),
         NEW spec, SizedSpec(spec)
  PROVE  Sized(WithObject(audit, spec).placements)
  <1> DEFINE parts == NamedIn(found, spec.symbols)
             whole == IF parts = <<>> THEN Nothing ELSE Whole(spec.name, parts)
             answer == Answer(spec, parts, whole)
             before == audit.placements
             after == WithObject(audit, spec).placements
  <1>1. after = IF answer.as = "placed" THEN Append(before, answer.entry) ELSE before
    BY DEF WithObject, AuditFields, NoAudit
  <1>2. answer.as = "placed" => /\ answer.entry.addr \in Nat /\ answer.entry.bytes \in Int
                               /\ answer.entry.name \in ToSet(NameOrder)
    <2>1. parts # <<>> => whole = Whole(spec.name, parts)  OBVIOUS
    <2> HIDE DEF whole
    <2> QED  BY <2>1, PlacedIsSized
  <1> DEFINE entry == answer.entry
  <1> HIDE DEF answer, after, before
  <1>3. CASE answer.as = "placed"
    <2>1. IsList(before)  BY DEF Sized, before
    <2>2. /\ after = Append(before, entry) /\ entry.addr \in Nat /\ entry.bytes \in Int
          /\ entry.name \in ToSet(NameOrder)
      BY <1>1, <1>2, <1>3
    <2> HIDE DEF entry
    <2>3. IsList(after) /\ ToSet(after) = ToSet(before) \cup {entry}  BY <2>1, <2>2, ListGrows
    <2> QED  BY <2>2, <2>3 DEF Sized, before, after
  <1>4. CASE answer.as # "placed"  BY <1>1, <1>4 DEF before, after
  <1> QED  BY <1>3, <1>4


\* One requester more keeps the requesters rated.
LEMMA RequesterKeepsRated ==
  ASSUME AuditFields, Parsed(project), project.document # Nothing, GoodRegions(RegionsOf),
         Rated(work.requesters, RegionsOf), at \in Nat \ {0}, ProjectRequester
  PROVE  /\ Rated(work'.requesters, RegionsOf)
         /\ work'.window = work.window /\ work'.objects = work.objects
  <1> DEFINE all == project.document.requester
             requester == all[at]
             name == RegionName(requester)
             region == region_named(profile.regions, name)
             entry == [name |-> requester.name, endpoint |-> requester.endpoint,
                       region |-> region.id,
                       transactions_per_second |-> requester.transactions_per_second]
  <1>1. at <= Len(all)  BY DEF ProjectRequester
  <1>2. requester \in ToSet(all) /\ requester.transactions_per_second \in Optional(Int)
    <2>1. /\ all \in Seq(ToSet(all))
          /\ \A r \in ToSet(all) : r.transactions_per_second \in Optional(Int)
      BY DEF Parsed, ParsedDocument, Listed
    <2> HIDE DEF all
    <2>2. at \in DOMAIN all  BY <1>1, <2>1
    <2>3. requester \in ToSet(all)  BY <2>1, <2>2
    <2> QED  BY <2>1, <2>3
  <1>3. \/ \E x : work' = [work EXCEPT !.unresolved = x]
        \/ region # Nothing /\ work' = [work EXCEPT !.requesters = Append(@, entry)]
    BY DEF ProjectRequester
  <1> HIDE DEF name
  <1>4. region # Nothing => \E k \in DOMAIN RegionsOf : RegionsOf[k].id = entry.region
    <2>1. region # Nothing => \E k \in DOMAIN RegionsOf : region = RegionsOf[k]
      BY NamedIsDeclared DEF GoodRegions, RegionsOf
    <2>2. entry.region = region.id  OBVIOUS
    <2> HIDE DEF entry, region
    <2> QED  BY <2>1, <2>2
  <1>5. entry.transactions_per_second \in Optional(Int)  BY <1>2
  <1> HIDE DEF entry, region, requester, all
  <1>6. /\ work'.window = work.window /\ work'.objects = work.objects
        /\ \/ work'.requesters = work.requesters
           \/ region # Nothing /\ work'.requesters = Append(work.requesters, entry)
    BY <1>3 DEF AuditFields, NoWork
  <1>7. IsList(work.requesters)  BY DEF Rated
  <1>8. CASE region # Nothing /\ work'.requesters = Append(work.requesters, entry)
    <2> DEFINE longer == Append(work.requesters, entry)
    <2>1. IsList(longer) /\ ToSet(longer) = ToSet(work.requesters) \cup {entry}
      BY <1>7, ListGrows
    <2>2. work'.requesters = longer  BY <1>8
    <2> HIDE DEF longer
    <2>3. Rated(longer, RegionsOf)  BY <1>4, <1>5, <1>8, <2>1 DEF Rated
    <2> QED  BY <1>6, <2>2, <2>3
  <1>9. CASE work'.requesters = work.requesters  BY <1>6, <1>9
  <1> QED  BY <1>6, <1>8, <1>9

\* The coefficients of a characterisation that is read have both ends or none.
LEMMA CoefficientsAreBased ==
  ASSUME Parsed(project), read_characterisation(project.characterisation).ok
  PROVE  \A c \in ToSet(characterisation.coefficients) : Based(c)
  <1> DEFINE file == project.characterisation
             all == file.coefficient
             entries == [i \in DOMAIN all |-> ReadEntry(all[i].key, all[i])]
  <1>1. characterisation.coefficients = entries
    BY DEF characterisation, read_characterisation, Ok, Refused
  <1>2. \A e \in ToSet(all) : BasisAllowed(e, file.platform)
    BY DEF read_characterisation, Refused, EntryAllowed
  <1>3. \A e \in ToSet(all) : {e.value, e.minimum, e.maximum} \subseteq Optional(Int)
    BY DEF Parsed
  <1> HIDE DEF all
  <1>4. \A i \in DOMAIN all : Based(entries[i])
    <2> TAKE i \in DOMAIN all
    <2> DEFINE e == all[i]
    <2>1. e \in ToSet(all)  BY DEF ToSet
    <2>2. entries[i].basis = basis_of(e)  BY DEF ReadEntry
    <2>3. BasisAllowed(e, file.platform) /\ {e.value, e.minimum, e.maximum} \subseteq Optional(Int)
      BY <1>2, <1>3, <2>1
    <2>4. e.basis # "measured" => (e.maximum # Nothing => e.minimum # Nothing)
      BY <2>3 DEF BasisAllowed, Ranged, Absent
    <2> HIDE DEF entries, e
    <2> QED  BY <2>2, <2>3, <2>4 DEF Based, basis_of
  <1>5. DOMAIN entries = DOMAIN all  OBVIOUS
  <1> HIDE DEF entries
  <1> QED  BY <1>1, <1>4, <1>5 DEF ToSet

\* What narrowing keeps is of the characterisation, and the objects stay where they are.
LEMMA KeptIsMeasured ==
  ASSUME AuditFields, IsList(characterisation.coefficients)
  PROVE  LET narrowed == Narrow(audit)
         IN  /\ DOMAIN narrowed = DOMAIN audit
             /\ narrowed.placements = audit.placements
             /\ IsList(narrowed.kept)
             /\ ToSet(narrowed.kept) \subseteq ToSet(characterisation.coefficients)
             /\ narrowed.kept = KeptOf(characterisation.coefficients, audit.placements)
  <1> DEFINE names == {p.name : p \in ToSet(audit.placements)}
             all == characterisation.coefficients
             Apart(c) == c.key.object \notin names
             T == {c \in ToSet(all) : ~Apart(c)}
             parts == [j \in DOMAIN all |-> IF all[j] \in T THEN <<all[j]>> ELSE <<>>]
             narrowed == Narrow(audit)
  <1>1. /\ DOMAIN narrowed = DOMAIN audit /\ narrowed.placements = audit.placements
        /\ narrowed.kept = Selected(all, LAMBDA c : ~Apart(c))
    <2>1. \E u, r : narrowed = [audit EXCEPT !.kept = Selected(all, LAMBDA c : ~Apart(c)),
                                             !.unattached = u, !.runtime_placed = r]
      BY DEF Narrow
    <2>2. {"placements", "unplaced", "kept", "unattached", "runtime_placed"} \subseteq DOMAIN audit
      BY DEF AuditFields, NoAudit
    <2> DEFINE kept == Selected(all, LAMBDA c : ~Apart(c))
    <2> HIDE DEF kept, narrowed
    <2> QED  BY <2>1, <2>2 DEF kept
  <1>2. PICK S : all \in Seq(S)  BY DEF IsList
  <1>3. narrowed.kept = FlattenSeq(parts)
    <2>1. Selected(all, LAMBDA c : ~Apart(c)) =
            FlattenSeq([j \in DOMAIN all |-> IF ~Apart(all[j]) THEN <<all[j]>> ELSE <<>>])
      BY DEF Selected
    <2>2. [j \in DOMAIN all |-> IF ~Apart(all[j]) THEN <<all[j]>> ELSE <<>>] = parts
      <3>1. \A j \in DOMAIN all : all[j] \in T <=> ~Apart(all[j])
        BY DEF ToSet
      <3> HIDE DEF T, Apart, all
      <3> QED  BY <3>1
    <2> QED  BY <1>1, <2>1, <2>2
  <1>4. FlattenSeq(parts) \in Seq(S) /\ ToSet(FlattenSeq(parts)) = ToSet(all) \cap T
    <2> HIDE DEF T, all
    <2> QED  BY <1>2, SelectedFrom
  <1>5. narrowed.kept = KeptOf(all, audit.placements)
    <2>1. T = {c \in ToSet(all) : c.key.object \in names}  OBVIOUS
    <2> HIDE DEF T, all, names
    <2>2. narrowed.kept = Only(all, T)  BY <1>3 DEF Only
    <2> QED  BY <2>1, <2>2 DEF KeptOf, names
  <1> HIDE DEF parts, T, narrowed, all
  <1> QED  BY <1>1, <1>3, <1>4, <1>5 DEF IsList, narrowed, all

\* The property, in these words.
LEMMA TotalInWords ==
  ASSUME NEW cost_, NEW placements, NEW requesters, NEW kept, NEW regions, NEW window,
         IsWhatTheBytesSay(cost_, placements, requesters, kept, regions, window),
         audit'.cost = cost_, audit'.placements = placements, audit'.kept = kept,
         work'.requesters = requesters, work'.window = window, profile'.regions = regions
  PROVE  TotalIsThePlacement'
  <1> DEFINE Meets(c) ==
               LET p == Attached(audit'.placements, c)
                   r == Endpoint(work'.requesters, c)
                   region == FirstOf(profile'.regions, LAMBDA q : q.id = r.region)
               IN  \E byte \in p.addr..(p.addr + Larger(p.bytes, 1) - 1) :
                     byte \in region.base..(region.base + region.bytes - 1)
  <1>1. \A c : Meets(c) <=> MeetsAt(placements, requesters, c, regions)
    BY DEF MeetsAt, OneByte, RegionOf
  <1> HIDE DEF Meets
  <1> DEFINE charged == {i \in DOMAIN audit'.kept : Meets(audit'.kept[i])}
             Known(i) == /\ audit'.kept[i].basis.high # Nothing
                         /\ Endpoint(work'.requesters, audit'.kept[i]).transactions_per_second # Nothing
             Charge(i, end) == end * work'.window
                                 * Endpoint(work'.requesters, audit'.kept[i]).transactions_per_second
             known == {i \in charged : Known(i)}
  <1>2. TotalIsThePlacement' <=> (stage' = "done" =>
           /\ audit'.cost.low = SumFunction([i \in known |-> Charge(i, audit'.kept[i].basis.low)])
           /\ audit'.cost.high = SumFunction([i \in known |-> Charge(i, audit'.kept[i].basis.high)])
           /\ Verdict(audit'.cost) = "at least" <=> charged # known)
    BY DEF TotalIsThePlacement, Meets, FirstOf, SelectInSeq
  <1>3. charged = {i \in DOMAIN kept : MeetsAt(placements, requesters, kept[i], regions)}
    BY <1>1
  <1>4. \A i : Known(i) <=> KnownAt(requesters, kept[i])  BY DEF KnownAt
  <1>5. \A i, end : Charge(i, end) = ChargeAt(requesters, kept[i], end, window)  BY DEF ChargeAt
  <1> HIDE DEF Known, Charge
  <1> QED  BY <1>2, <1>3, <1>4, <1>5 DEF IsWhatTheBytesSay

\* The price of what is kept is what the bytes say.
LEMMA PriceIsTheBytes ==
  ASSUME AuditFields, AuditNumbers, Price, stage' = "done"
  PROVE  /\ UNCHANGED <<project, disk, work, found>>
         /\ audit'.placements = audit.placements /\ TotalIsThePlacement' /\ Charged'
  <1> DEFINE narrowed == Narrow(audit)
             placements == audit.placements
             requesters == work.requesters
             kept == narrowed.kept
             window == work.window
             priced == cost(narrowed.placements, requesters, kept, profile, window)
             parts == [i \in DOMAIN kept |->
                         TermsAt(placements, requesters, kept[i], RegionsOf, window)]
             total == Totalled(FlattenSeq(parts))
  <1>1. /\ stage = "place" /\ UNCHANGED <<project, disk, work, found>>
        /\ priced.ok
        /\ \E quiet : audit' = [narrowed EXCEPT !.cost = priced.value, !.quiet = quiet]
    <2> HIDE DEF narrowed
    <2> QED  BY DEF Price, Given, Stop, Go, narrowed
  <1>2. /\ Parsed(project) /\ Profile(project.profile).ok
        /\ read_characterisation(project.characterisation).ok
        /\ window \in Nat /\ Rated(requesters, RegionsOf) /\ Sized(placements)
    BY <1>1 DEF AuditNumbers
  <1>3. GoodRegions(RegionsOf)  BY <1>2, RegionsAreGood DEF RegionsOf
  <1>4. /\ DOMAIN narrowed = DOMAIN audit /\ narrowed.placements = placements
        /\ IsList(kept) /\ ToSet(kept) \subseteq ToSet(characterisation.coefficients)
        /\ kept = KeptOf(characterisation.coefficients, placements)
    BY <1>2, CoefficientsAreAList, KeptIsMeasured
  <1>5. \A c \in ToSet(kept) : Based(c)  BY <1>2, <1>4, CoefficientsAreBased
  <1> HIDE DEF narrowed
  <1>6. /\ audit'.placements = placements /\ audit'.kept = kept /\ audit'.cost = priced.value
    BY <1>1, <1>4 DEF AuditFields, NoAudit
  <1>7. /\ \A c \in ToSet(kept) :
             Attached(placements, c) # Nothing /\ Endpoint(requesters, c) # Nothing
        /\ priced.value = total /\ window # 0
    <2>1. priced = cost(placements, requesters, kept, profile, window)  BY <1>4
    <2> HIDE DEF kept, placements, requesters, window
    <2>2. /\ ~ \E c \in ToSet(kept) :
               Attached(placements, c) = Nothing \/ Endpoint(requesters, c) = Nothing
          /\ priced = Ok(Totalled(FlattenSeq([i \in DOMAIN kept |->
               TermsOf(kept[i], Attached(placements, kept[i]), Endpoint(requesters, kept[i]),
                       profile.regions, window)])))
          /\ window # 0
      BY <1>1, <2>1 DEF cost, Refused
    <2> QED  BY <2>2 DEF TermsAt, RegionsOf, Ok
  <1>8. IsWhatTheBytesSay(total, placements, requesters, kept, RegionsOf, window)
    <2>1. Priceable(placements, requesters, kept, RegionsOf, window)
      BY <1>2, <1>3, <1>4, <1>5, <1>7 DEF Priceable
    <2> HIDE DEF kept, placements, requesters, window
    <2> QED  BY <2>1, TotalIsOfTheBytes
  <1> HIDE DEF total, kept, priced
  <1>9. profile' = profile /\ work' = work  BY <1>1 DEF profile
  <1>10. TotalIsThePlacement'
    <2>1. /\ work'.requesters = requesters /\ work'.window = window
          /\ profile'.regions = RegionsOf /\ audit'.cost = total
      BY <1>6, <1>7, <1>9 DEF RegionsOf
    <2> HIDE DEF requesters, window, placements
    <2> QED  BY <1>6, <1>8, <2>1, TotalInWords
  <1>11. Charged'
    <2>1. ChargedAt(audit', placements, requesters, characterisation.coefficients, RegionsOf, window)
      BY <1>4, <1>6, <1>7 DEF ChargedAt, total
    <2>2. characterisation' = characterisation /\ RegionsOf' = RegionsOf
      BY <1>1, <1>9 DEF characterisation, RegionsOf
    <2> QED  BY <1>6, <1>9, <2>1, <2>2 DEF Charged
  <1> QED  BY <1>1, <1>6, <1>10, <1>11

\* A step that leaves the numbers alone, and does not end the audit.
LEMMA NumbersStay ==
  ASSUME AuditNumbers, UNCHANGED <<project, disk, found>>,
         audit'.placements = audit.placements,
         work'.requesters = work.requesters, work'.window = work.window, work'.objects = work.objects,
         stage' \notin {"place", "done"}, stage' = "requesters" => stage = "requesters" /\ at' \in Nat \ {0},
         stage' \notin {"find", "refused"} => stage \notin {"find", "refused"}
  PROVE  AuditNumbers'
  <1>1. RegionsOf' = RegionsOf  BY DEF RegionsOf, profile
  <1> QED  BY <1>1 DEF AuditNumbers

LEMMA NoRequesters ==
  /\ \A regions : Rated(<<>>, regions)
  /\ ToSet(<<>>) = {}
  <1>1. <<>> \in Seq({}) /\ DOMAIN <<>> = {}  OBVIOUS
  <1>2. ToSet(<<>>) = {}  BY <1>1 DEF ToSet
  <1> QED  BY <1>1, <1>2 DEF Rated, IsList

\* No step of an audit forgets a number.
LEMMA NumbersKeep ==
  ASSUME AuditStands, AuditNumbers, AuditNext
  PROVE  AuditNumbers'
  <1>0. AuditFields  BY DEF AuditStands
  <1> DEFINE Read == Profile(project.profile).ok /\ read_characterisation(project.characterisation).ok
  <1>1. Read /\ stage \notin {"find", "refused"} => GoodRegions(RegionsOf)
    BY RegionsAreGood DEF AuditNumbers, RegionsOf
  <1>2. CASE Find
    <2>1. /\ UNCHANGED <<project, disk, work, found, audit>>
          /\ \/ stage' = "refused"
             \/ stage' = "project" /\ Read
      BY <1>2 DEF Find, Given, Stop, Go
    <2>2. RegionsOf' = RegionsOf  BY <2>1 DEF RegionsOf, profile
    <2> QED  BY <2>1, <2>2 DEF AuditNumbers
  <1>3. CASE ProjectObjects
    <2> DEFINE document == project.document
    <2>1. stage = "project" /\ UNCHANGED <<project, disk>>
      BY <1>3 DEF ProjectObjects, Given
    <2>2. Parsed(project) /\ Read  BY <2>1 DEF AuditNumbers
    <2>3. RegionsOf' = RegionsOf  BY <2>1 DEF RegionsOf, profile
    <2>4. CASE document = Nothing
      <3>1. /\ work' = [NoWork EXCEPT !.unresolved = {"no configuration"}]
            /\ UNCHANGED <<found, audit>> /\ stage' = "source"
        BY <1>3, <2>4 DEF ProjectObjects, Go
      <3>2. work'.objects = <<>> /\ work'.requesters = <<>> /\ work'.window = UNDECLARED_WINDOW
        BY <3>1 DEF NoWork
      <3> QED  BY <2>1, <2>2, <2>3, <3>1, <3>2, NoRequesters, WindowIsANumber DEF AuditNumbers
    <2>5. CASE document # Nothing /\ ~from_toml(document)
      <3>1. stage' = "refused" /\ UNCHANGED <<work, found, audit>>
        BY <1>3, <2>5 DEF ProjectObjects, Go, Stop
      <3> QED  BY <2>1, <3>1, NumbersStay
    <2>6. CASE document # Nothing /\ from_toml(document)
      <3>1. stage' = "requesters" /\ at' = 1 /\ UNCHANGED <<found, audit>>
        BY <1>3, <2>6 DEF ProjectObjects, Go
      <3>2. /\ work'.objects = objects_of(document) /\ work'.requesters = <<>>
            /\ work'.window = IF document.window_cycles = Nothing THEN UNDECLARED_WINDOW
                              ELSE document.window_cycles
        BY <1>3, <2>6 DEF ProjectObjects, NoWork
      <3>3. document.window_cycles \in Optional(Nat)  BY <2>2, <2>6 DEF Parsed, ParsedDocument
      <3>4. work'.window \in Nat  BY <3>2, <3>3, WindowIsANumber DEF Optional
      <3>5. \A o \in ToSet(work'.objects) : SizedSpec(o)  BY <2>2, <2>6, <3>2, ObjectsAreNumbers
      <3>6. Rated(work'.requesters, RegionsOf)  BY <3>2, NoRequesters
      <3> QED  BY <2>1, <2>2, <2>3, <2>6, <3>1, <3>4, <3>5, <3>6 DEF AuditNumbers
    <2> QED  BY <2>4, <2>5, <2>6
  <1>4. CASE ProjectRequester
    <2>1. /\ stage = "requesters" /\ at' = at + 1
          /\ UNCHANGED <<project, disk, stage, found, audit>>
      BY <1>4 DEF ProjectRequester, Given
    <2>2. /\ Parsed(project) /\ project.document # Nothing /\ at \in Nat \ {0}
          /\ Rated(work.requesters, RegionsOf)
      BY <2>1 DEF AuditNumbers
    <2>3. GoodRegions(RegionsOf)  BY <1>1, <2>1 DEF AuditNumbers
    <2>4. /\ Rated(work'.requesters, RegionsOf)
          /\ work'.window = work.window /\ work'.objects = work.objects
      BY <1>0, <1>4, <2>2, <2>3, RequesterKeepsRated
    <2>5. RegionsOf' = RegionsOf /\ at' \in Nat \ {0}  BY <2>1, <2>2 DEF RegionsOf, profile
    <2> QED  BY <2>1, <2>4, <2>5 DEF AuditNumbers
  <1>5. CASE Projected
    <2>1. stage = "requesters" /\ stage' = "source" /\ UNCHANGED <<project, disk, work, found, audit>>
      BY <1>5 DEF Projected, Given, Go
    <2> QED  BY <2>1, NumbersStay
  <1>6. CASE ReadObjects
    <2>1. stage = "source" /\ UNCHANGED <<project, disk, work>>
      BY <1>6 DEF ReadObjects, Given, Stop
    <2>2. CASE ~ReadSource.ok
      <3>1. stage' = "refused" /\ UNCHANGED <<found, audit>>
        BY <1>6, <2>2 DEF ReadObjects, Stop, Go
      <3> QED  BY <2>1, <3>1, NumbersStay
    <2>3. CASE ReadSource.ok
      <3>1. /\ stage' = "place" /\ found' = ReadSource.value
            /\ \E m, c : audit' = [audit EXCEPT !.mismatch = m, !.contradictions = c]
        BY <1>6, <2>3 DEF ReadObjects, Go
      <3>2. audit'.placements = audit.placements  BY <1>0, <3>1 DEF AuditFields, NoAudit
      <3>3. Located(found')  BY <2>3, <3>1, ReadIsLocated DEF AuditNumbers
      <3>4. RegionsOf' = RegionsOf  BY <2>1 DEF RegionsOf, profile
      <3>5. OfRegions(found', RegionsOf)  BY <2>3, <3>1, ReadIsOfRegions DEF RegionsOf
      <3> QED  BY <2>1, <3>1, <3>2, <3>3, <3>4, <3>5 DEF AuditNumbers
    <2> QED  BY <2>2, <2>3
  <1>7. CASE PlaceObject
    <2>1. /\ stage = "place" /\ at <= Len(work.objects)
          /\ UNCHANGED <<project, disk, stage, work, found>>
          /\ audit' = WithObject(audit, work.objects[at])
      BY <1>7 DEF PlaceObject, Given
    <2>2. at \in DOMAIN work.objects
      <3>1. at \in 1..(Len(work.objects) + 1) /\ IsList(work.objects)
        BY <2>1 DEF AuditStands, Declares
      <3>2. DOMAIN work.objects = 1..Len(work.objects) /\ Len(work.objects) \in Nat
        BY <3>1 DEF IsList
      <3> QED  BY <2>1, <3>1, <3>2
    <2>3. SizedSpec(work.objects[at])  BY <2>2 DEF AuditNumbers, ToSet
    <2>4. GoodRegions(RegionsOf) /\ Located(found) /\ Sized(audit.placements)
      BY <1>1, <2>1 DEF AuditNumbers
    <2>5. Sized(audit'.placements)  BY <1>0, <2>1, <2>3, <2>4, ObjectKeepsSized
    <2>6. RegionsOf' = RegionsOf  BY <2>1 DEF RegionsOf, profile
    <2> QED  BY <2>1, <2>5, <2>6 DEF AuditNumbers
  <1>8. CASE Price
    <2>1. CASE stage' = "done"
      <3>1. /\ UNCHANGED <<project, disk, work, found>>
            /\ audit'.placements = audit.placements /\ TotalIsThePlacement' /\ Charged'
        BY <1>0, <1>8, <2>1, PriceIsTheBytes
      <3>2. stage = "place"  BY <1>8 DEF Price
      <3>3. RegionsOf' = RegionsOf  BY <3>1 DEF RegionsOf, profile
      <3> QED  BY <2>1, <3>1, <3>2, <3>3 DEF AuditNumbers
    <2>2. CASE stage' # "done"
      <3>1. stage' = "refused" /\ UNCHANGED <<project, disk, work, found, audit>>
        BY <1>8, <2>2 DEF Price, Given, Stop, Go
      <3> QED  BY <3>1, NumbersStay
    <2> QED  BY <2>1, <2>2
  <1>9. CASE Rebuild
    <2>1. /\ stage \in {"project", "requesters", "source"}
          /\ UNCHANGED <<project, stage, work, found, at, audit>>
      BY <1>9 DEF Rebuild
    <2>2. PICK image \in Images : disk' = [disk EXCEPT !.elf = image]  BY <1>9 DEF Rebuild
    <2>3. Readable(disk) /\ Located(image.symbols)  BY ImagesAreParsed DEF AuditNumbers
    <2>4. disk'.elf = image /\ disk'.table = disk.table /\ DOMAIN disk' = DOMAIN disk
      BY <2>2, <2>3 DEF Readable
    <2>5. Readable(disk')  BY <2>3, <2>4 DEF Readable
    <2>6. RegionsOf' = RegionsOf  BY <2>1 DEF RegionsOf, profile
    <2> QED  BY <2>1, <2>5, <2>6 DEF AuditNumbers
  <1> QED
    BY <1>2, <1>3, <1>4, <1>5, <1>6, <1>7, <1>8, <1>9 DEF AuditNext, AuditStep

LEMMA NumbersStayAsTheyAre ==
  ASSUME UNCHANGED auditVars
  PROVE  AuditNumbers' = AuditNumbers
  <1>1. UNCHANGED <<project, disk, stage, work, found, at, audit>>  BY DEF auditVars
  <1>2. profile' = profile  BY <1>1 DEF profile
  <1>3. TotalIsThePlacement' = TotalIsThePlacement
    BY <1>1, <1>2 DEF TotalIsThePlacement, FirstOf, SelectInSeq
  <1>4. Charged' = Charged  BY <1>1, <1>2 DEF Charged, RegionsOf, characterisation
  <1> QED  BY <1>1, <1>2, <1>3, <1>4 DEF AuditNumbers, RegionsOf

\* A table written of what is read for the placement, and read back, is what was read.
LEMMA WrittenIsRead ==
  ASSUME AuditNumbers
  PROVE  TableAgreesWithElf
  <1> SUFFICES ASSUME stage = "place" PROVE TableAgreesWithElf  BY DEF TableAgreesWithElf
  <1>1. GoodRegions(RegionsOf) /\ Located(found) /\ OfRegions(found, RegionsOf)
    BY RegionsAreGood DEF AuditNumbers, RegionsOf
  <1>2. LET back == parse_table(write_table(found, profile.platform, Nothing, RegionsOf),
                               profile.platform, RegionsOf)
        IN  /\ back.ok => ToSet(back.value) = ToSet(found) /\ Len(back.value) = Len(found)
            /\ UniqueNames(RegionsOf) => back.ok
    BY <1>1, TableReadsBack
  <1> QED  BY <1>2 DEF TableAgreesWithElf, UniqueNames, RegionsOf

-----------------------------------------------------------------------------
(* What was compared. *)

DeclaredBy(spec, p) ==
  /\ p.name = spec.name
  /\ spec.declared_bytes \in {Nothing, p.bytes} /\ spec.declared_address \in {Nothing, p.addr}

RoomOf(spec) ==
  IF spec.extent_symbol = Nothing THEN {Whole(spec.name, NamedIn(found, spec.symbols))}
  ELSE {e \in ToSet(found) : e.name = spec.extent_symbol}

IsReached(spec) ==
  spec.symbol_kind = "reservation" /\ NamedIn(found, spec.symbols) # <<>> =>
    \A name \in spec.declared_candidates :
      \E r \in ToSet(RegionsOf), room \in RoomOf(spec) : r.name = name /\ OneByte(room, r)

\* Of the objects declared up to the k-th: what is placed is as declared, what may move can.
ComparedUpTo(report, objects, k) ==
  report.contradictions = {} =>
    /\ \A p \in ToSet(report.placements) : \E i \in 1..k : DeclaredBy(objects[i], p)
    /\ \A i \in 1..k : IsReached(objects[i])

\* What an object of an image without a disagreement is.
LEMMA NothingDenied ==
  ASSUME NEW spec, NEW parts, NEW whole, Disagreements(spec, parts, whole) = {}
  PROVE  LET isObject == spec.symbol_kind = "object"
             reach == ToSet(Regions(Extent(spec, whole), RegionsOf))
             Lands(name) == region_named(RegionsOf, name)
         IN  /\ spec.extent_symbol # Nothing => \E f \in ToSet(found) : f.name = spec.extent_symbol
             /\ \A name \in spec.declared_candidates : Lands(name) # Nothing
             /\ source = "elf" /\ ~isObject =>
                  \A name \in spec.declared_candidates : Lands(name).id \in reach
             /\ source = "elf" /\ isObject => /\ spec.declared_bytes \in {Nothing, whole.bytes}
                                              /\ spec.declared_address \in {Nothing, whole.addr}
  <1> DEFINE isObject == spec.symbol_kind = "object"
             reach == ToSet(Regions(Extent(spec, whole), profile.regions))
             Lands(name) == region_named(profile.regions, name)
             Aliases == Len(spec.symbols) > 1 /\ Missing(spec, parts) = {} /\ spec.aliases
             NoExtent == /\ spec.extent_symbol # Nothing
                         /\ \A f \in ToSet(found) : f.name # spec.extent_symbol
             Unknown == \E name \in spec.declared_candidates : Lands(name) = Nothing
             Unreachable == /\ source = "elf" /\ ~isObject
                            /\ \E name \in spec.declared_candidates :
                                 Lands(name) # Nothing /\ Lands(name).id \notin reach
             Size == isObject /\ source = "elf" /\ spec.declared_bytes \notin {Nothing, whole.bytes}
             Place == isObject /\ source = "elf" /\ spec.declared_address \notin {Nothing, whole.addr}
             Spans == isObject /\ Len(Regions(whole, profile.regions)) > 1
             TooSmall == /\ ~isObject /\ spec.declared_bytes # Nothing
                         /\ whole.bytes < spec.declared_bytes
             Kinds == {"aliases", "extent", "candidate unknown", "candidate unreachable", "size",
                       "address", "spans", "container"}
  <1>1. Disagreements(spec, parts, whole) =
          {kind \in Kinds : CASE kind = "aliases" -> Aliases
                              [] kind = "extent" -> NoExtent
                              [] kind = "candidate unknown" -> Unknown
                              [] kind = "candidate unreachable" -> Unreachable
                              [] kind = "size" -> Size
                              [] kind = "address" -> Place
                              [] kind = "spans" -> Spans
                              [] kind = "container" -> TooSmall}
    BY DEF Disagreements
  <1> HIDE DEF Aliases, NoExtent, Unknown, Unreachable, Size, Place, Spans, TooSmall
  <1>2. ~NoExtent /\ ~Unknown /\ ~Unreachable /\ ~Size /\ ~Place
    BY <1>1
  <1> HIDE DEF isObject, reach, Lands
  <1>3. spec.extent_symbol # Nothing => \E f \in ToSet(found) : f.name = spec.extent_symbol
    BY <1>2 DEF NoExtent
  <1>4. \A name \in spec.declared_candidates : Lands(name) # Nothing  BY <1>2 DEF Unknown
  <1>5. source = "elf" /\ ~isObject => \A name \in spec.declared_candidates : Lands(name).id \in reach
    BY <1>2, <1>4 DEF Unreachable
  <1>6. source = "elf" /\ isObject => /\ spec.declared_bytes \in {Nothing, whole.bytes}
                                      /\ spec.declared_address \in {Nothing, whole.addr}
    BY <1>2 DEF Size, Place
  <1> QED  BY <1>3, <1>4, <1>5, <1>6 DEF isObject, reach, Lands, RegionsOf

\* What a reservation moves within is where it was found, or the symbol it is carved out of.
LEMMA ExtentIsRoom ==
  ASSUME Located(found), NEW spec, NEW parts, parts = NamedIn(found, spec.symbols), parts # <<>>,
         spec.extent_symbol # Nothing => \E f \in ToSet(found) : f.name = spec.extent_symbol
  PROVE  LET room == Extent(spec, Whole(spec.name, parts))
         IN  /\ room.addr \in Nat /\ room.bytes \in Int
             /\ \E e \in RoomOf(spec) : e.addr = room.addr /\ e.bytes = room.bytes
  <1> DEFINE whole == Whole(spec.name, parts)
             I == {i \in 1..Len(found) : found[i].name = spec.extent_symbol}
             at0 == IF I # {} THEN Min(I) ELSE 0
  <1>1. Extent(spec, whole) = IF spec.extent_symbol = Nothing \/ at0 = 0 THEN whole
          ELSE [name |-> found[at0].name, addr |-> found[at0].addr, bytes |-> found[at0].bytes]
    BY DEF Extent, SelectInSeq
  <1>2. /\ found \in Seq(ToSet(found)) /\ IsList(found)
        /\ \A e \in ToSet(found) : e.addr \in Nat /\ e.bytes \in Nat
    BY DEF Located, Listed, IsList
  <1>3. CASE spec.extent_symbol = Nothing
    <2>1. Extent(spec, whole) = whole  BY <1>1, <1>3
    <2>2. whole.addr \in Nat /\ whole.bytes \in Int  BY SymbolsAreLocated, WholeIsSized
    <2>3. whole \in RoomOf(spec)  BY <1>3 DEF RoomOf
    <2> HIDE DEF whole
    <2>4. /\ Extent(spec, whole).addr \in Nat /\ Extent(spec, whole).bytes \in Int
          /\ \E e \in RoomOf(spec) : /\ e.addr = Extent(spec, whole).addr
                                     /\ e.bytes = Extent(spec, whole).bytes
      BY <2>1, <2>2, <2>3
    <2> QED  BY <2>4 DEF whole
  <1>4. CASE spec.extent_symbol # Nothing
    <2>1. I # {}
      <3>1. PICK i \in DOMAIN found : found[i].name = spec.extent_symbol  BY <1>4 DEF ToSet
      <3>2. i \in 1..Len(found)  BY <1>2
      <3> QED  BY <3>1, <3>2
    <2>2. I \in SUBSET (1..Len(found)) /\ \A i \in I : found[i].name = spec.extent_symbol  OBVIOUS
    <2> HIDE DEF I, whole
    <2>3. at0 \in I /\ at0 \in DOMAIN found /\ at0 # 0  BY <1>2, <2>1, <2>2, FirstIs
    <2> HIDE DEF at0
    <2>4. Extent(spec, whole) =
            [name |-> found[at0].name, addr |-> found[at0].addr, bytes |-> found[at0].bytes]
      BY <1>1, <1>4, <2>3
    <2>5. found[at0] \in ToSet(found) /\ found[at0].name = spec.extent_symbol
      BY <2>2, <2>3 DEF ToSet
    <2>6. found[at0] \in RoomOf(spec)  BY <1>4, <2>5 DEF RoomOf
    <2>7. /\ Extent(spec, whole).addr \in Nat /\ Extent(spec, whole).bytes \in Int
          /\ \E e \in RoomOf(spec) : /\ e.addr = Extent(spec, whole).addr
                                     /\ e.bytes = Extent(spec, whole).bytes
      BY <1>2, <2>4, <2>5, <2>6
    <2> QED  BY <2>7 DEF whole
  <1> QED  BY <1>3, <1>4

\* A candidate that nobody denies has a byte of what the reservation moves within.
LEMMA CandidatesAreReached ==
  ASSUME Located(found), GoodRegions(RegionsOf), NEW spec,
         NEW parts, parts = NamedIn(found, spec.symbols),
         parts # <<>> => Disagreements(spec, parts, Whole(spec.name, parts)) = {},
         source = "elf" \/ (source = "table" /\ ~needs_the_binary(spec))
  PROVE  IsReached(spec)
  <1> SUFFICES ASSUME spec.symbol_kind = "reservation", parts # <<>>,
                      NEW name \in spec.declared_candidates
               PROVE  \E r \in ToSet(RegionsOf), room \in RoomOf(spec) :
                        r.name = name /\ OneByte(room, r)
    BY DEF IsReached
  <1> DEFINE whole == Whole(spec.name, parts)
             room == Extent(spec, whole)
             lands == region_named(RegionsOf, name)
  <1>1. source = "elf"
    <2>1. spec.declared_candidates # {}  OBVIOUS
    <2>2. needs_the_binary(spec)  BY <2>1 DEF needs_the_binary
    <2> QED  BY <2>2
  <1>2. /\ spec.extent_symbol # Nothing => \E f \in ToSet(found) : f.name = spec.extent_symbol
        /\ lands # Nothing /\ lands.id \in ToSet(Regions(room, RegionsOf))
    BY <1>1, NothingDenied
  <1>3. /\ room.addr \in Nat /\ room.bytes \in Int
        /\ \E e \in RoomOf(spec) : e.addr = room.addr /\ e.bytes = room.bytes
    BY <1>2, ExtentIsRoom
  <1>4. \E k \in DOMAIN RegionsOf : lands = RegionsOf[k] /\ RegionsOf[k].name = name
    BY <1>2, NamedIsDeclared DEF GoodRegions
  <1> HIDE DEF room, lands
  <1>5. PICK k \in DOMAIN RegionsOf : lands = RegionsOf[k] /\ RegionsOf[k].name = name  BY <1>4
  <1>6. OneByte(room, RegionsOf[k])
    <2>1. RegionsOf[k].id \in ToSet(Regions(room, RegionsOf))  BY <1>2, <1>5
    <2> QED  BY <1>3, <2>1, Touches
  <1>7. PICK e \in RoomOf(spec) : e.addr = room.addr /\ e.bytes = room.bytes  BY <1>3
  <1>8. OneByte(e, RegionsOf[k])  BY <1>6, <1>7 DEF OneByte
  <1>9. RegionsOf[k] \in ToSet(RegionsOf)  BY DEF ToSet
  <1> QED  BY <1>5, <1>7, <1>8, <1>9

\* A placement nobody denies is as it is declared.
LEMMA PlacedIsDeclared ==
  ASSUME NEW spec, SizedSpec(spec), NEW parts,
         NEW whole, parts # <<>> => whole = Whole(spec.name, parts),
         parts # <<>> => Disagreements(spec, parts, whole) = {},
         source = "elf" \/ (source = "table" /\ ~needs_the_binary(spec)),
         NEW answer, answer = Answer(spec, parts, whole), answer.as = "placed"
  PROVE  DeclaredBy(spec, answer.entry)
  <1> DEFINE region == region_named(profile.regions, spec.declared_region)
             Declared == [name |-> spec.name, bytes |-> spec.declared_bytes,
                          addr |-> IF spec.declared_address = Nothing THEN region.base
                                   ELSE spec.declared_address]
  <1>1. \A x : Unplaced(spec).as # "placed" /\ AtRunTime(spec, x).as # "placed"
    BY DEF Unplaced, AtRunTime
  <1>2. parts # <<>>
    <2>1. CASE parts = <<>>
      <3>1. answer = Unplaced(spec)  BY <2>1 DEF Answer
      <3> QED  BY <1>1, <3>1
    <2> QED  BY <2>1
  <1>3. CASE spec.symbol_kind = "object"
    <2>1. answer = IF Regions(whole, profile.regions) = <<>> THEN Unplaced(spec) ELSE Placed(whole)
      BY <1>2, <1>3 DEF Answer
    <2>2. answer = Placed(whole)  BY <1>1, <2>1
    <2>3. answer.entry = whole  BY <2>2 DEF Placed
    <2>4. whole.name = spec.name  BY <1>2 DEF Whole
    <2>5. /\ spec.declared_bytes \in {Nothing, whole.bytes}
          /\ spec.declared_address \in {Nothing, whole.addr}
      <3>1. CASE source = "elf"  BY <1>2, <1>3, <3>1, NothingDenied
      <3>2. CASE ~needs_the_binary(spec)  BY <1>3, <3>2 DEF needs_the_binary
      <3> QED  BY <3>1, <3>2
    <2> QED  BY <2>3, <2>4, <2>5 DEF DeclaredBy
  <1>4. CASE spec.symbol_kind = "reservation"
    <2>1. answer = IF spec.declared_bytes = Nothing THEN Unplaced(spec)
                   ELSE IF spec.declared_region = Nothing THEN AtRunTime(spec, whole)
                   ELSE IF region = Nothing THEN Unplaced(spec)
                   ELSE Placed(Declared)
      BY <1>2, <1>4 DEF Answer
    <2> HIDE DEF Declared
    <2>2. answer = Placed(Declared)
      <3> HIDE DEF region
      <3> QED  BY <1>1, <2>1
    <2>3. answer.entry = Declared  BY <2>2 DEF Placed
    <2> QED  BY <2>3 DEF DeclaredBy, Declared
  <1> QED  BY <1>3, <1>4 DEF SizedSpec

\* One object more is compared as well, where it is not denied.
LEMMA ObjectIsCompared ==
  ASSUME AuditFields, Located(found), GoodRegions(RegionsOf), IsList(audit.placements),
         NEW objects, NEW k \in Nat \ {0}, SizedSpec(objects[k]),
         source \in {"elf", "table"},
         audit.contradictions = {} /\ source = "table" => ~needs_the_binary(objects[k]),
         ComparedUpTo(audit, objects, k - 1)
  PROVE  /\ ComparedUpTo(WithObject(audit, objects[k]), objects, k)
         /\ WithObject(audit, objects[k]).contradictions = {} => audit.contradictions = {}
  <1> DEFINE spec == objects[k]
             parts == NamedIn(found, spec.symbols)
             whole == IF parts = <<>> THEN Nothing ELSE Whole(spec.name, parts)
             answer == Answer(spec, parts, whole)
             notes == IF parts = <<>> THEN {} ELSE Disagreements(spec, parts, whole)
             before == audit.placements
             after == WithObject(audit, spec)
  <1>1. /\ after.placements = IF answer.as = "placed" THEN Append(before, answer.entry) ELSE before
        /\ after.contradictions = audit.contradictions \cup {<<kind, spec.name>> : kind \in notes}
    BY DEF WithObject, AuditFields, NoAudit
  <1> HIDE DEF after
  <1>2. after.contradictions = {} => audit.contradictions = {}  BY <1>1
  <1>3. ASSUME after.contradictions = {}
        PROVE  /\ \A p \in ToSet(after.placements) : \E i \in 1..k : DeclaredBy(objects[i], p)
               /\ \A i \in 1..k : IsReached(objects[i])
    <2>1. notes = {}
      <3> HIDE DEF notes
      <3> QED  BY <1>1, <1>3
    <2>2. parts # <<>> => whole = Whole(spec.name, parts) /\ Disagreements(spec, parts, whole) = {}
      BY <2>1
    <2> HIDE DEF notes, whole
    <2>3. source = "elf" \/ (source = "table" /\ ~needs_the_binary(spec))  BY <1>2, <1>3
    <2>4. answer.as = "placed" => DeclaredBy(spec, answer.entry)
      BY <2>2, <2>3, PlacedIsDeclared
    <2>5. IsReached(spec)  BY <2>2, <2>3, CandidatesAreReached
    <2>6. /\ \A p \in ToSet(before) : \E i \in 1..(k - 1) : DeclaredBy(objects[i], p)
          /\ \A i \in 1..(k - 1) : IsReached(objects[i])
      BY <1>2, <1>3 DEF ComparedUpTo
    <2>7. k \in 1..k /\ \A i \in 1..(k - 1) : i \in 1..k  OBVIOUS
    <2>8. \A i \in 1..k : i = k \/ i \in 1..(k - 1)  OBVIOUS
    <2> DEFINE entry == answer.entry  placed == answer.as = "placed"
    <2>9. /\ placed => after.placements = Append(before, entry)
          /\ ~placed => after.placements = before
          /\ placed => DeclaredBy(spec, entry)
      BY <1>1, <2>4
    <2> HIDE DEF entry, placed, before, answer
    <2>10. \A p \in ToSet(after.placements) : p \in ToSet(before) \/ (placed /\ p = entry)
      <3>1. CASE placed
        <4>1. IsList(before)  BY DEF before
        <4>2. ToSet(after.placements) = ToSet(before) \cup {entry}
          BY <2>9, <3>1, <4>1, ListGrows
        <4> QED  BY <3>1, <4>2
      <3>2. CASE ~placed  BY <2>9, <3>2
      <3> QED  BY <3>1, <3>2
    <2>11. ASSUME NEW p \in ToSet(after.placements)
           PROVE  \E i \in 1..k : DeclaredBy(objects[i], p)
      <3>1. CASE p \in ToSet(before)  BY <2>6, <2>7, <3>1
      <3>2. CASE placed /\ p = entry  BY <2>7, <2>9, <3>2
      <3> QED  BY <2>10, <3>1, <3>2
    <2>12. ASSUME NEW i \in 1..k PROVE IsReached(objects[i])  BY <2>5, <2>6, <2>8
    <2> QED  BY <2>11, <2>12
  <1> QED  BY <1>2, <1>3 DEF ComparedUpTo, after

\* In words, what an audit promises of its comparisons.
AllCompared ==
  /\ \A p \in ToSet(audit.placements) : \E spec \in ToSet(work.objects) : DeclaredBy(spec, p)
  /\ \A spec \in ToSet(work.objects) :
       /\ IsReached(spec)
       /\ source = "table" => IF spec.symbol_kind = "object"
                                THEN spec.declared_bytes = Nothing /\ spec.declared_address = Nothing
                                ELSE spec.declared_candidates = {}

LEMMA ComparedInWords ==
  ASSUME NEW k, k = Len(work.objects), IsList(work.objects), ComparedUpTo(audit, work.objects, k),
         \A o \in ToSet(work.objects) : SizedSpec(o), audit.contradictions = {},
         source = "table" => \A spec \in ToSet(work.objects) : ~needs_the_binary(spec)
  PROVE  AllCompared
  <1>1. DOMAIN work.objects = 1..k  BY DEF IsList
  <1>2. \A p \in ToSet(audit.placements) : \E spec \in ToSet(work.objects) : DeclaredBy(spec, p)
    BY <1>1 DEF ComparedUpTo, ToSet
  <1>3. \A spec \in ToSet(work.objects) : IsReached(spec)  BY <1>1 DEF ComparedUpTo, ToSet
  <1>4. \A spec \in ToSet(work.objects) :
          source = "table" => IF spec.symbol_kind = "object"
                                THEN spec.declared_bytes = Nothing /\ spec.declared_address = Nothing
                                ELSE spec.declared_candidates = {}
    BY DEF needs_the_binary, SizedSpec
  <1> QED  BY <1>2, <1>3, <1>4 DEF AllCompared

LEMMA CleanInWords ==
  CleanMeansChecked <=> (stage = "done" /\ audit.contradictions = {} => AllCompared)
  BY DEF CleanMeansChecked, AllCompared, DeclaredBy, IsReached, RoomOf, OneByte, RegionsOf

\* The comparison of what is behind the cursor, while objects are placed; of all of them at the end.
AuditCompared ==
  /\ stage = "place" =>
       /\ source \in {"elf", "table"}
       /\ audit.contradictions = {} /\ source = "table" =>
            \A spec \in ToSet(work.objects) : ~needs_the_binary(spec)
       /\ ComparedUpTo(audit, work.objects, at - 1)
  /\ stage = "done" /\ audit.contradictions = {} => AllCompared

LEMMA ReachedAsBefore ==
  ASSUME UNCHANGED <<project, found>>
  PROVE  \A spec : IsReached(spec)' <=> IsReached(spec)
  <1>1. found' = found /\ RegionsOf' = RegionsOf  BY DEF RegionsOf, profile
  <1> QED  BY <1>1 DEF IsReached, RoomOf

LEMMA ComparedKeeps ==
  ASSUME AuditStands, AuditNumbers, AuditCompared, AuditNext
  PROVE  AuditCompared'
  <1>1. AuditFields /\ IsList(work.objects)  BY DEF AuditStands, Declares
  <1>2. CASE Find \/ ProjectObjects \/ ProjectRequester \/ Projected \/ Rebuild
    <2>1. stage' \notin {"place", "done"}
      BY <1>2 DEF Find, ProjectObjects, ProjectRequester, Projected, Rebuild, Go, Stop
    <2> QED  BY <2>1 DEF AuditCompared
  <1>3. CASE ReadObjects
    <2>1. CASE ~ReadSource.ok
      <3>1. stage' = "refused"  BY <1>3, <2>1 DEF ReadObjects, Stop, Go
      <3> QED  BY <3>1 DEF AuditCompared
    <2>2. CASE ReadSource.ok
      <3> DEFINE notes == IF source = "table" /\ \E spec \in ToSet(work.objects) : needs_the_binary(spec)
                            THEN {<<"not compared", Nothing>>} ELSE {}
      <3>1. /\ stage = "source" /\ stage' = "place" /\ at' = 1 /\ UNCHANGED <<source, work>>
            /\ \E m : audit' = [audit EXCEPT !.mismatch = m, !.contradictions = notes]
        BY <1>3, <2>2 DEF ReadObjects, Go
      <3> HIDE DEF notes
      <3>2. audit'.placements = audit.placements /\ audit'.contradictions = notes
        BY <1>1, <3>1 DEF AuditFields, NoAudit
      <3>3. source \in {"elf", "table"}
        <4>1. ASSUME source # "elf", source # "table" PROVE FALSE
          <5>1. /\ ~(source = "elf" /\ disk.elf # Nothing)
                /\ ~(source = "table" /\ disk.table # Nothing)
            BY <4>1
          <5>2. ReadSource = Refused("no file")  BY <5>1 DEF ReadSource
          <5> QED  BY <2>2, <5>2 DEF Refused
        <4> QED  BY <4>1
      <3>4. notes = {} /\ source = "table" =>
              \A spec \in ToSet(work.objects) : ~needs_the_binary(spec)
        BY DEF notes
      <3>5. ToSet(audit.placements) = {}
        <4>1. /\ IsList(audit.placements) /\ IsList(audit.unplaced) /\ IsList(audit.runtime_placed)
              /\ Len(audit.placements) + Len(audit.unplaced) + Len(audit.runtime_placed) = 0
          BY <3>1 DEF AuditStands, WentSomewhere
        <4>2. /\ Len(audit.placements) \in Nat /\ Len(audit.unplaced) \in Nat
              /\ Len(audit.runtime_placed) \in Nat
              /\ DOMAIN audit.placements = 1..Len(audit.placements)
          BY <4>1 DEF IsList
        <4>3. \A a, b, c \in Nat : a + b + c = 0 => 1..a = {}  OBVIOUS
        <4>4. DOMAIN audit.placements = {}  BY <4>1, <4>2, <4>3
        <4> QED  BY <4>4 DEF ToSet
      <3>6. 1..(at' - 1) = {}  BY <3>1
      <3>7. ComparedUpTo(audit, work.objects, at - 1)'
        BY <3>2, <3>5, <3>6 DEF ComparedUpTo
      <3> QED  BY <3>1, <3>2, <3>3, <3>4, <3>7 DEF AuditCompared, needs_the_binary
    <2> QED  BY <2>1, <2>2
  <1>4. CASE PlaceObject
    <2>1. /\ stage = "place" /\ at <= Len(work.objects) /\ at' = at + 1
          /\ UNCHANGED <<project, stage, source, work, found>>
          /\ audit' = WithObject(audit, work.objects[at])
      BY <1>4 DEF PlaceObject, Given
    <2>2. at \in Nat \ {0} /\ at \in DOMAIN work.objects
      <3>1. at \in 1..(Len(work.objects) + 1)  BY <2>1 DEF AuditStands
      <3>2. DOMAIN work.objects = 1..Len(work.objects) /\ Len(work.objects) \in Nat
        BY <1>1 DEF IsList
      <3> QED  BY <2>1, <3>1, <3>2
    <2>3. work.objects[at] \in ToSet(work.objects)  BY <2>2 DEF ToSet
    <2>4. /\ GoodRegions(RegionsOf) /\ Located(found) /\ SizedSpec(work.objects[at])
          /\ IsList(audit.placements)
      BY <2>1, <2>3, RegionsAreGood DEF AuditNumbers, RegionsOf, Sized
    <2>5. /\ source \in {"elf", "table"}
          /\ audit.contradictions = {} /\ source = "table" =>
               \A spec \in ToSet(work.objects) : ~needs_the_binary(spec)
          /\ ComparedUpTo(audit, work.objects, at - 1)
      BY <2>1 DEF AuditCompared
    <2>6. /\ ComparedUpTo(WithObject(audit, work.objects[at]), work.objects, at)
          /\ WithObject(audit, work.objects[at]).contradictions = {} => audit.contradictions = {}
      BY <1>1, <2>2, <2>3, <2>4, <2>5, ObjectIsCompared
    <2>7. ComparedUpTo(audit, work.objects, at - 1)'
      <3>1. at' - 1 = at  BY <2>1, <2>2
      <3>2. \A spec : IsReached(spec)' <=> IsReached(spec)  BY <2>1, ReachedAsBefore
      <3> QED  BY <2>1, <2>6, <3>1, <3>2 DEF ComparedUpTo, DeclaredBy
    <2>8. audit'.contradictions = {} => audit.contradictions = {}  BY <2>1, <2>6
    <2> QED  BY <2>1, <2>5, <2>7, <2>8 DEF AuditCompared, needs_the_binary
  <1>5. CASE Price
    <2>1. CASE stage' = "done"
      <3> DEFINE narrowed == Narrow(audit)
      <3>1. /\ stage = "place" /\ at > Len(work.objects) /\ UNCHANGED <<project, source, work, found>>
            /\ \E charge, quiet : audit' = [narrowed EXCEPT !.cost = charge, !.quiet = quiet]
        <4> HIDE DEF narrowed
        <4> QED  BY <1>5, <2>1 DEF Price, Given, Stop, Go, narrowed
      <3>2. /\ DOMAIN narrowed = DOMAIN audit /\ narrowed.placements = audit.placements
            /\ narrowed.contradictions = audit.contradictions
        <4>1. \E kept, unattached, standing :
                narrowed = [audit EXCEPT !.kept = kept, !.unattached = unattached,
                                         !.runtime_placed = standing]
          BY DEF Narrow
        <4> HIDE DEF narrowed
        <4> QED  BY <1>1, <4>1 DEF AuditFields, NoAudit
      <3> HIDE DEF narrowed
      <3>3. audit'.placements = audit.placements /\ audit'.contradictions = audit.contradictions
        BY <1>1, <3>1, <3>2 DEF AuditFields, NoAudit
      <3> DEFINE k == Len(work.objects)
      <3>4. at - 1 = k
        <4>1. at \in 1..(k + 1) /\ k \in Nat  BY <1>1, <3>1 DEF AuditStands, IsList
        <4> QED  BY <3>1, <4>1
      <3>5. /\ audit.contradictions = {} /\ source = "table" =>
                 \A spec \in ToSet(work.objects) : ~needs_the_binary(spec)
            /\ ComparedUpTo(audit, work.objects, k)
        BY <3>1, <3>4 DEF AuditCompared
      <3>6. audit.contradictions = {} => AllCompared
        BY <1>1, <3>1, <3>5, ComparedInWords DEF AuditNumbers
      <3>7. audit'.contradictions = {} => AllCompared'
        <4>1. \A spec : IsReached(spec)' <=> IsReached(spec)  BY <3>1, ReachedAsBefore
        <4> QED  BY <3>1, <3>3, <3>6, <4>1 DEF AllCompared, DeclaredBy
      <3> QED  BY <2>1, <3>7 DEF AuditCompared
    <2>2. CASE stage' # "done"
      <3>1. stage' = "refused"  BY <1>5, <2>2 DEF Price, Stop, Go
      <3> QED  BY <3>1 DEF AuditCompared
    <2> QED  BY <2>1, <2>2
  <1> QED  BY <1>2, <1>3, <1>4, <1>5 DEF AuditNext, AuditStep

LEMMA ComparedStaysAsItIs ==
  ASSUME UNCHANGED auditVars
  PROVE  AuditCompared' = AuditCompared
  <1>1. UNCHANGED <<project, stage, source, work, found, at, audit>>  BY DEF auditVars
  <1>2. profile' = profile  BY <1>1 DEF profile
  <1>3. \A spec : IsReached(spec)' <=> IsReached(spec)  BY <1>1, ReachedAsBefore
  <1>4. AllCompared' <=> AllCompared
    BY <1>1, <1>3 DEF AllCompared, DeclaredBy
  <1>5. ComparedUpTo(audit, work.objects, at - 1)' = ComparedUpTo(audit, work.objects, at - 1)
    BY <1>1, <1>3 DEF ComparedUpTo, DeclaredBy
  <1> QED  BY <1>1, <1>4, <1>5 DEF AuditCompared

-----------------------------------------------------------------------------
(* What an object would cost where it is. *)

\* No byte of a region is in another one.
BytesOf(r) == r.base..(r.base + r.bytes - 1)
Apart(regions, i) ==
  \A j \in DOMAIN regions \ {i} : BytesOf(regions[i]) \cap BytesOf(regions[j]) = {}

\* An object that fits into such a region is in that region alone when it is at the base of it.
LEMMA OnlyThere ==
  ASSUME NEW regions, GoodRegions(regions), NEW i \in DOMAIN regions, Apart(regions, i),
         regions[i].bytes # 0, NEW here, here.addr = regions[i].base,
         here.bytes \in Int, here.bytes <= regions[i].bytes,
         NEW k \in DOMAIN regions
  PROVE  regions[k].id \in ToSet(Regions(here, regions)) <=> k = i
  <1>1. /\ regions[i].base \in Nat /\ regions[i].bytes \in Nat
        /\ regions[k].base \in Nat /\ regions[k].bytes \in Nat
    BY DEF GoodRegions
  <1>2. regions[k].id \in ToSet(Regions(here, regions)) <=> OneByte(here, regions[k])
    BY <1>1, Touches
  <1>3. here.addr..(here.addr + Larger(here.bytes, 1) - 1) \subseteq BytesOf(regions[i])
    BY <1>1 DEF BytesOf, Larger
  <1>4. here.addr \in here.addr..(here.addr + Larger(here.bytes, 1) - 1)
    BY <1>1 DEF Larger
  <1>5. CASE k = i
    <2>1. OneByte(here, regions[k])  BY <1>3, <1>4, <1>5 DEF OneByte, BytesOf
    <2> QED  BY <1>2, <1>5, <2>1
  <1>6. CASE k # i
    <2>1. BytesOf(regions[i]) \cap BytesOf(regions[k]) = {}  BY <1>6 DEF Apart
    <2>2. ~OneByte(here, regions[k])  BY <1>3, <2>1 DEF OneByte, BytesOf
    <2> QED  BY <1>2, <1>6, <2>2
  <1> QED  BY <1>5, <1>6

\* The coefficients of a name belong to the first placed of it.
Leads(placements, k) == \A j \in 1..(k - 1) : placements[j].name # placements[k].name

LEMMA LeaderIsAttached ==
  ASSUME NEW placements, IsList(placements), NEW k \in DOMAIN placements, Leads(placements, k),
         NEW c, c.key.object = placements[k].name
  PROVE  Attached(placements, c) = placements[k]
  <1> DEFINE I == AttachedAt(placements, c)
  <1>1. DOMAIN placements = 1..Len(placements) /\ Len(placements) \in Nat  BY DEF IsList
  <1>2. I \in SUBSET (1..Len(placements)) /\ k \in I
        /\ \A j \in I : placements[j].name = placements[k].name
    BY <1>1 DEF AttachedAt
  <1>3. Attached(placements, c) = First(placements, I)  BY AttachedIsFirst
  <1> HIDE DEF I
  <1>4. First(placements, I) = placements[Min(I)] /\ Min(I) \in I  BY <1>2, FirstIs
  <1>5. Min(I) = k
    <2>1. I \in SUBSET Nat  BY <1>1, <1>2
    <2>2. Min(I) <= k  BY <1>2, <2>1, MinIsLeast
    <2>3. Min(I) \notin 1..(k - 1)  BY <1>2, <1>4 DEF Leads
    <2>4. Min(I) \in 1..Len(placements) /\ k \in 1..Len(placements)  BY <1>1, <1>2, <1>4
    <2> QED  BY <1>1, <2>2, <2>3, <2>4
  <1> QED  BY <1>3, <1>4, <1>5

LEMMA AloneIsAttached ==
  ASSUME NEW here, NEW c, c.key.object = here.name
  PROVE  Attached(<<here>>, c) = here
  <1>1. IsList(<<here>>)
    <2>1. <<here>> \in Seq({here})  OBVIOUS
    <2> QED  BY <2>1 DEF IsList
  <1>2. 1 \in DOMAIN <<here>> /\ <<here>>[1] = here /\ 1..(1 - 1) = {}  OBVIOUS
  <1>3. Leads(<<here>>, 1)  BY <1>2 DEF Leads
  <1> QED  BY <1>1, <1>2, <1>3, LeaderIsAttached

\* An endpoint that is found is of the declared, and in a region of the profile.
LEMMA EndpointIsDeclared ==
  ASSUME NEW requesters, NEW regions, Rated(requesters, regions), NEW c,
         Endpoint(requesters, c) # Nothing
  PROVE  /\ Endpoint(requesters, c) \in ToSet(requesters)
         /\ \E k \in DOMAIN regions : regions[k].id = Endpoint(requesters, c).region
  <1> DEFINE I == EndpointAt(requesters, c)
             r == Endpoint(requesters, c)
  <1>1. IsList(requesters)  BY DEF Rated
  <1>2. r = First(requesters, I)  BY <1>1, EndpointIsFirst
  <1>3. I \in SUBSET (1..Len(requesters))  BY DEF EndpointAt
  <1> HIDE DEF I, r
  <1>4. I # {}
    <2>1. r # Nothing  BY DEF r
    <2> QED  BY <1>2, <2>1 DEF First
  <1>5. r \in ToSet(requesters)  BY <1>1, <1>2, <1>3, <1>4, FirstIs DEF ToSet
  <1> QED  BY <1>5 DEF Rated, r

\* The terms of an object, and its coefficients.
OwnTerms(terms, name) ==
  FlattenSeq([j \in DOMAIN terms |-> IF terms[j].key.object = name THEN <<terms[j]>> ELSE <<>>])
OwnCoefficients(all, name) == Only(all, {c \in ToSet(all) : c.key.object = name})

TermOf(requesters, c, window) ==
  LET r == Endpoint(requesters, c)
      transactions == Times(r.transactions_per_second, window)
  IN  [key |-> c.key, region |-> r.region, basis |-> c.basis.basis,
       low |-> Times(c.basis.low, transactions), high |-> Times(c.basis.high, transactions)]

LEMMA TermsAre ==
  ASSUME NEW placements, NEW requesters, NEW c, NEW regions, NEW window
  PROVE  TermsAt(placements, requesters, c, regions, window) =
           IF Endpoint(requesters, c).region
                \notin ToSet(Regions(Attached(placements, c), regions))
             THEN <<>> ELSE <<TermOf(requesters, c, window)>>
  BY DEF TermsAt, TermsOf, TermOf

\* What the coefficients of an object give at the base of the region it is in is what is charged
\* for it.
SameObject(placements, k, regions, i, here) ==
  /\ k \in DOMAIN placements /\ Leads(placements, k)
  /\ i \in DOMAIN regions /\ Apart(regions, i)
  /\ Regions(placements[k], regions) = <<regions[i].id>>
  /\ placements[k].bytes <= regions[i].bytes
  /\ here = [name |-> placements[k].name, addr |-> regions[i].base, bytes |-> placements[k].bytes]

Charges(placements, requesters, all, regions, window, report) ==
  /\ Sized(placements) /\ Rated(requesters, regions) /\ GoodRegions(regions) /\ IsList(all)
  /\ ChargedAt(report, placements, requesters, all, regions, window)

LEMMA SameRegion ==
  ASSUME NEW placements, NEW requesters, NEW all, NEW regions, NEW window, NEW report,
         Charges(placements, requesters, all, regions, window, report),
         NEW k, NEW i, NEW here, SameObject(placements, k, regions, i, here),
         NEW c \in ToSet(all), c.key.object = placements[k].name
  PROVE  /\ Endpoint(requesters, c) # Nothing /\ Endpoint(requesters, c) \in ToSet(requesters)
         /\ LET Touched(q) == Endpoint(requesters, c).region
                                \in ToSet(Regions(Attached(q, c), regions))
            IN  /\ Touched(placements) <=> Endpoint(requesters, c).region = regions[i].id
                /\ Touched(<<here>>) <=> Endpoint(requesters, c).region = regions[i].id
  <1> DEFINE p == placements[k]  r == Endpoint(requesters, c)
             K == {x \in ToSet(all) : x.key.object \in {q.name : q \in ToSet(placements)}}
  <1>1. /\ k \in DOMAIN placements /\ i \in DOMAIN regions /\ p \in ToSet(placements)
        /\ GoodRegions(regions) /\ IsList(placements) /\ Rated(requesters, regions)
        /\ p.addr \in Nat /\ p.bytes \in Int
    BY DEF SameObject, Charges, Sized, ToSet
  <1>2. c \in ToSet(report.kept)
    <2>1. PICK S : all \in Seq(S)  BY DEF Charges, IsList
    <2>2. c \in K  BY <1>1
    <2>3. report.kept = Only(all, K)  BY DEF Charges, ChargedAt, KeptOf
    <2> HIDE DEF K
    <2>4. ToSet(Only(all, K)) = ToSet(all) \cap K  BY <2>1, SelectedFrom DEF Only
    <2> QED  BY <2>2, <2>3, <2>4
  <1>3. r # Nothing  BY <1>2 DEF Charges, ChargedAt
  <1>4. r \in ToSet(requesters) /\ \E m \in DOMAIN regions : regions[m].id = r.region
    BY <1>1, <1>3, EndpointIsDeclared
  <1>5. Attached(placements, c) = p /\ Attached(<<here>>, c) = here
    <2>1. here.name = c.key.object  BY DEF SameObject
    <2> QED  BY <1>1, <2>1, LeaderIsAttached, AloneIsAttached DEF SameObject
  <1>6. ToSet(Regions(p, regions)) = {regions[i].id}
    <2>1. ToSet(<<regions[i].id>>) = {regions[i].id}  BY DEF ToSet
    <2> QED  BY <2>1 DEF SameObject
  <1>7. regions[i].bytes # 0
    <2>1. OneByte(p, regions[i])  BY <1>1, <1>6, Touches
    <2>2. regions[i].base \in Nat  BY <1>1 DEF GoodRegions
    <2> QED  BY <2>1, <2>2 DEF OneByte
  <1>8. PICK m \in DOMAIN regions : regions[m].id = r.region  BY <1>4
  <1>9. r.region \in ToSet(Regions(here, regions)) <=> m = i
    <2>1. /\ here.addr = regions[i].base /\ here.bytes = p.bytes /\ Apart(regions, i)
          /\ p.bytes <= regions[i].bytes
      BY DEF SameObject
    <2> HIDE DEF p, r
    <2>2. regions[m].id \in ToSet(Regions(here, regions)) <=> m = i
      BY <1>1, <1>7, <2>1, OnlyThere
    <2> QED  BY <1>8, <2>2
  <1>10. m = i <=> r.region = regions[i].id  BY <1>1, <1>8 DEF GoodRegions
  <1> QED  BY <1>3, <1>4, <1>5, <1>6, <1>9, <1>10

LEMMA OwnAreOnly ==
  ASSUME NEW T, NEW terms \in Seq(T), NEW name
  PROVE  OwnTerms(terms, name) = Only(terms, {t \in T : t.key.object = name})
  <1> DEFINE U == {t \in T : t.key.object = name}
  <1>1. \A j \in DOMAIN terms : terms[j] \in U <=> terms[j].key.object = name  OBVIOUS
  <1> HIDE DEF U
  <1>2. [j \in DOMAIN terms |-> IF terms[j].key.object = name THEN <<terms[j]>> ELSE <<>>]
          = [j \in DOMAIN terms |-> IF terms[j] \in U THEN <<terms[j]>> ELSE <<>>]
    BY <1>1
  <1> QED  BY <1>2 DEF OwnTerms, Only, U

LEMMA SameTerms ==
  ASSUME NEW placements, NEW requesters, NEW all, NEW regions, NEW window, NEW report,
         Charges(placements, requesters, all, regions, window, report),
         NEW k, NEW i, NEW here, SameObject(placements, k, regions, i, here),
         NEW mine, mine = OwnCoefficients(all, here.name),
         NEW own, own = OwnTerms(report.cost.terms, here.name)
  PROVE  /\ own = FlattenSeq([j \in DOMAIN mine |->
                    TermsAt(<<here>>, requesters, mine[j], regions, window)])
         /\ \A c \in ToSet(mine) : Endpoint(requesters, c) # Nothing /\ c.key.object = here.name
         /\ (\A r \in ToSet(requesters) : r.region # regions[i].id) => own = <<>>
  <1> DEFINE C == ToSet(all)
             T == {TermOf(requesters, c, window) : c \in C}
             g == [c \in C |-> TermsAt(placements, requesters, c, regions, window)]
             M == {c \in C : c.key.object = here.name}
             K == {c \in C : c.key.object \in {q.name : q \in ToSet(placements)}}
             U == {t \in T : t.key.object = here.name}
             terms == report.cost.terms
  <1>1. /\ here.name = placements[k].name /\ placements[k] \in ToSet(placements)
        /\ mine = Only(all, M) /\ report.kept = Only(all, K)
        /\ terms = FlattenSeq([j \in DOMAIN report.kept |->
                     TermsAt(placements, requesters, report.kept[j], regions, window)])
    <2>1. here.name = placements[k].name /\ placements[k] \in ToSet(placements)
      BY DEF SameObject, ToSet
    <2>2. mine = Only(all, M)  BY DEF OwnCoefficients
    <2>3. report.kept = Only(all, K)  BY DEF Charges, ChargedAt, KeptOf
    <2> DEFINE flat == FlattenSeq([j \in DOMAIN report.kept |->
                         TermsAt(placements, requesters, report.kept[j], regions, window)])
    <2>4. report.cost = Totalled(flat)  BY DEF Charges, ChargedAt
    <2> HIDE DEF flat
    <2>5. terms = flat  BY <2>4 DEF Totalled
    <2> QED  BY <2>1, <2>2, <2>3, <2>5 DEF flat
  <1>2. all \in Seq(C)
    <2>1. PICK S : all \in Seq(S)  BY DEF Charges, IsList
    <2>2. DOMAIN all = 1..Len(all) /\ Len(all) \in Nat /\ all = [j \in 1..Len(all) |-> all[j]]
      BY <2>1
    <2>3. \A j \in DOMAIN all : all[j] \in C  BY DEF ToSet
    <2> HIDE DEF C
    <2> QED  BY <2>2, <2>3
  <1>3. M \subseteq K /\ K \subseteq C  BY <1>1
  <1>4. \A c \in C : g[c] = <<>> \/ g[c] = <<TermOf(requesters, c, window)>>
    BY TermsAre
  <1>5. \A c \in C : TermOf(requesters, c, window) \in T /\ TermOf(requesters, c, window).key = c.key
    BY DEF TermOf
  <1> HIDE DEF C, T
  <1>6. g \in [C -> Seq(T)] /\ \A c \in C : Len(g[c]) <= 1
    <2>1. \A t \in T : <<t>> \in Seq(T) /\ Len(<<t>>) <= 1  OBVIOUS
    <2>2. <<>> \in Seq(T) /\ Len(<<>>) <= 1  OBVIOUS
    <2>3. \A c \in C : g[c] \in Seq(T) /\ Len(g[c]) <= 1  BY <1>4, <1>5, <2>1, <2>2
    <2>4. DOMAIN g = C /\ g = [c \in C |-> g[c]]  OBVIOUS
    <2> HIDE DEF g
    <2> QED  BY <2>3, <2>4
  <1>7. \A c \in C : c \in K => Only(g[c], U) = IF c \in M THEN g[c] ELSE <<>>
    <2> SUFFICES ASSUME NEW c \in C PROVE Only(g[c], U) = IF c \in M THEN g[c] ELSE <<>>
      OBVIOUS
    <2> DEFINE t == TermOf(requesters, c, window)
    <2>1. t \in U <=> c \in M  BY <1>5
    <2>2. t \in T  BY <1>5
    <2>3. g[c] = <<>> \/ g[c] = <<t>>  BY <1>4
    <2> HIDE DEF t, U, M, g
    <2>4. Only(Append(<<>>, t), U) = IF t \in U THEN Append(Only(<<>>, U), t) ELSE Only(<<>>, U)
      <3>1. <<>> \in Seq(T)  OBVIOUS
      <3> QED  BY <2>2, <3>1, OnlyAppend
    <2>5. Append(<<>>, t) = <<t>> /\ Only(<<>>, U) = <<>>  BY OnlyNone
    <2> QED  BY <2>1, <2>3, <2>4, <2>5
  <1> HIDE DEF g, U, M, K
  <1>8. /\ mine \in Seq(C) /\ ToSet(mine) = C \cap M
        /\ report.kept \in Seq(C)
    <2>1. Only(all, M) \in Seq(C) /\ Only(all, K) \in Seq(C)  BY <1>2, OnlyParts
    <2>2. ToSet(Only(all, M)) = ToSet(all) \cap M  BY <1>2, SelectedFrom DEF Only
    <2> QED  BY <1>1, <2>1, <2>2 DEF C
  <1>9. terms = Each(report.kept, g) /\ terms \in Seq(T)
    <2>1. \A j \in DOMAIN report.kept :
            g[report.kept[j]] = TermsAt(placements, requesters, report.kept[j], regions, window)
      BY <1>8 DEF g
    <2>2. terms = Each(report.kept, g)
      <3> HIDE DEF terms
      <3> QED  BY <1>1, <2>1 DEF Each
    <2>3. Each(report.kept, g) \in Seq(T)  BY <1>6, <1>8, EachParts
    <2> HIDE DEF terms
    <2> QED  BY <2>2, <2>3
  <1>10. own = Each(mine, g)
    <2>1. own = Only(terms, U)
      <3> HIDE DEF terms
      <3>1. own = OwnTerms(terms, here.name)  BY DEF terms
      <3> QED  BY <1>9, <3>1, OwnAreOnly DEF U
    <2>2. Each(Only(all, M), g) = Only(Each(Only(all, K), g), U)
      BY <1>2, <1>3, <1>6, <1>7, EachOnly
    <2> QED  BY <1>1, <1>9, <2>1, <2>2
  <1>11. \A c \in ToSet(mine) :
           /\ Endpoint(requesters, c) # Nothing /\ Endpoint(requesters, c) \in ToSet(requesters)
           /\ c \in C /\ c.key.object = here.name
           /\ g[c] = TermsAt(<<here>>, requesters, c, regions, window)
           /\ Endpoint(requesters, c).region # regions[i].id => g[c] = <<>>
    <2> SUFFICES ASSUME NEW c \in ToSet(mine)
                 PROVE  /\ Endpoint(requesters, c) # Nothing
                        /\ Endpoint(requesters, c) \in ToSet(requesters)
                        /\ c \in C /\ c.key.object = here.name
                        /\ g[c] = TermsAt(<<here>>, requesters, c, regions, window)
                        /\ Endpoint(requesters, c).region # regions[i].id => g[c] = <<>>
      OBVIOUS
    <2>1. c \in C /\ c.key.object = here.name  BY <1>8 DEF M
    <2> DEFINE Touched(q) == Endpoint(requesters, c).region
                               \in ToSet(Regions(Attached(q, c), regions))
    <2>2. /\ Endpoint(requesters, c) # Nothing /\ Endpoint(requesters, c) \in ToSet(requesters)
          /\ Touched(placements) <=> Endpoint(requesters, c).region = regions[i].id
          /\ Touched(<<here>>) <=> Endpoint(requesters, c).region = regions[i].id
      BY <1>1, <2>1, SameRegion DEF C
    <2>3. g[c] = TermsAt(placements, requesters, c, regions, window)  BY <2>1 DEF g
    <2>4. \A q : TermsAt(q, requesters, c, regions, window) =
                   IF ~Touched(q) THEN <<>> ELSE <<TermOf(requesters, c, window)>>
      BY TermsAre
    <2> HIDE DEF Touched
    <2> QED  BY <2>1, <2>2, <2>3, <2>4
  <1>12. own = FlattenSeq([j \in DOMAIN mine |->
                 TermsAt(<<here>>, requesters, mine[j], regions, window)])
    <2>1. \A j \in DOMAIN mine : mine[j] \in ToSet(mine)  BY DEF ToSet
    <2>2. \A j \in DOMAIN mine :
            g[mine[j]] = TermsAt(<<here>>, requesters, mine[j], regions, window)
      BY <1>11, <2>1
    <2>3. [j \in DOMAIN mine |-> g[mine[j]]] =
            [j \in DOMAIN mine |-> TermsAt(<<here>>, requesters, mine[j], regions, window)]
      BY <2>2
    <2> QED  BY <1>10, <2>3 DEF Each
  <1>13. ASSUME \A r \in ToSet(requesters) : r.region # regions[i].id PROVE own = <<>>
    <2> DEFINE parts == [j \in DOMAIN mine |-> g[mine[j]]]
    <2>1. \A j \in DOMAIN mine : parts[j] = <<>>
      <3>1. \A j \in DOMAIN mine : mine[j] \in ToSet(mine)  BY DEF ToSet
      <3> QED  BY <1>11, <1>13, <3>1
    <2>2. parts \in Seq(Seq(T))  BY <1>6, <1>8, EachParts
    <2>3. own = FlattenSeq(parts)  BY <1>10 DEF Each
    <2>4. \A j \in DOMAIN parts : parts[j] = <<>>  BY <2>1
    <2> HIDE DEF parts
    <2>5. DOMAIN parts = 1..Len(parts)  BY <2>2
    <2>6. own \in Seq(T) /\ ToSet(own) = UNION {ToSet(parts[j]) : j \in 1..Len(parts)}
      BY <2>2, <2>3, FlattenType, FlattenRange
    <2>7. ToSet(<<>>) = {}  BY NoRequesters
    <2>8. ToSet(own) = {}  BY <2>4, <2>5, <2>6, <2>7
    <2>9. DOMAIN own = 1..Len(own) /\ Len(own) \in Nat  BY <2>6
    <2>10. DOMAIN own = {}  BY <2>8 DEF ToSet
    <2>11. Len(own) = 0
      <3>1. 1 \notin 1..Len(own)  BY <2>9, <2>10
      <3> QED  BY <2>9, <3>1
    <2> QED  BY <2>6, <2>11
  <1> QED  BY <1>11, <1>12, <1>13

\* What the screen has for it is a price of those terms, or none where there are none.
LEMMA CandidateIsCharged ==
  ASSUME Charges(audit.placements, work.requesters, characterisation.coefficients, RegionsOf,
                 work.window, audit),
         profile.clock_hz # 0, NEW k, NEW i, NEW here,
         SameObject(audit.placements, k, RegionsOf, i, here),
         NEW own, own = OwnTerms(audit.cost.terms, here.name),
         NEW priced, priced = candidate(here.name, here.bytes, RegionsOf[i], profile,
                                        characterisation, work)
  PROVE  /\ priced.ok => priced.value = Totalled(own)
         /\ ~priced.ok => own = <<>>
  <1> DEFINE all == characterisation.coefficients
             mine == OwnCoefficients(all, here.name)
             requesters == work.requesters
             window == work.window
             flat == FlattenSeq([j \in DOMAIN mine |->
                       TermsAt(<<here>>, requesters, mine[j], RegionsOf, window)])
  <1>1. /\ own = flat
        /\ \A c \in ToSet(mine) : Endpoint(requesters, c) # Nothing /\ c.key.object = here.name
        /\ (\A r \in ToSet(requesters) : r.region # RegionsOf[i].id) => own = <<>>
    <2> DEFINE placements == audit.placements  regions == RegionsOf
    <2>1. /\ Charges(placements, requesters, all, regions, window, audit)
          /\ SameObject(placements, k, regions, i, here)
      OBVIOUS
    <2> HIDE DEF placements, regions, requesters, window, all, mine
    <2>2. mine = OwnCoefficients(all, here.name)  BY DEF mine
    <2>3. /\ own = FlattenSeq([j \in DOMAIN mine |->
                      TermsAt(<<here>>, requesters, mine[j], regions, window)])
          /\ \A c \in ToSet(mine) : Endpoint(requesters, c) # Nothing /\ c.key.object = here.name
          /\ (\A r \in ToSet(requesters) : r.region # regions[i].id) => own = <<>>
      BY <2>1, <2>2, SameTerms
    <2> QED  BY <2>3 DEF regions
  <1>2. here = [name |-> here.name, addr |-> RegionsOf[i].base, bytes |-> here.bytes]
    BY DEF SameObject
  <1>3. here # Nothing
    <2>1. audit.placements[k] \in ToSet(audit.placements)  BY DEF SameObject, ToSet
    <2>2. here.name \in ToSet(NameOrder) /\ here.bytes \in Int
      BY <2>1 DEF Charges, Sized, SameObject
    <2>3. RegionsOf[i].base \in Nat  BY DEF Charges, GoodRegions, SameObject
    <2>4. here \in [name : ToSet(NameOrder), addr : Nat, bytes : Int]  BY <1>2, <2>2, <2>3
    <2> QED  BY <2>4, NothingIsNoPlacement
  <1>4. \A c \in ToSet(mine) : Attached(<<here>>, c) # Nothing
    BY <1>1, <1>3, AloneIsAttached
  <1>5. mine = Selected(all, LAMBDA c : c.key.object = here.name)
    <2> DEFINE M == {c \in ToSet(all) : c.key.object = here.name}
    <2>1. \A j \in DOMAIN all : all[j] \in M <=> all[j].key.object = here.name  BY DEF ToSet
    <2> HIDE DEF M
    <2>2. [j \in DOMAIN all |-> IF all[j] \in M THEN <<all[j]>> ELSE <<>>] =
            [j \in DOMAIN all |-> IF all[j].key.object = here.name THEN <<all[j]>> ELSE <<>>]
      BY <2>1
    <2>3. mine = Only(all, M)  BY DEF OwnCoefficients, M
    <2> HIDE DEF mine, all
    <2> QED  BY <2>2, <2>3 DEF Selected, Only
  <1>6. priced = IF \A r \in ToSet(requesters) : r.region # RegionsOf[i].id
                   THEN Refused("nothing to load")
                   ELSE cost(<<here>>, requesters, mine, profile, window)
    <2>1. ~(here.bytes > RegionsOf[i].bytes)
      <3>1. audit.placements[k] \in ToSet(audit.placements)  BY DEF SameObject, ToSet
      <3>2. here.bytes \in Int /\ RegionsOf[i].bytes \in Nat /\ here.bytes <= RegionsOf[i].bytes
        BY <3>1 DEF Charges, Sized, GoodRegions, SameObject
      <3> QED  BY <3>2
    <2> HIDE DEF mine
    <2> QED  BY <1>2, <1>5, <2>1 DEF candidate
  <1>7. cost(<<here>>, requesters, mine, profile, window) = Ok(Totalled(flat))
    <2>1. window # 0  BY DEF Charges, ChargedAt
    <2>2. cost(<<here>>, requesters, mine, profile, window) =
            Ok(Totalled(FlattenSeq([j \in DOMAIN mine |->
              TermsOf(mine[j], Attached(<<here>>, mine[j]), Endpoint(requesters, mine[j]),
                      profile.regions, window)])))
      <3> HIDE DEF mine, requesters, window
      <3> QED  BY <1>1, <1>4, <2>1 DEF cost
    <2> HIDE DEF mine, requesters, window
    <2> QED  BY <2>2 DEF TermsAt, RegionsOf
  <1> HIDE DEF mine, requesters, window, flat
  <1>8. CASE \A r \in ToSet(requesters) : r.region # RegionsOf[i].id
    <2>1. own = <<>>  BY <1>1, <1>8
    <2>2. priced = Refused("nothing to load")  BY <1>6, <1>8
    <2>3. priced.ok = FALSE
      <3> HIDE DEF mine
      <3>1. Refused("nothing to load").ok = FALSE  BY DEF Refused
      <3> QED  BY <2>2, <3>1
    <2> QED  BY <2>1, <2>3
  <1>9. CASE ~(\A r \in ToSet(requesters) : r.region # RegionsOf[i].id)
    <2>1. priced = Ok(Totalled(flat))  BY <1>6, <1>7, <1>9
    <2>2. priced.ok /\ priced.value = Totalled(flat)  BY <2>1 DEF Ok
    <2> QED  BY <1>1, <2>2
  <1> QED  BY <1>8, <1>9

\* So the row of that region says what the audit charges.
LEMMA WhatIfIsCharged ==
  ASSUME AuditNumbers
  PROVE  WhatIfAgreesWithTotal
  <1> SUFFICES ASSUME stage = "done" PROVE WhatIfAgreesWithTotal
    BY DEF WhatIfAgreesWithTotal
  <1>1. /\ Parsed(project) /\ Profile(project.profile).ok
        /\ read_characterisation(project.characterisation).ok
        /\ Sized(audit.placements) /\ Rated(work.requesters, RegionsOf) /\ Charged
    BY DEF AuditNumbers
  <1>2. Charges(audit.placements, work.requesters, characterisation.coefficients, RegionsOf,
                work.window, audit)
    BY <1>1, RegionsAreGood, CoefficientsAreAList DEF Charges, Charged, RegionsOf
  <1>3. profile.clock_hz # 0
    BY <1>1 DEF profile, Profile, Ok, Refused
  <1>4. ASSUME NEW k \in DOMAIN audit.placements, NEW i \in DOMAIN RegionsOf,
               NEW object, object = PlacedRow(audit.placements[k]),
               Leads(audit.placements, k), Apart(RegionsOf, i),
               object.regions = <<RegionsOf[i].id>>, object.bytes <= RegionsOf[i].bytes,
               NEW row, row = what_if_rows(object)[i]
        PROVE  IF row.priced
                 THEN /\ row.low = Totalled(object.overlaps).low
                      /\ row.high = Totalled(object.overlaps).high
                      /\ row.carried = Cardinality(Priced(Totalled(object.overlaps).terms))
                 ELSE object.overlaps = <<>>
    <2> DEFINE p == audit.placements[k]
               here == [name |-> p.name, addr |-> RegionsOf[i].base, bytes |-> p.bytes]
               own == object.overlaps
               priced == candidate(p.name, p.bytes, RegionsOf[i], profile, characterisation, work)
    <2>1. /\ object.name = p.name /\ object.bytes = p.bytes /\ object.sized
          /\ object.regions = Regions(p, RegionsOf) /\ own = TermsOfObject(p.name)
      BY <1>4 DEF PlacedRow, RegionsOf
    <2>2. SameObject(audit.placements, k, RegionsOf, i, here)
      BY <1>4, <2>1 DEF SameObject
    <2>3. own = OwnTerms(audit.cost.terms, p.name)
      BY <2>1 DEF TermsOfObject, Selected, OwnTerms
    <2>4. /\ priced.ok => priced.value = Totalled(own)
          /\ ~priced.ok => own = <<>>
      <3>1. here.name = p.name /\ here.bytes = p.bytes  OBVIOUS
      <3> HIDE DEF here, p
      <3> QED  BY <1>2, <1>3, <2>2, <2>3, <3>1, CandidateIsCharged
    <2>5. row = candidate_row(object, RegionsOf[i])
      BY <1>4 DEF what_if_rows, RegionsOf
    <2>6. /\ row.priced <=> priced.ok
          /\ priced.ok => /\ row.low = priced.value.low /\ row.high = priced.value.high
                          /\ row.carried = Cardinality(Priced(priced.value.terms))
      <3>1. priced = candidate(object.name, object.bytes, RegionsOf[i], profile, characterisation, work)
        BY <2>1
      <3> HIDE DEF priced
      <3> QED  BY <2>1, <2>5, <3>1 DEF candidate_row
    <2> HIDE DEF priced
    <2> QED  BY <2>4, <2>6
  <1> QED  BY <1>4 DEF WhatIfAgreesWithTotal, Leads, Apart, BytesOf, RegionsOf, PlacedRow
=============================================================================

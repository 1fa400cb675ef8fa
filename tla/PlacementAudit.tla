---------------------------- MODULE PlacementAudit ----------------------------
(***************************************************************************)
(* laxity audit: find a configuration, choose where the objects come from,  *)
(* project the declared workload, place its objects one by one and price    *)
(* the placement.  The object files are read more than once, and a build    *)
(* may replace them between two reads.                                      *)
(***************************************************************************)
EXTENDS ObjectSources, CostModel

CONSTANTS Projects,     \* the projects an audit is pointed at
          Images,       \* what a later build may leave in place of the image
          UNDECLARED_WINDOW,
          MaxRebuilds

\* what the parsers of the files let through: their tables are lists, an object is of one of two
\* kinds, sizes and addresses are unsigned, a name is a string, and a number that is not there is
\* Nothing
Located(list) ==
  /\ Listed(list)
  /\ \A e \in ToSet(list) : e.addr \in Nat /\ e.bytes \in Nat /\ e.name \in ToSet(NameOrder)

Readable(files) ==
  /\ {"elf", "table"} \subseteq DOMAIN files
  /\ files.elf # Nothing => Located(files.elf.symbols)
  /\ files.table # Nothing => Located(files.table.object)

ParsedDocument(document) ==
  /\ document.window_cycles \in Optional(Nat)
  /\ Listed(document.object) /\ Listed(document.requester)
  /\ \A o \in ToSet(document.object) :
       /\ o.symbol_kind \in {"object", "reservation"}
       /\ o.size \in Optional(Nat) /\ o.address \in Optional(Nat) /\ o.name \in ToSet(NameOrder)
  /\ \A r \in ToSet(document.requester) : r.transactions_per_second \in Optional(Int)

Parsed(given) ==
  LET coefficients == given.characterisation.coefficient
      regions == given.profile.memory_regions
  IN  /\ given.document # Nothing => ParsedDocument(given.document)
      /\ Listed(coefficients) /\ Listed(regions) /\ Readable(given.disk)
      /\ \A e \in ToSet(coefficients) : {e.value, e.minimum, e.maximum} \subseteq Optional(Int)
      /\ \A r \in ToSet(regions) :
           /\ r.id \in Optional(Nat) /\ r.base \in Nat /\ r.bytes \in Nat
           /\ r # Nothing /\ r.name # Nothing

ASSUME ProjectsAreParsed == \A given \in Projects : Parsed(given)
ASSUME ImagesAreParsed == \A image \in Images : Located(image.symbols)
ASSUME WindowIsANumber == UNDECLARED_WINDOW \in Nat
ASSUME NothingIsNoPlacement == Nothing \notin [name : ToSet(NameOrder), addr : Nat, bytes : Int]

VARIABLES project, disk, stage, source, work, found, at, audit, rebuilds

auditVars == <<project, disk, stage, source, work, found, at, audit, rebuilds>>

WorkloadName == "inference"

symbol_names(object) ==
  IF object.symbols # <<>> THEN object.symbols
  ELSE LET named == Selected(<<object.symbol, object.map_symbol>>, LAMBDA n : n # Nothing)
       IN  IF Len(named) = 2 /\ named[1] = named[2] THEN <<named[1]>> ELSE named

ObjectSpec(object) ==
  [name |-> object.name, symbols |-> symbol_names(object), symbol_kind |-> object.symbol_kind,
   declared_region |-> object.region, declared_bytes |-> object.size,
   declared_address |-> object.address, declared_candidates |-> object.regions,
   extent_symbol |-> object.extent_symbol, aliases |-> object.symbols = <<>>]

\* a configuration is refused whole when a part of it has no name to be found by
from_toml(document) ==
  /\ document.platform # ""
  /\ \A o \in ToSet(document.object) : o.workload # "" /\ o.name # ""
  /\ \A r \in ToSet(document.requester) : r.name # "" /\ r.endpoint # ""

objects_of(document) ==
  LET mine == Selected(document.object, LAMBDA o : o.workload = WorkloadName)
  IN  [i \in DOMAIN mine |-> ObjectSpec(mine[i])]

object_named(document, qualified) ==
  FirstOf(document.object, LAMBDA o : <<o.workload, o.name>> = qualified)

-----------------------------------------------------------------------------
(* Finding the files. *)

\* the walk up from where the caller stands ends at a repository or a home directory
discover(dirs) ==
  LET Stops(d) == d.config \/ d.git \/ d.home
      i == SelectInSeq(dirs, Stops)
  IN  IF i = 0 \/ ~dirs[i].config THEN 0 ELSE i

\* a file the configuration names, or the conventional one in some directory above it
file_found(named, dirs, from) ==
  IF named # Nothing THEN named = "present"
  ELSE \E i \in from..Len(dirs) : dirs[i].profiles

SourceOf(document) ==
  CASE document.elf /\ disk.elf # Nothing -> "elf"
    [] document.object_table /\ disk.table # Nothing -> "table"
    [] OTHER -> Nothing

profile == Profile(project.profile).value
characterisation == read_characterisation(project.characterisation).value

ReadSource ==
  CASE source = "elf" /\ disk.elf # Nothing -> parse_elf(disk.elf, profile.regions)
    [] source = "table" /\ disk.table # Nothing ->
         parse_table(disk.table, profile.platform, profile.regions)
    [] OTHER -> Refused("no file")

NoAudit == [placements |-> <<>>, unplaced |-> <<>>, runtime_placed |-> <<>>,
            partial_symbols |-> {}, contradictions |-> {}, unattached |-> <<>>,
            kept |-> <<>>, mismatch |-> FALSE, cost |-> Nothing, quiet |-> Nothing]

NoWork == [objects |-> <<>>, requesters |-> <<>>, window |-> UNDECLARED_WINDOW,
           deadline |-> Nothing, unresolved |-> {}, platform_mismatch |-> FALSE]

AuditInit(projects) ==
  /\ project \in projects
  /\ disk = project.disk
  /\ stage = "find" /\ source = Nothing /\ work = NoWork /\ found = <<>> /\ at = 1
  /\ audit = NoAudit /\ rebuilds = 0

Go(next) == stage' = next
Stop == Go("refused") /\ UNCHANGED <<source, work, found, at, audit>>
Given == UNCHANGED <<project, disk, rebuilds>>

\* discovered_audit and the argument form, up to the two files that are read first
Find ==
  /\ stage = "find" /\ Given
  /\ LET from == discover(project.dirs)
         document == project.document
         chosen == IF project.how = "named" THEN "elf" ELSE SourceOf(document)
         resolved == \/ project.how = "named"
                     \/ /\ from # 0 /\ from_toml(document) /\ chosen # Nothing
                        /\ file_found(document.profile, project.dirs, from)
                        /\ file_found(document.characterisation, project.dirs, from)
     IN  IF resolved /\ Profile(project.profile).ok
                     /\ read_characterisation(project.characterisation).ok
           THEN /\ Go("project") /\ source' = chosen /\ UNCHANGED <<work, found, at, audit>>
           ELSE Stop

-----------------------------------------------------------------------------
(* Projecting the declared workload. *)

\* without a configuration there is no object and no requester to price
ProjectObjects ==
  /\ stage = "project" /\ Given
  /\ LET document == project.document IN
     IF document = Nothing
       THEN /\ Go("source") /\ at' = 1 /\ UNCHANGED <<source, found, audit>>
            /\ work' = [NoWork EXCEPT !.unresolved = {"no configuration"}]
     ELSE IF ~from_toml(document) THEN Stop
     ELSE /\ Go("requesters") /\ at' = 1 /\ UNCHANGED <<source, found, audit>>
          /\ work' = [NoWork EXCEPT
                 !.objects = objects_of(document),
                 !.window = IF document.window_cycles = Nothing THEN @
                            ELSE document.window_cycles,
                 !.deadline = document.deadline_cycles,
                 !.platform_mismatch = document.platform # profile.platform]

NamedIn(objects, symbols) == Selected(objects, LAMBDA e : e.name \in ToSet(symbols))

\* the one region the symbols start in, in whatever the object file holds at this read
source_region(symbols) ==
  LET read == ReadSource
      starts == IF ~read.ok THEN {}
                ELSE {label_of(e.start_region, profile.regions) :
                        e \in {m \in ToSet(NamedIn(read.value, symbols)) : m.start_region # Nothing}}
  IN  IF Cardinality(starts) = 1 THEN CHOOSE name \in starts : TRUE ELSE Nothing

\* where a requester's traffic lands: its own region, or the region of the object it is bound to
RegionName(requester) ==
  LET object == object_named(project.document, requester.object)
  IN  CASE requester.region # Nothing -> requester.region
        [] requester.region = Nothing /\ object # Nothing ->
             IF object.region # Nothing THEN object.region ELSE source_region(symbol_names(object))
        [] OTHER -> Nothing

\* one requester block; a region nobody can name leaves the requester out and says so
ProjectRequester ==
  /\ stage = "requesters" /\ at <= Len(project.document.requester) /\ Given
  /\ at' = at + 1 /\ UNCHANGED <<stage, source, found, audit>>
  /\ LET requester == project.document.requester[at]
         region == region_named(profile.regions, RegionName(requester))
     IN  work' = IF region = Nothing
                   THEN [work EXCEPT !.unresolved = @ \cup {<<requester.name, requester.endpoint>>}]
                   ELSE [work EXCEPT !.requesters = Append(@,
                           [name |-> requester.name, endpoint |-> requester.endpoint,
                            region |-> region.id,
                            transactions_per_second |-> requester.transactions_per_second])]

Projected ==
  /\ stage = "requesters" /\ at > Len(project.document.requester) /\ Given
  /\ Go("source") /\ UNCHANGED <<source, work, found, at, audit>>

\* mutant: only a declared size is worth a comparison
NeedsForSize(spec) ==
  IF spec.symbol_kind = "object" THEN spec.declared_bytes # Nothing
  ELSE spec.declared_candidates # {}

needs_the_binary(spec) ==
  IF spec.symbol_kind = "object"
    THEN spec.declared_bytes # Nothing \/ spec.declared_address # Nothing
    ELSE spec.declared_candidates # {}

\* the read the placement is made from
ReadObjects ==
  /\ stage = "source" /\ Given
  /\ LET read == ReadSource IN
     IF ~read.ok THEN Stop
     ELSE /\ Go("place") /\ found' = read.value /\ at' = 1 /\ UNCHANGED <<source, work>>
          /\ audit' = [audit EXCEPT
               !.mismatch = /\ read.value # <<>>
                            /\ \A e \in ToSet(read.value) : e.start_region = Nothing,
               !.contradictions =
                  IF source = "table" /\ \E spec \in ToSet(work.objects) : needs_the_binary(spec)
                    THEN {<<"not compared", Nothing>>} ELSE {}]

-----------------------------------------------------------------------------
(* Placing one object. *)

\* an object of several symbols starts at the lowest and is as large as all of them together
Whole(name, parts) ==
  [name |-> name, addr |-> Min({p.addr : p \in ToSet(parts)}),
   bytes |-> SumFunction([i \in DOMAIN parts |-> parts[i].bytes])]

Missing(spec, parts) == ToSet(spec.symbols) \ {p.name : p \in ToSet(parts)}

\* what an object carved out of something moves within, where the source carries that symbol
Extent(spec, whole) ==
  LET i == SelectInSeq(found, LAMBDA f : f.name = spec.extent_symbol)
  IN  IF spec.extent_symbol = Nothing \/ i = 0 THEN whole
      ELSE [name |-> found[i].name, addr |-> found[i].addr, bytes |-> found[i].bytes]

\* what the declaration and the source disagree about; the size and the place only an image can deny
Disagreements(spec, parts, whole) ==
  LET Lands(name) == region_named(profile.regions, name)
      reach == ToSet(Regions(Extent(spec, whole), profile.regions))
      isObject == spec.symbol_kind = "object"
  IN  {kind \in {"aliases", "extent", "candidate unknown", "candidate unreachable", "size",
                 "address", "spans", "container"} :
        CASE kind = "aliases" ->
               Len(spec.symbols) > 1 /\ Missing(spec, parts) = {} /\ spec.aliases
          [] kind = "extent" ->
               /\ spec.extent_symbol # Nothing
               /\ \A f \in ToSet(found) : f.name # spec.extent_symbol
          [] kind = "candidate unknown" ->
               \E name \in spec.declared_candidates : Lands(name) = Nothing
          [] kind = "candidate unreachable" ->
               /\ source = "elf" /\ ~isObject
               /\ \E name \in spec.declared_candidates :
                    Lands(name) # Nothing /\ Lands(name).id \notin reach
          [] kind = "size" ->
               isObject /\ source = "elf" /\ spec.declared_bytes \notin {Nothing, whole.bytes}
          [] kind = "address" ->
               isObject /\ source = "elf" /\ spec.declared_address \notin {Nothing, whole.addr}
          [] kind = "spans" -> isObject /\ Len(Regions(whole, profile.regions)) > 1
          [] kind = "container" ->
               /\ ~isObject /\ spec.declared_bytes # Nothing
               /\ whole.bytes < spec.declared_bytes}

Placed(placement) == [as |-> "placed", entry |-> placement]
Unplaced(spec) == [as |-> "unplaced", entry |-> spec.name]
AtRunTime(spec, whole) ==
  [as |-> "run time", entry |-> [name |-> spec.name, span |-> whole,
                                 declared_bytes |-> spec.declared_bytes, coefficients |-> <<>>]]

\* where one declared object goes: an object where its symbol is, a reservation where it is declared
Answer(spec, parts, whole) ==
  LET region == region_named(profile.regions, spec.declared_region)
  IN  CASE parts = <<>> -> Unplaced(spec)
        [] parts # <<>> /\ spec.symbol_kind = "object" ->
             IF Regions(whole, profile.regions) = <<>> THEN Unplaced(spec) ELSE Placed(whole)
        [] parts # <<>> /\ spec.symbol_kind = "reservation" ->
             IF spec.declared_bytes = Nothing THEN Unplaced(spec)
             ELSE IF spec.declared_region = Nothing THEN AtRunTime(spec, whole)
             ELSE IF region = Nothing THEN Unplaced(spec)
             ELSE Placed([name |-> spec.name, bytes |-> spec.declared_bytes,
                          addr |-> IF spec.declared_address = Nothing THEN region.base
                                   ELSE spec.declared_address])

\* the placements an audit holds after one more declared object
WithObject(before, spec) ==
  LET parts == NamedIn(found, spec.symbols)
      whole == IF parts = <<>> THEN Nothing ELSE Whole(spec.name, parts)
      answer == Answer(spec, parts, whole)
      notes == IF parts = <<>> THEN {} ELSE Disagreements(spec, parts, whole)
      partial == parts # <<>> /\ Len(spec.symbols) > 1 /\ Missing(spec, parts) # {}
      Added(as, list) == IF answer.as = as THEN Append(list, answer.entry) ELSE list
  IN  [before EXCEPT
         !.placements = Added("placed", @),
         !.unplaced = Added("unplaced", @),
         !.runtime_placed = Added("run time", @),
         !.partial_symbols = IF partial THEN @ \cup {spec.name} ELSE @,
         !.contradictions = @ \cup {<<kind, spec.name>> : kind \in notes}]

PlaceObject ==
  /\ stage = "place" /\ at <= Len(work.objects) /\ Given
  /\ audit' = WithObject(audit, work.objects[at])
  /\ at' = at + 1 /\ UNCHANGED <<stage, source, work, found>>

-----------------------------------------------------------------------------
(* Pricing. *)

\* mutant: what stands beside a run time object is reported as unattached as well
NarrowTwice(before) ==
  LET names == {p.name : p \in ToSet(before.placements)}
      apart == Selected(characterisation.coefficients, LAMBDA c : c.key.object \notin names)
      Mine(name) == Selected(apart, LAMBDA c : c.key.object = name)
  IN  [before EXCEPT
         !.kept = Selected(characterisation.coefficients, LAMBDA c : c.key.object \in names),
         !.unattached = apart,
         !.runtime_placed = [i \in DOMAIN @ |-> 
           [@[i] EXCEPT !.coefficients = Mine(before.runtime_placed[i].name)]]]

\* a coefficient of an object this source does not place is reported and not charged
Narrow(before) ==
  LET names == {p.name : p \in ToSet(before.placements)}
      all == characterisation.coefficients
      RunTime(c) == SelectInSeq(before.runtime_placed, LAMBDA r : r.name = c.key.object)
      Apart(c) == c.key.object \notin names
      Mine(i) == Selected(all, LAMBDA c : Apart(c) /\ RunTime(c) = i)
  IN  [before EXCEPT
         !.kept = Selected(all, LAMBDA c : ~Apart(c)),
         !.unattached = Mine(0),
         !.runtime_placed = [i \in DOMAIN @ |-> [@[i] EXCEPT !.coefficients = Mine(i)]]]

Price ==
  /\ stage = "place" /\ at > Len(work.objects) /\ Given
  /\ LET narrowed == Narrow(audit)
         priced == cost(narrowed.placements, work.requesters, narrowed.kept, profile, work.window)
     IN  IF ~priced.ok THEN Stop
         ELSE /\ Go("done")
              /\ audit' = [narrowed EXCEPT
                   !.cost = priced.value,
                   !.quiet = quiet_cost(narrowed.placements, characterisation, profile,
                                        WorkloadName)]
              /\ UNCHANGED <<source, work, found, at>>

\* a build that ends between two reads of the image; a later one is not seen
Rebuild ==
  /\ stage \in {"project", "requesters", "source"} /\ rebuilds < MaxRebuilds
  /\ disk.elf # Nothing
  /\ \E image \in Images : image # disk.elf /\ disk' = [disk EXCEPT !.elf = image]
  /\ rebuilds' = rebuilds + 1
  /\ UNCHANGED <<project, stage, source, work, found, at, audit>>

AuditStep ==
  \/ Find \/ ProjectObjects \/ ProjectRequester \/ Projected
  \/ ReadObjects \/ PlaceObject \/ Price

AuditNext == AuditStep \/ Rebuild
-----------------------------------------------------------------------------
(* What an audit promises. *)

\* Nothing declared and nothing measured is dropped in silence.  Every object the workload declares
\* is placed, listed as not placed or listed as placed at run time, as often as it is declared; and
\* every coefficient of the characterisation is charged where its object meets its requester, stands
\* beside an object placed at run time, or is reported as one this source has no object for.
NothingIsDropped ==
  LET Names(list) == {list[i].name : i \in DOMAIN list}
      a == audit
      Beside(c) == \E r \in ToSet(a.runtime_placed) :
                     r.name = c.key.object /\ c \in ToSet(r.coefficients)
  IN  stage = "done" =>
        /\ Len(a.placements) + Len(a.unplaced) + Len(a.runtime_placed) = Len(work.objects)
        /\ Names(work.objects) = Names(a.placements) \cup ToSet(a.unplaced)
                                   \cup Names(a.runtime_placed)
        /\ \A c \in ToSet(characterisation.coefficients) :
             Cardinality({way \in {"kept", "run time", "unattached"} :
               CASE way = "kept" -> c \in ToSet(a.kept)
                 [] way = "run time" -> Beside(c)
                 [] way = "unattached" -> c \in ToSet(a.unattached)}) = 1

\* The total is what the bytes say: one charge for each coefficient that has a byte of its
\* object inside the region its requester touches, however many bytes and however many regions.
TotalIsThePlacement ==
  stage = "done" =>
    LET Meets(c) ==
          LET p == Attached(audit.placements, c)
              r == Endpoint(work.requesters, c)
              region == FirstOf(profile.regions, LAMBDA q : q.id = r.region)
          IN  \E byte \in p.addr..(p.addr + Larger(p.bytes, 1) - 1) :
                byte \in region.base..(region.base + region.bytes - 1)
        charged == {i \in DOMAIN audit.kept : Meets(audit.kept[i])}
        Known(i) == /\ audit.kept[i].basis.high # Nothing
                    /\ Endpoint(work.requesters, audit.kept[i]).transactions_per_second # Nothing
        Charge(i, end) == end * work.window
                            * Endpoint(work.requesters, audit.kept[i]).transactions_per_second
        known == {i \in charged : Known(i)}
    IN  /\ audit.cost.low = SumFunction([i \in known |-> Charge(i, audit.kept[i].basis.low)])
        /\ audit.cost.high = SumFunction([i \in known |-> Charge(i, audit.kept[i].basis.high)])
        /\ Verdict(audit.cost) = "at least" <=> charged # known

\* A report with no disagreement in it has compared everything an image can deny.  A placement has
\* the size and the address that some declaration of its name gives.  A candidate of a reservation
\* is a region with a byte of what the reservation moves within: the symbol it is carved out of,
\* which then is there, or as many bytes as its symbols have, from the lowest of them on.  And a
\* table stood in for the image only where no declaration says anything to compare.
CleanMeansChecked ==
  stage = "done" /\ audit.contradictions = {} =>
    /\ \A p \in ToSet(audit.placements) : \E spec \in ToSet(work.objects) :
         /\ p.name = spec.name
         /\ spec.declared_bytes \in {Nothing, p.bytes}
         /\ spec.declared_address \in {Nothing, p.addr}
    /\ \A spec \in ToSet(work.objects) :
         LET parts == NamedIn(found, spec.symbols)
             Room == IF spec.extent_symbol = Nothing THEN {Whole(spec.name, parts)}
                     ELSE {e \in ToSet(found) : e.name = spec.extent_symbol}
         IN  /\ source = "table" =>
                  IF spec.symbol_kind = "object"
                    THEN spec.declared_bytes = Nothing /\ spec.declared_address = Nothing
                    ELSE spec.declared_candidates = {}
             /\ spec.symbol_kind = "reservation" /\ parts # <<>> =>
                  \A name \in spec.declared_candidates :
                    \E r \in ToSet(profile.regions), room \in Room :
                      /\ r.name = name
                      /\ \E byte \in room.addr..(room.addr + Larger(room.bytes, 1) - 1) :
                           byte \in r.base..(r.base + r.bytes - 1)

\* A table written from an image and read back against the same profile is the image: the same
\* objects at the same addresses in the same regions, so an audit of either prices the same.  It is
\* read back unless two regions go by one name, of which the table would keep the first.
TableAgreesWithElf ==
  stage = "place" /\ source = "elf" =>
    LET regions == profile.regions
        table == write_table(found, profile.platform, Nothing, regions)
        back == parse_table(table, profile.platform, regions)
    IN  /\ back.ok => ToSet(back.value) = ToSet(found) /\ Len(back.value) = Len(found)
        /\ (\A i, j \in DOMAIN regions : regions[i].name = regions[j].name => i = j) => back.ok
=============================================================================

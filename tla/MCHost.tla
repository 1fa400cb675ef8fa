---- MODULE MCHost ----
EXTENDS HostCommands

Region(id, name, base, bytes) == [id |-> id, name |-> name, base |-> base, bytes |-> bytes]
MCRegions == <<Region(2, "sram2", 16, 8), Region(1, "sram1", 8, 8), Region(4, "sram4", 40, 4)>>
MCTwins == [i \in DOMAIN MCRegions |-> [MCRegions[i] EXCEPT !.name = "sram"]]
MCProfileFile(regions, clock) == [platform |-> "u5", clock_hz |-> clock, memory_regions |-> regions]

Symbol(name, addr, bytes, kind, alloc, section) ==
  [name |-> name, addr |-> addr, bytes |-> bytes, kind |-> kind, alloc |-> alloc,
   section |-> section]
MCImage(weights) ==
  [linked |-> TRUE, symtab |-> TRUE,
   symbols |-> <<Symbol("weights", weights, 4, "object", TRUE, ".bss"),
                 Symbol("span", 8, 16, "object", TRUE, ".bss"),
                 Symbol("net", 18, 2, "object", TRUE, ".data"),
                 Symbol("ctx", 16, 1, "object", TRUE, ".data"),
                 Symbol("main", 7, 3, "text", TRUE, ".text"),
                 Symbol("ctx", 41, 4, "object", TRUE, ".debug_info"),
                 Symbol("table", 20, 0, "object", TRUE, ".data"),
                 Symbol("absolute", 3, 1, "file", FALSE, "")>>]
MCBroken == [linked |-> FALSE, symtab |-> TRUE, symbols |-> <<>>]
MCImages == {MCImage(8), MCImage(14), MCImage(30), MCBroken}

MCTable(platform) ==
  write_table(parse_elf(MCImage(14), MCRegions).value, platform, Nothing, MCRegions)
MCMoved == [MCTable("u5") EXCEPT !.object[1].start_region = "sram4"]

Declared(name, kind, symbol, symbols, size, address, region, regions, extent) ==
  [workload |-> WorkloadName, name |-> name, symbol_kind |-> kind, symbol |-> symbol,
   map_symbol |-> symbol, symbols |-> symbols, size |-> size, address |-> address,
   region |-> region, regions |-> regions, extent_symbol |-> extent]

Weights(size, address) ==
  Declared("weights", "object", "weights", <<>>, size, address, Nothing, {}, Nothing)
Alias == [Weights(Nothing, Nothing) EXCEPT !.map_symbol = "ctx"]
State == Declared("state", "object", Nothing, <<"ctx", "net">>, Nothing, Nothing, "sram2", {}, Nothing)
Arena(size, region, address, regions) ==
  Declared("arena", "reservation", "span", <<>>, size, address, region, regions, Nothing)
Stack == Declared("stack", "reservation", "net", <<>>, 2, Nothing, "sram1", {"sram1"}, "span")
Lost == Declared("lost", "object", "gone", <<>>, Nothing, Nothing, Nothing, {}, Nothing)
Other == [Lost EXCEPT !.workload = "idle"]

MCObjects ==
  {<<Weights(4, a), Arena(4, "sram2", Nothing, {"sram1"}), Other>> : a \in {Nothing, 8, 14}}
  \cup {<<Arena(n, r, Nothing, c), State>> :
          n \in {Nothing, 4}, r \in {Nothing, "sram1", "sram9"}, c \in {{}, {"sram1", "sram4"}}}
  \cup {<<Weights(5, Nothing), Stack>>, <<[State EXCEPT !.address = 16]>>, <<Arena(30, "sram1", 20, {}), Lost>>, <<Alias, Stack>>}

Bound(name, endpoint, region, object, rate) ==
  [name |-> name, endpoint |-> endpoint, region |-> region, object |-> object,
   transactions_per_second |-> rate]
MCRequesters ==
  {<<Bound("gpdma1", "data", "sram1", Nothing, 3), Bound("spi", "dma", Nothing, o, r)>> :
     o \in {Nothing, <<WorkloadName, "weights">>, <<WorkloadName, "arena">>}, r \in {Nothing, 1}}

Written(object, requester, endpoint, basis, v, lo, hi) ==
  [key |-> [object |-> object, requester |-> requester, endpoint |-> endpoint],
   basis |-> basis, value |-> v, minimum |-> lo, maximum |-> hi, cells |-> 2,
   borrowed_from |-> IF basis = "borrowed" THEN "h7" ELSE Nothing, campaign |-> "closing"]
QuietOf(region, v) ==
  [key |-> [region |-> region, victim |-> WorkloadName], basis |-> "measured", value |-> v,
   minimum |-> Nothing, maximum |-> Nothing, cells |-> Nothing, borrowed_from |-> Nothing,
   campaign |-> "closing"]
MCCharacterisation(coefficients) ==
  [platform |-> "u5", campaign |-> <<[name |-> "closing", complete |-> TRUE]>>,
   coefficient |-> coefficients, quiet |-> <<QuietOf("sram1", 5), QuietOf("sram2", 0)>>]

One(object, basis) ==
  CASE basis = "measured" -> Written(object, "gpdma1", "data", basis, 2, Nothing, Nothing)
    [] basis = "unmeasured" -> Written(object, "gpdma1", "data", basis, Nothing, Nothing, Nothing)
    [] OTHER -> Written(object, "gpdma1", "data", basis, Nothing, 1, 4)

MCCoefficients ==
  {<<One("weights", b), One("arena", "measured"), One("stack", "measured")>> :
     b \in {"measured", "borrowed", "unmeasured"}}
  \cup {<<One("weights", "bounded"), Written("arena", "spi", "dma", "mean", Nothing, 1, 2)>>,
        <<One("weights", "measured"),
          Written("weights", "spi", "dma", "measured", 3, Nothing, Nothing)>>,
        <<[One("weights", "borrowed") EXCEPT !.borrowed_from = "u5"]>>}

Directory(config, git) == [config |-> config, git |-> git, home |-> FALSE, profiles |-> git]
MCDirs == {<<Directory(FALSE, FALSE), Directory(TRUE, TRUE)>>}
MCStray == <<Directory(FALSE, TRUE), Directory(TRUE, FALSE)>>

MCDocument(objects, requesters) ==
  [platform |-> "u5", window_cycles |-> 2, deadline_cycles |-> 8, elf |-> TRUE,
   object_table |-> TRUE, profile |-> Nothing, characterisation |-> Nothing,
   object |-> objects, requester |-> requesters]

MCProject(dirs, how, document, elf, table, coefficients) ==
  [how |-> how, dirs |-> dirs, document |-> document,
   profile |-> MCProfileFile(MCRegions, 1),
   characterisation |-> MCCharacterisation(coefficients),
   disk |-> [elf |-> elf, table |-> table]]

MCProjects ==
  {MCProject(d, "discovered", MCDocument(o, r), s[1], s[2], c) :
     d \in MCDirs, o \in MCObjects, r \in MCRequesters, c \in MCCoefficients,
     s \in {<<MCImage(8), MCTable("u5")>>, <<MCImage(14), Nothing>>, <<Nothing, MCTable("u5")>>}}
  \cup {MCProject(MCStray, "discovered", MCDocument(<<Lost>>, <<>>), MCImage(8), Nothing, <<>>),
        MCProject(MCStray, "named", Nothing, MCImage(8), Nothing, <<>>)}
  \cup {MCProject(d, "discovered", MCDocument(<<Lost>>, <<>>), Nothing, t, <<>>) :
          d \in MCDirs, t \in {Nothing, MCTable("h7"), MCMoved}}
  \cup {MCProject(d, how, MCDocument(<<Lost>>, <<Bound("", "data", "sram1", Nothing, 3)>>),
                  MCImage(8), Nothing, <<>>) :
          d \in MCDirs, how \in {"discovered", "named"}}
  \cup {[MCProject(d, "named", Nothing, MCImage(8), Nothing, <<>>) EXCEPT
           !.profile.memory_regions = MCTwins] : d \in MCDirs}

MCNames == <<"absolute", "arena", "ctx", "lost", "main", "net", "span", "stack", "state", "table", "weights">>

MCScreenProjects ==
  {MCProject(d, "named", MCDocument(o, r), MCImage(8), Nothing, c) :
     d \in MCDirs, r \in {CHOOSE q \in MCRequesters : TRUE},
     o \in {<<Weights(4, Nothing), Arena(2, Nothing, Nothing, {"sram1"}), State>>},
     c \in {<<One("weights", "measured"), One("arena", "bounded")>>}}
  \cup {MCProject(d, "named", Nothing, MCBroken, Nothing, <<>>) : d \in MCDirs}

Arenas(a, b) ==
  (1 :> [addr |-> a, bytes |-> 2, control |-> FALSE, alternative |-> FALSE]) @@
  (2 :> [addr |-> b, bytes |-> 2, control |-> b = 40, alternative |-> FALSE])
Header(a, b, models, stall) ==
  [kind |-> "header", header |-> [arenas |-> Arenas(a, b), models |-> models, stall |-> stall]]
Record1(seq, placement, target, exec) ==
  [kind |-> "record",
   record |-> [seq |-> seq, model |-> 0, placement |-> placement, target |-> target,
               footprint |-> 4, exec |-> exec, stall |-> 1, progress |-> seq]]
Chunk(rejected, events) == [frames |-> Len(events), rejected |-> rejected, events |-> events]
Stream(chunks, final) == [chunks |-> chunks, final |-> Chunk(0, final)]

H1 == Header(8, 16, 1, FALSE)
H2 == Header(16, 8, 1, TRUE)

MCStreams ==
  [silent |-> Stream(<<Chunk(1, <<>>)>>, <<>>),
   cells |-> Stream(<<Chunk(0, <<H1, Record1(1, 1, 0, 5)>>),
                      Chunk(0, <<Record1(2, 1, 2, 9), H1, Record1(3, 2, 0, 6)>>),
                      Chunk(1, <<Record1(4, 1, 0, 7), Record1(5, 1, 0, 8), Record1(6, 2, 1, 4)>>)>>,
                    <<Record1(7, 1, 2, 3)>>),
   moved |-> Stream(<<Chunk(0, <<H1, Record1(1, 1, 2, 5)>>),
                      Chunk(0, <<H2, Record1(1, 1, 2, 6)>>),
                      Chunk(0, <<Header(16, 8, 1, FALSE), Record1(2, 2, 0, 6), Record1(2, 2, 0, 7)>>)>>,
                    <<Header(16, 40, 2, FALSE)>>),
   late |-> Stream(<<Chunk(1, <<>>), Chunk(0, <<>>)>>, <<H1, Record1(1, 1, 0, 2)>>)]

Line(from, record, stream, headless, duration) ==
  [sources |-> 1, source |-> from, opens |-> TRUE, stream |-> stream, record |-> record,
   headless |-> headless, duration |-> duration, profile_loads |-> TRUE, audit |-> FALSE,
   rival |-> record # "none", faults |-> 1, keys |-> 0]

MCCommandLines ==
  {Line(s, r, MCStreams[n], h, d) :
     s \in {"file", "live"}, r \in {"none", "fresh", "taken"}, n \in DOMAIN MCStreams,
     h \in BOOLEAN, d \in BOOLEAN}
  \cup {[Line("file", "input", MCStreams.cells, TRUE, FALSE) EXCEPT !.opens = FALSE],
        [Line("file", "none", MCStreams.cells, TRUE, FALSE) EXCEPT !.opens = FALSE],
        [Line("live", "none", MCStreams.cells, FALSE, FALSE) EXCEPT !.opens = FALSE],
        [Line("live", "none", MCStreams.cells, FALSE, FALSE) EXCEPT !.sources = 2],
        [Line("live", "none", MCStreams.cells, FALSE, FALSE) EXCEPT !.profile_loads = FALSE]}
  \cup {[Line("file", "none", MCStreams.moved, FALSE, FALSE) EXCEPT !.keys = 3, !.faults = 0],
        [Line("file", "none", MCStreams.silent, FALSE, FALSE) EXCEPT
           !.keys = 5, !.faults = 0, !.audit = TRUE]}
====

---------------------------- MODULE ObjectSources ----------------------------
(***************************************************************************)
(* The two spellings of where a firmware's objects are (laxity-elf): a      *)
(* linked image, read symbol by symbol, and a committed table of the same   *)
(* objects, which spells a region by its name and is checked against the    *)
(* profile it is read with.                                                 *)
(***************************************************************************)
EXTENDS PlacementGeometry

CONSTANT NameOrder   \* the names of symbols and objects, in the order of their spelling

ASSUME NamesAreListed == Listed(NameOrder)

DebugSections == {".debug_info", ".zdebug_info", ".stab"}

AllocatedObject(name, addr, bytes, section, regions) ==
  [name |-> name, addr |-> addr, bytes |-> bytes, section |-> section,
   region_ids |-> regions_spanned(addr, bytes, regions),
   start_region |-> region_of(addr, regions)]

\* bit zero of a function's address marks Thumb code and is not part of the address
ByteAddress(symbol) ==
  IF symbol.kind = "text" THEN symbol.addr - (symbol.addr % 2) ELSE symbol.addr

parse_elf(image, regions) ==
  LET Counted(symbol) == /\ symbol.bytes # 0
                         /\ symbol.kind \notin {"file", "section"}
                         /\ symbol.alloc
                         /\ symbol.section \notin DebugSections
      kept == Selected(image.symbols, Counted)
  IN  IF ~(image.linked /\ image.symtab) THEN Refused("elf")
      ELSE Ok([i \in DOMAIN kept |->
                 AllocatedObject(kept[i].name, ByteAddress(kept[i]), kept[i].bytes,
                                 kept[i].section, regions)])

\* mutant: a region's number is its place in the profile
LabelByPlace(id, regions) == IF id \in DOMAIN regions THEN regions[id].name ELSE Nothing

label_of(id, regions) ==
  LET found == FirstOf(regions, LAMBDA r : r.id = id)
  IN  IF found = Nothing THEN Nothing ELSE found.name

\* Nothing stands for a name the profile does not declare, which a table is refused for
id_of(label, regions) ==
  LET found == region_named(regions, label)
  IN  IF found = Nothing THEN Nothing ELSE found.id

Spelling(name) == CHOOSE i \in DOMAIN NameOrder : NameOrder[i] = name

WrittenBefore(a, b) ==
  \/ a.addr < b.addr
  \/ a.addr = b.addr /\ Spelling(a.name) < Spelling(b.name)

InTableOrder(objects) == SortedBy(objects, WrittenBefore)

write_table(objects, platform, image, regions) ==
  LET sorted == InTableOrder(objects)
      Labels(ids) == [i \in DOMAIN ids |-> label_of(ids[i], regions)]
  IN  [platform |-> platform, image |-> image,
       object |-> [i \in DOMAIN sorted |->
                     [sorted[i] EXCEPT
                        !.region_ids = Labels(@),
                        !.start_region = IF @ = Nothing THEN Nothing ELSE label_of(@, regions)]]]

parse_table(table, platform, regions) ==
  LET Recomputed(e) == AllocatedObject(e.name, e.addr, e.bytes, e.section, regions)
      Agrees(e) == LET r == Recomputed(e) IN
        /\ [i \in DOMAIN e.region_ids |-> id_of(e.region_ids[i], regions)] = r.region_ids
        /\ IF e.start_region = Nothing THEN r.start_region = Nothing
           ELSE id_of(e.start_region, regions) = r.start_region /\ r.start_region # Nothing
  IN  IF table.platform # platform \/ \E e \in ToSet(table.object) : ~Agrees(e)
        THEN Refused("table")
        ELSE Ok([i \in DOMAIN table.object |-> Recomputed(table.object[i])])
=============================================================================

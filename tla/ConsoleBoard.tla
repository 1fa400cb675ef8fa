------------------------------ MODULE ConsoleBoard ------------------------------
(***************************************************************************)
(* The board as its console sees it: the choices a key stores, the two     *)
(* that ask for a reset because only a boot can act on them, the pass that *)
(* takes some of the choices up later, and the lines the exporter thread   *)
(* prints once a second from what all of them are at that moment.          *)
(*                                                                         *)
(* The exporter handles at most one key per round and prints its lines     *)
(* between two rounds.  The measurement thread runs above it and may begin *)
(* a pass between any two of them.                                         *)
(***************************************************************************)
EXTENDS BootGate, Sequences, Integers, TLC, Functions

CONSTANTS
  Alphabet,      \* key -> [line, field, value], what each console key selects
  Kept,          \* the fields the boot selection in SRAM4 keeps
  PowerOn,       \* field -> value at power on, kept fields included
  Earlier,       \* boards as earlier commands may have left them: kept, choice, pass, applied
  StaticPage,    \* the region of the page the driver's nodes are in at boot
  Window,        \* region -> words the read loop has in it
  Nothing,       \* no key in the receive register, no line seen
  MaxWire,       \* bound of the model on the lines in flight
  MaxFaults      \* bound of the model on what goes wrong by itself

Volatile == DOMAIN PowerOn \ Kept
NetFields == {"started", "export"}

\* f has the fields S and no other
HasFields(f, S) == f = [x \in S |-> f[x]]

\* the line that answers for a key prints the field the key selects, and one line does
ASSUME AlphabetAssumption ==
  /\ Kept \subseteq DOMAIN PowerOn /\ NetFields \subseteq Volatile
  /\ {"words", "passes"} \cap DOMAIN PowerOn = {}
  /\ \A k \in DOMAIN Alphabet :
       /\ Alphabet[k].line \in {"placement", "stress", "net", "none"}
       /\ Alphabet[k].field \in DOMAIN PowerOn
       /\ Alphabet[k].line = "placement" <=> Alphabet[k].field \in Kept
       /\ Alphabet[k].line = "net" => Alphabet[k].field \in NetFields
       /\ \A l \in DOMAIN Alphabet :
            Alphabet[l].field = Alphabet[k].field => Alphabet[l].line = Alphabet[k].line
ASSUME EarlierAssumption ==
  \A b \in Earlier : HasFields(b.kept, Kept) /\ HasFields(b.choice, Volatile)
                       /\ HasFields(b.applied, {"desc", "words", "passes"})
ASSUME BoundsAssumption == MaxWire \in Nat \ {0} /\ MaxFaults \in Nat
ASSUME NothingAssumption == Nothing \notin DOMAIN Alphabet

VARIABLES
  kept,     \* the word of SRAM4, and what this boot made of it
  choice,   \* what the keys have stored: laxity_victim and its neighbours
  pass,     \* the victim the pass under way was begun for
  applied,  \* what the last pass took up: the descriptor page and the victim's geometry
  fresh,    \* no key has been handled since the pass under way began
  live,     \* laxity_live: rc, the class, the mismatches counted
  rx,       \* the UART's receive register
  wire,     \* the lines on their way to the host
  open,     \* the host has the port open
  faults    \* what may still go wrong by itself

board == <<kept, choice, pass, applied, fresh, live, gate>>
boardVars == <<board, rx, wire, faults>>

Up == Running("export")

-----------------------------------------------------------------------------
(* Boot.  Everything but the boot selection comes back as it is linked.     *)

StressVictim(victim) == victim # "infer"
PowerOnApplied == [desc |-> StaticPage, words |-> 0, passes |-> 0]
PowerOnLive == [rc |-> 0, right |-> FALSE, mismatches |-> 0]

BoardInit ==
  /\ \/ /\ AtReset
        /\ kept = Restrict(PowerOn, Kept)
        /\ choice = Restrict(PowerOn, Volatile)
        /\ pass = "infer" /\ applied = PowerOnApplied /\ fresh = TRUE
        /\ live = PowerOnLive
     \/ \E b \in Earlier :
          /\ AllRunning
          /\ kept = b.kept /\ choice = b.choice /\ pass = b.pass /\ applied = b.applied
          /\ fresh = FALSE
          /\ live = [PowerOnLive EXCEPT !.right = TRUE]
  /\ rx = Nothing /\ wire = <<>>

\* NVIC_SystemReset, with the boot selection the next boot will read
Reset(selection) ==
  /\ GateReset
  /\ kept' = selection
  /\ choice' = Restrict(PowerOn, Volatile)
  /\ pass' = "infer" /\ applied' = PowerOnApplied /\ fresh' = TRUE
  /\ live' = PowerOnLive
  /\ rx' = Nothing

-----------------------------------------------------------------------------
(* The exporter thread.                                                     *)

\* laxity_set_stack_src and laxity_set_ballast compare with what this boot ran with
AsksReset(entry) == entry.field \in Kept /\ entry.value # kept[entry.field]

\* laxity_poll_console
HandleKey ==
  /\ Up /\ rx # Nothing
  /\ LET entry == Alphabet[rx] IN
     IF AsksReset(entry)
     THEN Reset([kept EXCEPT ![entry.field] = entry.value])
     ELSE /\ rx' = Nothing
          /\ IF entry.field \in Kept THEN UNCHANGED <<choice, fresh>>
             ELSE choice' = [choice EXCEPT ![entry.field] = entry.value] /\ fresh' = FALSE
          /\ UNCHANGED <<kept, pass, applied, live, gate>>
  /\ UNCHANGED <<wire, open, faults>>

-----------------------------------------------------------------------------
(* The measurement thread.                                                  *)

MinOf(a, b) == IF a < b THEN a ELSE b
MaxOf(a, b) == IF a > b THEN a ELSE b

\* the victim's words, clamped to the window its region has, and how often they are
\* read for the loads that were asked for
Words == MinOf(choice["foot"], Window[choice["vregion"]])
Passes == MaxOf(choice["loads"] \div Words, 1)

PassBegins ==
  /\ ready
  /\ pass' = choice["victim"]
  /\ applied' = [desc |-> IF StressVictim(choice["victim"]) THEN choice["desc"] ELSE applied.desc,
                 words |-> Words, passes |-> Passes]
  /\ fresh' = TRUE
  /\ UNCHANGED <<kept, choice, live, gate, faults>>

Infers == pass \in {"infer", "infer-stress"}

\* one measured window.  The inference may fail, which leaves the class as it was,
\* and a class that is not the golden one is counted.
Measured(rc, right) ==
  /\ ready
  /\ live' = IF rc = 0 /\ Infers
             THEN [rc |-> rc, right |-> right, mismatches |-> IF right THEN live.mismatches ELSE 1]
             ELSE [live EXCEPT !.rc = rc]
  /\ UNCHANGED <<kept, choice, pass, applied, fresh, gate>>

Measures == Measured(0, TRUE) /\ UNCHANGED faults
GoesWrong == /\ faults > 0 /\ faults' = faults - 1
             /\ \E rc \in {0, -1} : Measured(rc, FALSE)

BeginPass == PassBegins /\ UNCHANGED <<rx, wire, open>>
Iterate == Measures /\ UNCHANGED <<rx, wire, open>>
MeasureGoesWrong == GoesWrong /\ UNCHANGED <<rx, wire, open>>

-----------------------------------------------------------------------------
(* The status lines.                                                        *)

VerdictOf(rc) == IF rc = 0 /\ live.right THEN "MATCH" ELSE "MISMATCH"

Lines == {"infer", "placement", "stress", "net"}

\* What a status line may say of a board that goes from one state to the next while
\* its fields are read one by one: each field that only the measurement thread moves
\* as it was or as it is.  The class alone is read ahead of the rest of its line.
Reads(line) ==
  CASE line = "infer"     -> {[verdict |-> VerdictOf(rc), mismatch |-> mismatches] :
                                rc \in {live.rc, live'.rc},
                                mismatches \in {live.mismatches, live'.mismatches}}
    [] line = "placement" -> {kept}
    [] line = "stress"    -> {[f \in DOMAIN applied \cup DOMAIN choice |->
                                IF f \in late THEN applied'[f]
                                ELSE IF f \in DOMAIN applied THEN applied[f] ELSE choice[f]] :
                                late \in SUBSET {g \in DOMAIN applied : applied'[g] # applied[g]}}
    [] line = "net"       -> {Restrict(choice, NetFields)}

\* laxity_say.  The four lines come round once a second in their order, but any of
\* them may go missing: the text shares the UART with binary frames, and a line the
\* host cannot tell from them is drained unread.  Of them only those are followed
\* that the reader does not pass over.  The measurement thread runs above the
\* exporter, and may begin a pass or end a window in the middle of a line.
Say(lines) ==
  /\ Up /\ open /\ Len(wire) < MaxWire
  /\ PassBegins \/ Measures \/ GoesWrong \/ UNCHANGED <<board, faults>>
  /\ \E line \in lines : \E says \in Reads(line) :
       wire' = Append(wire, [line |-> line, says |-> says])
  /\ UNCHANGED <<rx, open>>

-----------------------------------------------------------------------------
BootStep == GateStep /\ UNCHANGED <<kept, choice, pass, applied, fresh, live, rx, wire, open, faults>>

\* A reset nobody asked for: the button keeps the word of SRAM4, a lost supply does
\* not.  The supply comes over the cable of the port, so losing it under an open port
\* is a failure of the port.
Restart ==
  /\ faults > 0 /\ faults' = faults - 1
  /\ \E selection \in {kept} \cup (IF open THEN {} ELSE {Restrict(PowerOn, Kept)}) : Reset(selection)
  /\ UNCHANGED <<wire, open>>

BoardType ==
  /\ GateType
  /\ DOMAIN kept = Kept /\ DOMAIN choice = Volatile
  /\ applied.words \in Nat /\ applied.passes \in Nat
  /\ fresh \in BOOLEAN /\ open \in BOOLEAN
  /\ rx \in {Nothing} \cup DOMAIN Alphabet
  /\ Len(wire) <= MaxWire
  /\ \A i \in DOMAIN wire : wire[i].line \in Lines
  /\ faults \in 0 .. MaxFaults
=============================================================================

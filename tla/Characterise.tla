------------------------------ MODULE Characterise ------------------------------
(***************************************************************************)
(* laxity characterise: arm one cell through the console writer, check the *)
(* victim's geometry, let the pass under way end, wait for the golden      *)
(* verdict, capture, wait for the verdict again, and fit a coefficient     *)
(* under the basis the capture supports.  The board may restart, an        *)
(* inference may fail and the build tree may change at any moment of it.   *)
(***************************************************************************)
EXTENDS ConsoleWriter

CONSTANTS
  Cells,      \* the cells there are: name, target, keys, aggressor region, victim geometry
  Requests,   \* what the command may be run with: a target and a cell's name or NoName
  NoName,
  Rates,      \* point -> transactions per second asked for, 0 the aggressor off
  FitMax      \* the rate the fit stops at

\* what a capture is taken and filed under: all of it chosen by keys and forgotten by a
\* reset, except for the region of the stacks, which a reset keeps
Chosen == {"victim", "sweep", "region", "desc", "arena", "m2m"}
SetupFields == Chosen \cup {"stack_src"}

\* the board comes up in the arena cross
ASSUME BoardAssumption ==
  /\ Chosen \subseteq Volatile /\ "stack_src" \in Kept
  /\ PowerOn["victim"] = "infer"

\* A row of the table has a key the board answers for in each of these fields, no key of
\* it selects anything but what the row is filed under, and the victim's is the only one
\* of the victim and the first of those that ask for no reset.
ASSUME CellsAssumption ==
  \A c \in Cells :
    /\ c.keys \in Seq(DOMAIN Alphabet)
    /\ \A i \in DOMAIN c.keys : LET entry == Alphabet[c.keys[i]] IN
         entry.line # "none" => entry.value = c.filing[entry.field]
    /\ \A field \in SetupFields : \E i \in DOMAIN c.keys :
         Alphabet[c.keys[i]].field = field /\ Alphabet[c.keys[i]].line # "none"
    /\ \E i \in DOMAIN c.keys : \A j \in DOMAIN c.keys \ {i} :
         /\ Alphabet[c.keys[j]].field # "victim"
         /\ j < i => Alphabet[c.keys[j]].field \in Kept
ASSUME RatesAssumption == DOMAIN Rates \subseteq Nat /\ FitMax \in Nat

VARIABLES
  cell,      \* the one cell the request names, or Nothing
  image,     \* the image in the build tree
  before,    \* the image when the command began
  accepted,  \* the last inference line the golden check took
  segments,  \* what the board was set up as during the capture, in order
  capture,   \* what the capture holds of each of them
  basis      \* what the number is worth

procedure == <<cell, image, before, accepted, segments, capture, basis>>
allVars == <<vars, procedure>>

-----------------------------------------------------------------------------
(* What a capture is made of.                                               *)

Setup == [victim |-> pass, sweep |-> choice["sweep"], region |-> choice["region"],
          desc |-> applied.desc, arena |-> choice["arena"], m2m |-> choice["m2m"],
          stack_src |-> kept["stack_src"]]

Points == DOMAIN Rates

\* The points and region bytes of the records of a whole pass.  A stress pass has
\* the aggressor off cell and every point; the arena cross writes the footprint
\* index where the point goes and crosses it with three regions.
RecordsOf(setup) ==
  IF setup.victim = "infer"
  THEN {[point |-> 0, region |-> 0]} \cup [point : 0 .. 3, region : 1 .. 3]
  ELSE {[point |-> p, region |-> setup.region] : p \in Points \ {0}} \cup
       (IF setup.victim = "dma" THEN {} ELSE {[point |-> 0, region |-> 0]})

\* A capture runs for many passes: of one setup it holds everything, of several
\* everything or as little as one kind of record.
Holds(setup, alone) ==
  {RecordsOf(setup)} \cup (IF alone THEN {} ELSE {{r} : r \in RecordsOf(setup)})

-----------------------------------------------------------------------------
(* fit and basis_of.                                                        *)

\* the records of a capture, whichever setup they are from
AllRecords == UNION {capture[i].records : i \in DOMAIN capture}

\* where the sequence number goes back, once for every restart inside the capture
Restarts == {i \in DOMAIN capture : i > 1 /\ capture[i].restarted}

WrongRegion == {r \in AllRecords : r.point > 0 /\ r.region # cell.region}

HasQuiet == \E r \in AllRecords : r.point = 0

Fitted == {p \in Points : p > 0 /\ Rates[p] > 0 /\ Rates[p] <= FitMax
                          /\ \E r \in AllRecords : r.point = p}

\* mutant: the region the records name is not looked at
BasisByRestarts(rough) ==
  IF Restarts # {} THEN "unmeasured"
  ELSE IF Cardinality(Fitted) < 2 \/ rough THEN "bounded" ELSE "measured"

\* rough: the worst residual of the fit is past the gate
BasisOf(rough) ==
  IF Restarts # {} \/ WrongRegion # {} THEN "unmeasured"
  ELSE IF Cardinality(Fitted) < 2 \/ rough THEN "bounded" ELSE "measured"

-----------------------------------------------------------------------------
(* The procedure.                                                           *)

Matching(request) ==
  {c \in Cells : c.target = request.target /\ request.name \in {NoName, c.name}}

\* the hash of the image the build tree holds at this moment
image_hash == image

\* a request that names no cell, or several, is refused before the board is touched
BeginCell ==
  \E request \in Requests :
    LET found == Matching(request) IN
    IF Cardinality(found) # 1
    THEN /\ stage = "idle" /\ stage' = "refused"
         /\ UNCHANGED <<boardVars, open, args, todo, latest, intact, lost, clean, procedure>>
    ELSE LET c == CHOOSE c \in found : TRUE IN
         /\ Begin(<<[kind |-> "text", keys |-> c.keys], [kind |-> "allow"]>>)
         /\ cell' = c
         /\ before' = image_hash
         /\ UNCHANGED <<image, accepted, segments, capture, basis>>


\* check_victim, against the stress line the arming ended with
VictimAgrees ==
  LET line == latest["stress"]
  IN  /\ line # Nothing
      /\ line["words"] = cell.words
      /\ line["passes"] = cell.passes
      /\ line["words"] * line["passes"] = cell.loads

CheckVictim ==
  /\ stage = "armed" /\ cell # Nothing
  /\ stage' = IF VictimAgrees THEN "settling" ELSE "failed"
  /\ latest' = NothingSeen
  /\ UNCHANGED <<boardVars, open, args, todo, intact, lost, clean, procedure>>

OpenPort == open' = TRUE /\ wire' = <<>>
ClosePort == open' = FALSE

\* The settling time is longer than any pass: the last key has been handled and a
\* pass begun since.
Settle ==
  /\ stage = "settling" /\ fresh /\ rx = Nothing
  /\ stage' = "golden"
  /\ OpenPort
  /\ UNCHANGED <<board, rx, faults, args, todo, latest, intact, lost, clean, procedure>>

\* what await_golden looks for, which the text of a mismatch ends with as well
Accepts(says) == says.verdict \in {"MATCH", "MISMATCH"} /\ says.mismatch = 0

\* one line of await_golden, before the capture and after it
ReadGolden ==
  /\ stage \in {"golden", "golden again"} /\ wire # <<>>
  /\ LET text == Head(wire) IN
     IF text.line = "infer" /\ Accepts(text.says)
     THEN /\ accepted' = text.says
          /\ stage' = IF stage = "golden" THEN "capturing" ELSE "fitting"
          /\ segments' = IF stage = "golden" THEN <<[setup |-> Setup, restarted |-> FALSE]>> ELSE segments
          /\ ClosePort
     ELSE UNCHANGED <<accepted, stage, segments, open>>
  /\ wire' = Tail(wire)
  /\ UNCHANGED <<board, rx, faults, args, todo, latest, intact, lost, clean, cell, image, before, capture, basis>>

\* capture.sh ends and leaves its directory, and stress.txt is written beside it
EndCapture ==
  /\ stage = "capturing"
  /\ \E content \in [DOMAIN segments -> UNION {Holds(segments[i].setup, Len(segments) = 1) : i \in DOMAIN segments}] :
       /\ \A i \in DOMAIN segments : content[i] \in Holds(segments[i].setup, Len(segments) = 1)
       /\ capture' = [i \in DOMAIN segments |->
                        [records |-> content[i], restarted |-> segments[i].restarted]]
  /\ stage' = "golden again"
  /\ OpenPort
  /\ UNCHANGED <<board, rx, faults, args, todo, latest, intact, lost, clean, cell, image, before, accepted, segments, basis>>

\* the image once more, then the fit, which needs a quiet median and a point
Report ==
  /\ stage = "fitting"
  /\ IF image_hash = before /\ HasQuiet /\ Fitted # {}
     THEN /\ stage' = "reported"
          /\ \E rough \in BOOLEAN : basis' = BasisOf(rough)
     ELSE stage' = "failed" /\ UNCHANGED basis
  /\ UNCHANGED <<boardVars, open, args, todo, latest, intact, lost, clean, cell, image, before, accepted, segments, capture>>

\* the golden check runs out of time, the script fails or leaves no directory, a
\* file cannot be read or written
GiveUpLater ==
  /\ stage \in {"golden", "capturing", "golden again", "fitting"}
  /\ stage' = "failed"
  /\ ClosePort
  /\ UNCHANGED <<boardVars, args, todo, latest, intact, lost, clean, procedure>>

\* bound of the model: the board is followed until the command has no more use for it
Over == stage \in {"refused", "failed", "fitting", "reported"} \/ (stage = "armed" /\ cell = Nothing)

\* someone builds again
Rebuild ==
  /\ (~Over \/ stage = "fitting") /\ faults > 0 /\ faults' = faults - 1
  /\ image' = image + 1
  /\ UNCHANGED <<board, rx, wire, open, writer, cell, before, accepted, segments, capture, basis>>

\* what the capture sees of a step of the board
Observe(restarted) ==
  segments' = IF stage = "capturing" /\ (restarted \/ Setup' # segments[Len(segments)].setup)
              THEN Append(segments, [setup |-> Setup', restarted |-> restarted])
              ELSE segments

BoardBeside ==
  /\ ~Over
  /\ \/ BoardGoesOn(IF stage \in {"golden", "golden again"} THEN {"infer"} ELSE Listened)
        /\ Observe(FALSE)
     \/ BoardRestarts /\ Observe(TRUE)
  /\ UNCHANGED <<cell, image, before, accepted, capture, basis>>

Init ==
  /\ WriterInit
  /\ cell = Nothing /\ image = 0 /\ before = 0 /\ accepted = Nothing
  /\ segments = <<>> /\ capture = <<>> /\ basis = Nothing

ArmingStep ==
  /\ (\E list \in Commands : Begin(list)) \/ Send \/ Sent \/ ReadLine \/ GiveUp
  /\ UNCHANGED procedure

ProcedureStep ==
  \/ ArmingStep \/ BeginCell \/ CheckVictim \/ Settle \/ ReadGolden \/ EndCapture
  \/ Report \/ GiveUpLater

Next == ProcedureStep \/ BoardBeside \/ Rebuild

\* The board's threads run, the host sends and reads for as long as it has not given up, and
\* of the lines still waited for some one comes through again and again.
Fairness ==
  /\ WF_vars(Send \/ Sent \/ ReadLine)
  /\ WF_boardVars((HandleKey \/ BootStep) /\ ~Over)
  /\ WF_boardVars(BeginPass /\ ~Over)
  /\ SF_boardVars(Say(Awaited) /\ ~Over)

Spec == Init /\ [][Next]_allVars /\ Fairness

-----------------------------------------------------------------------------
\* A number that claims to say anything, measured or bounded, comes from a capture
\* all of whose records the board took set up as the cell says, of the one image the
\* command began with: a restart before, inside or after the arming, a pass left
\* over from another setting, a lost key and a rebuild all end in no number or in
\* an unmeasured one (characterise.rs:370-420, 484-496).  One field is excepted
\* when a key was lost: the stress line's descriptor page is the last pass's, so it
\* may hold the page the command wanted while the board holds another choice.  And
\* nothing is claimed of a command that meets a restart and, by a second fault, a lost
\* key: a line from before the restart may then confirm the key.
TwoFaults == ~intact /\ lost /\ faults + 1 < MaxFaults
ReportedIsTheCell ==
  stage = "reported" /\ basis # "unmeasured" /\ ~TwoFaults =>
    /\ image = before
    /\ \A i \in DOMAIN segments : \A field \in DOMAIN segments[i].setup :
         segments[i].setup[field] = cell.filing[field] \/ (field = "desc" /\ lost)


\* The golden check passes only on a line whose verdict is a match
\* (console.rs:442-444).
GoldenIsAMatch == accepted # Nothing => accepted.verdict = "MATCH"
=============================================================================

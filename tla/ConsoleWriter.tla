------------------------------ MODULE ConsoleWriter ------------------------------
(***************************************************************************)
(* laxity console: the one thing on the host that sends to the board.  The *)
(* keys that reset the board go first and have to be confirmed before the  *)
(* others are sent, and the board counts as armed only when its own status *)
(* lines carry the value every key selects.  Keys and lines cross: a line  *)
(* may be older than the keys, and a key may be lost.                      *)
(***************************************************************************)
EXTENDS ConsoleBoard

CONSTANT Commands   \* the argument lists the command may be run with

\* An argument is an option, allow or unknown, or a text: the sequence of its characters.
ASSUME CommandsAssumption ==
  \A args \in Commands : \A i \in DOMAIN args : args[i].kind \in {"allow", "unknown", "text"}

VARIABLES
  stage,    \* how far run has come
  args,     \* what it was run with
  todo,     \* the places of the current send's keys that have not gone out
  latest,   \* line -> the last such line this confirm has read
  intact,   \* history: the board has not restarted by itself since the command began
  lost,     \* history: a key of the command has not reached the board
  clean     \* history: when it began, a pass had taken up all the board was set to

writer == <<stage, args, todo, latest, intact, lost, clean>>
vars == <<boardVars, open, writer>>

Answering == {"placement", "stress", "net"}   \* the lines that answer for some key
NothingSeen == [line \in Answering |-> Nothing]

-----------------------------------------------------------------------------
(* The command line.                                                        *)

TextPlaces(list) == {i \in DOMAIN list : list[i].kind = "text"}
KeysOf(list) == list[CHOOSE i \in TextPlaces(list) : TRUE].keys

\* split: one text, not empty, and no option but --allow-reset
WellFormed(list) ==
  /\ \A i \in DOMAIN list : list[i].kind # "unknown"
  /\ Cardinality(TextPlaces(list)) = 1
  /\ KeysOf(list) # <<>>

AllowsReset(list) == \E i \in DOMAIN list : list[i].kind = "allow"

\* mutant: the ballast is taken for a choice the board stores
IsStackKey(key) == Alphabet[key].field = "stack_src"

IsReset(key) == Alphabet[key].field \in Kept

\* resolve: every character is a key, and a key that resets was meant to
Resolves(list) ==
  \A i \in DOMAIN KeysOf(list) :
    /\ KeysOf(list)[i] \in DOMAIN Alphabet
    /\ IsReset(KeysOf(list)[i]) => AllowsReset(list)

\* check, which is all that --dry-run runs
Accepted(list) == WellFormed(list) /\ Resolves(list)

\* the two sends of the command, each the places of its keys in the text
ResetKeys(list) == {i \in DOMAIN KeysOf(list) : IsReset(KeysOf(list)[i])}
OtherKeys(list) == DOMAIN KeysOf(list) \ ResetKeys(list)

Keys(list) == {KeysOf(list)[i] : i \in DOMAIN KeysOf(list)}

\* the keys among those that some status line answers for
Wanted(keys) == {key \in keys : Alphabet[key].line # "none"}

\* mutant: a line of the kind is enough, whatever it says
HeldOnceSeen(seen, key) == seen[Alphabet[key].line] # Nothing

Held(seen, key) ==
  LET entry == Alphabet[key]
  IN  seen[entry.line] # Nothing /\ seen[entry.line][entry.field] = entry.value

-----------------------------------------------------------------------------
Sending == {"resets", "rest"}
Confirming == {"page", "confirm"}

\* what the first send carries: the resets, or everything when there are none
Begin(list) ==
  /\ stage = "idle"
  /\ args' = list
  /\ IF ~Accepted(list) THEN stage' = "refused" /\ todo' = {}
     ELSE IF ResetKeys(list) # {} THEN stage' = "resets" /\ todo' = ResetKeys(list)
     ELSE stage' = "rest" /\ todo' = OtherKeys(list)
  /\ open' = (stage' # "refused")
  /\ latest' = NothingSeen
  /\ intact' = TRUE /\ lost' = FALSE /\ clean' = fresh
  /\ UNCHANGED boardVars

\* One key, and the pause after it, which is longer than a round of the exporter:
\* the register has been read by the time the next key comes.  A key that arrives
\* while the board is coming back is read by nobody, and any may be lost.
Send ==
  /\ stage \in Sending
  /\ \E i \in todo :
       /\ \A j \in todo : i <= j
       /\ \/ Up /\ rx = Nothing /\ rx' = KeysOf(args)[i] /\ UNCHANGED <<faults, lost>>
          \/ ~Up /\ lost' = TRUE /\ UNCHANGED <<rx, faults>>
          \/ faults > 0 /\ faults' = faults - 1 /\ lost' = TRUE /\ UNCHANGED rx
       /\ todo' = todo \ {i}
  /\ UNCHANGED <<board, wire, open, stage, args, latest, intact, clean>>

\* confirm begins with nothing seen, though lines may be waiting for it
Sent ==
  /\ stage \in Sending /\ todo = {}
  /\ stage' = IF stage = "resets" THEN "page" ELSE "confirm"
  /\ latest' = NothingSeen
  /\ UNCHANGED <<boardVars, open, args, todo, intact, lost, clean>>

\* mutant: the first confirm waits for every key of the command
WantedAtOnce == Wanted(Keys(args))

WantedNow == Wanted(IF stage = "page" THEN {k \in Keys(args) : IsReset(k)} ELSE Keys(args))

LinesOf(keys) == {Alphabet[key].line : key \in keys}

\* The lines confirm has yet to see with what it wants.  When it wants nothing, no line
\* can contradict it and the first of any kind will do.
Awaited == IF stage \notin Confirming THEN {}
           ELSE IF WantedNow = {} THEN Lines
           ELSE LinesOf({key \in WantedNow : ~Held(latest, key)})

\* the lines that answer for a key of the command; confirm looks at no other, unless
\* none of its keys is answered for
Listened == IF Wanted(Keys(args)) = {} THEN Lines ELSE LinesOf(Wanted(Keys(args)))

\* one line that take_status finds, in the order they were printed.  The resets
\* confirmed, the other keys are sent; everything confirmed, the board is armed.
ReadLine ==
  /\ stage \in Confirming /\ wire # <<>>
  /\ wire' = Tail(wire)
  /\ latest' = [line \in Answering |->
                   IF line = Head(wire).line THEN Head(wire).says ELSE latest[line]]
  /\ IF ~\A key \in WantedNow : Held(latest', key) THEN UNCHANGED <<stage, todo, open>>
     ELSE IF stage = "page" THEN stage' = "rest" /\ todo' = OtherKeys(args) /\ UNCHANGED open
     ELSE stage' = "armed" /\ open' = FALSE /\ UNCHANGED todo
  /\ UNCHANGED <<board, rx, faults, args, intact, lost, clean>>

\* confirm runs out of time, or the port fails
GiveUp ==
  /\ stage \in Sending \cup Confirming
  /\ stage' = "failed"
  /\ open' = FALSE
  /\ todo' = {} /\ latest' = NothingSeen
  /\ UNCHANGED <<boardVars, args, intact, lost, clean>>

\* a restart of the board is remembered, any other step of it leaves the host alone
BoardGoesOn(lines) ==
  (HandleKey \/ Say(lines) \/ BeginPass \/ Iterate \/ MeasureGoesWrong \/ BootStep) /\ UNCHANGED writer

BoardRestarts == Restart /\ intact' = FALSE /\ UNCHANGED <<stage, args, todo, latest, lost, clean>>

WriterInit ==
  /\ BoardInit
  /\ open = FALSE /\ faults = MaxFaults
  /\ stage = "idle" /\ args = <<>> /\ todo = {} /\ latest = NothingSeen
  /\ intact = TRUE /\ lost = FALSE /\ clean = FALSE

-----------------------------------------------------------------------------
\* what the board is set to now, whatever its lines say
Setting(field) == IF field \in Kept THEN kept[field] ELSE choice[field]

\* Once the command says armed the board is set as every confirmable key asks, with
\* the old lines on the wire, the lost keys and the reset in the middle of the
\* command all accounted for (console.rs:388, 424-437, 543-571).  The descriptor
\* page is the exception and has its own property: its line shows the page of the
\* last pass and not the choice.
ArmedIsSet ==
  stage = "armed" /\ intact =>
    \A key \in Wanted(Keys(args)) :
      Alphabet[key].field # "desc" => Setting(Alphabet[key].field) = Alphabet[key].value

\* A command asks for what the board can come to: one reset at most, no field twice, and
\* for a page only together with a victim that drives the channels, since a pass of the
\* arena cross never takes the page up (app_threadx.c:1178-1186).
Consistent(list) ==
  LET Selects(field) == {i \in DOMAIN KeysOf(list) : Alphabet[KeysOf(list)[i]].field = field}
  IN  /\ Cardinality(ResetKeys(list)) <= 1
      /\ \A field \in DOMAIN PowerOn : Cardinality(Selects(field)) <= 1
      /\ Selects("desc") # {} =>
           \E i \in Selects("victim") : StressVictim(Alphabet[KeysOf(list)[i]].value)

\* Such a command is armed, if it finds the board up, nothing goes wrong by itself and
\* it does not give up first: the keys get through the reset, the page is taken up by
\* some pass, and each line it waits for comes round.  A command of keys no line answers
\* for is armed by the first line there is (console.rs:424-437, 559-562).
ArmingSucceeds ==
  (stage \in Sending \cup Confirming /\ Up /\ ~lost /\ faults = MaxFaults /\ Consistent(args))
    ~> (stage \notin Sending \cup Confirming \/ faults < MaxFaults)

\* No reset the command asks for comes after the board has handled one of its
\* other keys, whose choice the reset would throw away (console.rs:386-388).
ResetsComeFirst ==
  [][kept' # kept /\ faults' = faults => stage \in {"resets", "page", "failed"}]_vars
=============================================================================

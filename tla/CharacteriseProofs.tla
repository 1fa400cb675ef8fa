-------------------------- MODULE CharacteriseProofs --------------------------
(***************************************************************************)
(* What the console writer may rely on when it says armed, proved for any  *)
(* alphabet, any commands, any number of lines on the wire and any number  *)
(* of lost keys and restarts.  The argument: a status line that shows every*)
(* reset the command asks for was printed after the last of them, so from  *)
(* that line on no key of the command resets the board, and every line     *)
(* behind it shows what the board is set to or what a key of the command   *)
(* has changed since.                                                      *)
(*                                                                         *)
(* Then the boot gate, for any number of threads behind it and through     *)
(* every reset of the board that a command, the button or a lost supply    *)
(* causes; and the number laxity characterise reports, for every table of  *)
(* cells.                                                                  *)
(***************************************************************************)
EXTENDS Characterise, TLAPS, FiniteSetTheorems

-----------------------------------------------------------------------------
(* Sequences of lines. *)

IsSequence(w) == \E S : w \in Seq(S)

LEMMA Appended ==
  ASSUME NEW w, IsSequence(w), NEW e
  PROVE  /\ IsSequence(Append(w, e))
         /\ DOMAIN w = 1..Len(w) /\ Len(w) \in Nat
         /\ DOMAIN Append(w, e) = 1..(Len(w) + 1)
         /\ \A i \in 1..Len(w) : Append(w, e)[i] = w[i]
         /\ Append(w, e)[Len(w) + 1] = e
  <1>1. PICK S : w \in Seq(S)  BY DEF IsSequence
  <1> DEFINE U == S \cup {e}
  <1>2. w \in Seq(U)  BY <1>1
  <1>3. e \in U  OBVIOUS
  <1> HIDE DEF U
  <1>4. Append(w, e) \in Seq(U)  BY <1>2, <1>3
  <1> QED  BY <1>2, <1>3, <1>4 DEF IsSequence

LEMMA Behind ==
  ASSUME NEW w, IsSequence(w), w # <<>>
  PROVE  /\ IsSequence(Tail(w))
         /\ DOMAIN w = 1..Len(w) /\ Len(w) \in Nat \ {0}
         /\ DOMAIN Tail(w) = 1..(Len(w) - 1)
         /\ \A i \in 1..(Len(w) - 1) : Tail(w)[i] = w[i + 1]
         /\ Head(w) = w[1]
  <1>1. PICK S : w \in Seq(S)  BY DEF IsSequence
  <1>2. Tail(w) \in Seq(S)  BY <1>1
  <1> QED  BY <1>1, <1>2 DEF IsSequence

LEMMA NoLines == IsSequence(<<>>) /\ DOMAIN <<>> = {}
  <1>1. <<>> \in Seq({0})  OBVIOUS
  <1> QED  BY <1>1 DEF IsSequence

-----------------------------------------------------------------------------
(* What a line says of a board that is set to kp and ch, for a command as.  *)

SetTo(kp, ch, f) == IF f \in Kept THEN kp[f] ELSE ch[f]

\* kp is what the reset keys of the command ask for
Asks(as, kp) == \A k \in Keys(as) : IsReset(k) => kp[Alphabet[k].field] = Alphabet[k].value

\* a key of the command has set the field to what it is
Since(as, kp, ch, f) == \E c \in Keys(as) : Alphabet[c].field = f /\ Alphabet[c].value = SetTo(kp, ch, f)

\* the line says what the board is set to, except for what a key of the command has set since
Current(as, kp, ch, line, says) ==
  \A k \in Wanted(Keys(as)) :
    Alphabet[k].line = line /\ Alphabet[k].field # "desc" =>
      says[Alphabet[k].field] = SetTo(kp, ch, Alphabet[k].field) \/ Since(as, kp, ch, Alphabet[k].field)

\* from the i-th line of w on the board is done with resets, and every line is current
Settled(as, kp, ch, w, ok, i) ==
  /\ Asks(as, kp)
  /\ ok => \A j \in DOMAIN w : j >= i => Current(as, kp, ch, w[j].line, w[j].says)

\* and it is so from every line that shows the resets
Shown(as, kp, ch, w, ok) ==
  \A i \in DOMAIN w :
    w[i].line = "placement" /\ Asks(as, w[i].says) => Settled(as, kp, ch, w, ok, i)

FieldsInv == /\ HasFields(kept, Kept) /\ HasFields(choice, Volatile)
             /\ HasFields(applied, {"desc", "words", "passes"})

LEMMA Lined ==
  ASSUME NEW k \in DOMAIN Alphabet
  PROVE  /\ Alphabet[k].field \in DOMAIN PowerOn
         /\ IsReset(k) <=> Alphabet[k].line = "placement"
         /\ IsReset(k) <=> Alphabet[k].field \notin Volatile
         /\ Alphabet[k].line # "none" => Alphabet[k].line \in Answering
         /\ Alphabet[k].line = "net" => Alphabet[k].field \in NetFields
         /\ Alphabet[k].line = "stress" => Alphabet[k].field \in Volatile
  BY AlphabetAssumption DEF IsReset, Volatile, Answering

\* A line is current when it is printed.
LEMMA SaysCurrent ==
  ASSUME FieldsInv, Keys(args) \subseteq DOMAIN Alphabet, NEW line, NEW says \in Reads(line)
  PROVE  /\ Current(args, kept, choice, line, says)
         /\ line = "placement" => says = kept
  <1>0. line = "placement" => says = kept  BY DEF Reads
  <1> SUFFICES ASSUME NEW k \in Wanted(Keys(args)), Alphabet[k].line = line,
                      Alphabet[k].field # "desc"
               PROVE  says[Alphabet[k].field] = SetTo(kept, choice, Alphabet[k].field)
    BY <1>0 DEF Current
  <1> DEFINE f == Alphabet[k].field
  <1>1. /\ k \in DOMAIN Alphabet /\ line \in Answering
        /\ f \in DOMAIN PowerOn /\ f \notin {"words", "passes"}
    BY Lined, AlphabetAssumption DEF Wanted
  <1>2. CASE line = "placement"  BY <1>0, <1>1, <1>2, Lined DEF SetTo, IsReset
  <1>3. CASE line = "net"
    <2>1. f \in NetFields /\ f \notin Kept  BY <1>1, <1>3, AlphabetAssumption DEF Volatile
    <2>2. says = Restrict(choice, NetFields)  BY <1>3 DEF Reads
    <2> QED  BY <2>1, <2>2 DEF Restrict, SetTo
  <1>4. CASE line = "stress"
    <2>1. f \in Volatile /\ f \notin Kept  BY <1>1, <1>4, Lined DEF IsReset
    <2>2. DOMAIN applied = {"desc", "words", "passes"} /\ DOMAIN choice = Volatile
      BY DEF FieldsInv, HasFields
    <2>3. PICK late \in SUBSET DOMAIN applied :
             says = [x \in DOMAIN applied \cup DOMAIN choice |->
                       IF x \in late THEN applied'[x]
                       ELSE IF x \in DOMAIN applied THEN applied[x] ELSE choice[x]]
      BY <1>4 DEF Reads
    <2>4. f \notin late /\ f \notin DOMAIN applied /\ f \in DOMAIN choice  BY <1>1, <2>1, <2>2
    <2> QED  BY <2>1, <2>3, <2>4 DEF SetTo
  <1> QED  BY <1>1, <1>2, <1>3, <1>4 DEF Answering

\* A line stays current when a key of the command is stored.
LEMMA StoredCurrent ==
  ASSUME NEW as, NEW kp, NEW ch, HasFields(ch, Volatile),
         NEW c \in Keys(as), Alphabet[c].field \in Volatile,
         NEW line, NEW says, Current(as, kp, ch, line, says)
  PROVE  Current(as, kp, [ch EXCEPT ![Alphabet[c].field] = Alphabet[c].value], line, says)
  <1> DEFINE to == [ch EXCEPT ![Alphabet[c].field] = Alphabet[c].value]
  <1> SUFFICES ASSUME NEW k \in Wanted(Keys(as)), Alphabet[k].line = line, Alphabet[k].field # "desc"
               PROVE  says[Alphabet[k].field] = SetTo(kp, to, Alphabet[k].field)
                        \/ Since(as, kp, to, Alphabet[k].field)
    BY DEF Current
  <1> DEFINE f == Alphabet[k].field
  <1>0. f \notin Kept => (f = Alphabet[c].field => to[f] = Alphabet[c].value)
    BY DEF HasFields
  <1>1. f # Alphabet[c].field => to[f] = ch[f] \/ f \in Kept \/ f \notin Volatile
    BY DEF HasFields
  <1>2. Alphabet[c].field \notin Kept  BY DEF Volatile
  <1>3. CASE f = Alphabet[c].field
    <2>1. SetTo(kp, to, f) = Alphabet[c].value  BY <1>0, <1>2, <1>3 DEF SetTo
    <2> QED  BY <1>3, <2>1 DEF Since
  <1>4. CASE f # Alphabet[c].field
    <2>1. to[f] = ch[f]  BY <1>4 DEF HasFields
    <2>2. SetTo(kp, to, f) = SetTo(kp, ch, f)  BY <2>1 DEF SetTo
    <2> QED  BY <2>2 DEF Since, Current
  <1> QED  BY <1>3, <1>4

-----------------------------------------------------------------------------
(* The lines on the wire, through each step that matters to them. *)

LEMMA ShownAppend ==
  ASSUME NEW as, NEW kp, NEW ch, NEW w, NEW ok, IsSequence(w), NEW line, NEW says,
         Current(as, kp, ch, line, says), line = "placement" => says = kp
  PROVE  LET longer == Append(w, [line |-> line, says |-> says]) IN
         /\ Shown(as, kp, ch, w, ok) => Shown(as, kp, ch, longer, ok)
         /\ \A i \in Nat : Settled(as, kp, ch, w, ok, i) => Settled(as, kp, ch, longer, ok, i)
  <1> DEFINE e == [line |-> line, says |-> says]
             longer == Append(w, e)
  <1>1. /\ DOMAIN w = 1..Len(w) /\ Len(w) \in Nat
        /\ DOMAIN longer = 1..(Len(w) + 1)
        /\ \A i \in 1..Len(w) : longer[i] = w[i]
        /\ longer[Len(w) + 1] = e
    BY Appended
  <1>2. e.line = line /\ e.says = says  OBVIOUS
  <1> HIDE DEF e, longer
  <1>5. \A j \in DOMAIN longer : j \in Nat /\ (j \in 1..Len(w) \/ j = Len(w) + 1)  BY <1>1
  <1>3. ASSUME NEW i \in Nat, Settled(as, kp, ch, w, ok, i)
        PROVE  Settled(as, kp, ch, longer, ok, i)
    <2>1. ASSUME ok, NEW j \in DOMAIN longer, j >= i
          PROVE  Current(as, kp, ch, longer[j].line, longer[j].says)
      <3>1. CASE j \in 1..Len(w)  BY <1>1, <1>3, <2>1, <3>1 DEF Settled
      <3>2. CASE j = Len(w) + 1  BY <1>1, <1>2, <3>2
      <3>3. j \in 1..Len(w) \/ j = Len(w) + 1  BY <1>5
      <3> QED  BY <3>1, <3>2, <3>3
    <2> QED  BY <1>3, <2>1 DEF Settled
  <1>4. ASSUME Shown(as, kp, ch, w, ok) PROVE Shown(as, kp, ch, longer, ok)
    <2> SUFFICES ASSUME NEW i \in DOMAIN longer, longer[i].line = "placement", Asks(as, longer[i].says)
                 PROVE  Settled(as, kp, ch, longer, ok, i)
      BY DEF Shown
    <2>1. CASE i \in 1..Len(w)
      <3>1. longer[i] = w[i] /\ i \in DOMAIN w /\ i \in Nat  BY <1>1, <2>1
      <3>2. Settled(as, kp, ch, w, ok, i)  BY <1>4, <3>1 DEF Shown
      <3> QED  BY <1>3, <3>1, <3>2
    <2>2. CASE i = Len(w) + 1
      <3>1. Asks(as, kp)  BY <1>1, <1>2, <2>2
      <3>2. \A j \in DOMAIN longer : j >= i => j = Len(w) + 1  BY <1>1, <2>2
      <3>3. Current(as, kp, ch, longer[Len(w) + 1].line, longer[Len(w) + 1].says)  BY <1>1, <1>2
      <3>4. \A j \in DOMAIN longer : j >= i => Current(as, kp, ch, longer[j].line, longer[j].says)
        BY <3>2, <3>3
      <3> QED  BY <3>1, <3>4 DEF Settled
    <2>3. i \in 1..Len(w) \/ i = Len(w) + 1  BY <1>5
    <2> QED  BY <2>1, <2>2, <2>3
  <1> QED  BY <1>3, <1>4 DEF longer, e

LEMMA ShownTail ==
  ASSUME NEW as, NEW kp, NEW ch, NEW w, NEW ok, IsSequence(w), w # <<>>
  PROVE  /\ Shown(as, kp, ch, w, ok) => Shown(as, kp, ch, Tail(w), ok)
         /\ Settled(as, kp, ch, w, ok, 1) => Settled(as, kp, ch, Tail(w), ok, 1)
         /\ Settled(as, kp, ch, w, ok, 1) /\ ok => Current(as, kp, ch, Head(w).line, Head(w).says)
         /\ Shown(as, kp, ch, w, ok) /\ Head(w).line = "placement" /\ Asks(as, Head(w).says)
              => Settled(as, kp, ch, w, ok, 1)
  <1>1. /\ DOMAIN w = 1..Len(w) /\ Len(w) \in Nat \ {0}
        /\ DOMAIN Tail(w) = 1..(Len(w) - 1)
        /\ \A i \in 1..(Len(w) - 1) : Tail(w)[i] = w[i + 1]
        /\ Head(w) = w[1]
    BY Behind
  <1> DEFINE rest == Tail(w)
  <1> HIDE DEF rest
  <1>2. /\ DOMAIN rest = 1..(Len(w) - 1)
        /\ \A i \in 1..(Len(w) - 1) : rest[i] = w[i + 1]
    BY <1>1 DEF rest
  <1>3. ASSUME NEW i \in 1..Len(w), NEW l \in 1..(Len(w) - 1), l + 1 >= i,
               Settled(as, kp, ch, w, ok, i)
        PROVE  Settled(as, kp, ch, rest, ok, l)
    <2>1. ASSUME ok, NEW j \in DOMAIN rest, j >= l
          PROVE  Current(as, kp, ch, rest[j].line, rest[j].says)
      <3>1. j + 1 \in DOMAIN w /\ j + 1 >= i /\ rest[j] = w[j + 1]
        BY <1>1, <1>2, <1>3, <2>1
      <3> QED  BY <1>3, <2>1, <3>1 DEF Settled
    <2> QED  BY <1>3, <2>1 DEF Settled
  <1>4. ASSUME Shown(as, kp, ch, w, ok) PROVE Shown(as, kp, ch, rest, ok)
    <2> SUFFICES ASSUME NEW i \in DOMAIN rest, rest[i].line = "placement", Asks(as, rest[i].says)
                 PROVE  Settled(as, kp, ch, rest, ok, i)
      BY DEF Shown
    <2>1. i + 1 \in DOMAIN w /\ rest[i] = w[i + 1] /\ i \in 1..(Len(w) - 1) /\ i + 1 \in 1..Len(w)
      BY <1>1, <1>2
    <2>2. Settled(as, kp, ch, w, ok, i + 1)  BY <1>4, <2>1 DEF Shown
    <2>3. i + 1 >= i + 1  BY <2>1
    <2> QED  BY <1>3, <2>1, <2>2, <2>3
  <1>5. ASSUME Settled(as, kp, ch, w, ok, 1) PROVE Settled(as, kp, ch, rest, ok, 1)
    <2>1. CASE Len(w) - 1 >= 1
      <3>1. 1 \in 1..Len(w) /\ 1 \in 1..(Len(w) - 1) /\ 1 + 1 >= 1  BY <1>1, <2>1
      <3> QED  BY <1>3, <1>5, <3>1
    <2>2. CASE ~(Len(w) - 1 >= 1)
      <3>1. DOMAIN rest = {}  BY <1>1, <1>2, <2>2
      <3> QED  BY <1>5, <3>1 DEF Settled
    <2> QED  BY <2>1, <2>2
  <1>6. 1 \in DOMAIN w /\ 1 >= 1  BY <1>1
  <1>7. Settled(as, kp, ch, w, ok, 1) /\ ok => Current(as, kp, ch, Head(w).line, Head(w).says)
    BY <1>1, <1>6 DEF Settled
  <1>8. Shown(as, kp, ch, w, ok) /\ Head(w).line = "placement" /\ Asks(as, Head(w).says)
          => Settled(as, kp, ch, w, ok, 1)
    BY <1>1, <1>6 DEF Shown
  <1> QED  BY <1>4, <1>5, <1>7, <1>8 DEF rest

\* a key of the command is stored
LEMMA ShownStored ==
  ASSUME NEW as, NEW kp, NEW ch, NEW w, NEW ok, HasFields(ch, Volatile),
         NEW c \in Keys(as), Alphabet[c].field \in Volatile
  PROVE  LET to == [ch EXCEPT ![Alphabet[c].field] = Alphabet[c].value] IN
         /\ Shown(as, kp, ch, w, ok) => Shown(as, kp, to, w, ok)
         /\ \A i : Settled(as, kp, ch, w, ok, i) => Settled(as, kp, to, w, ok, i)
  <1> DEFINE to == [ch EXCEPT ![Alphabet[c].field] = Alphabet[c].value]
  <1>1. \A line, says : Current(as, kp, ch, line, says) => Current(as, kp, to, line, says)
    BY StoredCurrent
  <1> HIDE DEF to
  <1>2. ASSUME NEW i, Settled(as, kp, ch, w, ok, i) PROVE Settled(as, kp, to, w, ok, i)
    BY <1>1, <1>2 DEF Settled
  <1>3. Shown(as, kp, ch, w, ok) => Shown(as, kp, to, w, ok)  BY <1>2 DEF Shown
  <1> QED  BY <1>2, <1>3 DEF to

\* the board restarts by itself, and what it keeps is what it kept
LEMMA ShownRestarted ==
  ASSUME NEW as, NEW kp, NEW ch, NEW w, NEW ok, NEW to
  PROVE  /\ Shown(as, kp, ch, w, ok) => Shown(as, kp, to, w, FALSE)
         /\ \A i : Settled(as, kp, ch, w, ok, i) => Settled(as, kp, to, w, FALSE, i)
  BY DEF Shown, Settled

\* a key of the command resets the board: no line has shown the resets yet, unless it did already
LEMMA ShownReset ==
  ASSUME NEW as, NEW kp, NEW ch, NEW w, NEW ok, NEW kq, NEW cq, ~Asks(as, kp),
         Shown(as, kp, ch, w, ok)
  PROVE  Shown(as, kq, cq, w, ok)
  BY DEF Shown, Settled

LEMMA NotAsked ==
  ASSUME NEW k \in Keys(args), AsksReset(Alphabet[k])
  PROVE  ~Asks(args, kept)
  BY DEF AsksReset, Asks, IsReset

-----------------------------------------------------------------------------
(* The inductive invariant. *)

Underway == Sending \cup Confirming

\* the stages in which the resets are done with
Past == {"rest", "confirm", "armed", "settling", "golden", "capturing", "golden again",
         "fitting", "reported"}

CommandInv ==
  /\ stage = "idle" => rx = Nothing /\ wire = <<>> /\ open = FALSE
  /\ stage \in Underway => open = TRUE /\ todo \subseteq DOMAIN KeysOf(args)
  /\ stage \in Underway \cup {"armed"} =>
       Keys(args) \subseteq DOMAIN Alphabet /\ rx \in {Nothing} \cup Keys(args)
  /\ stage \in {"resets", "page"} => \E k \in Keys(args) : IsReset(k)
  /\ stage \in {"idle", "refused", "failed", "resets", "page"} \cup Past
  /\ IsSequence(wire)
  /\ faults \in Nat

LinesInv ==
  /\ stage \in Underway => Shown(args, kept, choice, wire, intact)
  /\ stage = "page" /\ latest["placement"] # Nothing /\ Asks(args, latest["placement"])
       => Settled(args, kept, choice, wire, intact, 1)
  /\ stage \in {"rest", "confirm"} => Settled(args, kept, choice, wire, intact, 1)
  /\ stage = "confirm" /\ intact =>
       \A line \in Answering : latest[line] # Nothing => Current(args, kept, choice, line, latest[line])

PastInv ==
  /\ stage \in Past => rx = Nothing \/ (rx \in Keys(args) /\ Asks(args, kept))
  /\ stage = "armed" /\ intact => \A k \in Wanted(Keys(args)) :
       Alphabet[k].field # "desc" => SetTo(kept, choice, Alphabet[k].field) = Alphabet[k].value

ConsoleInv == FieldsInv /\ CommandInv /\ LinesInv /\ PastInv

LEMMA InitConsoleInv == ASSUME Init PROVE ConsoleInv
  <1>1. FieldsInv
    BY EarlierAssumption, AlphabetAssumption
    DEF Init, WriterInit, BoardInit, FieldsInv, HasFields, Restrict, PowerOnApplied, Volatile
  <1>2. stage = "idle" /\ rx = Nothing /\ wire = <<>> /\ open = FALSE /\ faults \in Nat
    BY BoundsAssumption DEF Init, WriterInit, BoardInit
  <1>3. CommandInv  BY <1>2, NoLines DEF CommandInv, Underway, Sending, Confirming, Past
  <1>4. LinesInv  BY <1>2 DEF LinesInv, Underway, Sending, Confirming
  <1>5. PastInv  BY <1>2 DEF PastInv, Past
  <1> QED  BY <1>1, <1>3, <1>4, <1>5 DEF ConsoleInv

\* Steps that move neither the board's fields nor what crosses between board and host.
LEMMA QuietKeeps ==
  ASSUME ConsoleInv, FieldsInv', faults' \in Nat,
         UNCHANGED <<kept, choice, rx, wire, open, writer>>
  PROVE  ConsoleInv'
  <1>1. CommandInv'  BY DEF ConsoleInv, CommandInv, writer
  <1>2. LinesInv'  BY DEF ConsoleInv, LinesInv, writer
  <1>3. PastInv'  BY DEF ConsoleInv, PastInv, writer
  <1> QED  BY <1>1, <1>2, <1>3 DEF ConsoleInv

\* Steps into a stage that no longer reads the console.
LEMMA LaterKeeps ==
  ASSUME ConsoleInv, UNCHANGED <<kept, choice, applied, rx, args, faults>>, IsSequence(wire'),
         stage' \in {"refused", "failed"} \/ (stage \in Past /\ stage' \in Past),
         stage' \notin Underway \cup {"armed"}
  PROVE  ConsoleInv'
  <1>1. FieldsInv'  BY DEF ConsoleInv, FieldsInv
  <1>2. CommandInv'  BY DEF ConsoleInv, CommandInv, Underway, Sending, Confirming, Past
  <1>3. LinesInv'  BY DEF LinesInv, Underway, Sending, Confirming
  <1>4. PastInv'  BY DEF ConsoleInv, PastInv, Past
  <1> QED  BY <1>1, <1>2, <1>3, <1>4 DEF ConsoleInv

\* The exporter stores a key of the command, or finds that it says what the board is set to.
LEMMA KeyKeeps ==
  ASSUME ConsoleInv, HandleKey, UNCHANGED writer
  PROVE  ConsoleInv'
  <1> DEFINE entry == Alphabet[rx]
             to == [choice EXCEPT ![entry.field] = entry.value]
  <1>0. /\ FieldsInv /\ CommandInv /\ LinesInv /\ PastInv /\ rx # Nothing
        /\ UNCHANGED <<wire, open, faults, stage, args, todo, latest, intact>>
    BY DEF ConsoleInv, HandleKey, writer
  <1>1. CASE AsksReset(entry)
    <2>1. /\ Reset([kept EXCEPT ![entry.field] = entry.value]) /\ rx' = Nothing
      BY <1>1 DEF HandleKey, Reset
    <2>2. FieldsInv'
      BY <1>0, <2>1, AlphabetAssumption
      DEF FieldsInv, HasFields, Reset, Restrict, Volatile, PowerOnApplied
    <2>3. CommandInv'  BY <1>0, <2>1 DEF CommandInv
    <2>4. rx \in Keys(args) => ~Asks(args, kept)  BY <1>1, NotAsked
    <2>5. stage \notin Past  BY <1>0, <2>4 DEF PastInv
    <2>6. ASSUME stage \in Underway
          PROVE  /\ ~Asks(args, kept)
                 /\ Shown(args, kept', choice', wire, intact)
      BY <1>0, <2>4, <2>6, ShownReset DEF CommandInv, LinesInv
    <2>7. stage = "page" => ~(latest["placement"] # Nothing /\ Asks(args, latest["placement"]))
      BY <1>0, <2>6 DEF LinesInv, Settled, Underway, Confirming
    <2>8. LinesInv'  BY <1>0, <2>5, <2>6, <2>7 DEF LinesInv, Past
    <2>9. PastInv'  BY <1>0, <2>5 DEF PastInv, Past
    <2> QED  BY <2>2, <2>3, <2>8, <2>9 DEF ConsoleInv
  <1>2. CASE ~AsksReset(entry) /\ entry.field \in Kept
    <2>1. rx' = Nothing /\ kept' = kept /\ choice' = choice /\ applied' = applied
      BY <1>2 DEF HandleKey
    <2>2. FieldsInv'  BY <1>0, <2>1 DEF FieldsInv
    <2>3. CommandInv'  BY <1>0, <2>1 DEF CommandInv
    <2>4. LinesInv'  BY <1>0, <2>1 DEF LinesInv
    <2>5. PastInv'  BY <1>0, <2>1 DEF PastInv
    <2> QED  BY <2>2, <2>3, <2>4, <2>5 DEF ConsoleInv
  <1>3. CASE ~AsksReset(entry) /\ entry.field \notin Kept
    <2>1. rx' = Nothing /\ kept' = kept /\ choice' = to /\ applied' = applied
      BY <1>3 DEF HandleKey
    <2>2. FieldsInv'  BY <1>0, <2>1 DEF FieldsInv, HasFields
    <2>3. CommandInv'  BY <1>0, <2>1 DEF CommandInv
    <2>4. ASSUME stage \in Underway \cup {"armed"}
          PROVE  /\ Keys(args) \subseteq DOMAIN Alphabet /\ rx \in Keys(args)
                 /\ entry.field \in Volatile
      BY <1>0, <1>3, <2>4, AlphabetAssumption DEF CommandInv, Volatile
    <2>5. LinesInv'
      <3>1. ASSUME stage \in Underway
            PROVE  /\ Shown(args, kept, to, wire, intact)
                   /\ \A i : Settled(args, kept, choice, wire, intact, i)
                               => Settled(args, kept, to, wire, intact, i)
                   /\ \A line, says : Current(args, kept, choice, line, says)
                                        => Current(args, kept, to, line, says)
        <4>1. HasFields(choice, Volatile)  BY <1>0 DEF FieldsInv
        <4>2. rx \in Keys(args) /\ entry.field \in Volatile  BY <2>4, <3>1
        <4>3. Shown(args, kept, choice, wire, intact)  BY <1>0, <3>1 DEF LinesInv
        <4> QED  BY <4>1, <4>2, <4>3, ShownStored, StoredCurrent
      <3> HIDE DEF to
      <3> QED  BY <1>0, <2>1, <3>1 DEF LinesInv, Underway, Sending, Confirming
    <2>6. PastInv'
      <3>1. ASSUME stage = "armed", intact, NEW k \in Wanted(Keys(args)), Alphabet[k].field # "desc"
            PROVE  SetTo(kept, to, Alphabet[k].field) = Alphabet[k].value
        <4>1. k \in DOMAIN Alphabet /\ rx \in DOMAIN Alphabet /\ rx \in Keys(args)
          BY <2>4, <3>1 DEF Wanted
        <4>2. SetTo(kept, choice, Alphabet[k].field) = Alphabet[k].value
          BY <1>0, <3>1 DEF PastInv
        <4>3. CASE Alphabet[k].field = entry.field
          <5>1. rx \in Wanted(Keys(args))  BY <3>1, <4>1, <4>3, AlphabetAssumption DEF Wanted
          <5>2. SetTo(kept, choice, entry.field) = entry.value
            BY <1>0, <3>1, <4>3, <5>1 DEF PastInv
          <5>3. to = choice  BY <1>0, <1>3, <5>2 DEF SetTo, FieldsInv, HasFields
          <5> QED  BY <4>2, <5>3
        <4>4. CASE Alphabet[k].field # entry.field
          BY <1>0, <4>2, <4>4 DEF SetTo, FieldsInv, HasFields
        <4> QED  BY <4>3, <4>4
      <3> HIDE DEF to
      <3> QED  BY <1>0, <2>1, <3>1 DEF PastInv
    <2> QED  BY <2>2, <2>3, <2>5, <2>6 DEF ConsoleInv
  <1> QED  BY <1>1, <1>2, <1>3

\* The measurement thread begins a pass or ends a window.
LEMMA MeasuringKeeps ==
  ASSUME FieldsInv, faults \in Nat, PassBegins \/ Measures \/ GoesWrong
  PROVE  UNCHANGED <<kept, choice, gate>> /\ FieldsInv' /\ faults' \in Nat
  <1>1. CASE PassBegins
    BY <1>1 DEF PassBegins, FieldsInv, HasFields
  <1>2. CASE Measures \/ GoesWrong
    <2>1. UNCHANGED <<kept, choice, applied, gate>>
      BY <1>2 DEF Measures, GoesWrong, Measured
    <2>2. faults' = faults \/ (faults > 0 /\ faults' = faults - 1)
      BY <1>2 DEF Measures, GoesWrong
    <2>3. faults' \in Nat  BY <2>2
    <2> QED  BY <2>1, <2>3 DEF FieldsInv
  <1> QED  BY <1>1, <1>2

\* A line is printed, and the measurement thread may come in the middle of it.
LEMMA SayKeeps ==
  ASSUME ConsoleInv, NEW lines, Say(lines), UNCHANGED writer
  PROVE  ConsoleInv'
  <1>0. /\ FieldsInv /\ CommandInv /\ LinesInv /\ PastInv /\ open
        /\ UNCHANGED <<rx, open, stage, args, todo, latest, intact>>
    BY DEF ConsoleInv, Say, writer
  <1>1. PICK line \in lines : \E says \in Reads(line) :
           wire' = Append(wire, [line |-> line, says |-> says])
    BY DEF Say
  <1>2. PICK says \in Reads(line) : wire' = Append(wire, [line |-> line, says |-> says])
    BY <1>1
  <1>3. UNCHANGED <<kept, choice>> /\ FieldsInv' /\ faults' \in Nat
    <2>1. CASE PassBegins \/ Measures \/ GoesWrong
      BY <1>0, <2>1, MeasuringKeeps DEF CommandInv
    <2>2. CASE UNCHANGED <<board, faults>>
      BY <1>0, <2>2 DEF board, FieldsInv, CommandInv
    <2> QED  BY <2>1, <2>2 DEF Say
  <1>4. IsSequence(wire')  BY <1>0, <1>2, Appended DEF CommandInv
  <1>5. CommandInv'
    <2>1. stage # "idle"  BY <1>0 DEF CommandInv
    <2> QED  BY <1>0, <1>3, <1>4, <2>1 DEF CommandInv
  <1>6. LinesInv'
    <2>1. ASSUME stage \in Underway
          PROVE  /\ Shown(args, kept, choice, wire', intact)
                 /\ Settled(args, kept, choice, wire, intact, 1)
                      => Settled(args, kept, choice, wire', intact, 1)
      <3>1. /\ Current(args, kept, choice, line, says)
            /\ line = "placement" => says = kept
        BY <1>0, <2>1, SaysCurrent DEF CommandInv
      <3>2. IsSequence(wire)  BY <1>0 DEF CommandInv
      <3>3. Shown(args, kept, choice, wire, intact)  BY <1>0, <2>1 DEF LinesInv
      <3> QED  BY <1>2, <3>1, <3>2, <3>3, ShownAppend
    <2> QED  BY <1>0, <1>3, <2>1 DEF LinesInv, Underway, Sending, Confirming
  <1>7. PastInv'  BY <1>0, <1>3 DEF PastInv
  <1> QED  BY <1>3, <1>5, <1>6, <1>7 DEF ConsoleInv

\* The board restarts by itself.
LEMMA RestartKeeps ==
  ASSUME ConsoleInv, BoardRestarts
  PROVE  ConsoleInv'
  <1>0. /\ FieldsInv /\ CommandInv /\ LinesInv /\ PastInv
        /\ UNCHANGED <<wire, open, stage, args, todo, latest>> /\ intact' = FALSE
        /\ faults > 0 /\ faults' = faults - 1
    BY DEF ConsoleInv, BoardRestarts, Restart
  <1>1. PICK selection \in {kept} \cup (IF open THEN {} ELSE {Restrict(PowerOn, Kept)}) :
           Reset(selection)
    BY DEF BoardRestarts, Restart
  <1>2. /\ rx' = Nothing /\ kept' = selection /\ choice' = Restrict(PowerOn, Volatile)
        /\ applied' = PowerOnApplied
    BY <1>1 DEF Reset
  <1>3. FieldsInv'
    BY <1>0, <1>1, <1>2 DEF FieldsInv, HasFields, Restrict, PowerOnApplied
  <1>4. CommandInv'  BY <1>0, <1>2 DEF CommandInv
  <1>5. LinesInv'
    <2>1. ASSUME stage \in Underway
          PROVE  /\ Shown(args, kept', choice', wire, FALSE)
                 /\ Settled(args, kept, choice, wire, intact, 1)
                      => Settled(args, kept', choice', wire, FALSE, 1)
      <3>1. kept' = kept  BY <1>0, <1>1, <1>2, <2>1 DEF CommandInv
      <3>2. Shown(args, kept, choice, wire, intact)  BY <1>0, <2>1 DEF LinesInv
      <3> QED  BY <3>1, <3>2, ShownRestarted
    <2> QED  BY <1>0, <2>1 DEF LinesInv, Underway, Sending, Confirming
  <1>6. PastInv'  BY <1>0, <1>2 DEF PastInv
  <1> QED  BY <1>3, <1>4, <1>5, <1>6 DEF ConsoleInv

\* The command begins, with nothing on the wire and no key on its way.
LEMMA BeginKeeps ==
  ASSUME ConsoleInv, NEW list, Begin(list)
  PROVE  ConsoleInv'
  <1>0. /\ FieldsInv /\ CommandInv /\ stage = "idle" /\ args' = list
        /\ UNCHANGED <<kept, choice, applied, rx, wire, faults>>
        /\ rx = Nothing /\ wire = <<>>
    BY DEF ConsoleInv, CommandInv, Begin, boardVars, board
  <1>1. FieldsInv'  BY <1>0 DEF FieldsInv
  <1>2. CASE ~Accepted(list)
    <2>1. stage' = "refused" /\ open' = FALSE  BY <1>2 DEF Begin
    <2>2. CommandInv'  BY <1>0, <2>1 DEF CommandInv, Underway, Sending, Confirming
    <2>3. LinesInv' /\ PastInv'  BY <2>1 DEF LinesInv, PastInv, Underway, Sending, Confirming, Past
    <2> QED  BY <1>1, <2>2, <2>3 DEF ConsoleInv
  <1>3. CASE Accepted(list)
    <2>1. Keys(list) \subseteq DOMAIN Alphabet  BY <1>3 DEF Accepted, Resolves, Keys
    <2>2. open' = TRUE /\ stage' \in {"resets", "rest"} /\ todo' \subseteq DOMAIN KeysOf(list)
      BY <1>3 DEF Begin, ResetKeys, OtherKeys
    <2>3. stage' = "resets" => \E k \in Keys(list) : IsReset(k)
      BY <1>3 DEF Begin, ResetKeys, Keys
    <2>4. stage' = "rest" => Asks(list, kept)
      BY <1>3 DEF Begin, ResetKeys, Keys, Asks
    <2>5. CommandInv'  BY <1>0, <2>1, <2>2, <2>3 DEF CommandInv, Underway, Sending, Confirming, Past
    <2>6. Shown(list, kept, choice, <<>>, intact')  BY NoLines DEF Shown
    <2>7. stage' = "rest" => Settled(list, kept, choice, <<>>, intact', 1)
      BY <2>4, NoLines DEF Settled
    <2>8. LinesInv'  BY <1>0, <2>2, <2>6, <2>7 DEF LinesInv
    <2>9. PastInv'  BY <1>0, <2>2 DEF PastInv
    <2> QED  BY <1>1, <2>5, <2>8, <2>9 DEF ConsoleInv
  <1> QED  BY <1>2, <1>3

\* A key is sent, and may be lost.
LEMMA SendKeeps ==
  ASSUME ConsoleInv, Send
  PROVE  ConsoleInv'
  <1>0. /\ FieldsInv /\ CommandInv /\ LinesInv /\ PastInv /\ stage \in Sending
        /\ UNCHANGED <<kept, choice, applied, wire, open, stage, args, latest, intact>>
    BY DEF ConsoleInv, Send, board
  <1>1. PICK i \in todo : (rx' = KeysOf(args)[i] \/ rx' = rx) /\ todo' = todo \ {i}
    BY DEF Send
  <1>2. faults' \in Nat  BY <1>0 DEF Send, CommandInv
  <1>3. KeysOf(args)[i] \in Keys(args)  BY <1>0 DEF CommandInv, Underway, Keys
  <1>4. FieldsInv'  BY <1>0 DEF FieldsInv
  <1>5. CommandInv'
    BY <1>0, <1>1, <1>2, <1>3 DEF CommandInv, Underway, Sending
  <1>6. LinesInv'  BY <1>0 DEF LinesInv
  <1>7. PastInv'
    <2>1. stage = "rest" => Asks(args, kept)  BY <1>0 DEF LinesInv, Settled
    <2> QED  BY <1>0, <1>1, <1>3, <2>1 DEF PastInv, Past, Sending
  <1> QED  BY <1>4, <1>5, <1>6, <1>7 DEF ConsoleInv

\* Everything is sent, and confirm begins with nothing seen.
LEMMA SentKeeps ==
  ASSUME ConsoleInv, Sent
  PROVE  ConsoleInv'
  <1>0. /\ FieldsInv /\ CommandInv /\ LinesInv /\ PastInv
        /\ \/ stage = "resets" /\ stage' = "page"
           \/ stage = "rest" /\ stage' = "confirm"
        /\ UNCHANGED <<kept, choice, applied, rx, wire, faults, open, args, todo, intact>>
        /\ latest' = NothingSeen
    BY DEF ConsoleInv, Sent, Sending, boardVars, board
  <1>1. \A line \in Answering : latest'[line] = Nothing  BY <1>0 DEF NothingSeen
  <1>2. FieldsInv'  BY <1>0 DEF FieldsInv
  <1>3. CommandInv'  BY <1>0 DEF CommandInv, Underway, Sending, Confirming, Past
  <1>4. LinesInv'
    BY <1>0, <1>1 DEF LinesInv, Underway, Sending, Confirming, Answering
  <1>5. PastInv'  BY <1>0 DEF PastInv, Past
  <1> QED  BY <1>2, <1>3, <1>4, <1>5 DEF ConsoleInv

\* Confirm reads a line.
LEMMA ReadKeeps ==
  ASSUME ConsoleInv, ReadLine
  PROVE  ConsoleInv'
  <1> DEFINE head == Head(wire)
  <1>0. /\ FieldsInv /\ CommandInv /\ LinesInv /\ PastInv
        /\ stage \in Confirming /\ wire # <<>> /\ IsSequence(wire) /\ wire' = Tail(wire)
        /\ UNCHANGED <<kept, choice, applied, rx, faults, args, intact>>
        /\ latest' = [line \in Answering |-> IF line = head.line THEN head.says ELSE latest[line]]
    BY DEF ConsoleInv, CommandInv, ReadLine, board
  <1>1. /\ Shown(args, kept, choice, wire, intact) /\ Shown(args, kept, choice, wire', intact)
        /\ Settled(args, kept, choice, wire, intact, 1)
             => Settled(args, kept, choice, wire', intact, 1)
        /\ Settled(args, kept, choice, wire, intact, 1) /\ intact
             => Current(args, kept, choice, head.line, head.says)
        /\ head.line = "placement" /\ Asks(args, head.says)
             => Settled(args, kept, choice, wire, intact, 1)
    <2>1. Shown(args, kept, choice, wire, intact)  BY <1>0 DEF LinesInv, Underway
    <2> QED  BY <1>0, <2>1, ShownTail
  <1> HIDE DEF head
  <1>2. FieldsInv'  BY <1>0 DEF FieldsInv
  <1>3. IsSequence(wire')  BY <1>0, Behind
  <1>4. /\ Keys(args) \subseteq DOMAIN Alphabet /\ rx \in {Nothing} \cup Keys(args)
        /\ open = TRUE /\ todo \subseteq DOMAIN KeysOf(args) /\ faults \in Nat
    BY <1>0 DEF CommandInv, Underway
  \* the line shows the resets
  <1>5. stage = "page" /\ latest'["placement"] # Nothing /\ Asks(args, latest'["placement"])
          => Settled(args, kept, choice, wire', intact, 1)
    BY <1>0, <1>1 DEF LinesInv, Answering
  \* every line confirm has read is current
  <1>6. stage = "confirm" =>
          /\ Settled(args, kept, choice, wire', intact, 1)
          /\ intact => \A line \in Answering :
               latest'[line] # Nothing => Current(args, kept, choice, line, latest'[line])
    BY <1>0, <1>1 DEF LinesInv
  <1>7. CASE ~\A key \in WantedNow : Held(latest', key)
    <2>1. UNCHANGED <<stage, todo, open>>  BY <1>7 DEF ReadLine
    <2>2. CommandInv'  BY <1>0, <1>3, <2>1 DEF CommandInv, Confirming
    <2>3. LinesInv'  BY <1>0, <1>1, <1>5, <1>6, <2>1 DEF LinesInv, Confirming
    <2>4. PastInv'  BY <1>0, <2>1 DEF PastInv, Confirming
    <2> QED  BY <1>2, <2>2, <2>3, <2>4 DEF ConsoleInv
  <1>8. CASE (\A key \in WantedNow : Held(latest', key)) /\ stage = "page"
    <2>1. stage' = "rest" /\ todo' = OtherKeys(args) /\ open' = open  BY <1>8 DEF ReadLine
    <2>2. ASSUME NEW k \in Keys(args), IsReset(k)
          PROVE  /\ latest'["placement"] # Nothing
                 /\ latest'["placement"][Alphabet[k].field] = Alphabet[k].value
      <3>1. Alphabet[k].line = "placement"  BY <1>4, <2>2, Lined
      <3>2. k \in WantedNow  BY <1>8, <2>2, <3>1 DEF WantedNow, Wanted
      <3> QED  BY <1>8, <3>1, <3>2 DEF Held
    <2>3. \E k \in Keys(args) : IsReset(k)  BY <1>0, <1>8 DEF CommandInv
    <2>4. Settled(args, kept, choice, wire', intact, 1)
      BY <1>5, <1>8, <2>2, <2>3 DEF Asks
    <2>5. CommandInv'
      BY <1>0, <1>3, <1>4, <2>1 DEF CommandInv, OtherKeys, Past
    <2>6. LinesInv'  BY <1>0, <1>1, <2>1, <2>4 DEF LinesInv
    <2>7. PastInv'  BY <1>0, <1>4, <2>1, <2>4 DEF PastInv, Settled
    <2> QED  BY <1>2, <2>5, <2>6, <2>7 DEF ConsoleInv
  <1>9. CASE (\A key \in WantedNow : Held(latest', key)) /\ stage = "confirm"
    <2>1. stage' = "armed" /\ todo' = todo /\ open' = FALSE  BY <1>9 DEF ReadLine
    <2>2. ASSUME NEW k \in Wanted(Keys(args))
          PROVE  /\ k \in DOMAIN Alphabet /\ Alphabet[k].line \in Answering
                 /\ latest'[Alphabet[k].line] # Nothing
                 /\ latest'[Alphabet[k].line][Alphabet[k].field] = Alphabet[k].value
      <3>1. k \in DOMAIN Alphabet /\ Alphabet[k].line \in Answering
        BY <1>4, Lined DEF Wanted
      <3>2. k \in WantedNow  BY <1>9 DEF WantedNow
      <3> QED  BY <1>9, <3>1, <3>2 DEF Held
    <2>3. ASSUME intact, NEW k \in Wanted(Keys(args)), Alphabet[k].field # "desc"
          PROVE  SetTo(kept, choice, Alphabet[k].field) = Alphabet[k].value
      <3> DEFINE f == Alphabet[k].field
      <3>1. Current(args, kept, choice, Alphabet[k].line, latest'[Alphabet[k].line])
        BY <1>6, <1>9, <2>2, <2>3
      <3>2. Alphabet[k].value = SetTo(kept, choice, f) \/ Since(args, kept, choice, f)
        BY <2>2, <2>3, <3>1 DEF Current
      <3>3. CASE Since(args, kept, choice, f)
        <4>1. PICK c \in Keys(args) : Alphabet[c].field = f /\ Alphabet[c].value = SetTo(kept, choice, f)
          BY <3>3 DEF Since
        <4>2. Alphabet[c].line = Alphabet[k].line
          BY <1>4, <2>2, <4>1, AlphabetAssumption
        <4>3. c \in Wanted(Keys(args))  BY <4>2 DEF Wanted
        <4> QED  BY <2>2, <4>1, <4>2, <4>3
      <3> QED  BY <3>2, <3>3
    <2>4. CommandInv'
      BY <1>0, <1>3, <1>4, <2>1 DEF CommandInv, Underway, Sending, Confirming, Past
    <2>5. LinesInv'  BY <2>1 DEF LinesInv, Underway, Sending, Confirming
    <2>6. Asks(args, kept)  BY <1>6, <1>9 DEF Settled
    <2>7. PastInv'  BY <1>0, <1>4, <2>1, <2>3, <2>6 DEF PastInv
    <2> QED  BY <1>2, <2>4, <2>5, <2>7 DEF ConsoleInv
  <1> QED  BY <1>0, <1>7, <1>8, <1>9 DEF Confirming

-----------------------------------------------------------------------------
(* The whole system. *)

LEMMA BesideKeeps ==
  ASSUME ConsoleInv, BoardBeside
  PROVE  ConsoleInv'
  <1>0. FieldsInv /\ faults \in Nat  BY DEF ConsoleInv, CommandInv
  <1>1. CASE HandleKey /\ UNCHANGED writer  BY <1>1, KeyKeeps
  <1>2. ASSUME NEW lines, Say(lines), UNCHANGED writer PROVE ConsoleInv'
    BY <1>2, SayKeeps
  <1>3. CASE (BeginPass \/ Iterate \/ MeasureGoesWrong) /\ UNCHANGED writer
    <2>1. UNCHANGED <<rx, wire, open, writer>> /\ (PassBegins \/ Measures \/ GoesWrong)
      BY <1>3 DEF BeginPass, Iterate, MeasureGoesWrong
    <2> QED  BY <1>0, <2>1, MeasuringKeeps, QuietKeeps
  <1>4. CASE BootStep /\ UNCHANGED writer
    <2>1. UNCHANGED <<kept, choice, applied, rx, wire, open, faults, writer>>
      BY <1>4 DEF BootStep
    <2>2. FieldsInv'  BY <1>0, <2>1 DEF FieldsInv
    <2> QED  BY <1>0, <2>1, <2>2, QuietKeeps
  <1>5. CASE BoardRestarts  BY <1>5, RestartKeeps
  <1> QED  BY <1>1, <1>2, <1>3, <1>4, <1>5 DEF BoardBeside, BoardGoesOn

LEMMA ProcedureKeeps ==
  ASSUME ConsoleInv, ProcedureStep
  PROVE  ConsoleInv'
  <1>0. IsSequence(wire)  BY DEF ConsoleInv, CommandInv
  <1> USE DEF Underway, Sending, Confirming, Past
  <1>1. ASSUME NEW list, Begin(list) PROVE ConsoleInv'  BY <1>1, BeginKeeps
  <1>2. CASE Send  BY <1>2, SendKeeps
  <1>3. CASE Sent  BY <1>3, SentKeeps
  <1>4. CASE ReadLine  BY <1>4, ReadKeeps
  <1>5. CASE GiveUp \/ GiveUpLater
    <2>1. /\ UNCHANGED <<kept, choice, applied, rx, args, faults, wire>> /\ stage' = "failed"
      BY <1>5 DEF GiveUp, GiveUpLater, boardVars, board
    <2> QED  BY <1>0, <2>1, LaterKeeps
  <1>6. CASE BeginCell
    <2>1. CASE stage' = "refused" /\ UNCHANGED <<boardVars, args>>
      BY <1>0, <2>1, LaterKeeps DEF boardVars, board
    <2> QED  BY <1>1, <1>6, <2>1 DEF BeginCell
  <1>7. CASE CheckVictim \/ Report
    <2>1. /\ UNCHANGED <<kept, choice, applied, rx, args, faults, wire>>
          /\ stage \in {"armed", "fitting"} /\ stage' \in {"settling", "failed", "reported"}
      BY <1>7 DEF CheckVictim, Report, boardVars, board
    <2> QED  BY <1>0, <2>1, LaterKeeps
  <1>8. CASE Settle \/ EndCapture
    <2>1. /\ UNCHANGED <<kept, choice, applied, rx, args, faults>> /\ wire' = <<>>
          /\ stage \in {"settling", "capturing"} /\ stage' \in {"golden", "golden again"}
      BY <1>8 DEF Settle, EndCapture, board, OpenPort
    <2> QED  BY NoLines, <2>1, LaterKeeps
  <1>9. CASE ReadGolden
    <2>1. /\ UNCHANGED <<kept, choice, applied, rx, args, faults>> /\ wire # <<>> /\ wire' = Tail(wire)
          /\ stage \in {"golden", "golden again"}
          /\ stage' \in {"golden", "golden again", "capturing", "fitting"}
      BY <1>9 DEF ReadGolden, board
    <2>2. IsSequence(wire')  BY <1>0, <2>1, Behind
    <2> QED  BY <2>1, <2>2, LaterKeeps
  <1> QED
    BY <1>1, <1>2, <1>3, <1>4, <1>5, <1>6, <1>7, <1>8, <1>9 DEF ProcedureStep, ArmingStep

LEMMA NextKeeps ==
  ASSUME ConsoleInv, [Next]_allVars
  PROVE  ConsoleInv'
  <1>1. CASE Rebuild \/ UNCHANGED allVars
    <2>1. UNCHANGED <<kept, choice, applied, rx, wire, open, writer>>
      BY <1>1 DEF Rebuild, allVars, vars, boardVars, board
    <2>2. FieldsInv'  BY <2>1 DEF ConsoleInv, FieldsInv
    <2>3. faults' \in Nat
      BY <1>1 DEF Rebuild, allVars, vars, boardVars, ConsoleInv, CommandInv
    <2> QED  BY <2>1, <2>2, <2>3, QuietKeeps
  <1> QED  BY <1>1, ProcedureKeeps, BesideKeeps DEF Next

\* A board that the command calls armed is set as every key it could confirm asks: a lost key, a
\* line older than the keys or a reset between two of them never passes for an answer
\* (console.rs:388, 424-437, 543-571).
THEOREM ArmedBoardIsSet == Spec => []ArmedIsSet
  <1>1. Init => ConsoleInv  BY InitConsoleInv
  <1>2. ConsoleInv /\ [Next]_allVars => ConsoleInv'  BY NextKeeps
  <1>3. ConsoleInv => ArmedIsSet  BY DEF ConsoleInv, PastInv, ArmedIsSet, SetTo, Setting
  <1> QED  BY <1>1, <1>2, <1>3, PTL DEF Spec

\* No key of the command resets the board once its other keys are on their way, so none of their
\* choices is thrown away by the command itself (console.rs:386-388).
THEOREM NoResetAfterTheRest == Spec => ResetsComeFirst
  <1> DEFINE Ordered == kept' # kept /\ faults' = faults => stage \in {"resets", "page", "failed"}
  <1>1. Init => ConsoleInv  BY InitConsoleInv
  <1>2. ConsoleInv /\ [Next]_allVars => ConsoleInv'  BY NextKeeps
  <1>3. ConsoleInv /\ [Next]_allVars => [Ordered]_vars
    <2> SUFFICES ASSUME ConsoleInv, [Next]_allVars, kept' # kept, faults' = faults
                 PROVE  stage \in {"resets", "page", "failed"}
      OBVIOUS
    <2>1. BoardBeside
      <3>1. UNCHANGED kept => FALSE  OBVIOUS
      <3>2. CASE ProcedureStep
        <4>1. UNCHANGED kept
          BY <3>2 DEF ProcedureStep, ArmingStep, Begin, Send, Sent, ReadLine, GiveUp, BeginCell,
                      CheckVictim, Settle, ReadGolden, EndCapture, Report, GiveUpLater, boardVars, board
        <4> QED  BY <4>1
      <3>3. CASE Rebuild \/ UNCHANGED allVars
        BY <3>3 DEF Rebuild, allVars, vars, boardVars, board
      <3> QED  BY <3>2, <3>3 DEF Next
    <2>2. HandleKey
      <3>1. faults \in Nat  BY DEF ConsoleInv, CommandInv
      <3>2. ~Restart  BY <3>1 DEF Restart
      <3> QED
        BY <2>1, <3>2 DEF BoardBeside, BoardGoesOn, BoardRestarts, Say, BeginPass, Iterate,
                          MeasureGoesWrong, PassBegins, Measures, GoesWrong, Measured, BootStep, board
    <2>3. AsksReset(Alphabet[rx]) /\ rx # Nothing  BY <2>2 DEF HandleKey
    <2>4. stage \notin Past  BY <2>3, NotAsked DEF ConsoleInv, PastInv
    <2>5. stage \notin {"idle", "refused"}
      BY <2>1, <2>3 DEF BoardBeside, Over, ConsoleInv, CommandInv
    <2> QED  BY <2>4, <2>5 DEF ConsoleInv, CommandInv
  <1> QED  BY <1>1, <1>2, <1>3, PTL DEF Spec, ResetsComeFirst

-----------------------------------------------------------------------------
(* The boot gate. *)

Holding == {t \in Waiters : thread[t] = "holding"}

GateInv == GateType /\ OneCount

-----------------------------------------------------------------------------
(* Sets of threads. *)

LEMMA HoldingFinite ==
  ASSUME NEW f PROVE IsFiniteSet({t \in Waiters : f[t] = "holding"})
  BY PriorityAssumption, FS_Subset

\* A thread that takes the count is one more, and one that has put it back is one less.
LEMMA OneMore ==
  ASSUME GateType, NEW u \in Waiters, thread[u] # "holding",
         thread' = [thread EXCEPT ![u] = "holding"]
  PROVE  Cardinality(Holding') = Cardinality(Holding) + 1
  <1>1. Holding' = Holding \cup {u} /\ u \notin Holding  BY DEF Holding, GateType
  <1>2. IsFiniteSet(Holding)  BY HoldingFinite DEF Holding
  <1> QED  BY <1>1, <1>2, FS_AddElement

LEMMA OneLess ==
  ASSUME GateType, NEW u \in Waiters, thread[u] = "holding",
         thread' = [thread EXCEPT ![u] = "running"]
  PROVE  Cardinality(Holding') = Cardinality(Holding) - 1
  <1>1. Holding' = Holding \ {u} /\ u \in Holding  BY DEF Holding, GateType
  <1>2. IsFiniteSet(Holding)  BY HoldingFinite DEF Holding
  <1> QED  BY <1>1, <1>2, FS_RemoveElement

LEMMA NobodyHolds ==
  ASSUME NEW what, what # "holding"
  PROVE  Cardinality({t \in Waiters : [u \in Waiters |-> what][t] = "holding"}) = 0
  <1>1. {t \in Waiters : [u \in Waiters |-> what][t] = "holding"} = {}  OBVIOUS
  <1> QED  BY <1>1, FS_EmptySet

-----------------------------------------------------------------------------
(* The steps of the gate. *)

LEMMA AtResetInv == ASSUME AtReset PROVE GateInv
  <1>1. Cardinality({t \in Waiters : thread[t] = "holding"}) = 0  BY NobodyHolds DEF AtReset
  <1>2. GateType /\ count = 0 /\ ready = FALSE /\ \A t \in Waiters : thread[t] = "waiting"
    BY DEF AtReset, GateType
  <1> QED  BY <1>1, <1>2 DEF GateInv, OneCount

LEMMA AllRunningInv == ASSUME AllRunning PROVE GateInv
  <1>1. Cardinality({t \in Waiters : thread[t] = "holding"}) = 0  BY NobodyHolds DEF AllRunning
  <1> QED  BY <1>1 DEF AllRunning, GateInv, GateType, OneCount

LEMMA GateResetInv == ASSUME GateReset PROVE GateInv'
  <1>1. Cardinality({t \in Waiters : thread'[t] = "holding"}) = 0  BY NobodyHolds DEF GateReset
  <1>2. GateType' /\ count' = 0 /\ ready' = FALSE /\ \A t \in Waiters : thread'[t] = "waiting"
    BY DEF GateReset, GateType
  <1> QED  BY <1>1, <1>2 DEF GateInv, OneCount

LEMMA GateStays == ASSUME GateInv, UNCHANGED gate PROVE GateInv'
  BY DEF gate, GateInv, GateType, OneCount

LEMMA GateStepInv == ASSUME GateInv, GateStep PROVE GateInv'
  <1>1. GateType /\ count \in Nat /\ ready \in BOOLEAN
        /\ count + Cardinality(Holding) = (IF ready THEN 1 ELSE 0)
        /\ (~ready => \A t \in Waiters : thread[t] = "waiting")
        /\ Cardinality(Holding) \in Nat
    BY HoldingFinite, FS_CardinalityType DEF GateInv, GateType, OneCount, Holding
  <1>2. CASE Release
    <2>1. count' = count + 1 /\ ready' = TRUE /\ ~ready /\ thread' = thread  BY <1>2 DEF Release
    <2>2. GateType' /\ Holding' = Holding  BY <1>1, <2>1 DEF GateType, Holding
    <2>3. count' + Cardinality(Holding') = 1  BY <1>1, <2>1, <2>2
    <2> QED  BY <2>1, <2>2, <2>3 DEF GateInv, OneCount, Holding
  <1>3. ASSUME NEW t \in Waiters, TakeCount(t) PROVE GateInv'
    <2>1. /\ thread[t] = "waiting" /\ count > 0 /\ count' = count - 1 /\ ready' = ready
          /\ thread' = [thread EXCEPT ![t] = "holding"]
      BY <1>3 DEF TakeCount
    <2>2. Cardinality(Holding') = Cardinality(Holding) + 1  BY <1>1, <2>1, OneMore
    <2>3. GateType'  BY <1>1, <2>1 DEF GateType
    <2>4. ready /\ count' + Cardinality(Holding') = 1  BY <1>1, <2>1, <2>2
    <2> QED  BY <2>1, <2>3, <2>4 DEF GateInv, OneCount, Holding
  <1>4. ASSUME NEW t \in Waiters, PutBack(t) PROVE GateInv'
    <2>1. /\ thread[t] = "holding" /\ count' = count + 1 /\ ready' = ready
          /\ thread' = [thread EXCEPT ![t] = "running"]
      BY <1>4 DEF PutBack
    <2>2. Cardinality(Holding') = Cardinality(Holding) - 1  BY <1>1, <2>1, OneLess
    <2>3. GateType'  BY <1>1, <2>1 DEF GateType
    <2>4. ready /\ count' + Cardinality(Holding') = 1  BY <1>1, <1>4, <2>1, <2>2
    <2> QED  BY <2>1, <2>3, <2>4 DEF GateInv, OneCount, Holding
  <1> QED  BY <1>2, <1>3, <1>4 DEF GateStep

-----------------------------------------------------------------------------
(* The steps of the whole system, as the gate sees them. *)

LEMMA GateMoves ==
  ASSUME [Next]_allVars
  PROVE  GateStep \/ GateReset \/ UNCHANGED gate
  <1>1. CASE UNCHANGED board  BY <1>1 DEF board
  <1>2. CASE HandleKey  BY <1>2 DEF HandleKey, Reset
  <1>3. CASE BeginPass  BY <1>3 DEF BeginPass, PassBegins
  <1>4. CASE Iterate \/ MeasureGoesWrong
    BY <1>4 DEF Iterate, MeasureGoesWrong, Measures, GoesWrong, Measured
  <1>5. CASE BootStep  BY <1>5 DEF BootStep
  <1>6. CASE Restart  BY <1>6 DEF Restart, Reset
  <1>7. CASE BoardBeside
    <2>1. CASE \E lines : Say(lines)
      BY <1>1, <2>1 DEF Say, PassBegins, Measures, GoesWrong, Measured
    <2> QED  BY <1>2, <1>3, <1>4, <1>5, <1>6, <1>7, <2>1
             DEF BoardBeside, BoardGoesOn, BoardRestarts
  <1>8. CASE ArmingStep
    <2>1. CASE \E list \in Commands : Begin(list)  BY <1>1, <2>1 DEF Begin, boardVars
    <2>2. CASE Send  BY <1>1, <2>2 DEF Send
    <2>3. CASE Sent \/ GiveUp  BY <1>1, <2>3 DEF Sent, GiveUp, boardVars
    <2>4. CASE ReadLine  BY <1>1, <2>4 DEF ReadLine
    <2> QED  BY <1>8, <2>1, <2>2, <2>3, <2>4 DEF ArmingStep
  <1>9. CASE BeginCell  BY <1>1, <1>9 DEF BeginCell, Begin, boardVars
  <1>10. CASE CheckVictim \/ Report \/ GiveUpLater
    BY <1>1, <1>10 DEF CheckVictim, Report, GiveUpLater, boardVars
  <1>11. CASE Settle \/ ReadGolden \/ EndCapture
    BY <1>1, <1>11 DEF Settle, ReadGolden, EndCapture
  <1>12. CASE Rebuild  BY <1>1, <1>12 DEF Rebuild
  <1>13. CASE UNCHANGED allVars  BY <1>1, <1>13 DEF allVars, vars, boardVars
  <1> QED
    BY <1>7, <1>8, <1>9, <1>10, <1>11, <1>12, <1>13 DEF Next, ProcedureStep

\* The count the measurement thread puts is never lost, doubled or taken before it is put, over
\* every key, restart and reset, for every set of threads behind it (app_threadx.c:1119-1126).
THEOREM OneCountAlways == Spec => []OneCount
  <1>1. Init => GateInv
    BY AtResetInv, AllRunningInv DEF Init, WriterInit, BoardInit
  <1>2. GateInv /\ [Next]_allVars => GateInv'
    BY GateMoves, GateStepInv, GateResetInv, GateStays
  <1>3. GateInv => OneCount  BY DEF GateInv
  <1> QED  BY <1>1, <1>2, <1>3, PTL DEF Spec

-----------------------------------------------------------------------------
(* The number that is reported, for every table of cells, every alphabet    *)
(* and any number of faults.  The argument: the key of the victim is the    *)
(* first of the cell's that a reset would undo, so a board that restarts    *)
(* either gets every one of them afterwards or is left in the arena cross,  *)
(* whose records are of three regions and fit no cell.                      *)

\* the register holds a key of the field, or one is still to be sent
InRegister(field) == rx # Nothing /\ Alphabet[rx].field = field
ToBeSent(field) == \E i \in todo : Alphabet[KeysOf(args)[i]].field = field

\* the board is in the arena cross and no key on its way takes it out
Forgotten == choice["victim"] = "infer" /\ ~InRegister("victim") /\ ~ToBeSent("victim")

\* one of the faults was a key the board never got
KeyLost == lost /\ faults < MaxFaults /\ (~intact => faults + 1 < MaxFaults)

OnItsWay == \A field \in Chosen :
  choice[field] = cell.filing[field] \/ InRegister(field) \/ ToBeSent(field)

SetAsTheCell ==
  /\ kept["stack_src"] = cell.filing["stack_src"]
  /\ \A field \in Chosen :
       choice[field] = cell.filing[field] \/ InRegister(field) \/ (field = "desc" /\ lost)

\* a board that is coming back is in the arena cross, and a pass begun since the last
\* key is of the choices there are
BoardInv ==
  /\ ~Up => choice["victim"] = "infer" /\ rx = Nothing
  /\ fresh => /\ pass = choice["victim"]
              /\ StressVictim(choice["victim"]) => applied.desc = choice["desc"]

FaultInv == /\ faults \in Nat /\ faults <= MaxFaults /\ lost \in BOOLEAN /\ intact \in BOOLEAN
            /\ ~intact => faults < MaxFaults

AfterArming == {"settling", "golden", "capturing", "golden again", "fitting", "reported"}

RowInv ==
  /\ stage = "idle" => cell = Nothing
  /\ cell # Nothing => cell \in Cells /\ KeysOf(args) = cell.keys
  /\ stage \in AfterArming => cell # Nothing

SendInv ==
  cell # Nothing =>
    /\ stage = "rest" => todo \subseteq OtherKeys(args) /\ (ToBeSent("victim") => todo = OtherKeys(args))
    /\ stage \in Past \ {"rest"} => todo = {}

ArmingInv ==
  cell # Nothing =>
    /\ stage \in {"rest", "confirm"} => Forgotten \/ KeyLost \/ OnItsWay
    /\ stage \in {"armed", "settling", "golden", "capturing"} => Forgotten \/ TwoFaults \/ SetAsTheCell

Interrupted == \E i \in DOMAIN segments : i > 1 /\ segments[i].restarted

\* one setup from end to end, unless the board restarted
CaptureInv ==
  /\ stage \in {"golden", "capturing"} => fresh /\ rx = Nothing
  /\ stage = "capturing" =>
       /\ IsSequence(segments) /\ segments # <<>>
       /\ Interrupted \/ segments = <<[setup |-> Setup, restarted |-> FALSE]>>

Right(setup) == \A field \in DOMAIN setup :
  setup[field] = cell.filing[field] \/ (field = "desc" /\ lost)

ResultInv ==
  /\ stage \in {"golden again", "fitting", "reported"} =>
       \/ Restarts # {} \/ WrongRegion # {} \/ TwoFaults
       \/ \A i \in DOMAIN segments : Right(segments[i].setup)
  /\ stage = "reported" =>
       image = before /\ (basis # "unmeasured" => Restarts = {} /\ WrongRegion = {})

CellInv == BoardInv /\ FaultInv /\ RowInv /\ SendInv /\ ArmingInv /\ CaptureInv /\ ResultInv

-----------------------------------------------------------------------------
(* The rows of the table. *)

\* Every field of a setup has a key in the row, and the key's value is the row's.
LEMMA RowKeys ==
  ASSUME NEW c \in Cells
  PROVE  /\ c.keys \in Seq(DOMAIN Alphabet)
         /\ \A i \in DOMAIN c.keys : Alphabet[c.keys[i]].field \in SetupFields =>
              Alphabet[c.keys[i]].value = c.filing[Alphabet[c.keys[i]].field]
         /\ \A field \in SetupFields : \E i \in DOMAIN c.keys :
              Alphabet[c.keys[i]].field = field /\ Alphabet[c.keys[i]].line # "none"
  <1>1. \A i \in DOMAIN c.keys : c.keys[i] \in DOMAIN Alphabet  BY CellsAssumption
  <1>2. ASSUME NEW i \in DOMAIN c.keys, Alphabet[c.keys[i]].field \in SetupFields
        PROVE  Alphabet[c.keys[i]].value = c.filing[Alphabet[c.keys[i]].field]
    <2>1. PICK j \in DOMAIN c.keys : /\ Alphabet[c.keys[j]].field = Alphabet[c.keys[i]].field
                                     /\ Alphabet[c.keys[j]].line # "none"
      BY <1>2, CellsAssumption
    <2>2. Alphabet[c.keys[i]].line # "none"  BY <1>1, <2>1, AlphabetAssumption
    <2> QED  BY <2>2, CellsAssumption
  <1> QED  BY <1>2, CellsAssumption

\* The key of the victim goes out before every other key that asks for no reset.
LEMMA VictimFirst ==
  ASSUME NEW c \in Cells
  PROVE  \E v \in DOMAIN c.keys :
           /\ DOMAIN c.keys \subseteq Nat
           /\ Alphabet[c.keys[v]].field = "victim"
           /\ \A j \in DOMAIN c.keys : Alphabet[c.keys[j]].field = "victim" => j = v
           /\ \A j \in DOMAIN c.keys : j < v => Alphabet[c.keys[j]].field \in Kept
  <1>1. DOMAIN c.keys \subseteq Nat  BY RowKeys
  <1>2. PICK v \in DOMAIN c.keys : \A j \in DOMAIN c.keys \ {v} :
          /\ Alphabet[c.keys[j]].field # "victim"
          /\ j < v => Alphabet[c.keys[j]].field \in Kept
    BY CellsAssumption
  <1>3. PICK w \in DOMAIN c.keys : Alphabet[c.keys[w]].field = "victim"
    BY RowKeys DEF SetupFields, Chosen
  <1>4. w = v  BY <1>2, <1>3
  <1>5. ~(v < v)  BY <1>1
  <1> QED  BY <1>1, <1>2, <1>3, <1>4, <1>5

LEMMA ChosenFields ==
  /\ \A field \in Chosen : field \notin Kept /\ field \in Volatile
  /\ "victim" \in Chosen /\ "desc" \in Chosen /\ "stack_src" \in Kept
  /\ Restrict(PowerOn, Volatile)["victim"] = "infer"
  <1>1. "victim" \in Volatile  BY BoardAssumption DEF Chosen
  <1>2. Restrict(PowerOn, Volatile)["victim"] = "infer"  BY <1>1, BoardAssumption DEF Restrict
  <1> QED  BY <1>2, BoardAssumption DEF Chosen, Volatile

-----------------------------------------------------------------------------
(* What a step may leave alone. *)

LEMMA FewerLeft ==
  ASSUME NEW a \in Nat, NEW b \in Nat, NEW m \in Nat, b <= a
  PROVE  (a < m => b < m) /\ (a + 1 < m => b + 1 < m)
  OBVIOUS

LEMMA ArmingQuiet ==
  ASSUME ArmingInv, FaultInv, faults' \in Nat, faults' <= faults,
         UNCHANGED <<kept, choice, rx, stage, args, todo, intact, lost, cell>>
  PROVE  ArmingInv'
  <1>0. /\ faults < MaxFaults => faults' < MaxFaults
        /\ faults + 1 < MaxFaults => faults' + 1 < MaxFaults
    <2>1. faults \in Nat /\ MaxFaults \in Nat  BY BoundsAssumption DEF FaultInv
    <2> QED  BY <2>1, FewerLeft
  <1>01. (~intact <=> ~intact') /\ (lost => lost')  OBVIOUS
  <1>1. (KeyLost => KeyLost') /\ (TwoFaults => TwoFaults')
    BY <1>0, <1>01, Zenon DEF KeyLost, TwoFaults
  <1>2. /\ Forgotten <=> Forgotten'
        /\ OnItsWay <=> OnItsWay'
        /\ SetAsTheCell <=> SetAsTheCell'
    BY DEF Forgotten, OnItsWay, SetAsTheCell, InRegister, ToBeSent
  <1> QED  BY <1>1, <1>2 DEF ArmingInv

LEMMA ResultQuiet ==
  ASSUME ResultInv, FaultInv, faults' \in Nat, faults' <= faults, ~intact => ~intact',
         UNCHANGED <<stage, lost, cell, segments, capture, basis>>,
         stage = "reported" => UNCHANGED <<image, before>>
  PROVE  ResultInv'
  <1>0. faults + 1 < MaxFaults => faults' + 1 < MaxFaults
    <2>1. faults \in Nat /\ MaxFaults \in Nat  BY BoundsAssumption DEF FaultInv
    <2> QED  BY <2>1, FewerLeft
  <1>01. (~intact => ~intact') /\ (lost => lost')  OBVIOUS
  <1>1. TwoFaults => TwoFaults'  BY <1>0, <1>01, Zenon DEF TwoFaults
  <1>2. Restarts' = Restarts /\ WrongRegion' = WrongRegion
    BY DEF Restarts, WrongRegion, AllRecords
  <1>3. \A setup : Right(setup) <=> Right(setup)'  BY DEF Right
  <1> QED  BY <1>1, <1>2, <1>3 DEF ResultInv

\* What the capture holds of a step of the board: the setup it holds already, or a restart.
LEMMA Observed ==
  ASSUME CaptureInv, NEW r \in BOOLEAN, Observe(r), stage = "capturing", r \/ Setup' = Setup
  PROVE  /\ IsSequence(segments') /\ segments' # <<>>
         /\ Interrupted' \/ segments' = <<[setup |-> Setup', restarted |-> FALSE]>>
  <1> DEFINE e == [setup |-> Setup', restarted |-> r]
  <1>1. IsSequence(segments) /\ segments # <<>>  BY DEF CaptureInv
  <1>2. /\ DOMAIN segments = 1..Len(segments) /\ Len(segments) \in Nat \ {0}
    BY <1>1, Behind
  <1>3. /\ IsSequence(Append(segments, e))
        /\ DOMAIN Append(segments, e) = 1..(Len(segments) + 1)
        /\ \A i \in 1..Len(segments) : Append(segments, e)[i] = segments[i]
        /\ Append(segments, e)[Len(segments) + 1] = e
    BY <1>1, Appended
  <1>4. segments' \in {segments, Append(segments, e)}  BY DEF Observe
  <1>5. r => segments' = Append(segments, e)  BY DEF Observe
  <1>6. e.restarted = r /\ e.setup = Setup'  OBVIOUS
  <1> HIDE DEF e
  <1>7. Append(segments, e) # <<>>
    <2>1. 1 \in DOMAIN Append(segments, e)  BY <1>2, <1>3
    <2> QED  BY <2>1, NoLines
  <1>8. CASE r
    <2>1. Len(segments) + 1 \in DOMAIN segments' /\ Len(segments) + 1 > 1
      BY <1>2, <1>3, <1>5, <1>8
    <2>2. segments'[Len(segments) + 1].restarted  BY <1>3, <1>5, <1>6, <1>8
    <2> QED  BY <1>3, <1>5, <1>7, <1>8, <2>1, <2>2 DEF Interrupted
  <1>9. CASE Interrupted
    <2>1. PICK i \in DOMAIN segments : i > 1 /\ segments[i].restarted  BY <1>9 DEF Interrupted
    <2>2. i \in DOMAIN segments' /\ segments'[i] = segments[i]  BY <1>2, <1>3, <1>4, <2>1
    <2> QED  BY <1>1, <1>3, <1>4, <1>7, <2>1, <2>2 DEF Interrupted
  <1>10. CASE ~r /\ segments = <<[setup |-> Setup, restarted |-> FALSE]>>
    <2>1. Len(segments) = 1 /\ segments[1].setup = Setup  BY <1>10
    <2>2. segments' = segments  BY <1>10, <2>1 DEF Observe
    <2> QED  BY <1>1, <1>10, <2>2
  <1> QED  BY <1>8, <1>9, <1>10 DEF CaptureInv

\* A thread that runs goes on running.
LEMMA UpStays == ASSUME GateInv, GateStep, Up PROVE Up'
  <1>1. thread \in [Waiters -> {"waiting", "holding", "running"}] /\ "export" \in Waiters
    BY PriorityAssumption DEF GateInv, GateType
  <1>2. ASSUME NEW t \in Waiters, TakeCount(t) PROVE Up'
    BY <1>1, <1>2 DEF TakeCount, Up, Running
  <1>3. ASSUME NEW t \in Waiters, PutBack(t) PROVE Up'
    BY <1>1, <1>3 DEF PutBack, Up, Running
  <1>4. CASE Release  BY <1>4 DEF Release, Up, Running
  <1> QED  BY <1>2, <1>3, <1>4 DEF GateStep

-----------------------------------------------------------------------------
(* The steps of the board. *)

LEMMA FaultsQuiet ==
  ASSUME FaultInv, faults' \in Nat, faults' <= faults, UNCHANGED <<lost, intact>>
  PROVE  FaultInv'
  <1>1. faults \in Nat /\ MaxFaults \in Nat /\ faults <= MaxFaults
    BY BoundsAssumption DEF FaultInv
  <1>2. faults' <= MaxFaults /\ (faults < MaxFaults => faults' < MaxFaults)  BY <1>1
  <1>3. intact => intact'  OBVIOUS
  <1>4. lost' \in BOOLEAN /\ intact' \in BOOLEAN  BY DEF FaultInv
  <1> QED  BY <1>2, <1>3, <1>4 DEF FaultInv

\* A step that changes nothing the capture is set up from.
LEMMA QuietKeepsCell ==
  ASSUME CellInv, faults' \in Nat, faults' <= faults, Up => Up',
         UNCHANGED <<kept, choice, pass, applied, fresh, rx, stage, args, todo, intact, lost, cell,
                     capture, basis>>,
         Observe(FALSE) \/ UNCHANGED segments,
         stage = "reported" => UNCHANGED <<image, before>>
  PROVE  CellInv'
  <1> USE DEF CellInv
  <1>1. BoardInv'  BY DEF BoardInv
  <1>2. FaultInv'  BY FaultsQuiet
  <1>3. RowInv'  BY DEF RowInv
  <1>4. SendInv'  BY DEF SendInv, ToBeSent
  <1>5. ArmingInv'  BY ArmingQuiet
  <1>6. Setup' = Setup  BY DEF Setup
  <1>7. CaptureInv'
    <2>1. stage = "capturing" =>
            /\ IsSequence(segments') /\ segments' # <<>>
            /\ Interrupted' \/ segments' = <<[setup |-> Setup', restarted |-> FALSE]>>
      <3>1. CASE Observe(FALSE)  BY <1>6, <3>1, Observed
      <3>2. CASE UNCHANGED segments  BY <1>6, <3>2 DEF CaptureInv, Interrupted
      <3> QED  BY <3>1, <3>2
    <2> QED  BY <2>1 DEF CaptureInv
  <1>8. ResultInv'
    <2>1. CASE stage = "capturing"  BY <2>1 DEF ResultInv
    <2>2. CASE stage # "capturing"
      <3>1. segments' = segments  BY <2>2 DEF Observe
      <3>2. ~intact => ~intact'  OBVIOUS
      <3> QED  BY <3>1, <3>2, ResultQuiet
    <2> QED  BY <2>1, <2>2
  <1> QED  BY <1>1, <1>2, <1>3, <1>4, <1>5, <1>7, <1>8

\* A pass begins: in a capture it is one more of the same.
LEMMA PassKeepsCell ==
  ASSUME CellInv, PassBegins, UNCHANGED rx, Observe(FALSE), ~Over,
         UNCHANGED <<writer, cell, image, before, capture, basis>>
  PROVE  CellInv'
  <1> USE DEF CellInv
  <1>0. /\ UNCHANGED <<kept, choice, gate, rx, faults, stage, args, todo, intact, lost>>
        /\ pass' = choice["victim"] /\ fresh' = TRUE
        /\ applied'.desc = (IF StressVictim(choice["victim"]) THEN choice["desc"] ELSE applied.desc)
    BY DEF PassBegins, writer
  <1>1. BoardInv'  BY <1>0 DEF BoardInv, Up, Running, gate
  <1>2. FaultInv'  BY <1>0, FaultsQuiet DEF FaultInv
  <1>3. RowInv'  BY <1>0 DEF RowInv
  <1>4. SendInv'  BY <1>0 DEF SendInv, ToBeSent
  <1>5. ArmingInv'
    <2>1. faults' \in Nat /\ faults' <= faults  BY <1>0 DEF FaultInv
    <2> QED  BY <1>0, <2>1, ArmingQuiet
  <1>6. ASSUME fresh PROVE Setup' = Setup
    <2>1. pass' = pass /\ applied'.desc = applied.desc  BY <1>0, <1>6 DEF BoardInv
    <2> QED  BY <1>0, <2>1 DEF Setup
  <1>7. CaptureInv'
    <2>1. stage = "capturing" =>
            /\ IsSequence(segments') /\ segments' # <<>>
            /\ Interrupted' \/ segments' = <<[setup |-> Setup', restarted |-> FALSE]>>
      BY <1>6, Observed DEF CaptureInv
    <2> QED  BY <1>0, <2>1 DEF CaptureInv
  <1>8. ResultInv'
    <2>1. CASE stage = "capturing"  BY <1>0, <2>1 DEF ResultInv
    <2>2. CASE stage # "capturing"
      <3>1. segments' = segments  BY <2>2 DEF Observe
      <3>2. (~intact => ~intact') /\ faults' \in Nat /\ faults' <= faults  BY <1>0 DEF FaultInv
      <3> QED  BY <1>0, <3>1, <3>2, ResultQuiet
    <2> QED  BY <2>1, <2>2
  <1> QED  BY <1>1, <1>2, <1>3, <1>4, <1>5, <1>7, <1>8


\* A board that resets comes back in the arena cross, and a pass is under way in it.
LEMMA ResetBoard ==
  ASSUME NEW selection, Reset(selection)
  PROVE  BoardInv' /\ rx' = Nothing /\ choice'["victim"] = "infer"
  <1>1. /\ rx' = Nothing /\ choice' = Restrict(PowerOn, Volatile) /\ pass' = "infer"
    BY DEF Reset
  <1>2. choice'["victim"] = "infer"  BY <1>1, ChosenFields
  <1> QED  BY <1>1, <1>2 DEF BoardInv, StressVictim

\* Where a row's key is stored, it is what the row is filed under.
LEMMA Stored ==
  ASSUME FieldsInv, RowInv, cell # Nothing, rx \in Keys(args),
         choice' = [choice EXCEPT ![Alphabet[rx].field] = Alphabet[rx].value],
         NEW field \in Chosen
  PROVE  /\ InRegister(field) => choice'[field] = cell.filing[field]
         /\ ~(Alphabet[rx].field = field) => choice'[field] = choice[field]
  <1>1. cell \in Cells /\ KeysOf(args) = cell.keys  BY DEF RowInv
  <1>2. PICK i \in DOMAIN cell.keys : rx = cell.keys[i]  BY <1>1 DEF Keys
  <1>3. field \in DOMAIN choice  BY ChosenFields DEF FieldsInv, HasFields
  <1>4. Alphabet[rx].field = field => Alphabet[rx].value = cell.filing[field]
    BY <1>1, <1>2, RowKeys DEF SetupFields
  <1> QED  BY <1>3, <1>4 DEF InRegister

\* The exporter handles a key.
LEMMA KeyKeepsCell ==
  ASSUME ConsoleInv, CellInv, HandleKey, Observe(FALSE), ~Over,
         UNCHANGED <<writer, cell, image, before, capture, basis>>
  PROVE  CellInv'
  <1> DEFINE entry == Alphabet[rx]
  <1> USE DEF CellInv
  <1>0. /\ rx # Nothing /\ Up /\ rx' = Nothing
        /\ UNCHANGED <<faults, stage, args, todo, intact, lost>>
    BY DEF HandleKey, Reset, writer
  <1>1. stage \notin {"golden", "capturing"}  BY <1>0 DEF CaptureInv
  <1>2. segments' = segments  BY <1>1 DEF Observe
  <1>3. FaultInv' /\ faults \in Nat /\ faults' <= faults  BY <1>0, FaultsQuiet DEF FaultInv
  <1>4. RowInv' /\ SendInv'  BY <1>0 DEF RowInv, SendInv, ToBeSent
  <1>5. CaptureInv'  BY <1>0, <1>1 DEF CaptureInv
  <1>6. ResultInv'
    <2>1. ~intact => ~intact'  BY <1>0
    <2> QED  BY <1>0, <1>2, <1>3, <2>1, ResultQuiet
  <1>7. BoardInv' /\ ArmingInv'
    <2>1. CASE AsksReset(entry)
      <3>1. BoardInv'  BY <2>1, ResetBoard DEF HandleKey
      <3>2. rx \in Keys(args) => ~Asks(args, kept)  BY <2>1, NotAsked
      <3>3. stage \notin Past  BY <1>0, <3>2 DEF ConsoleInv, PastInv
      <3>4. ArmingInv'  BY <1>0, <3>3 DEF ArmingInv, Past
      <3> QED  BY <3>1, <3>4
    <2>2. CASE ~AsksReset(entry) /\ entry.field \in Kept
      <3>1. UNCHANGED <<kept, choice, pass, applied, fresh, gate>>  BY <2>2 DEF HandleKey
      <3>2. BoardInv'  BY <1>0, <3>1 DEF BoardInv, Up, Running, gate
      <3>3. \A field \in Chosen : ~InRegister(field)  BY <2>2, ChosenFields DEF InRegister
      <3>4. /\ Forgotten => Forgotten'
            /\ OnItsWay => OnItsWay'
            /\ SetAsTheCell => SetAsTheCell'
        BY <1>0, <3>1, <3>3 DEF Forgotten, OnItsWay, SetAsTheCell, InRegister, ToBeSent
      <3>5. (KeyLost => KeyLost') /\ (TwoFaults => TwoFaults')
        BY <1>0, Zenon DEF KeyLost, TwoFaults
      <3> QED  BY <1>0, <3>2, <3>4, <3>5 DEF ArmingInv
    <2>3. CASE ~AsksReset(entry) /\ entry.field \notin Kept
      <3>1. /\ UNCHANGED <<kept, pass, applied, gate>> /\ fresh' = FALSE
            /\ choice' = [choice EXCEPT ![entry.field] = entry.value]
        BY <2>3 DEF HandleKey
      <3>2. BoardInv'  BY <1>0, <3>1 DEF BoardInv, Up, Running, gate
      <3>3. ASSUME cell # Nothing, stage \in {"rest", "confirm", "armed", "settling"}
            PROVE  /\ Forgotten => Forgotten'
                   /\ OnItsWay => OnItsWay'
                   /\ SetAsTheCell => SetAsTheCell'
        <4>1. FieldsInv /\ rx \in Keys(args)
          BY <1>0, <3>3 DEF ConsoleInv, PastInv, Past
        <4>2. \A field \in Chosen :
                /\ InRegister(field) => choice'[field] = cell.filing[field]
                /\ ~InRegister(field) => choice'[field] = choice[field]
          BY <1>0, <3>1, <3>3, <4>1, Stored DEF InRegister
        <4>3. \A field : ~InRegister(field)' /\ (ToBeSent(field) <=> ToBeSent(field)')
          BY <1>0 DEF InRegister, ToBeSent
        <4>4. Forgotten => Forgotten'  BY <4>2, <4>3, ChosenFields DEF Forgotten
        <4>5. OnItsWay => OnItsWay'  BY <1>0, <4>2, <4>3 DEF OnItsWay
        <4>6. SetAsTheCell => SetAsTheCell'
          BY <1>0, <3>1, <4>2, <4>3 DEF SetAsTheCell
        <4> QED  BY <4>4, <4>5, <4>6
      <3>4. (KeyLost => KeyLost') /\ (TwoFaults => TwoFaults')
        BY <1>0, Zenon DEF KeyLost, TwoFaults
      <3> QED  BY <1>0, <1>1, <3>2, <3>3, <3>4 DEF ArmingInv
    <2> QED  BY <2>1, <2>2, <2>3
  <1> QED  BY <1>3, <1>4, <1>5, <1>6, <1>7

\* The board restarts: the keys of the cell all come after it, or it stays in the arena cross.
LEMMA RestartKeepsCell ==
  ASSUME CellInv, BoardRestarts, Observe(TRUE), ~Over,
         UNCHANGED <<cell, image, before, capture, basis>>
  PROVE  CellInv'
  <1> USE DEF CellInv
  <1>0. /\ UNCHANGED <<stage, args, todo, lost>> /\ intact' = FALSE
        /\ faults > 0 /\ faults' = faults - 1
        /\ \E selection : Reset(selection)
    BY DEF BoardRestarts, Restart
  <1>1. BoardInv' /\ rx' = Nothing /\ choice'["victim"] = "infer"  BY <1>0, ResetBoard
  <1>2. FaultInv' /\ faults' \in Nat /\ faults' <= faults
    <2>1. faults \in Nat /\ MaxFaults \in Nat /\ faults <= MaxFaults /\ lost \in BOOLEAN
      BY BoundsAssumption DEF FaultInv
    <2>2. faults' \in Nat /\ faults' <= faults /\ faults' <= MaxFaults /\ faults' < MaxFaults
      BY <1>0, <2>1
    <2> QED  BY <1>0, <2>1, <2>2 DEF FaultInv
  <1>3. RowInv' /\ SendInv'  BY <1>0 DEF RowInv, SendInv, ToBeSent
  <1>4. ArmingInv'
    <2>1. \A field : ~InRegister(field)' /\ (ToBeSent(field) <=> ToBeSent(field)')
      BY <1>0, <1>1 DEF InRegister, ToBeSent
    <2>2. ~ToBeSent("victim") => Forgotten'  BY <1>1, <2>1 DEF Forgotten
    <2>3. ASSUME cell # Nothing, stage = "rest", ToBeSent("victim")
          PROVE  OnItsWay'
      <3>1. cell \in Cells /\ KeysOf(args) = cell.keys /\ todo = OtherKeys(args)
        BY <2>3 DEF RowInv, SendInv
      <3>2. ASSUME NEW field \in Chosen PROVE ToBeSent(field)
        <4>1. PICK i \in DOMAIN cell.keys : Alphabet[cell.keys[i]].field = field
          BY <3>1, RowKeys DEF SetupFields
        <4>2. i \in OtherKeys(args)
          BY <3>1, <4>1, ChosenFields DEF OtherKeys, ResetKeys, IsReset
        <4> QED  BY <3>1, <4>1, <4>2 DEF ToBeSent
      <3> QED  BY <2>1, <3>2 DEF OnItsWay
    <2>4. cell # Nothing /\ stage \in Past \ {"rest"} => ~ToBeSent("victim")
      BY DEF SendInv, ToBeSent
    <2> QED  BY <1>0, <2>2, <2>3, <2>4 DEF ArmingInv, Past
  <1>5. CaptureInv'
    <2>1. stage = "capturing" =>
            /\ IsSequence(segments') /\ segments' # <<>>
            /\ Interrupted' \/ segments' = <<[setup |-> Setup', restarted |-> FALSE]>>
      BY Observed
    <2>2. fresh'  BY <1>0 DEF Reset
    <2> QED  BY <1>0, <1>1, <2>1, <2>2 DEF CaptureInv
  <1>6. ResultInv'
    <2>1. CASE stage = "capturing"  BY <1>0, <2>1 DEF ResultInv
    <2>2. CASE stage # "capturing"
      <3>1. segments' = segments  BY <2>2 DEF Observe
      <3>2. ~intact => ~intact'  BY <1>0
      <3> QED  BY <1>0, <1>2, <3>1, <3>2, ResultQuiet
    <2> QED  BY <2>1, <2>2
  <1> QED  BY <1>1, <1>2, <1>3, <1>4, <1>5, <1>6

LEMMA BesideKeepsCell ==
  ASSUME GateInv, ConsoleInv, CellInv, BoardBeside
  PROVE  CellInv'
  <1>0. ~Over /\ UNCHANGED <<cell, image, before, capture, basis>>  BY DEF BoardBeside
  <1>1. CASE HandleKey /\ UNCHANGED writer /\ Observe(FALSE)  BY <1>0, <1>1, KeyKeepsCell
  <1>2. CASE PassBegins /\ UNCHANGED rx /\ UNCHANGED writer /\ Observe(FALSE)
    BY <1>0, <1>2, PassKeepsCell
  <1>3. ASSUME Measures \/ GoesWrong \/ UNCHANGED <<board, faults>> \/ BootStep,
               UNCHANGED rx, UNCHANGED writer, Observe(FALSE)
        PROVE  CellInv'
    <2>1. UNCHANGED <<kept, choice, pass, applied, fresh, rx, stage, args, todo, intact, lost>>
      BY <1>3 DEF Measures, GoesWrong, Measured, BootStep, writer, board
    <2>2. faults' \in Nat /\ faults' <= faults
      <3>1. faults \in Nat  BY DEF CellInv, FaultInv
      <3>2. faults' = faults \/ (faults > 0 /\ faults' = faults - 1)
        BY <1>3 DEF Measures, GoesWrong, BootStep
      <3> QED  BY <3>1, <3>2
    <2>3. Up => Up'
      <3>1. CASE UNCHANGED gate  BY <3>1 DEF Up, Running, gate
      <3>2. CASE BootStep  BY <3>2, UpStays DEF BootStep
      <3> QED  BY <1>3, <3>1, <3>2 DEF Measures, GoesWrong, Measured, board
    <2> QED  BY <1>0, <1>3, <2>1, <2>2, <2>3, QuietKeepsCell
  <1>4. CASE BoardRestarts /\ Observe(TRUE)  BY <1>0, <1>4, RestartKeepsCell
  <1>5. CASE (\E lines : Say(lines)) /\ UNCHANGED writer /\ Observe(FALSE)
    <2>1. /\ UNCHANGED rx
          /\ PassBegins \/ Measures \/ GoesWrong \/ UNCHANGED <<board, faults>>
      BY <1>5 DEF Say
    <2> QED  BY <1>2, <1>3, <1>5, <2>1
  <1>6. CASE (BeginPass \/ Iterate \/ MeasureGoesWrong) /\ UNCHANGED writer /\ Observe(FALSE)
    <2>1. UNCHANGED rx /\ (PassBegins \/ Measures \/ GoesWrong)
      BY <1>6 DEF BeginPass, Iterate, MeasureGoesWrong
    <2> QED  BY <1>2, <1>3, <1>6, <2>1
  <1>7. CASE BootStep /\ UNCHANGED writer /\ Observe(FALSE)
    BY <1>3, <1>7 DEF BootStep
  <1> QED  BY <1>1, <1>4, <1>5, <1>6, <1>7 DEF BoardBeside, BoardGoesOn


-----------------------------------------------------------------------------
(* The steps of the command. *)

\* What the command does beside the board.
LEMMA BoardBystands ==
  ASSUME CellInv, UNCHANGED <<board, rx, faults, lost, intact>>
  PROVE  /\ BoardInv' /\ FaultInv'
         /\ (TwoFaults <=> TwoFaults') /\ (KeyLost <=> KeyLost')
         /\ Setup' = Setup
  <1>1. BoardInv'  BY DEF CellInv, BoardInv, board, gate, Up, Running
  <1>2. faults' \in Nat /\ faults' <= faults  BY DEF CellInv, FaultInv
  <1>3. FaultInv'  BY <1>2, FaultsQuiet DEF CellInv
  <1>4. (TwoFaults <=> TwoFaults') /\ (KeyLost <=> KeyLost')  BY Zenon DEF TwoFaults, KeyLost
  <1>5. Setup' = Setup  BY DEF Setup, board
  <1> QED  BY <1>1, <1>3, <1>4, <1>5

LEMMA EndKeepsCell ==
  ASSUME CellInv, UNCHANGED <<board, rx, faults, lost, intact, args, cell>>,
         stage' \in {"refused", "failed"}
  PROVE  CellInv'
  <1>1. BoardInv' /\ FaultInv'  BY BoardBystands
  <1>2. RowInv'  BY DEF CellInv, RowInv, AfterArming
  <1>3. SendInv' /\ ArmingInv' /\ CaptureInv' /\ ResultInv'
    BY DEF SendInv, ArmingInv, CaptureInv, ResultInv, Past
  <1> QED  BY <1>1, <1>2, <1>3 DEF CellInv

\* Whatever is chosen has a key among those that ask for no reset.
LEMMA KeyForEach ==
  ASSUME NEW c \in Cells, NEW list, KeysOf(list) = c.keys, NEW field \in Chosen
  PROVE  \E i \in OtherKeys(list) : Alphabet[KeysOf(list)[i]].field = field
  <1>1. PICK i \in DOMAIN c.keys : Alphabet[c.keys[i]].field = field  BY RowKeys DEF SetupFields
  <1>2. i \in OtherKeys(list)  BY <1>1, ChosenFields DEF OtherKeys, ResetKeys, IsReset
  <1> QED  BY <1>1, <1>2

LEMMA CommandOfTheRow ==
  ASSUME NEW keys
  PROVE  KeysOf(<<[kind |-> "text", keys |-> keys], [kind |-> "allow"]>>) = keys
  <1> DEFINE list == <<[kind |-> "text", keys |-> keys], [kind |-> "allow"]>>
  <1>1. DOMAIN list = {1, 2} /\ list[1].kind = "text" /\ list[2].kind = "allow" /\ list[1].keys = keys
    OBVIOUS
  <1> HIDE DEF list
  <1>2. TextPlaces(list) = {1}  BY <1>1 DEF TextPlaces
  <1>3. (CHOOSE i \in TextPlaces(list) : TRUE) = 1  BY <1>2
  <1>4. KeysOf(list) = list[1].keys  BY <1>3 DEF KeysOf
  <1> QED  BY <1>1, <1>4 DEF list

LEMMA BeginKeepsCell ==
  ASSUME CellInv, NEW list, Begin(list),
         (cell' = cell) \/ (cell' \in Cells /\ KeysOf(list) = cell'.keys)
  PROVE  CellInv'
  <1> USE DEF CellInv
  <1>0. /\ stage = "idle" /\ cell = Nothing /\ UNCHANGED boardVars /\ args' = list
        /\ intact' = TRUE /\ lost' = FALSE
        /\ \/ stage' \in {"refused", "resets"}
           \/ stage' = "rest" /\ todo' = OtherKeys(list)
    BY DEF Begin, RowInv
  <1>1. BoardInv'  BY <1>0 DEF boardVars, BoardInv, board, gate, Up, Running
  <1>2. FaultInv'  BY <1>0 DEF boardVars, FaultInv
  <1>3. RowInv'  BY <1>0 DEF RowInv, AfterArming
  <1>4. SendInv'  BY <1>0 DEF SendInv, Past
  <1>5. ArmingInv'
    <2>1. ASSUME cell' # Nothing, stage' = "rest" PROVE OnItsWay'
      <3>1. cell' \in Cells /\ KeysOf(list) = cell'.keys  BY <1>0, <2>1
      <3>2. \A field \in Chosen : ToBeSent(field)'
        BY <1>0, <2>1, <3>1, KeyForEach DEF ToBeSent
      <3> QED  BY <3>2 DEF OnItsWay
    <2> QED  BY <1>0, <2>1 DEF ArmingInv
  <1>6. CaptureInv' /\ ResultInv'  BY <1>0 DEF CaptureInv, ResultInv
  <1> QED  BY <1>1, <1>2, <1>3, <1>4, <1>5, <1>6

LEMMA BeginCellKeepsCell ==
  ASSUME CellInv, BeginCell
  PROVE  CellInv'
  <1>1. PICK request \in Requests :
          LET found == Matching(request) IN
          IF Cardinality(found) # 1
          THEN stage' = "refused" /\ UNCHANGED <<boardVars, args, intact, lost, cell>>
          ELSE LET c == CHOOSE c \in found : TRUE IN
               /\ Begin(<<[kind |-> "text", keys |-> c.keys], [kind |-> "allow"]>>)
               /\ cell' = c
    BY DEF BeginCell, procedure
  <1> DEFINE found == Matching(request)
             c == CHOOSE c \in found : TRUE
  <1>2. CASE Cardinality(found) # 1
    BY <1>1, <1>2, EndKeepsCell DEF boardVars
  <1>3. CASE Cardinality(found) = 1
    <2>1. found # {}  BY <1>3, FS_EmptySet
    <2>2. c \in Cells  BY <2>1 DEF Matching
    <2>3. Begin(<<[kind |-> "text", keys |-> c.keys], [kind |-> "allow"]>>) /\ cell' = c
      BY <1>1, <1>3
    <2> QED  BY <2>2, <2>3, BeginKeepsCell, CommandOfTheRow
  <1> QED  BY <1>2, <1>3

\* A key goes out: the first of those that ask for no reset is the victim's.
LEMMA SendKeepsCell ==
  ASSUME ConsoleInv, CellInv, Send, UNCHANGED procedure
  PROVE  CellInv'
  <1> USE DEF CellInv
  <1>0. /\ stage \in Sending /\ UNCHANGED <<board, stage, args, intact, cell>>
    BY DEF Send, procedure
  <1>1. PICK i \in todo :
          /\ \A j \in todo : i <= j
          /\ todo' = todo \ {i}
          /\ \/ Up /\ rx = Nothing /\ rx' = KeysOf(args)[i] /\ UNCHANGED <<faults, lost>>
             \/ ~Up /\ lost' = TRUE /\ UNCHANGED <<rx, faults>>
             \/ faults > 0 /\ faults' = faults - 1 /\ lost' = TRUE /\ UNCHANGED rx
    BY DEF Send
  <1>2. BoardInv'  BY <1>0, <1>1 DEF BoardInv, board, gate, Up, Running
  <1>3. FaultInv'
    <2>1. faults \in Nat /\ MaxFaults \in Nat /\ faults <= MaxFaults /\ (~intact => faults < MaxFaults)
      BY BoundsAssumption DEF FaultInv
    <2>2. faults' \in Nat /\ faults' <= MaxFaults /\ (faults < MaxFaults => faults' < MaxFaults)
      BY <1>1, <2>1
    <2>3. lost' \in BOOLEAN /\ intact' \in BOOLEAN  BY <1>0, <1>1 DEF FaultInv
    <2>4. ~intact' => ~intact  BY <1>0
    <2> QED  BY <2>1, <2>2, <2>3, <2>4 DEF FaultInv
  <1>4. RowInv'  BY <1>0 DEF RowInv
  <1>5. CaptureInv' /\ ResultInv'  BY <1>0 DEF CaptureInv, ResultInv, Sending
  <1>6. CASE cell = Nothing \/ stage # "rest"
    BY <1>0, <1>2, <1>3, <1>4, <1>5, <1>6 DEF SendInv, ArmingInv, Sending, Past
  <1>7. CASE cell # Nothing /\ stage = "rest"
    <2>1. /\ cell \in Cells /\ KeysOf(args) = cell.keys
          /\ todo \subseteq OtherKeys(args) /\ (ToBeSent("victim") => todo = OtherKeys(args))
      BY <1>7 DEF RowInv, SendInv
    <2>2. PICK v \in DOMAIN cell.keys :
            /\ DOMAIN cell.keys \subseteq Nat
            /\ Alphabet[cell.keys[v]].field = "victim"
            /\ \A j \in DOMAIN cell.keys : Alphabet[cell.keys[j]].field = "victim" => j = v
            /\ \A j \in DOMAIN cell.keys : j < v => Alphabet[cell.keys[j]].field \in Kept
      BY <2>1, VictimFirst
    <2>3. \A j \in OtherKeys(args) : j \in DOMAIN cell.keys /\ Alphabet[cell.keys[j]].field \notin Kept
      BY <2>1 DEF OtherKeys, ResetKeys, IsReset
    <2>4. ToBeSent("victim") <=> v \in todo  BY <2>1, <2>2, <2>3 DEF ToBeSent
    <2>5. v \in todo => i = v
      <3> SUFFICES ASSUME v \in todo PROVE i = v  OBVIOUS
      <3>1. i <= v /\ ~(i < v) /\ i \in Nat /\ v \in Nat  BY <1>1, <2>1, <2>2, <2>3
      <3> QED  BY <3>1
    <2>6. ~ToBeSent("victim")'  BY <1>0, <1>1, <2>1, <2>2, <2>3, <2>5 DEF ToBeSent
    <2>7. SendInv'  BY <1>0, <1>1, <1>7, <2>1, <2>6 DEF SendInv
    <2>8. CASE Up /\ rx = Nothing /\ rx' = KeysOf(args)[i] /\ UNCHANGED <<faults, lost>>
      <3>0. rx' # Nothing
        BY <1>1, <2>1, <2>3, <2>8, RowKeys, NothingAssumption
      <3>1. Forgotten => Forgotten'
        <4> SUFFICES ASSUME Forgotten PROVE Forgotten'  OBVIOUS
        <4>1. Alphabet[KeysOf(args)[i]].field # "victim"  BY <1>1 DEF Forgotten, ToBeSent
        <4> QED  BY <1>0, <2>6, <2>8, <4>1 DEF Forgotten, InRegister, board
      <3>2. OnItsWay => OnItsWay'
        <4> SUFFICES ASSUME OnItsWay, NEW field \in Chosen
                     PROVE  choice[field] = cell.filing[field] \/ InRegister(field)' \/ ToBeSent(field)'
          BY <1>0 DEF OnItsWay, board
        <4>1. ~InRegister(field)  BY <2>8 DEF InRegister
        <4>2. CASE ToBeSent(field)
          <5>1. PICK j \in todo : Alphabet[KeysOf(args)[j]].field = field  BY <4>2 DEF ToBeSent
          <5>2. CASE j = i  BY <2>8, <3>0, <5>1, <5>2 DEF InRegister
          <5>3. CASE j # i  BY <1>0, <1>1, <5>1, <5>3 DEF ToBeSent
          <5> QED  BY <5>2, <5>3
        <4> QED  BY <4>1, <4>2 DEF OnItsWay
      <3>3. KeyLost => KeyLost'  BY <1>0, <2>8, Zenon DEF KeyLost
      <3>4. ArmingInv'  BY <1>0, <1>7, <3>1, <3>2, <3>3 DEF ArmingInv
      <3> QED  BY <1>2, <1>3, <1>4, <1>5, <2>7, <3>4
    <2>9. CASE ~Up /\ lost' = TRUE /\ UNCHANGED <<rx, faults>>
      <3>1. Forgotten'  BY <1>0, <2>6, <2>9 DEF BoardInv, Forgotten, InRegister, board
      <3>2. ArmingInv'  BY <1>0, <1>7, <3>1 DEF ArmingInv
      <3> QED  BY <1>2, <1>3, <1>4, <1>5, <2>7, <3>2
    <2>10. CASE faults > 0 /\ faults' = faults - 1 /\ lost' = TRUE /\ UNCHANGED rx
      <3>1. faults \in Nat /\ MaxFaults \in Nat /\ faults <= MaxFaults /\ (~intact => faults < MaxFaults)
        BY BoundsAssumption DEF FaultInv
      <3>2. faults' < MaxFaults /\ (faults < MaxFaults => faults' + 1 < MaxFaults)  BY <2>10, <3>1
      <3>3. ~intact' => ~intact  BY <1>0
      <3>4. KeyLost'  BY <2>10, <3>1, <3>2, <3>3, Zenon DEF KeyLost
      <3>5. ArmingInv'  BY <1>0, <1>7, <3>4 DEF ArmingInv
      <3> QED  BY <1>2, <1>3, <1>4, <1>5, <2>7, <3>5
    <2> QED  BY <1>1, <2>8, <2>9, <2>10
  <1> QED  BY <1>0, <1>6, <1>7


LEMMA SentKeepsCell ==
  ASSUME CellInv, Sent, UNCHANGED procedure
  PROVE  CellInv'
  <1> USE DEF CellInv
  <1>0. /\ todo = {} /\ UNCHANGED <<board, rx, faults, lost, intact, args, todo, cell>>
        /\ \/ stage = "resets" /\ stage' = "page"
           \/ stage = "rest" /\ stage' = "confirm"
    BY DEF Sent, Sending, boardVars, procedure
  <1>1. BoardInv' /\ FaultInv' /\ (KeyLost <=> KeyLost')  BY <1>0, BoardBystands
  <1>2. RowInv'  BY <1>0 DEF RowInv, AfterArming
  <1>3. SendInv'  BY <1>0 DEF SendInv, Past
  <1>4. ArmingInv'
    <2>1. (Forgotten => Forgotten') /\ (OnItsWay => OnItsWay')
      BY <1>0 DEF Forgotten, OnItsWay, InRegister, ToBeSent, board
    <2> QED  BY <1>0, <1>1, <2>1 DEF ArmingInv
  <1>5. CaptureInv' /\ ResultInv'  BY <1>0 DEF CaptureInv, ResultInv
  <1> QED  BY <1>1, <1>2, <1>3, <1>4, <1>5

\* A confirmed board is set as the cell, or it was left in the arena cross, or two faults
\* have made an old line look like an answer.
LEMMA ReadKeepsCell ==
  ASSUME ConsoleInv, ConsoleInv', CellInv, ReadLine, UNCHANGED procedure
  PROVE  CellInv'
  <1> USE DEF CellInv
  <1>0. /\ stage \in Confirming /\ UNCHANGED <<board, rx, faults, lost, intact, args, cell>>
    BY DEF ReadLine, procedure
  <1>1. /\ BoardInv' /\ FaultInv' /\ (KeyLost <=> KeyLost') /\ (TwoFaults <=> TwoFaults')
    BY <1>0, BoardBystands
  <1>2. CASE UNCHANGED <<stage, todo>>
    <2>1. RowInv' /\ SendInv'  BY <1>0, <1>2 DEF RowInv, SendInv, ToBeSent
    <2>2. (Forgotten => Forgotten') /\ (OnItsWay => OnItsWay')
      BY <1>0, <1>2 DEF Forgotten, OnItsWay, InRegister, ToBeSent, board
    <2>3. ArmingInv'  BY <1>0, <1>1, <1>2, <2>2 DEF ArmingInv, Confirming
    <2>4. CaptureInv' /\ ResultInv'  BY <1>0, <1>2 DEF CaptureInv, ResultInv, Confirming
    <2> QED  BY <1>1, <2>1, <2>3, <2>4
  <1>3. CASE stage = "page" /\ stage' = "rest" /\ todo' = OtherKeys(args)
    <2>1. RowInv'  BY <1>0, <1>3 DEF RowInv, AfterArming
    <2>2. SendInv'  BY <1>0, <1>3 DEF SendInv, Past
    <2>3. cell # Nothing => OnItsWay'
      <3>1. ASSUME cell # Nothing, NEW field \in Chosen PROVE ToBeSent(field)'
        <4>1. cell \in Cells /\ KeysOf(args) = cell.keys  BY <3>1 DEF RowInv
        <4> QED  BY <1>0, <1>3, <4>1, KeyForEach DEF ToBeSent
      <3> QED  BY <1>0, <3>1 DEF OnItsWay
    <2>4. ArmingInv'  BY <1>0, <1>3, <2>3 DEF ArmingInv
    <2>5. CaptureInv' /\ ResultInv'  BY <1>3 DEF CaptureInv, ResultInv
    <2> QED  BY <1>1, <2>1, <2>2, <2>4, <2>5
  <1>4. CASE stage = "confirm" /\ stage' = "armed" /\ todo' = todo
    <2>1. RowInv'  BY <1>0, <1>4 DEF RowInv, AfterArming
    <2>2. SendInv'  BY <1>0, <1>4 DEF SendInv, Past
    <2>3. ASSUME cell # Nothing PROVE Forgotten' \/ TwoFaults' \/ SetAsTheCell'
      <3>1. cell \in Cells /\ KeysOf(args) = cell.keys /\ todo = {}
        BY <1>4, <2>3 DEF RowInv, SendInv, Past
      <3>2. kept["stack_src"] = cell.filing["stack_src"]
        <4>1. Asks(args, kept)  BY <1>4 DEF ConsoleInv, LinesInv, Settled
        <4>2. PICK i \in DOMAIN cell.keys : Alphabet[cell.keys[i]].field = "stack_src"
          BY <3>1, RowKeys DEF SetupFields
        <4>3. IsReset(cell.keys[i]) /\ cell.keys[i] \in Keys(args)
          BY <3>1, <4>2, ChosenFields DEF IsReset, Keys
        <4>4. kept["stack_src"] = Alphabet[cell.keys[i]].value  BY <4>1, <4>2, <4>3 DEF Asks
        <4> QED  BY <3>1, <4>2, <4>4, RowKeys DEF SetupFields
      <3>3. CASE Forgotten
        BY <1>0, <1>4, <3>3 DEF Forgotten, InRegister, ToBeSent, board
      <3>4. CASE OnItsWay
        <4>1. \A field : ~ToBeSent(field)  BY <3>1 DEF ToBeSent
        <4> QED  BY <1>0, <3>2, <3>4, <4>1 DEF OnItsWay, SetAsTheCell, InRegister, board
      <3>5. CASE KeyLost /\ intact
        <4>1. \A k \in Wanted(Keys(args)) :
                Alphabet[k].field # "desc" => SetTo(kept, choice, Alphabet[k].field) = Alphabet[k].value
          BY <1>0, <1>4, <3>5 DEF ConsoleInv, PastInv, board
        <4>2. ASSUME NEW field \in Chosen, field # "desc" PROVE choice[field] = cell.filing[field]
          <5>1. PICK i \in DOMAIN cell.keys : /\ Alphabet[cell.keys[i]].field = field
                                              /\ Alphabet[cell.keys[i]].line # "none"
            BY <3>1, RowKeys DEF SetupFields
          <5>2. cell.keys[i] \in Wanted(Keys(args))  BY <3>1, <5>1 DEF Wanted, Keys
          <5>3. Alphabet[cell.keys[i]].value = cell.filing[field]
            BY <3>1, <5>1, RowKeys DEF SetupFields
          <5>4. SetTo(kept, choice, field) = Alphabet[cell.keys[i]].value  BY <4>1, <4>2, <5>1, <5>2
          <5> QED  BY <4>2, <5>3, <5>4, ChosenFields DEF SetTo
        <4>3. lost'  BY <1>0, <3>5, Zenon DEF KeyLost
        <4> QED  BY <1>0, <3>2, <4>2, <4>3 DEF SetAsTheCell, InRegister, board
      <3>6. CASE KeyLost /\ ~intact  BY <1>1, <3>6, Zenon DEF KeyLost, TwoFaults
      <3> QED  BY <1>4, <2>3, <3>3, <3>4, <3>5, <3>6 DEF ArmingInv
    <2>4. ArmingInv'  BY <1>0, <1>4, <2>3 DEF ArmingInv
    <2>5. CaptureInv' /\ ResultInv'  BY <1>4 DEF CaptureInv, ResultInv
    <2> QED  BY <1>1, <2>1, <2>2, <2>4, <2>5
  <1> QED  BY <1>0, <1>2, <1>3, <1>4 DEF ReadLine, Confirming

\* From the armed board to the capture nothing it is set to changes.
LEMMA LaterKeepsCell ==
  ASSUME CellInv, UNCHANGED <<board, rx, faults, lost, intact, args, todo, cell>>,
         \/ stage = "armed" /\ cell # Nothing /\ stage' = "settling"
         \/ stage = "settling" /\ fresh /\ rx = Nothing /\ stage' = "golden"
         \/ stage = "golden" /\ stage' = "golden"
         \/ stage = "golden" /\ stage' = "capturing" /\ segments' = <<[setup |-> Setup, restarted |-> FALSE]>>
  PROVE  CellInv'
  <1> USE DEF CellInv
  <1>1. BoardInv' /\ FaultInv' /\ (TwoFaults <=> TwoFaults') /\ Setup' = Setup  BY BoardBystands
  <1>2. RowInv'  BY DEF RowInv, AfterArming
  <1>3. SendInv'  BY DEF SendInv, Past
  <1>4. ArmingInv'
    <2>1. (Forgotten => Forgotten') /\ (SetAsTheCell => SetAsTheCell')
      BY DEF Forgotten, SetAsTheCell, InRegister, ToBeSent, board
    <2> QED  BY <1>1, <2>1 DEF ArmingInv
  <1>5. CaptureInv'
    <2>1. stage' \in {"golden", "capturing"} => fresh' /\ rx' = Nothing
      BY DEF CaptureInv, board
    <2>2. ASSUME stage' = "capturing"
          PROVE  IsSequence(segments') /\ segments' # <<>>
                   /\ segments' = <<[setup |-> Setup', restarted |-> FALSE]>>
      <3> DEFINE s == <<[setup |-> Setup, restarted |-> FALSE]>>
      <3>1. segments' = s  BY <2>2
      <3>2. s \in Seq({[setup |-> Setup, restarted |-> FALSE]}) /\ s # <<>>  OBVIOUS
      <3> HIDE DEF s
      <3>3. IsSequence(s) /\ s # <<>>  BY <3>2 DEF IsSequence
      <3> QED  BY <1>1, <3>1, <3>3 DEF s
    <2> QED  BY <2>1, <2>2 DEF CaptureInv
  <1>6. ResultInv'  BY DEF ResultInv
  <1> QED  BY <1>1, <1>2, <1>3, <1>4, <1>5, <1>6


\* The records of the arena cross are of three regions, and one of them is not the cell's.
LEMMA CrossIsSeen ==
  ASSUME NEW setup, setup.victim = "infer", NEW region
  PROVE  \E r \in RecordsOf(setup) : r.point > 0 /\ r.region # region
  <1>1. RecordsOf(setup) = {[point |-> 0, region |-> 0]} \cup [point : 0 .. 3, region : 1 .. 3]
    BY DEF RecordsOf
  <1>2. \A r \in 1 .. 3 : [point |-> 1, region |-> r] \in [point : 0 .. 3, region : 1 .. 3]
    OBVIOUS
  <1>3. CASE region = 1
    <2>1. [point |-> 1, region |-> 2] \in RecordsOf(setup)  BY <1>1, <1>2
    <2> QED  BY <1>3, <2>1
  <1>4. CASE region # 1
    <2>1. [point |-> 1, region |-> 1] \in RecordsOf(setup)  BY <1>1, <1>2
    <2> QED  BY <1>4, <2>1
  <1> QED  BY <1>3, <1>4

\* A capture of one setup, taken outside the arena cross, is of the cell.
LEMMA SetupIsRight ==
  ASSUME CellInv, stage = "capturing", pass # "infer"
  PROVE  TwoFaults \/ Right(Setup)
  <1>1. /\ cell # Nothing /\ fresh /\ rx = Nothing
        /\ pass = choice["victim"]
        /\ StressVictim(choice["victim"]) => applied.desc = choice["desc"]
    BY DEF CellInv, RowInv, AfterArming, CaptureInv, BoardInv
  <1>2. applied.desc = choice["desc"]  BY <1>1 DEF StressVictim
  <1>3. ~Forgotten /\ \A field : ~InRegister(field)  BY <1>1 DEF Forgotten, InRegister
  <1>4. TwoFaults \/ SetAsTheCell  BY <1>1, <1>3 DEF CellInv, ArmingInv
  <1>5. ASSUME SetAsTheCell PROVE Right(Setup)
    <2>1. /\ choice["victim"] = cell.filing["victim"]
          /\ choice["sweep"] = cell.filing["sweep"]
          /\ choice["region"] = cell.filing["region"]
          /\ choice["desc"] = cell.filing["desc"] \/ lost
          /\ choice["arena"] = cell.filing["arena"]
          /\ choice["m2m"] = cell.filing["m2m"]
          /\ kept["stack_src"] = cell.filing["stack_src"]
      BY <1>3, <1>5 DEF SetAsTheCell, Chosen
    <2>2. DOMAIN Setup = {"victim", "sweep", "region", "desc", "arena", "m2m", "stack_src"}
      BY DEF Setup
    <2> SUFFICES ASSUME NEW field \in DOMAIN Setup
                 PROVE  Setup[field] = cell.filing[field] \/ (field = "desc" /\ lost)
      BY DEF Right
    <2>3. CASE field = "victim"  BY <1>1, <2>1, <2>3 DEF Setup
    <2>4. CASE field = "desc"  BY <1>2, <2>1, <2>4 DEF Setup
    <2>5. CASE field \notin {"victim", "desc"}  BY <2>1, <2>2, <2>5 DEF Setup
    <2> QED  BY <2>3, <2>4, <2>5
  <1> QED  BY <1>4, <1>5

\* The capture ends: a restart inside it shows, and so does the arena cross.
LEMMA EndCaptureKeepsCell ==
  ASSUME CellInv, EndCapture
  PROVE  CellInv'
  <1> USE DEF CellInv
  <1>0. /\ stage = "capturing" /\ stage' = "golden again"
        /\ UNCHANGED <<board, rx, faults, args, todo, intact, lost, cell, segments>>
    BY DEF EndCapture
  <1>1. PICK content :
          /\ \A i \in DOMAIN segments : content[i] \in Holds(segments[i].setup, Len(segments) = 1)
          /\ capture' = [i \in DOMAIN segments |->
                           [records |-> content[i], restarted |-> segments[i].restarted]]
    BY DEF EndCapture
  <1>2. BoardInv' /\ FaultInv' /\ (TwoFaults <=> TwoFaults')  BY <1>0, BoardBystands
  <1>3. RowInv'  BY <1>0 DEF RowInv, AfterArming
  <1>4. SendInv'  BY <1>0 DEF SendInv, Past
  <1>5. ArmingInv' /\ CaptureInv'  BY <1>0 DEF ArmingInv, CaptureInv
  <1>6. ResultInv'
    <2>1. CASE Interrupted
      <3>1. PICK i \in DOMAIN segments : i > 1 /\ segments[i].restarted  BY <2>1 DEF Interrupted
      <3>2. i \in DOMAIN capture' /\ capture'[i].restarted  BY <1>1, <3>1
      <3>3. i \in Restarts'  BY <3>1, <3>2 DEF Restarts
      <3> QED  BY <1>0, <3>3 DEF ResultInv
    <2>2. CASE segments = <<[setup |-> Setup, restarted |-> FALSE]>>
      <3>1. DOMAIN segments = {1} /\ segments[1].setup = Setup /\ Len(segments) = 1  BY <2>2
      <3>2. content[1] = RecordsOf(Setup)  BY <1>1, <3>1 DEF Holds
      <3>3. 1 \in DOMAIN capture' /\ capture'[1].records = RecordsOf(Setup)  BY <1>1, <3>1, <3>2
      <3>4. CASE pass = "infer"
        <4>1. Setup.victim = "infer"  BY <3>4 DEF Setup
        <4>2. PICK r \in RecordsOf(Setup) : r.point > 0 /\ r.region # cell.region
          BY <4>1, CrossIsSeen
        <4>3. r \in WrongRegion'  BY <1>0, <3>3, <4>2 DEF WrongRegion, AllRecords
        <4> QED  BY <1>0, <4>3 DEF ResultInv
      <3>5. CASE pass # "infer"
        <4>1. TwoFaults \/ Right(Setup)  BY <1>0, <3>5, SetupIsRight
        <4>2. Right(Setup) => (\A i \in DOMAIN segments : Right(segments[i].setup))'
          BY <1>0, <3>1 DEF Right
        <4> QED  BY <1>0, <1>2, <4>1, <4>2 DEF ResultInv
      <3> QED  BY <3>4, <3>5
    <2> QED  BY <1>0, <2>1, <2>2 DEF CaptureInv
  <1> QED  BY <1>2, <1>3, <1>4, <1>5, <1>6

\* What follows the capture looks at it and at the image, and changes neither.
LEMMA AfterKeepsCell ==
  ASSUME CellInv,
         UNCHANGED <<board, rx, faults, args, todo, intact, lost, cell, segments, capture>>,
         \/ stage = "golden again" /\ stage' \in {"golden again", "fitting"}
         \/ Report /\ stage' = "reported"
  PROVE  CellInv'
  <1> USE DEF CellInv
  <1>1. BoardInv' /\ FaultInv' /\ (TwoFaults <=> TwoFaults')  BY BoardBystands
  <1>2. RowInv'  BY DEF RowInv, AfterArming, Report
  <1>3. SendInv'  BY DEF SendInv, Past, Report
  <1>4. ArmingInv' /\ CaptureInv'  BY DEF ArmingInv, CaptureInv
  <1>5. ResultInv'
    <2>1. Restarts' = Restarts /\ WrongRegion' = WrongRegion
      BY DEF Restarts, WrongRegion, AllRecords
    <2>2. (\A i \in DOMAIN segments : Right(segments[i].setup))
            => (\A i \in DOMAIN segments : Right(segments[i].setup))'
      BY DEF Right
    <2>3. Report /\ stage' = "reported" =>
            image' = before' /\ (basis' # "unmeasured" => Restarts = {} /\ WrongRegion = {})
      BY DEF Report, BasisOf, image_hash
    <2> QED  BY <1>1, <2>1, <2>2, <2>3 DEF ResultInv, Report
  <1> QED  BY <1>1, <1>2, <1>3, <1>4, <1>5

LEMMA InitCellInv == ASSUME Init PROVE CellInv
  <1>0. /\ stage = "idle" /\ rx = Nothing /\ faults = MaxFaults /\ cell = Nothing
        /\ intact = TRUE /\ lost = FALSE
    BY DEF Init, WriterInit, BoardInit
  <1>1. BoardInv
    <2>1. CASE choice = Restrict(PowerOn, Volatile) /\ pass = "infer"
      BY <1>0, <2>1, ChosenFields DEF BoardInv, StressVictim
    <2>2. CASE AllRunning /\ fresh = FALSE
      BY <2>2, PriorityAssumption DEF BoardInv, AllRunning, Up, Running
    <2> QED  BY <2>1, <2>2 DEF Init, WriterInit, BoardInit
  <1>2. FaultInv
    <2>1. faults \in Nat /\ faults <= MaxFaults  BY <1>0, BoundsAssumption
    <2> QED  BY <1>0, <2>1 DEF FaultInv
  <1>3. RowInv /\ SendInv /\ ArmingInv /\ CaptureInv /\ ResultInv
    BY <1>0 DEF RowInv, AfterArming, SendInv, ArmingInv, CaptureInv, ResultInv
  <1> QED  BY <1>1, <1>2, <1>3 DEF CellInv

LEMMA NextKeepsCell ==
  ASSUME GateInv, ConsoleInv, ConsoleInv', CellInv, [Next]_allVars
  PROVE  CellInv'
  <1>0. faults \in Nat  BY DEF CellInv, FaultInv
  <1>1. CASE BoardBeside  BY <1>1, BesideKeepsCell
  <1>2. CASE Rebuild \/ UNCHANGED allVars
    <2>1. /\ UNCHANGED <<board, rx, stage, args, todo, intact, lost, cell, before, segments, capture, basis>>
          /\ stage = "reported" => UNCHANGED image
      BY <1>2 DEF Rebuild, Over, allVars, vars, boardVars, writer, procedure
    <2>2. faults' \in Nat /\ faults' <= faults
      <3>1. faults' = faults \/ (faults > 0 /\ faults' = faults - 1)
        BY <1>2 DEF Rebuild, allVars, vars, boardVars
      <3> QED  BY <1>0, <3>1
    <2>3. Up => Up'  BY <2>1 DEF board, gate, Up, Running
    <2> QED  BY <2>1, <2>2, <2>3, QuietKeepsCell DEF board
  <1>3. CASE ArmingStep
    <2>1. UNCHANGED procedure  BY <1>3 DEF ArmingStep
    <2>2. CASE \E list \in Commands : Begin(list)  BY <2>1, <2>2, BeginKeepsCell DEF procedure
    <2>3. CASE Send  BY <2>1, <2>3, SendKeepsCell
    <2>4. CASE Sent  BY <2>1, <2>4, SentKeepsCell
    <2>5. CASE ReadLine  BY <2>1, <2>5, ReadKeepsCell
    <2>6. CASE GiveUp  BY <2>1, <2>6, EndKeepsCell DEF GiveUp, boardVars, procedure
    <2> QED  BY <1>3, <2>2, <2>3, <2>4, <2>5, <2>6 DEF ArmingStep
  <1>4. CASE BeginCell  BY <1>4, BeginCellKeepsCell
  <1>5. CASE CheckVictim
    <2>1. /\ stage = "armed" /\ cell # Nothing /\ stage' \in {"settling", "failed"}
          /\ UNCHANGED <<board, rx, faults, lost, intact, args, todo, cell>>
      BY <1>5 DEF CheckVictim, boardVars, procedure
    <2> QED  BY <2>1, EndKeepsCell, LaterKeepsCell
  <1>6. CASE Settle  BY <1>6, LaterKeepsCell DEF Settle, procedure
  <1>7. CASE ReadGolden
    <2>1. UNCHANGED <<board, rx, faults, lost, intact, args, todo, cell, capture>>
      BY <1>7 DEF ReadGolden
    <2>2. CASE stage = "golden"
      BY <1>7, <2>1, <2>2, LaterKeepsCell DEF ReadGolden
    <2>3. CASE stage = "golden again"
      BY <1>7, <2>1, <2>3, AfterKeepsCell DEF ReadGolden
    <2> QED  BY <1>7, <2>2, <2>3 DEF ReadGolden
  <1>8. CASE EndCapture  BY <1>8, EndCaptureKeepsCell
  <1>9. CASE Report
    <2>1. /\ stage' \in {"reported", "failed"}
          /\ UNCHANGED <<board, rx, faults, lost, intact, args, todo, cell, segments, capture>>
      BY <1>9 DEF Report, boardVars
    <2> QED  BY <1>9, <2>1, EndKeepsCell, AfterKeepsCell
  <1>10. CASE GiveUpLater
    BY <1>10, EndKeepsCell DEF GiveUpLater, boardVars, procedure
  <1> QED
    BY <1>1, <1>2, <1>3, <1>4, <1>5, <1>6, <1>7, <1>8, <1>9, <1>10 DEF Next, ProcedureStep

\* A number that claims to say anything comes from a capture the board took set up as the cell
\* says, of the image the command began with, for every table of cells, every board an earlier
\* command left behind and any number of faults, unless two of them were a restart and a lost
\* key of the same command (characterise.rs:370-420, 484-496).
THEOREM NumberIsOfTheCell == Spec => []ReportedIsTheCell
  <1>1. Init => GateInv /\ ConsoleInv /\ CellInv
    BY AtResetInv, AllRunningInv, InitConsoleInv, InitCellInv DEF Init, WriterInit, BoardInit
  <1>2. GateInv /\ ConsoleInv /\ CellInv /\ [Next]_allVars => (GateInv /\ ConsoleInv /\ CellInv)'
    <2> SUFFICES ASSUME GateInv, ConsoleInv, CellInv, [Next]_allVars
                 PROVE  (GateInv /\ ConsoleInv /\ CellInv)'
      OBVIOUS
    <2>1. GateInv'  BY GateMoves, GateStepInv, GateResetInv, GateStays
    <2>2. ConsoleInv'  BY NextKeeps
    <2>3. CellInv'  BY <2>2, NextKeepsCell
    <2> QED  BY <2>1, <2>2, <2>3
  <1>3. CellInv => ReportedIsTheCell
    <2> SUFFICES ASSUME CellInv, stage = "reported", basis # "unmeasured", ~TwoFaults
                 PROVE  /\ image = before
                        /\ \A i \in DOMAIN segments : Right(segments[i].setup)
      BY DEF ReportedIsTheCell, Right
    <2> QED  BY DEF CellInv, ResultInv
  <1> QED  BY <1>1, <1>2, <1>3, PTL DEF Spec
=============================================================================

------------------------------ MODULE GutterEdit ------------------------------
(***************************************************************************)
(* middleware/gutter_indent.py: an edit copied with the gutter read_file   *)
(* prints is repaired against the file, and then made by the tool, which   *)
(* may find the file changed by another edit of the same message.  A line  *)
(* is its text, a blank one having none, and its leading spaces.           *)
(***************************************************************************)
EXTENDS Integers, Sequences, FiniteSets

CONSTANTS
  EditThreads,            \* the edits of one message
  EditFiles,              \* bound of the model: the files read
  EditReplacements,       \* bound of the model: the lines an edit puts in the place of others
  EditLengths, Gutters    \* bounds of the model: of an edit, and the gutters copied with it

Lines == [text : STRING, indent : Nat]

ASSUME GutterEditAssumption ==
  /\ EditLengths \subseteq Nat \ {0} /\ Gutters \subseteq Nat
  /\ EditFiles \subseteq Seq(Lines) /\ EditReplacements \subseteq Seq(Lines) \ {<<>>}

VARIABLES
  geFile, geRead,         \* the file, and as it was read
  geEdit                  \* of each edit: the lines it means, and what it names and gives

geVars == <<geFile, geRead, geEdit>>

Line(text, indent) == [text |-> text, indent |-> indent]
IsBlank(line) == line.text = ""

\* What the model sends of lines it was shown with a gutter: the first without
\* what is before its text, the others with the gutter before them.
Copied(lines, gutter) == [k \in DOMAIN lines |->
  IF k = 1 THEN Line(lines[1].text, 0)
  ELSE IF IsBlank(lines[k]) THEN lines[k]
  ELSE Line(lines[k].text, lines[k].indent + gutter)]

Places(file, lines) == 1..(Len(file) - Len(lines) + 1)
Window(file, at, span) == SubSeq(file, at, at + span - 1)

\* Where the text of the lines is in the file: a first line may start inside the file's.
ExactAt(file, lines) == {at \in Places(file, lines) :
  /\ file[at].text = lines[1].text /\ lines[1].indent <= file[at].indent
  /\ \A k \in 2..Len(lines) : file[at + k - 1] = lines[k]}

\* locate_by_content.
LocateByContent(file, lines) ==
  {at \in Places(file, lines) : Len(lines) > 1
     /\ \A k \in DOMAIN lines : file[at + k - 1].text = lines[k].text}

-----------------------------------------------------------------------------
(***************************************************************************)
(* repair_indent.                                                          *)
(***************************************************************************)
\* How much further in than the file's the lines are, the first and the blank aside.
Deltas(file, old, at) ==
  {old[k].indent - file[at + k - 1].indent : k \in {j \in 2..Len(old) : ~IsBlank(old[j])}}

\* Mutant: the first of several places will do.
UniquePlaceFirst(places) == places # {}

UniquePlace(places) == Cardinality(places) = 1

\* Mutant: what is put in their place keeps the gutter.
MovedBackNot(new, base, delta) == <<Line(new[1].text, base)>> \o Tail(new)

\* The first line goes where the file's first is, the others back by the gutter.
MovedBack(new, base, delta) == [k \in DOMAIN new |->
  IF k = 1 THEN Line(new[1].text, base)
  ELSE IF IsBlank(new[k]) THEN new[k]
  ELSE Line(new[k].text, new[k].indent - delta)]

\* Mutant: what is put in is moved back however far in it is.
OutdentsNot(new, delta) == FALSE

\* A line of what is put in has not the gutter the others have.
Outdents(new, delta) == \E k \in 2..Len(new) : ~IsBlank(new[k]) /\ new[k].indent < delta

\* The edit, repaired: none, or one.
RepairIndent(file, old, new) ==
  LET places == LocateByContent(file, old)
      at == CHOOSE p \in places : \A q \in places : p <= q
      delta == CHOOSE d \in Deltas(file, old, at) : TRUE
  IN IF \/ ExactAt(file, old) # {} \/ ~UniquePlace(places)
        \/ Cardinality(Deltas(file, old, at)) # 1 \/ delta < 0 \/ Outdents(new, delta)
       THEN {}
       ELSE {[old |-> Window(file, at, Len(old)), new |-> MovedBack(new, file[at].indent, delta)]}

-----------------------------------------------------------------------------
\* An edit means the lines at a place of the file, and copies them as they were shown.
EditOf(at, length, put, gutter) ==
  [pc |-> "sent", unread |-> FALSE,
   meantOld |-> Window(geFile, at, length), meantNew |-> put,
   old |-> Copied(Window(geFile, at, length), gutter), new |-> Copied(put, gutter)]

GutterEditInit ==
  /\ geFile \in EditFiles /\ geRead = geFile
  /\ geEdit \in [EditThreads -> UNION {{EditOf(at, length, put, gutter) :
                   at \in 1..(Len(geFile) - length + 1), put \in EditReplacements,
                   gutter \in Gutters} : length \in EditLengths}]

\* _apply: the edit goes on repaired, is refused as ambiguous, or goes on as it is.
Apply(t) ==
  /\ geEdit[t].pc = "sent"
  /\ LET old == geEdit[t].old
         repaired == RepairIndent(geFile, old, geEdit[t].new)
     IN \/ \E r \in repaired :
             geEdit' = [geEdit EXCEPT ![t].pc = "repaired", ![t].old = r.old, ![t].new = r.new,
                                      ![t].unread = geFile # geRead]
        \/ /\ repaired = {}
           /\ geEdit' = [geEdit EXCEPT ![t].pc =
                IF ExactAt(geFile, old) = {} /\ Cardinality(LocateByContent(geFile, old)) > 1
                  THEN "refused" ELSE "passed"]
  /\ UNCHANGED <<geFile, geRead>>

\* The tool (external): replaces a text that is in the file once, whatever is before it.
Replaced(file, at, old, new) ==
  SubSeq(file, 1, at - 1)
  \o <<Line(new[1].text, file[at].indent - old[1].indent + new[1].indent)>> \o Tail(new)
  \o SubSeq(file, at + Len(old), Len(file))

EditFile(t) ==
  /\ geEdit[t].pc \in {"repaired", "passed"}
  /\ LET old == geEdit[t].old
         places == ExactAt(geFile, old)
     IN \/ /\ Cardinality(places) = 1
           /\ \E at \in places : geFile' = Replaced(geFile, at, old, geEdit[t].new)
           /\ geEdit' = [geEdit EXCEPT ![t].pc = "landed"]
        \/ /\ Cardinality(places) # 1
           /\ geEdit' = [geEdit EXCEPT ![t].pc = "failed"] /\ UNCHANGED geFile
  /\ UNCHANGED geRead

GutterEditNext == \E t \in EditThreads : Apply(t) \/ EditFile(t)

GutterEditSpec == GutterEditInit /\ [][GutterEditNext]_geVars

-----------------------------------------------------------------------------
GutterEditTypeOK ==
  \A t \in EditThreads :
    /\ geEdit[t].pc \in {"sent", "repaired", "passed", "refused", "landed", "failed"}
    /\ \A line \in {geEdit[t].new[k] : k \in DOMAIN geEdit[t].new} : line.indent \in Nat

(***************************************************************************)
(* A repaired edit is the edit that was meant: it names the lines the      *)
(* model read and not others that look like them, and puts there what the  *)
(* model would have sent had no gutter been shown, unless another edit of  *)
(* the message had landed before it was repaired.                          *)
(***************************************************************************)
RepairedAsMeant ==
  \A t \in EditThreads :
    geEdit[t].pc = "repaired" /\ ~geEdit[t].unread =>
      /\ geEdit[t].old = geEdit[t].meantOld
      /\ Len(geEdit[t].new) = Len(geEdit[t].meantNew)
      /\ Tail(geEdit[t].new) = Tail(geEdit[t].meantNew)
      /\ geEdit[t].new[1] = Line(geEdit[t].meantNew[1].text, geEdit[t].meantOld[1].indent)
=============================================================================

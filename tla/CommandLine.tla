----------------------------- MODULE CommandLine -----------------------------
(***************************************************************************)
(* How a text becomes commands: terminal_execute_command() of              *)
(* boot/efi_main.c up to its dispatch, with terminal_parse_command(),      *)
(* terminal_copy_segment() and terminal_try_pipeline().  Terminal.tla      *)
(* starts from the commands this module makes of a line.                   *)
(*                                                                         *)
(* A text is a sequence of characters.  The names echo and grep are        *)
(* constants, so that they may be shorter; the offset 5 of the pipeline is *)
(* the length of the first and one blank.  No text is longer than the      *)
(* buffers (terminal_read_line() and the runners of scripts see to that),  *)
(* so the tests against TERMINAL_MAX_LINE never stop a loop.  Definitions  *)
(* marked "faulty" are slips the checked properties must notice.           *)
(***************************************************************************)
EXTENDS Integers, SequencesExt, FiniteSetsExt

CONSTANTS
  Inputs,    \* the texts to execute
  EchoName,  \* "echo"
  GrepName,  \* "grep"
  MaxArgs    \* TERMINAL_MAX_ARGS

Blanks == {"space", "tab"}
IsBlank(c) == c \in Blanks

ASSUME CommandLineAssumption ==
  /\ Inputs \subseteq Seq(STRING)
  /\ EchoName # <<>> /\ GrepName # <<>>
  /\ ToSet(EchoName \o GrepName) \cap (Blanks \cup {"|", "&"}) = {}
  /\ MaxArgs \in Nat /\ MaxArgs > 2

-----------------------------------------------------------------------------
(***************************************************************************)
(* terminal_parse_command(): the words of a text, up to MaxArgs of them.   *)
(***************************************************************************)
\* The first position from i on of a character of a set, or the end of the text.
FirstFrom(text, i, chars) ==
  Min({j \in i .. Len(text) : text[j] \in chars} \cup {Len(text) + 1})

SkipBlanks(text, i) == FirstFrom(text, i, ToSet(text) \ Blanks)
WordEnd(text, i) == FirstFrom(text, i, Blanks)

RoomForOneMore(argc) == argc <= MaxArgs \* faulty
RoomForArg(argc) == argc < MaxArgs

\* WordAt[k] is where the cursor is after k words.
Parse(text) ==
  LET WordAt[k \in 0 .. Len(text)] ==
        IF k = 0 THEN SkipBlanks(text, 1) ELSE SkipBlanks(text, WordEnd(text, WordAt[k - 1]))
      argc == Cardinality({k \in 0 .. Len(text) : WordAt[k] <= Len(text) /\ RoomForArg(k)})
  IN  [k \in 1 .. argc |-> SubSeq(text, WordAt[k - 1], WordEnd(text, WordAt[k - 1]) - 1)]

\* terminal_copy_segment(): positions from up to, not including, to, without
\* the blanks at both ends.
Segment(text, from, to) ==
  LET inked == {i \in from .. to - 1 : ~ IsBlank(text[i])}
  IN  IF inked = {} THEN <<>> ELSE SubSeq(text, Min(inked), Max(inked))

PositionOf(text, c) == FirstFrom(text, 1, {c})
Occurs(text, needle) ==
  \E i \in 0 .. Len(text) - Len(needle) : SubSeq(text, i + 1, i + Len(needle)) = needle

\* terminal_command_args(): what follows the first space, or spaces.
CommandArgs(text) ==
  LET space == FirstFrom(text, 1, {"space"})
  IN  SubSeq(text, FirstFrom(text, space, ToSet(text) \ {"space"}), Len(text))

-----------------------------------------------------------------------------
VARIABLES
  command,  \* history: the text executed
  todo,     \* the texts the nested calls have still to execute
  ran       \* history: what was executed: words, pipelines and their output

vars == <<command, todo, ran>>

Init ==
  /\ command \in Inputs
  /\ todo = <<command>>
  /\ ran = <<>>

Text == Head(todo)

KeepAnd(at) == at \* faulty
AfterAnd(at) == at + 1

\* A call that finds '&' calls itself for the part before and the part after.
Split ==
  /\ todo # <<>> /\ Occurs(Text, <<"&">>)
  /\ LET at == PositionOf(Text, "&")
     IN  todo' = <<Segment(Text, 1, at), Segment(Text, AfterAnd(at), Len(Text) + 1)>> \o Tail(todo)
  /\ UNCHANGED <<command, ran>>

(***************************************************************************)
(* terminal_try_pipeline().  What is searched and printed is copied again  *)
(* from the text, from behind "echo".                                      *)
(***************************************************************************)
Outcome(kind, text) == [kind |-> kind, args |-> <<>>, text |-> text]

WholeLeft(bar) == Segment(Text, 1, bar) \* faulty
EchoedText(bar) == Segment(Text, Len(EchoName) + 2, bar)

PipeOutcome ==
  LET bar == PositionOf(Text, "|")
      left == Parse(Segment(Text, 1, bar))
      right == Parse(Segment(Text, bar + 1, Len(Text) + 1))
  IN  IF Len(left) < 2 \/ left[1] # EchoName THEN Outcome("unsupported", <<>>)
      ELSE IF Len(right) # 2 \/ right[1] # GrepName THEN Outcome("usage", <<>>)
      ELSE IF Occurs(EchoedText(bar), right[2]) THEN Outcome("printed", EchoedText(bar))
      ELSE Outcome("filtered", <<>>)

Pipe ==
  /\ todo # <<>> /\ ~ Occurs(Text, <<"&">>) /\ Occurs(Text, <<"|">>)
  /\ ran' = Append(ran, PipeOutcome)
  /\ todo' = Tail(todo)
  /\ UNCHANGED command

\* A text of blanks is no command; any other is dispatched by its first word.
Dispatch ==
  /\ todo # <<>> /\ ~ Occurs(Text, <<"&">>) /\ ~ Occurs(Text, <<"|">>)
  /\ ran' = IF Parse(Text) = <<>> THEN ran
            ELSE Append(ran, [kind |-> "command", args |-> Parse(Text), text |-> CommandArgs(Text)])
  /\ todo' = Tail(todo)
  /\ UNCHANGED command

Next == Split \/ Pipe \/ Dispatch

Spec == Init /\ [][Next]_vars

-----------------------------------------------------------------------------
(***************************************************************************)
(* The reference: a run is a longest piece without characters of a set; a  *)
(* word is a run without blanks, and a part of a text a run without '&'.   *)
(***************************************************************************)
Run(text, i, chars) ==
  SubSeq(text, i, Max({i - 1} \cup {j \in i .. Len(text) : \A k \in i .. j : text[k] \notin chars}))

WordStarts(text) ==
  {i \in DOMAIN text : ~ IsBlank(text[i]) /\ (i = 1 \/ IsBlank(text[i - 1]))}
Word(text, i) == Run(text, i, Blanks)

PartStarts(text) == {1} \cup {i + 1 : i \in {j \in DOMAIN text : text[j] = "&"}}
Part(text, i) == Run(text, i, {"&"})

\* Where a number stands in a set of numbers.
Place(S, i) == Cardinality({j \in S : j <= i})

\* args[] holds the first words of a text, as many as there is room for.
FirstWords(text, args) ==
  /\ Len(args) = Min({MaxArgs, Cardinality(WordStarts(text))})
  /\ \A i \in WordStarts(text) :
       Place(WordStarts(text), i) <= MaxArgs =>
         args[Place(WordStarts(text), i)] = Word(text, i)

(***************************************************************************)
(* Every part of a line that holds a word is executed, once and in order,  *)
(* and a command gets its words, as many as argv[] holds.                  *)
(***************************************************************************)
Executed == {i \in PartStarts(command) : WordStarts(Part(command, i)) # {}}
OutcomeOf(i) == ran[Place(Executed, i)]

IsPipeline(part) == \E i \in DOMAIN part : part[i] = "|"

EveryPartRuns ==
  todo = <<>> =>
    /\ Len(ran) = Cardinality(Executed)
    /\ \A i \in Executed :
         IF IsPipeline(Part(command, i)) THEN OutcomeOf(i).kind # "command"
         ELSE OutcomeOf(i).kind = "command" /\ FirstWords(Part(command, i), OutcomeOf(i).args)

(***************************************************************************)
(* A pipeline prints the text given to echo if and only if grep finds its  *)
(* pattern there, however the parts and their blanks are laid out.  This   *)
(* needs a line that does not begin with a blank, see PipelinePrintsText.  *)
(***************************************************************************)
Before(part) == Run(part, 1, {"|"})
After(part) == SubSeq(part, Len(Before(part)) + 2, Len(part))

FirstWord(text) == Word(text, Min(WordStarts(text)))
LastWord(text) == Word(text, Max(WordStarts(text)))
\* From the second word to the last, with what lies between.
BehindFirstWord(text) ==
  SubSeq(text, Min(WordStarts(text) \ {Min(WordStarts(text))}),
         Max({i \in DOMAIN text : ~ IsBlank(text[i])}))

Filtered(part) ==
  LET left == Before(part)
      right == After(part)
  IN  IF Cardinality(WordStarts(left)) < 2 \/ FirstWord(left) # EchoName
        THEN Outcome("unsupported", <<>>)
      ELSE IF Cardinality(WordStarts(right)) # 2 \/ FirstWord(right) # GrepName
        THEN Outcome("usage", <<>>)
      ELSE IF Occurs(BehindFirstWord(left), LastWord(right))
        THEN Outcome("printed", BehindFirstWord(left))
      ELSE Outcome("filtered", <<>>)

PipelinesFilter ==
  todo = <<>> /\ ~ IsBlank(Head(command)) =>
    \A i \in Executed :
      IsPipeline(Part(command, i)) => OutcomeOf(i) = Filtered(Part(command, i))

(***************************************************************************)
(* "usage: echo <text> | grep <pattern>" (efi_main.c:260) of every line:   *)
(* what is printed is the text.                                            *)
(***************************************************************************)
PipelinePrintsText ==
  todo = <<>> =>
    \A i \in Executed :
      IsPipeline(Part(command, i)) => OutcomeOf(i) = Filtered(Part(command, i))

(***************************************************************************)
(* The calls that '&' nests come to an end: with every step the separators *)
(* and the calls still to be made get fewer, counting a separator twice,   *)
(* as it turns one call into two.                                          *)
(***************************************************************************)
Separators(texts) ==
  UNION {{k} \X {i \in DOMAIN texts[k] : texts[k][i] = "&"} : k \in DOMAIN texts}
StillToDo(texts) == 2 * Cardinality(Separators(texts)) + Len(texts)

CallsGetFewer == [][StillToDo(todo') < StillToDo(todo)]_vars
=============================================================================

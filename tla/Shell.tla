------------------------------- MODULE Shell -------------------------------
(* The interruptor's reading of a command line, the text it puts back together *)
(* around a wrapped segment, and (external) how a shell reads either.  A       *)
(* character stands for its class: "_" a blank, "n" a newline, the operators,  *)
(* quotes and backslash, "2", and any other character for a character of a     *)
(* word.                                                                       *)
EXTENDS Integers, Sequences, FiniteSets, SequencesExt

Space  == {"_", "n"}
Single == {"|", ";", "&", "<", ">"}
Double == {<<"&", "&">>, <<"|", "|">>, <<"2", ">">>, <<">", ">">>}
Quotes == {"'", "\""}

\* What str.strip and str.split do.
Strip(c) ==
    LET kept == {i \in DOMAIN c : c[i] \notin Space}
    IN  IF kept = {} THEN <<>> ELSE SubSeq(c, Min(kept), Max(kept))
SplitChar(words, c, i) ==
    IF c[i] \in Space THEN words
    ELSE IF i = 1 \/ c[i - 1] \in Space THEN Append(words, <<c[i]>>)
    ELSE [words EXCEPT ![Len(words)] = Append(@, c[i])]
Split(c) ==
    LET words[i \in 0 .. Len(c)] ==
          IF i = 0 THEN <<>> ELSE SplitChar(words[i - 1], c, i)
    IN  words[Len(c)]
\* " ".join
Join(words) ==
    FlattenSeq([k \in DOMAIN words |-> IF k = 1 THEN words[k] ELSE <<"_">> \o words[k]])
Occurs(needle, c) ==
    \E i \in 0 .. Len(c) - Len(needle) : SubSeq(c, i + 1, i + Len(needle)) = needle

----------------------------------------------------------------------------
(* Parts: an operator, a quoted string or a run of other characters.           *)

TwoAt(c, i) == i < Len(c) /\ SubSeq(c, i, i + 1) \in Double

QuoteEnd(c, i) ==
    LET past[j \in i + 1 .. Len(c) + 2] ==
            IF j > Len(c) THEN Len(c) + 1
            ELSE IF c[j] = c[i] THEN j + 1
            ELSE IF c[j] = "\\" THEN past[j + 2] ELSE past[j + 1]
    IN  past[i + 1]

WordEnd(c, i) ==
    LET stops(j) == c[j] \in Single \cup Quotes \cup {"_"} \/ TwoAt(c, j)
    IN  Min({j \in i + 1 .. Len(c) : stops(j)} \cup {Len(c) + 1})

PartEnd(c, i) ==
    IF TwoAt(c, i) THEN i + 2
    ELSE IF c[i] \in Single THEN i + 1
    ELSE IF c[i] \in Quotes THEN QuoteEnd(c, i)
    ELSE WordEnd(c, i)

SplitParts(c) ==
    LET parts[i \in 1 .. Len(c) + 1] ==
            IF i > Len(c) THEN <<>>
            ELSE IF c[i] = "_" THEN parts[i + 1]
            ELSE <<[from |-> i, to |-> PartEnd(c, i)]>> \o parts[PartEnd(c, i)]
    IN  parts[1]

Text(c, p) == SubSeq(c, p.from, p.to - 1)
IsOperator(text) == text \in Double \cup {<<x>> : x \in Single} \cup {<<"2", ">", ">">>}

\* Runs of parts between operators.
GroupPart(gs, c, p) ==
    IF IsOperator(Text(c, p)) THEN [gs EXCEPT !.open = TRUE]
    ELSE IF gs.open THEN [done |-> Append(gs.done, <<p>>), open |-> FALSE]
    ELSE [gs EXCEPT !.done[Len(gs.done)] = Append(@, p)]
Groups(c) ==
    LET groups[k \in 0 .. Len(SplitParts(c))] ==
          IF k = 0 THEN [done |-> <<>>, open |-> TRUE]
          ELSE GroupPart(groups[k - 1], c, SplitParts(c)[k])
    IN  groups[Len(SplitParts(c))].done

Start(group) == group[1].from
End(group)   == group[Len(group)].to - 1

SegmentTexts(c) ==
    LET gs == Groups(c)
    IN  [k \in DOMAIN gs |-> Join([p \in DOMAIN gs[k] |-> Text(c, gs[k][p])])]
\* The raw texts of parse_command's segments.
ParseCommand(c) == SegmentTexts(Strip(c))
OperatorSequence(c) ==
    SelectSeq([p \in DOMAIN SplitParts(c) |-> Text(c, SplitParts(c)[p])], IsOperator)

----------------------------------------------------------------------------
(* Putting a command back together.                                            *)

Prefix == <<"u", "_">>    \* "unshare ... bash -c " and what the tiers add
NoText == <<"none">>

EscapeNothing(text) == <<"'">> \o text \o <<"'">>
Escape(text) ==
    LET escaped == [i \in DOMAIN text |->
                      IF text[i] = "'" THEN <<"'", "\\", "'", "'">> ELSE <<text[i]>>]
    IN  <<"'">> \o FlattenSeq(escaped) \o <<"'">>
WrapOf(text) == Prefix \o Escape(text)

\* replacements is a function on some of the segments' indices.
RebuildCommand(c, replacements) ==
    LET gs      == Groups(c)
        last(k) == IF k = 0 THEN 0 ELSE End(gs[k])
        piece(k) ==
            SubSeq(c, last(k - 1) + 1, Start(gs[k]) - 1)
            \o (IF k \in DOMAIN replacements THEN replacements[k]
                ELSE SubSeq(c, Start(gs[k]), End(gs[k])))
    IN  IF gs = <<>> \/ ~(DOMAIN replacements \subseteq DOMAIN gs) THEN NoText
        ELSE FlattenSeq([k \in DOMAIN gs |-> piece(k)])
             \o SubSeq(c, last(Len(gs)) + 1, Len(c))

StructurePreserved(a, b) ==
    /\ Len(SegmentTexts(a)) = Len(SegmentTexts(b))
    /\ OperatorSequence(a) = OperatorSequence(b)

WholeWrap(c) == WrapOf(Strip(c))

RebuildModifiedJoins(c, segments, replacements) ==
    Join([k \in DOMAIN segments |->
            IF k \in DOMAIN replacements THEN replacements[k] ELSE segments[k]])
\* Segment by segment when that is faithful, the whole command otherwise.
RebuildModified(c, segments, replacements) ==
    LET rebuilt == RebuildCommand(c, replacements)
    IN  IF SegmentTexts(c) = segments /\ rebuilt # NoText /\ StructurePreserved(c, rebuilt)
        THEN rebuilt ELSE WholeWrap(c)

----------------------------------------------------------------------------
(* Quotes round whole words, as the wrapper writes them and the matcher reads. *)

QuoteArgv(argv) == Join([k \in DOMAIN argv |-> Escape(argv[k])])

NormalizeNothing(text) == text
NormalizeQuoted(text) ==
    LET bare(w) == IF Len(w) > 1 /\ w[1] \in Quotes /\ w[Len(w)] \in Quotes
                   THEN SubSeq(w, 2, Len(w) - 1) ELSE w
        words   == Split(text)
    IN  Join([k \in DOMAIN words |-> bare(words[k])])

----------------------------------------------------------------------------
(* External: a shell's reading, as runs of operator characters and the words   *)
(* between them, quotes removed.  An open quote or a last backslash is no      *)
(* command.                                                                    *)

OperatorChars == Single \cup {"n"}
Fresh == [items |-> <<>>, word |-> <<>>, inWord |-> FALSE, quoted |-> FALSE, mode |-> "plain"]

AddOp(items, x) ==
    IF items # <<>> /\ items[Len(items)].op # <<>>
    THEN [items EXCEPT ![Len(items)].op = Append(@, x)]
    ELSE Append(items, [op |-> <<x>>, words |-> <<>>])
AddWord(items, w) ==
    IF items # <<>> /\ items[Len(items)].op = <<>>
    THEN [items EXCEPT ![Len(items)].words = Append(@, w)]
    ELSE Append(items, [op |-> <<>>, words |-> <<w>>])

EndWord(s) ==
    IF s.inWord THEN [s EXCEPT !.items = AddWord(@, s.word), !.word = <<>>,
                               !.inWord = FALSE, !.quoted = FALSE]
    ELSE s
Put(s, x) == [s EXCEPT !.word = Append(@, x), !.inWord = TRUE]
Quote(s, mode) == [s EXCEPT !.mode = mode, !.inWord = TRUE, !.quoted = TRUE]
InMode(s, mode) == [s EXCEPT !.mode = mode]

\* A bare 2 right before > or < is part of the redirection.
BareTwo(s, x) == x \in {">", "<"} /\ s.inWord /\ ~s.quoted /\ s.word = <<"2">>
ReadOp(s, x) ==
    IF BareTwo(s, x)
    THEN [s EXCEPT !.items = AddOp(AddOp(@, "2"), x), !.word = <<>>, !.inWord = FALSE]
    ELSE [EndWord(s) EXCEPT !.items = AddOp(@, x)]

\* What each mode makes of a character.
ReadPlain(s, x) ==
    CASE x = "_"            -> EndWord(s)
      [] x \in OperatorChars -> ReadOp(s, x)
      [] x = "'"            -> Quote(s, "single")
      [] x = "\""           -> Quote(s, "double")
      [] x = "\\"           -> InMode(s, "escape")
      [] OTHER              -> Put(s, x)
ReadSingle(s, x) == IF x = "'" THEN InMode(s, "plain") ELSE Put(s, x)
ReadDouble(s, x) ==
    CASE x = "\"" -> InMode(s, "plain")
      [] x = "\\" -> InMode(s, "descape")
      [] OTHER    -> Put(s, x)
ReadEscape(s, x) == IF x = "n" THEN InMode(s, "plain") ELSE Quote(Put(s, x), "plain")
ReadDescape(s, x) ==
    CASE x = "n"            -> InMode(s, "double")
      [] x \in {"\"", "\\"} -> InMode(Put(s, x), "double")
      [] OTHER              -> InMode(Put(Put(s, "\\"), x), "double")

ReadChar(s, x) ==
    CASE s.mode = "plain"   -> ReadPlain(s, x)
      [] s.mode = "single"  -> ReadSingle(s, x)
      [] s.mode = "double"  -> ReadDouble(s, x)
      [] s.mode = "escape"  -> ReadEscape(s, x)
      [] s.mode = "descape" -> ReadDescape(s, x)

ReadAll(c) ==
    LET read[i \in 0 .. Len(c)] == IF i = 0 THEN Fresh ELSE ReadChar(read[i - 1], c[i])
    IN  read[Len(c)]
Complete(c) == ReadAll(c).mode = "plain"
Reading(c)  == EndWord(ReadAll(c)).items
OneWord(c)  == Complete(c) /\ Len(Reading(c)) = 1 /\ Reading(c)[1].op = <<>>
=============================================================================

------------------------------ MODULE Rewrite ------------------------------
(* One command line through the engine, as text: it is split into segments, a  *)
(* sandbox rule is matched against each, and the segments that match are       *)
(* wrapped in place, or the whole command is.                                  *)
EXTENDS Matcher

CONSTANTS
    Chars,      \* the characters of commands and rules
    Cases,      \* what is judged: [command, rule]
    Argvs       \* argument vectors the wrapper quotes, [argv, rule]

ASSUME CharAssumption == {"u", "_", "'", "\\"} \subseteq Chars /\ "none" \notin Chars
ASSUME RuleAssumption == \A def \in Definitions : def.field \in Seq(Chars)
ASSUME CaseAssumption ==
    \A x \in Cases : x.command \in Seq(Chars) /\ x.rule \in Definitions /\ Validates(x.rule)
ASSUME ArgvAssumption ==
    \A x \in Argvs : /\ x.argv \in Seq(Seq(Chars)) /\ x.argv # <<>>
                     /\ x.rule \in Definitions /\ Validates(x.rule)

VARIABLES
    pc,
    argv,       \* the words the command was quoted from, none when it was typed
    command, rule,
    segments,   \* the raw texts to judge
    matched,    \* what the rule said of the segments judged so far
    emitted     \* the command that runs, NoText until there is one

vars == <<pc, argv, command, rule, segments, matched, emitted>>

Init ==
    /\ \/ \E x \in Cases : argv = <<>> /\ command = x.command /\ rule = x.rule
       \/ \E x \in Argvs : argv = x.argv /\ command = QuoteArgv(x.argv) /\ rule = x.rule
    /\ pc = "parse" /\ segments = <<>> /\ matched = <<>> /\ emitted = NoText

\* A command that is blank, or made of operators, passes.
PassThrough ==
    /\ pc = "parse" /\ ParseCommand(command) = <<>>
    /\ pc' = "allow" /\ emitted' = command
    /\ UNCHANGED <<argv, command, rule, segments, matched>>

Parse ==
    /\ pc = "parse" /\ ParseCommand(command) # <<>>
    /\ pc' = "judge" /\ segments' = ParseCommand(command)
    /\ UNCHANGED <<argv, command, rule, matched, emitted>>

\* An exception in a matcher leaves the engine: the bridge blocks.
JudgeSegment ==
    /\ pc = "judge" /\ Len(matched) < Len(segments)
    /\ matched' = Append(matched, MatchSegment(segments[Len(matched) + 1], rule))
    /\ pc' = IF MatchSegment(segments[Len(matched) + 1], rule) = "raise" THEN "raised" ELSE pc
    /\ UNCHANGED <<argv, command, rule, segments, emitted>>

Wrapped == {k \in DOMAIN matched : matched[k] = "yes"}
\* A bug it could have: of segments that are alike the first is wrapped.
ReplacementsOnce ==
    [k \in {k \in Wrapped : \A j \in Wrapped : segments[j] = segments[k] => k <= j} |->
        WrapOf(segments[k])]
Replacements == [k \in Wrapped |-> WrapOf(segments[k])]

Judged == pc = "judge" /\ Len(matched) = Len(segments)

Allow ==
    /\ Judged /\ Wrapped = {}
    /\ pc' = "allow" /\ emitted' = command
    /\ UNCHANGED <<argv, command, rule, segments, matched>>

Rewrite ==
    /\ Judged /\ Wrapped # {}
    /\ pc' = "modify" /\ emitted' = RebuildModified(command, segments, Replacements)
    /\ UNCHANGED <<argv, command, rule, segments, matched>>

Next == PassThrough \/ Parse \/ JudgeSegment \/ Allow \/ Rewrite

Spec == Init /\ [][Next]_vars

----------------------------------------------------------------------------
(* Properties.                                                                 *)

\* A command is in some stage of its judgement, with as many answers as segments judged.
TypeOK ==
    /\ pc \in {"parse", "judge", "allow", "modify", "raised"}
    /\ Len(matched) <= Len(segments)
    /\ \A k \in DOMAIN matched : matched[k] \in {"yes", "no", "raise"}
    /\ pc \in {"allow", "modify"} <=> emitted # NoText

Whole == pc = "modify" /\ emitted = WholeWrap(command)
InPlace == pc = "modify" /\ ~Whole

\* A shell is between runs of words, or a character ends the word it is in.
BetweenRuns(s) ==
    s.mode = "plain" /\ ~s.inWord /\ (s.items # <<>> => s.items[Len(s.items)].op # <<>>)
EndsWord(s, x) == x \in OperatorChars \cup {"_"} /\ ~BareTwo(s, x)

\* A shell's run of words starts where the group starts and ends where it ends.
StandsAlone(c, group) ==
    LET before == ReadAll(SubSeq(c, 1, Start(group) - 1))
        after  == ReadAll(SubSeq(c, 1, End(group)))
        place  == Len(before.items) + 1
    IN  /\ BetweenRuns(before)
        /\ after.mode = "plain"
        /\ End(group) < Len(c) => EndsWord(after, c[End(group) + 1])
        /\ place \in DOMAIN Reading(c) /\ Reading(c)[place].op = <<>>
        /\ EndWord(after).items = Append(before.items, Reading(c)[place])

\* Every segment of the engine is a run of a shell, in the same place.
SeesAsTheShell(c) ==
    Complete(c) /\ \A k \in DOMAIN Groups(c) : StandsAlone(c, Groups(c)[k])

\* Where a shell has the run that is the segment k, among what it reads.
RunOf(k) == Len(Reading(SubSeq(command, 1, End(Groups(command)[k]))))
Operators(c) == [i \in DOMAIN Reading(c) |-> Reading(c)[i].op]

\* Where the engine splits a command as a shell does, a shell reads the rewritten
\* command as the same operators round the same runs, each wrapped one now the sandbox
\* and the segment: no operator is dropped, added or moved into a word.
RewriteKeepsStructure ==
    (InPlace /\ SeesAsTheShell(command)) =>
        /\ Complete(emitted)
        /\ Operators(emitted) = Operators(command)
        /\ \A k \in Wrapped : Reading(emitted)[RunOf(k)].words = <<<<"u">>, segments[k]>>
        /\ \A i \in DOMAIN Reading(command) \ {RunOf(k) : k \in Wrapped} :
              Reading(emitted)[i] = Reading(command)[i]

\* The wrap of a whole command is two words to a shell, whatever the command holds:
\* the sandbox and the command, character for character.
WholeWrapIsOneArgument ==
    Whole => /\ OneWord(emitted)
             /\ Reading(emitted)[1].words = <<<<"u">>, Strip(command)>>

\* Where a text stands in the command that is emitted.
StandsAt(text) ==
    {i \in DOMAIN emitted : /\ i + Len(text) - 1 <= Len(emitted)
                           /\ SubSeq(emitted, i, i + Len(text) - 1) = text}

\* A rewrite in place wraps every segment whose verdict was to sandbox it: each wrap has
\* a place of its own, also where two segments are alike, the places are in the order
\* of the segments, and the engine still reads as many segments.
EverySandboxedSegmentIsWrapped ==
    InPlace =>
        /\ Len(SegmentTexts(emitted)) = Len(segments)
        /\ \E at \in [Wrapped -> UNION {StandsAt(WrapOf(segments[k])) : k \in Wrapped}] :
              /\ \A k \in Wrapped : at[k] \in StandsAt(WrapOf(segments[k]))
              /\ \A j, k \in Wrapped : j < k => at[j] + Len(WrapOf(segments[j])) <= at[k]

\* What a rule sandboxes is wrapped: the command that is emitted has a wrap for each of
\* its segments, in their order, or is one wrap of it all that no shell can split.  What
\* a shell makes of the wraps in place is RewriteKeepsStructure's: where its reading and
\* the engine's differ, a wrap can stand inside a quote.
SandboxedIsWrapped ==
    /\ TypeOK
    /\ WholeWrapIsOneArgument
    /\ EverySandboxedSegmentIsWrapped

\* Words that the engine reads in quotes as a shell does, and those of which one is
\* left when the quotes are off: a blank word is split, an empty one is lost.
Quotable(word) == \A i \in DOMAIN word : word[i] \notin Quotes \cup {"\\"}
Bare(word) == word # <<>> /\ Quotable(word) /\ \A i \in DOMAIN word : word[i] \notin Space
LooksForQuote(def) == def.type = "pattern" /\ \E i \in DOMAIN def.field : def.field[i] \in Quotes

\* The wrapper's quotes hide nothing from a rule, and make up nothing: an argument
\* vector is one segment, and what a rule says of it is what it says of the bare words,
\* where no pattern looks for the quotes themselves.
QuotesHideNothing ==
    (argv # <<>> /\ Judged /\ \A k \in DOMAIN argv : Quotable(argv[k])) =>
        /\ Len(segments) = 1
        /\ (/\ \A k \in DOMAIN argv : Bare(argv[k])
            /\ \A def \in Definitions : ~LooksForQuote(def)) =>
              matched[1] = MatchSegment(Join(argv), rule)

\* What can raise in one definition of a rule: a string that re.compile cannot take, the
\* first of no words, and a value of another type, but for the fields of the rule's own
\* definition that the schema checks.
RegexTypes == {"pattern", "pipeline", "path", "heredoc", "network"}
CanRaise(raw, def, checked) ==
    \/ def.type \in RegexTypes /\ def.field = Huge
    \/ def.type = "command" /\ Strip(NormalizeQuoted(raw)) = <<>>
    \/ def.type = "subcommand" /\ def.parent = Bad
    \/ def.field = Bad /\ ~(checked /\ def.type \in Checked)

\* A rule the schema let through raises for nothing the schema checked: whatever the
\* rule's type and however deep its conditions, a definition it is made of has a value
\* the schema does not look at, a string re.compile cannot take, or no command to read.
RaisesHaveACause ==
    pc = "raised" =>
        \E def \in Parts(rule) : CanRaise(segments[Len(matched)], def, def = rule)

\* As the example of the normaliser's comment has it: the quotes come off every word,
\* a word with a blank in it too.
QuotesComeOff ==
    (/\ argv # <<>> /\ Judged
     /\ \A k \in DOMAIN argv : Quotable(argv[k]) /\ argv[k] # <<>> /\ Strip(argv[k]) = argv[k]) =>
        NormalizeQuoted(segments[1]) = Join(argv)

\* As the decider's comment has it: redirections survive.  The word after a redirection
\* is the same before and after.
RedirectionsSurvive ==
    (InPlace /\ SeesAsTheShell(command)) =>
        \A k \in DOMAIN Reading(command) :
            (/\ k > 1 /\ Reading(command)[k].op = <<>>
             /\ Last(Reading(command)[k - 1].op) \in {">", "<"}) =>
                Head(Reading(emitted)[k].words) = Head(Reading(command)[k].words)

\* As the loader's comment has it: a rule that passed the schema can be evaluated.
ValidatedRulesEvaluate == pc # "raised"
=============================================================================

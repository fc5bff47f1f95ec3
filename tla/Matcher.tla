------------------------------ MODULE Matcher ------------------------------
(* The nine match types of a rule, and what the loader's schema lets through   *)
(* to them.  A regular expression is the text it looks for; letter case is     *)
(* left out.  "m" is the name of a command that reaches a dangerous system     *)
(* call, "i" an address, "/" then "e" a sensitive path.                        *)
EXTENDS Shell

CONSTANT Nested     \* the match definitions of the rules: Nested[n] those n deep

\* A condition is a text, a match definition, or a value of another type.  A match
\* definition has one field its type reads, and a parent, conditions and a not.
Bad     == <<"bad">>   \* a field whose value is no string
Broken  == <<"(">>     \* a string that is no regular expression
Huge    == <<"{">>     \* a string that raises anything but re.error, as a{4294967296} does
Default == [type |-> "pattern", field |-> <<>>, parent |-> <<>>, conditions |-> <<>>,
            operator |-> "and", negation |-> <<>>]
Def(type, field) == [Default EXCEPT !.type = type, !.field = field]
Composite(operator, conditions, negation) ==
    [Default EXCEPT !.type = "composite", !.operator = operator,
                    !.conditions = conditions, !.negation = negation]
Word(text) == Def("text", text)
Other      == Def("other", <<>>)

Elems(words) == {words[k] : k \in DOMAIN words}

\* What is inside a definition is a text, a value of another type or less deep.
Inner(def) == Elems(def.conditions) \cup Elems(def.negation)
ASSUME NestedAssumption ==
    /\ Len(Nested) \in Nat /\ DOMAIN Nested = 1 .. Len(Nested)
    /\ \A n \in DOMAIN Nested : \A def \in Nested[n] :
          /\ def.negation # <<>> => 1 \in DOMAIN def.negation
          /\ \A cond \in Inner(def) :
                cond.type \in {"text", "other"} \/ \E m \in 1 .. n - 1 : cond \in Nested[m]
Definitions == UNION {Nested[n] : n \in DOMAIN Nested}

Address   == <<"i">>
Dangerous == {<<"m">>}
IsSensitivePath(word) == Occurs(<<"/", "e">>, word)

\* validate_rule_document: the fields it checks, whatever their type reads.  A
\* subcommand, a parent, a network and what conditions hold are not among them.
Checked == {"pattern", "pipeline", "heredoc", "command", "path"}
ValidatesNothing(def) == TRUE
Validates(def) ==
    /\ def.type \in Checked => def.field # Bad
    /\ def.negation # <<>> => def.negation[1].type # "text"

Say(b) == IF b THEN "yes" ELSE "no"

\* re.compile, then search: a text that raises re.error matches nothing, whatever else
\* is raised gets out.
Search(regex, texts) ==
    IF regex \in {Bad, Huge} THEN "raise"
    ELSE Say(regex # Broken /\ \E t \in texts : Occurs(regex, t))

MatchPattern(raw, def) ==
    IF def.field = <<>> THEN "no" ELSE Search(def.field, {raw, NormalizeQuoted(raw)})

\* The first of no words is asked for when the text is blank and not empty.
MatchCommand(raw, def) ==
    LET text == NormalizeQuoted(raw)
    IN  IF def.field = <<>> THEN "no"
        ELSE IF text # <<>> /\ Split(text) = <<>> THEN "raise"
        ELSE IF def.field = Bad THEN "raise"
        ELSE Say(text # <<>> /\ Split(text)[1] = def.field)

\* A segment of one kind only is ever made: the text is searched for a pipe.
MatchPipeline(raw, def) ==
    LET text  == NormalizeQuoted(raw)
        cuts  == {i \in DOMAIN text : text[i] = "|"} \cup {0, Len(text) + 1}
        parts == {Strip(SubSeq(text, i + 1, Min({j \in cuts : j > i}) - 1)) :
                    i \in cuts \ {Len(text) + 1}}
    IN  IF Occurs(<<"|">>, text) /\ def.field # <<>> THEN Search(def.field, parts) ELSE "no"

MatchSubcommand(raw, def) ==
    LET words == Split(NormalizeQuoted(raw))
    IN  IF def.field = <<>> THEN "no"
        ELSE IF def.parent = Bad /\ words # <<>> THEN "raise"
        ELSE IF def.parent # <<>> /\ (words = <<>> \/ words[1] # def.parent) THEN "no"
        ELSE IF def.field = Bad /\ words # <<>> THEN "raise"
        ELSE Say(def.field \in Elems(words))

MatchPath(raw, def) ==
    LET paths == {w \in Elems(Split(NormalizeQuoted(raw))) : Occurs(<<"/">>, w)}
    IN  IF def.field = <<>> THEN Say(\E w \in paths : IsSensitivePath(w))
        ELSE Search(def.field, paths)

MatchSyscall(raw, def) == Say(Elems(Split(NormalizeQuoted(raw))) \cap Dangerous # {})

MatchNetwork(raw, def) ==
    Search(IF def.field = <<>> THEN Address ELSE def.field,
           Elems(Split(NormalizeQuoted(raw))))

\* No segment holds the content of a heredoc.
MatchHeredoc(raw, def) == IF def.field \in {Bad, Huge} THEN "raise" ELSE "no"

\* _match_simple: a text is looked for in the normalised segment.
MatchSimple(raw, cond, answers) ==
    CASE cond.type = "text"  -> Say(Occurs(cond.field, NormalizeQuoted(raw)))
      [] cond.type = "other" -> "no"
      [] OTHER               -> answers[cond]

\* The not is asked first and vetoes; with no condition nothing matches.
MatchComposite(raw, def, answers) ==
    LET asked   == [k \in DOMAIN def.conditions |-> MatchSimple(raw, def.conditions[k], answers)]
        results == Elems(asked)
        veto    == IF def.negation = <<>> THEN "no" ELSE MatchSimple(raw, def.negation[1], answers)
    IN  IF veto = "raise" THEN "raise"
        ELSE IF veto = "yes" \/ def.conditions = <<>> THEN "no"
        ELSE IF "raise" \in results THEN "raise"
        ELSE CASE def.operator = "and" -> Say(results = {"yes"})
               [] def.operator = "or"  -> Say("yes" \in results)
               [] def.operator = "not" -> Say("yes" \notin results)
               [] OTHER                -> "no"

Answer(raw, def, answers) ==
    CASE def.type = "pattern"    -> MatchPattern(raw, def)
      [] def.type = "command"    -> MatchCommand(raw, def)
      [] def.type = "pipeline"   -> MatchPipeline(raw, def)
      [] def.type = "subcommand" -> MatchSubcommand(raw, def)
      [] def.type = "path"       -> MatchPath(raw, def)
      [] def.type = "composite"  -> MatchComposite(raw, def, answers)
      [] def.type = "syscall"    -> MatchSyscall(raw, def)
      [] def.type = "network"    -> MatchNetwork(raw, def)
      [] def.type = "heredoc"    -> MatchHeredoc(raw, def)
      [] OTHER                   -> "no"

\* Definitions are answered from the inside out.
MatchSegment(raw, def) ==
    LET answers[n \in 0 .. Len(Nested)] ==
          [d \in UNION {Nested[m] : m \in 1 .. n} |-> Answer(raw, d, answers[n - 1])]
    IN  answers[Len(Nested)][def]

\* The definitions a rule is made of: its own and those in its conditions.
Parts(def) ==
    LET within[n \in 0 .. Len(Nested)] ==
          [d \in UNION {Nested[m] : m \in 1 .. n} |->
              {d} \cup UNION {within[n - 1][c] : c \in {c \in Inner(d) : c.type \notin {"text", "other"}}}]
    IN  within[Len(Nested)][def]
=============================================================================

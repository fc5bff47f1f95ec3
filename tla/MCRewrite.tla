----------------------------- MODULE MCRewrite -----------------------------
(* Instances of Rewrite: every short command with two rules, chosen longer     *)
(* commands with rules of every type, and argument vectors as the wrapper      *)
(* quotes them.                                                                *)
EXTENDS Rewrite

CONSTANTS Alphabet, MaxLen, MaxWord, MaxArgs

MCChars == {"w", "v", "m", "i", "e", "/", "=", "u", "2", "_", "n", "|", ";", "&", "<", ">",
            "'", "\"", "\\", "(", "{", "bad"}

MCAlphabet == {"w", "_", "n", "|", ">", "'", "\\", "2", "\""}

Upto(S, n) == UNION {[1 .. k -> S] : k \in 0 .. n}

Written ==
    {Def("pattern", <<"w">>), Def("pattern", Bad), Def("command", Bad), Def("path", Bad),
     Composite("and", <<Word(<<"w">>)>>, <<Word(<<"v">>)>>),
     Def("pattern", <<"w", "_", "w">>), Def("pattern", Broken),
     Def("pattern", Huge), Def("path", Huge), Def("pipeline", Huge), Def("heredoc", Huge),
     Composite("or", <<Composite("and", <<Def("pattern", Huge)>>, <<>>)>>, <<>>),
     Def("command", <<"w">>), Def("subcommand", <<"v">>), Def("subcommand", Bad),
     [Def("subcommand", <<"v">>) EXCEPT !.parent = <<"w">>],
     Def("path", <<>>), Def("path", <<"v">>), Def("syscall", <<>>),
     Def("network", <<>>), Def("network", Bad), Def("heredoc", <<"w">>),
     Def("pipeline", <<"v">>), Def("unknown", <<"w">>),
     Composite("and", <<Word(<<"w">>), Def("command", <<"v">>)>>, <<>>),
     Composite("or",  <<Word(<<"v">>), Def("path", <<>>)>>, <<Def("pattern", <<"m">>)>>),
     Composite("not", <<Word(<<"m">>)>>, <<>>),
     Composite("and", <<>>, <<Def("pattern", <<"m">>)>>),
     Composite("and", <<Def("pattern", Bad)>>, <<>>),
     Composite("and", <<Word(<<"w">>), Other>>, <<Other>>),
     Composite("or", <<Composite("not", <<Def("pattern", <<"w", "_", "w">>)>>, <<>>)>>, <<>>)}
\* The rules of a file that loads.
Rules == {r \in Written : Validates(r)}

Within(defs) == {d \in UNION {Inner(def) : def \in defs} : d.type \notin {"text", "other"}}
MCNested == <<Within(Within(Rules)), Within(Rules), Rules>>

\* One command over the byte classes the short ones cannot reach.
Samples ==
    {<<"w", "_", "'", "v", "|", "w", "'", "|", "w">>,
     <<"\"", "v", "'", "w", "\"", "|", "v">>,
     <<"w", "_", "2", ">", "&", "2", "|", "v", "_", "w">>,
     <<"v", "_", "2", ">", ">", "v", ";", "w", "n">>,
     <<"m", "_", "/", "e", "&", "&", "w", "_", "i">>,
     <<"'", "'", "_", "'", "'">>,
     <<"'", "w", "'", "_", "'", "v", "|", "v", "'">>,
     <<"w", "_", "v", "=", "\"", "w", "_", "w", "\"">>}

MCCases ==
    [command : Upto(Alphabet, MaxLen), rule : {Def("pattern", <<"w">>), Def("command", <<"w">>)}]
    \cup [command : Samples, rule : Rules]
Words(n) == Upto({"w", "v", "|", "/", "e"}, n)
MCArgvs ==
    [argv : UNION {[1 .. k -> Words(MaxWord)] : k \in 1 .. MaxArgs}
            \cup UNION {[1 .. k -> {<<>>, <<"w">>, <<"|">>, <<"w", "_", "w">>, <<"w", "'", "|">>}] :
                            k \in 1 .. MaxArgs + 1},
     rule : Rules]
=============================================================================

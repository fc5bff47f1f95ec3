----------------------------- MODULE MCScripts -----------------------------
(* The maintenance tools of the repository checked in one run.  They share no  *)
(* state: `subject` says which of them this behaviour is about, the others     *)
(* keep one of their initial states.                                           *)
EXTENDS Board, Teardown, RulePack

CONSTANT MaxRows

VARIABLE subject

---------------------------------------------------------------------------
\* Short boards over sound rows, a repeated id, every schema defect and kind of
\* evidence gap and rows without an id; boards of MaxRows over four of them.
Row(id, priority, status, evidence) ==
    [id |-> id, priority |-> priority, status |-> status, evidence |-> evidence,
     superseded |-> FALSE, result |-> "code", note |-> FALSE]
SomeRows ==
    {Row("a", "P0", "complete", TRUE), [Row("a", "P2", "pending", FALSE) EXCEPT !.result = "prose"],
     Row("b", "int0", "pending", FALSE), [Row("b", "P1", "pending", FALSE) EXCEPT !.superseded = TRUE],
     Row("b", "P4", "completed", TRUE), Row("c", "int9", "word", TRUE),
     Row("c", "null", "blocked", FALSE), [Row("unparsed", "null", "null", FALSE) EXCEPT !.result = "prose"],
     Row("notobject", "null", "null", FALSE)}
MCBoards ==
    UNION {[1 .. n -> SomeRows] : n \in 0 .. MaxRows - 1} \cup
    [1 .. MaxRows -> {r \in SomeRows : r.id \in {"a", "b"} /\ r.priority \in {"P0", "P2", "int0", "P4"}}]
MCWritten == {Row("a", "P1", "pending", FALSE), Row("c", "int2", "null", TRUE)}

---------------------------------------------------------------------------
\* Imported rows: two full kernels and what may go wrong with a third.
MCCell(kernel, backend, verdict) ==
    LET number == IF verdict \in {"PASS", "FAIL"} THEN "number" ELSE "null"
    IN [kernel |-> kernel, backend |-> backend, verdict |-> verdict, survival |-> number,
        exit |-> IF number = "null" THEN "null" ELSE "int"]
Pair(kernel, verdict) == <<MCCell(kernel, "bwrap", "PASS"), MCCell(kernel, "unshare", verdict)>>
Full == Pair("k1", "PASS") \o Pair("k2", "PASS")
MCImports ==
    {<<>>, Full, Full \o Pair("k3", "FAIL"), Full \o Pair("k3", "UNAVAILABLE"),
     Full \o <<MCCell("k3", "bwrap", "FAIL")>>, Full \o Pair("here", "PASS"),
     Full \o <<[MCCell("k3", "bwrap", "PASS") EXCEPT !.survival = "null"], MCCell("k3", "unshare", "PASS")>>,
     Full \o <<[MCCell("k3", "bwrap", "UNMEASURED") EXCEPT !.exit = "int"], MCCell("k3", "other", "PASS")>>,
     Pair("k1", "FAIL") \o Full \o <<MCCell("here", "unshare", "UNMEASURED")>>}

---------------------------------------------------------------------------
\* The namespaces of the packs p and p-q overlap.
MCPacks == {"p", "p-q"}
MCNamespace == [x \in MCPacks |-> IF x = "p" THEN {"pack-p-1", "pack-p-2", "pack-p-q-1"} ELSE {"pack-p-q-1"}]
MCBuiltin == [x \in {"builtin"} |-> "block"]
MCOrder == <<"10-admin", "00-builtins", "p", "p-q", "zz-local">>
Rule(id, action) == [id |-> id, action |-> action, type |-> "pattern", pattern |-> TRUE, typed |-> TRUE]
Doc(text, list) == [text |-> text, keyed |-> TRUE, rules |-> list]
MCDocs ==
    {Doc("json", <<Rule("pack-p-1", "warn")>>), Doc("yaml", <<Rule("pack-p-q-1", "block")>>),
     Doc("json", <<Rule("builtin", "block")>>), Doc("yaml", <<Rule("builtin", "allow")>>),
     Doc("json", <<Rule("pack-p-q-1", "allow"), Rule("pack-p-q-1", "block")>>),
     Doc("broken", <<>>),
     Doc("json", <<[Rule("pack-p-1", "block") EXCEPT !.typed = FALSE]>>),
     [Doc("json", <<>>) EXCEPT !.keyed = FALSE]}
MCSystemDocs ==
    {[text |-> "absent", keyed |-> FALSE, rules |-> <<>>], Doc("json", <<Rule("builtin", "allow")>>)}
\* What the two packs are at first: sound, overlapping, or refused.
MCSources ==
    {[x \in MCPacks |-> IF x = "p" THEN Doc(text, <<Rule(a, "warn"), Rule("pack-p-1", "block")>>)
                       ELSE Doc("json", <<Rule(b, "allow")>>)] :
        text \in {"json", "yaml"}, a \in {"pack-p-2", "pack-p-q-1"}, b \in {"pack-p-q-1", "builtin"}}

---------------------------------------------------------------------------
scriptsVars == <<subject, vars, teardownVars, packVars>>

ScriptsInit ==
    /\ subject \in {"board", "teardown", "pack"}
    /\ Init /\ (subject # "board" => board = <<>>)
    /\ TeardownInit /\ (subject # "teardown" => others = {})
    /\ PackInit /\ host.shut # {"system", "user"}
    /\ (subject # "pack" =>
          /\ host = [yaml |-> TRUE, live |-> TRUE, shut |-> {}]
          /\ source = CHOOSE s \in MCSources : TRUE
          /\ dir["10-admin"].rules = <<>>)

\* The tool that runs.
BoardStep == subject = "board" /\ Next /\ UNCHANGED <<teardownVars, packVars>>
TeardownStep == subject = "teardown" /\ TeardownNext /\ UNCHANGED <<vars, packVars>>
PackStep == subject = "pack" /\ PackNext /\ UNCHANGED <<vars, teardownVars>>
ScriptsNext == (BoardStep \/ TeardownStep \/ PackStep) /\ UNCHANGED subject
ScriptsSpec == ScriptsInit /\ [][ScriptsNext]_scriptsVars

=============================================================================

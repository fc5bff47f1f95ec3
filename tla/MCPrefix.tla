------------------------------ MODULE MCPrefix ------------------------------
(* Instances of Prefix: one process, one-shot or resident (processes share     *)
(* nothing but the host), two directories, two id ranges.                      *)
EXTENDS Prefix

MCTables == {<<>>, <<"own">>, <<"bad", "own">>, <<"own", "default">>}
=============================================================================

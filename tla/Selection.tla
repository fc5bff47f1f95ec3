----------------------------- MODULE Selection -----------------------------
(* What the maintenance scripts do with a file of rows: they go over its lines *)
(* and keep some of them, in their order.                                      *)
EXTENDS Integers, Sequences, FiniteSets

Lines(rows) == 1 .. Len(rows)

\* The lines kept, each at the place that counts the kept ones up to it.
Selects(rows, keep) == [k \in 1 .. Cardinality(keep) |->
                          rows[CHOOSE i \in keep : Cardinality({j \in keep : j <= i}) = k]]
=============================================================================

--------------------------- MODULE MCInterruptor ---------------------------
(* Instances of Interruptor: one engine rule per layer, two rule files.        *)
EXTENDS Interruptor

MCIds      == {"b1", "b2", "a1", "s1", "n1", "n2", "unknown"}
MCTexts    == {"t1", "t2", "t3", "t4", "w"}
MCMessages == {"placeholder", "policy", "m1", "m2"}

Shipment(id, action, prio, match, pos) ==
    [id |-> id, action |-> action, prio |-> prio, match |-> match, msg |-> "policy",
     explicit |-> TRUE, pos |-> pos, from |-> 0]

MCBlocklist == {Shipment("b1", "block", 3, {"t1", "w"}, 1),
                Shipment("b2", "block", 1, {"t1"}, 2)}
MCAllowlist == {Shipment("a1", "allow", 1, {"t2"}, 3)}
MCSandbox   == {Shipment("s1", "sandbox", 2, {"t3"}, 4)}

Line(id, action, prio, match, msg) ==
    [id |-> id, action |-> action, prio |-> prio, match |-> match, msg |-> msg]

Overrides == {Line("b1", "warn", 3, {"t1", "w"}, "no msg"),
              Line("b1", "block", 1, {"t1"}, "m1"),
              Line("b1", "allow", 4, {"t1"}, "no msg"),
              Line("a1", "block", 4, {"t2"}, "no msg"),
              Line("s1", "warn", 2, {"t3"}, "m2")}
Additions == {Line("n1", "block", 4, {"t2", "t4", "w"}, "m1"),
              Line("n1", "allow", 4, {"t1", "t3"}, "no msg"),
              Line("n1", "sandbox", 0, {"t1", "t4"}, "no msg"),
              Line("n2", "other", 2, {"t4"}, "no msg"),
              Line("no id", "block", 2, {"t3", "t4"}, "no msg")}

File(shape, rules) == [shape |-> shape, rules |-> rules]

FewContents == {File("missing", <<>>), File("neither", <<>>)}
    \cup {File(s, <<Line("b1", "warn", 3, {"t1", "w"}, "no msg")>>) : s \in {"yaml", "refused"}}
    \cup {File("both", <<Line("b1", "block", 1, {"t1"}, "m1"), e>>) : e \in Additions}
    \cup {File("both", <<e>>) : e \in Overrides}
    \cup {File("json", <<e>>) : e \in Additions}

Command(mode, segs, whole, rebuilds, room) ==
    [mode |-> mode, kind |-> "plain", yaml |-> FALSE, segs |-> segs, whole |-> whole,
     rebuilds |-> rebuilds, room |-> room]
Trivial(mode, kind) == [Command(mode, <<>>, "t1", TRUE, 1) EXCEPT !.kind = kind]

Plain == {Command("enforce", <<"t1">>, "t1", TRUE, 1),
          Command("warn", <<"t1">>, "w", TRUE, 1),
          Command("enforce", <<"t2">>, "w", TRUE, 1),
          Command("enforce", <<"t2", "t3">>, "w", TRUE, 2),
          Command("warn", <<"t1", "t3">>, "t2", TRUE, 1),
          Command("enforce", <<"t3", "t1">>, "t2", FALSE, 0),
          Command("enforce", <<"t3", "t2">>, "t3", TRUE, 1),
          Command("enforce", <<"t3", "t4">>, "t2", TRUE, 1),
          Command("warn", <<"t4">>, "t4", TRUE, 1)}
Others == {Trivial(m, k) : m \in {"enforce", "warn", "disabled"}, k \in {"blank", "oversize", "plain"}}
AllJobs == {[j EXCEPT !.yaml = y] : j \in Plain \cup Others, y \in BOOLEAN}
PackThenUser == <<"pack", "user">>
=============================================================================

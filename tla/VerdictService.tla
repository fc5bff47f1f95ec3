---------------------------- MODULE VerdictService ----------------------------
(***************************************************************************)
(* What the verdict protocol promises a caller, whatever carries it.  A    *)
(* client asks once and is answered once: by an engine evaluation of its   *)
(* own command, by an error envelope of the mode of the process that       *)
(* answers, or by "no verdict", which a client with the fallback never     *)
(* gets.                                                                    *)
(***************************************************************************)
EXTENDS Envelopes

CONSTANTS AnswerModes,  \* [Clients -> SUBSET Modes]: modes it may be answered in
          Fallback,     \* the clients that never go without an answer
          Unanswered    \* what answer[c] is until c is answered

VARIABLES asked,        \* the clients whose request has started
          answer        \* what each one got

vars == <<asked, answer>>

Permitted(c) ==
  UNION {Evaluate(c, m) \cup {TransportError(m)}
                        \cup (IF c \in Fallback THEN {} ELSE {NoVerdict(m)}) :
         m \in AnswerModes[c]}

Init == asked = {} /\ answer = [c \in Clients |-> Unanswered]

Ask(c) ==
  /\ c \notin asked
  /\ asked' = asked \cup {c}
  /\ UNCHANGED answer

Answer(c) ==
  /\ c \in asked
  /\ answer[c] = Unanswered
  /\ \E r \in Permitted(c) : answer' = [answer EXCEPT ![c] = r]
  /\ UNCHANGED asked

Next == \E c \in Clients : Ask(c) \/ Answer(c)

Spec == Init /\ [][Next]_vars
===============================================================================

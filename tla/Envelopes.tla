------------------------------ MODULE Envelopes ------------------------------
(***************************************************************************)
(* The answers of the verdict protocol.  A caller sends one command and    *)
(* receives one JSON verdict, either from the one-shot bridge              *)
(* (interruptor_bridge.py) or from the resident daemon                     *)
(* (interruptor_resident.py); both build the same answers, and both take   *)
(* the interruptor mode from the environment of the answering process.     *)
(*                                                                         *)
(* Policy[c] abstracts the engine: what it decides, in enforce mode, for   *)
(* the command of client c.                                                *)
(***************************************************************************)
CONSTANTS Clients,      \* one process asking for one verdict each
          Policy,       \* [Clients -> {"allow", "modify", "block"}]
          EngineFaults  \* what may befall an evaluation: "raises", "missing"

Modes   == {"enforce", "warn", "disabled"}
Actions == {"allow", "modify", "block"}
NoCmd   == "no command"

ASSUME PolicyAssumption == Policy \in [Clients -> Actions]
ASSUME FaultsAssumption == EngineFaults \subseteq {"raises", "missing"}
ASSUME NoCmdAssumption  == NoCmd \notin Clients

Answers == [by     : {"engine", "engine error", "transport error", "nobody"},
            action : Actions \cup {"none"},
            cmd    : Clients \cup {NoCmd},
            mode   : Modes]

\* The engine in its mode: disabled passes everything through, warn turns a
\* block into an allow that says what would have been blocked.
EngineAction(c, m) ==
  IF \/ m = "disabled"
     \/ m = "warn" /\ Policy[c] = "block"
  THEN "allow" ELSE Policy[c]

Verdict(c, m) ==
  [by |-> "engine", action |-> EngineAction(c, m), cmd |-> c, mode |-> m]

\* The bug it had (REVIEW-TJ-008): a broken transport allowed every command.
TransportFailsOpen(m) ==
  [by |-> "transport error", action |-> "allow", cmd |-> NoCmd, mode |-> m]

\* Whatever keeps a request from reaching the engine: fail closed in enforce
\* mode, open otherwise.
TransportError(m) ==
  [by |-> "transport error", action |-> IF m = "enforce" THEN "block" ELSE "allow",
   cmd |-> NoCmd, mode |-> m]

\* The engine raised: blocked whatever the mode.
EngineError(m) ==
  [by |-> "engine error", action |-> "block", cmd |-> NoCmd, mode |-> m]

\* Exit status 3 with nothing on stdout: the caller must ask elsewhere.
NoVerdict(m) ==
  [by |-> "nobody", action |-> "none", cmd |-> NoCmd, mode |-> m]

\* One evaluation of the command of client c by a process in mode m: the
\* engine decides, raises, or cannot be imported.
Evaluate(c, m) ==
  {Verdict(c, m)}
    \cup (IF "raises"  \in EngineFaults THEN {EngineError(m)}    ELSE {})
    \cup (IF "missing" \in EngineFaults THEN {TransportError(m)} ELSE {})

\* An answer is earned if, when a process in enforce mode lets the command
\* run, the engine let that very command run.
Earned(c, r) == r.mode = "enforce" /\ r.action \in {"allow", "modify"}
                => r.by = "engine" /\ r.cmd = c /\ r.action = Policy[c]
==============================================================================

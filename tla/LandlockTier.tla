----------------------------- MODULE LandlockTier -----------------------------
(***************************************************************************)
(* The two Landlock tiers of one launch: the file-system tier              *)
(* (interruptor/landlock.py) and the egress tier (landlock_net.py).  The   *)
(* engine finds out in a forked child whether a tier can be applied, and   *)
(* writes its loader into the rewrite if so; the wrapper attaches loaders  *)
(* itself.  A loader proves the tier in a child of its own, restricts      *)
(* itself, and execs what comes next, which inherits the restriction.      *)
(*                                                                         *)
(* The kernel: a restriction is one-way and survives exec; what a child    *)
(* does to itself does not touch its parent.                               *)
(***************************************************************************)
EXTENDS LandlockLayout, Sequences

CONSTANT Setups \* for each scenario: who composes the launch, which tiers, on what host

Tiers == {"fs", "net"}

Setup == [by : {"engine", "wrapper"},
          on : SUBSET Tiers,                 \* TERMINAL_JAIL_LANDLOCK, ..._LANDLOCK_NET
          abi : {"none", "fs", "net"},       \* what the kernel's Landlock knows
          enforces : SUBSET Tiers,           \* what it really denies once it is asked to
          shipped : SUBSET Tiers,            \* the loaders that are installed
          readable : SUBSET Tiers,           \* those the payload's uid may read
          needs : SUBSET Paths]              \* what it takes to start a loader

ASSUME SetupAssumption == Setups \in [Scenarios -> SUBSET Setup]

Processes == {"engine", "probe", "loader"}

VARIABLES
  setup,
  pc,       \* where the current process stands
  who,      \* the process that applies a tier: the engine's child, or a loader
  queue,    \* the tiers to come: those the engine asks about, then the launch's loaders
  tails,    \* the tiers whose loader the engine has written into the rewrite
  domain,   \* [Processes -> the tiers that the kernel holds it to]
  claimed,  \* the tiers that loaders of this launch have reported as applied
  stated,   \* the tiers whose absence was said on stderr
  proof,    \* what the proving child wrote on its pipe: "none", "0" or "1"
  probe,    \* the probe of a proof, a file or a listener, is to be removed again
  litter,   \* a probe file stays behind
  outcome   \* of the launch: "none", "ran", "crashed", "not started"

procVars == <<domain, claimed, proof, probe, litter>>
tierVars == <<setup, pc, who, queue, tails, stated, outcome, procVars>>
vars     == <<layoutVars, tierVars>>

Applying == {"prepare", "layout", "ruleset", "host", "prove", "verdict", "restrict"}
Steps    == {"engine", "chain", "done", "applied", "declined", "raised"} \cup Applying

TypeOK ==
  /\ LayoutTypeOK
  /\ setup \in Setup
  /\ pc \in Steps
  /\ who \in Processes
  /\ queue \in Seq(Tiers)
  /\ tails \subseteq Tiers /\ claimed \subseteq Tiers /\ stated \subseteq Tiers
  /\ domain \in [Processes -> SUBSET Tiers]
  /\ proof \in {"none", "0", "1"}
  /\ probe \in BOOLEAN /\ litter \in BOOLEAN
  /\ outcome \in {"none", "ran", "crashed", "not started"}

Loader(t, attached) == IF t \in attached THEN <<t>> ELSE <<>>

\* The bug it had: the egress loader inside the file-system tier cannot start its
\* own interpreter where the grants do not cover that.
FsOutermost(attached) == Loader("fs", attached) \o Loader("net", attached)

EgressOutermost(attached) == Loader("net", attached) \o Loader("fs", attached)

\* The engine asks about both tiers; the wrapper attaches the loaders that it finds
\* and the payload can read.
Init ==
  /\ LayoutInit
  /\ setup \in Setups[given]
  /\ IF setup.by = "engine"
     THEN pc = "engine" /\ queue = <<"fs", "net">> /\ stated = {}
     ELSE pc = "chain" /\ queue = EgressOutermost(setup.on \cap setup.readable) /\ stated = setup.on \ setup.readable
  /\ who = "loader" /\ tails = {} /\ claimed = {}
  /\ domain = [p \in Processes |-> {}]
  /\ proof = "none" /\ probe = FALSE /\ litter = FALSE /\ outcome = "none"

tier == Head(queue)

Goto(next) == pc' = next /\ UNCHANGED <<setup, who, queue, tails, stated, outcome>>

-----------------------------------------------------------------------------
(* apply: what the engine's child and a loader do alike.                      *)

\* The allowlist is refused or the ABI is too old; or the C library cannot be
\* loaded, which is an OSError.
Prepare ==
  /\ pc = "prepare"
  /\ IF tier = "fs"
     THEN /\ Goto("layout")
          /\ Enter(IF who = "loader" /\ Len(queue) = 1 THEN given.derived ELSE {})
     ELSE /\ \/ setup.abi = "net" /\ Goto("host")
             \/ Goto("declined")
             \/ Goto("raised")
          /\ UNCHANGED layoutVars
  /\ UNCHANGED procVars

Build ==
  /\ pc = "layout"
  /\ BuildStep
  /\ UNCHANGED tierVars

\* Opening a path that has gone is an OSError, and so is a missing C library.
Built ==
  /\ pc = "layout"
  /\ \/ step = "granted" /\ Goto("ruleset")
     \/ step = "refused" /\ Goto("declined")
     \/ step \in {"error", "open"} /\ Goto("raised")
  /\ UNCHANGED <<layoutVars, procVars>>

\* The rules of the egress tier name the port of its probe, so that comes first.
CreateRuleset ==
  /\ pc = "ruleset"
  /\ \/ setup.abi # "none" /\ Goto(IF tier = "fs" THEN "host" ELSE "prove") /\ UNCHANGED probe
     \/ Goto("declined") /\ probe' = FALSE
  /\ UNCHANGED <<layoutVars, domain, claimed, proof, litter>>

\* Creating a file and then writing it may fail, and so may removing it: either way
\* the file stays and nothing is said.
MayLitter == \/ UNCHANGED litter
             \/ tier = "fs" /\ litter' = TRUE

\* A file outside every grant that only a restriction can keep its owner from
\* reading, in the first place where it can be made; for egress, a listener.  There
\* may be no place for it, and the call that creates the socket is not guarded.
MakeProbe ==
  /\ pc = "host"
  /\ \/ probe' = TRUE /\ Goto(IF tier = "fs" THEN "prove" ELSE "ruleset")
     \/ Goto("declined") /\ UNCHANGED probe
     \/ tier = "net" /\ Goto("raised") /\ UNCHANGED probe
  /\ MayLitter
  /\ UNCHANGED <<layoutVars, domain, claimed, proof>>

Discard == probe' = FALSE /\ MayLitter

\* The bug it could have: that the child restricted itself is taken for the proof.
ProveRestriction ==
  /\ pc = "prove"
  /\ \/ proof' = "1" /\ Goto("verdict") /\ UNCHANGED <<probe, litter>>
     \/ proof' \in {"none", "0"} /\ Goto("verdict") /\ UNCHANGED <<probe, litter>>
  /\ UNCHANGED <<layoutVars, domain, claimed>>

\* A child restricts itself and tries the probe: denied is "1".  It may die before
\* it writes; or there is no pipe, or no child at all, and the probe is removed.
Prove ==
  /\ pc = "prove"
  /\ \/ /\ tier \in setup.enforces
        /\ proof' = "1" /\ Goto("verdict") /\ UNCHANGED <<probe, litter>>
     \/ proof' \in {"none", "0"} /\ Goto("verdict") /\ UNCHANGED <<probe, litter>>
     \/ proof' = "none" /\ Discard /\ Goto("declined")
     \/ proof' = "none" /\ Discard /\ Goto("raised")
  /\ UNCHANGED <<layoutVars, domain, claimed>>

\* A bug it could have: the probe outlives a proof that failed.
VerdictLeavesProbe ==
  /\ pc = "verdict"
  /\ probe' = (proof # "1")
  /\ IF proof = "1" THEN Goto("restrict") ELSE Goto("declined")
  /\ UNCHANGED <<layoutVars, domain, claimed, proof, litter>>

Verdict ==
  /\ pc = "verdict"
  /\ Discard
  /\ IF proof = "1" THEN Goto("restrict") ELSE Goto("declined")
  /\ UNCHANGED <<layoutVars, domain, claimed, proof>>

\* A bug it could have: the engine restricts itself instead of its child.
RestrictEngine ==
  /\ pc = "restrict"
  /\ domain' = [domain EXCEPT !["engine"] = @ \cup (setup.enforces \cap {tier})]
  /\ Goto("applied")
  /\ UNCHANGED <<layoutVars, claimed, proof, probe, litter>>

\* no_new_privs and the restriction, both of which may be refused.
RestrictSelf ==
  /\ pc = "restrict"
  /\ \/ /\ domain' = [domain EXCEPT ![who] = @ \cup (setup.enforces \cap {tier})]
        /\ Goto("applied")
     \/ UNCHANGED domain /\ Goto("declined")
  /\ UNCHANGED <<layoutVars, claimed, proof, probe, litter>>

Apply == Prepare \/ Build \/ Built \/ CreateRuleset \/ MakeProbe \/ Prove \/ Verdict \/ RestrictSelf

-----------------------------------------------------------------------------
(* The engine: sandbox_prefix of one tier, then of the other.                 *)

Settle(rest) == pc' = rest /\ queue' = Tail(queue) /\ UNCHANGED <<setup, who, outcome>>

SkipTier ==
  /\ pc = "engine" /\ queue # <<>> /\ tier \notin setup.on
  /\ Settle("engine")
  /\ UNCHANGED <<layoutVars, tails, stated, procVars>>

\* The child starts unrestricted; it may not start at all.
AskChild ==
  /\ pc = "engine" /\ queue # <<>> /\ tier \in setup.on
  /\ \/ /\ pc' = "prepare" /\ who' = "probe"
        /\ domain' = [domain EXCEPT !["probe"] = {}]
        /\ UNCHANGED <<queue, stated>>
     \/ /\ pc' = "engine" /\ queue' = Tail(queue) /\ stated' = stated \cup {tier}
        /\ UNCHANGED <<who, domain>>
  /\ proof' = "none"
  /\ UNCHANGED <<layoutVars, setup, tails, outcome, claimed, probe, litter>>

\* A bug it could have: a loader that cannot be reached is left out without a word.
EmitQuietly ==
  /\ pc \in {"applied", "declined", "raised"} /\ who = "probe"
  /\ \/ pc = "applied" /\ tier \in setup.shipped /\ tails' = tails \cup {tier} /\ UNCHANGED stated
     \/ pc = "applied" /\ UNCHANGED <<tails, stated>>
     \/ pc # "applied" /\ stated' = stated \cup {tier} /\ UNCHANGED tails
  /\ Settle("engine")
  /\ UNCHANGED <<layoutVars, procVars>>

\* What the child reported, or that it reported nothing.  The egress loader has to
\* be readable; for either the directories above it have to let others pass.
Emit ==
  /\ pc \in {"applied", "declined", "raised"} /\ who = "probe"
  /\ \/ /\ pc = "applied" /\ tier \in setup.shipped
        /\ tier = "net" => tier \in setup.readable
        /\ tails' = tails \cup {tier} /\ UNCHANGED stated
     \/ stated' = stated \cup {tier} /\ UNCHANGED tails
  /\ Settle("engine")
  /\ UNCHANGED <<layoutVars, procVars>>

\* The rewrite: the file-system loader, then the egress loader, then the command.
Rewrite ==
  /\ pc = "engine" /\ queue = <<>>
  /\ pc' = "chain" /\ who' = "loader"
  /\ queue' = Loader("fs", tails) \o Loader("net", tails)
  /\ UNCHANGED <<layoutVars, setup, tails, stated, outcome, procVars>>

-----------------------------------------------------------------------------
(* The launch: each loader, then the command.                                *)

End(how) == /\ pc' = "done" /\ outcome' = how
            /\ UNCHANGED <<layoutVars, setup, who, queue, tails, stated, procVars>>

Covered(p) == \E g \in write \cup read : p \in Under[g]

Startable == /\ tier \in setup.readable
             /\ "fs" \in domain["loader"] => \A p \in setup.needs : Covered(p)

\* The tier's module may not be there: stated, and the command runs.
StartLoader ==
  /\ pc = "chain" /\ queue # <<>>
  /\ Startable
  /\ \/ pc' = "prepare" /\ proof' = "none" /\ UNCHANGED <<queue, stated>>
     \/ pc' = "chain" /\ queue' = Tail(queue) /\ stated' = stated \cup {tier} /\ UNCHANGED proof
  /\ UNCHANGED <<layoutVars, setup, who, tails, outcome, domain, claimed, probe, litter>>

\* python3 cannot read what it needs.
LoaderFails ==
  /\ pc = "chain" /\ queue # <<>>
  /\ ~ Startable
  /\ End("not started")

Applied ==
  /\ pc = "applied" /\ who = "loader"
  /\ claimed' = claimed \cup {tier}
  /\ Settle("chain")
  /\ UNCHANGED <<layoutVars, tails, stated, domain, proof, probe, litter>>

Declined ==
  /\ pc = "declined" /\ who = "loader"
  /\ stated' = stated \cup {tier}
  /\ Settle("chain")
  /\ UNCHANGED <<layoutVars, tails, procVars>>

\* apply_tier catches LandlockError only.
Crash ==
  /\ pc = "raised" /\ who = "loader"
  /\ End("crashed")

ExecPayload ==
  /\ pc = "chain" /\ queue = <<>>
  /\ End("ran")

Engine == SkipTier \/ AskChild \/ Emit \/ Rewrite
Launch == StartLoader \/ LoaderFails \/ Applied \/ Declined \/ Crash \/ ExecPayload

\* Another process changes the disk.
Disturb == pc # "done" /\ Edit /\ UNCHANGED tierVars

Next == Apply \/ Engine \/ Launch \/ Disturb

Spec == Init /\ [][Next]_vars

-----------------------------------------------------------------------------
(* Properties                                                                *)

\* Finding out whether a tier can be applied restricts nobody else: the engine, which
\* goes on to read rule files that the tier would hide from it, is never restricted
\* (landlock.py:1263-1268).  And whatever comes of a proof, the probe it used has
\* been removed before anything else runs, as far as it could be: a file that could
\* be created but not written, or not removed, stays.
ProvingIsUndone == domain["engine"] = {} /\ (pc \notin Applying => ~ probe)

\* Between loaders, and when the command runs, it is held to exactly the tiers that
\* were reported as applied: a report was proved, and a tier that was declined has
\* left nothing behind (landlock.py:350-370, "never leave a half-applied state").
DomainIsWhatIsClaimed == pc \in {"chain", "done"} => domain["loader"] = claimed

\* A tier that is on and does not hold the command that runs was said to be missing,
\* by the engine, the wrapper or the loader.
MissingTierIsStated == outcome = "ran" => setup.on \ domain["loader"] \subseteq stated

\* The wrapper's chain starts: no loader is put where an earlier one keeps its
\* interpreter from it (terminal-jail:1441-1449).
WrapperChainStarts == setup.by = "wrapper" => outcome # "not started"

\* landlock-loader.py:23-26: "Tier not applied [...] the command is exec'd unchanged
\* [...] never a failure (the tier is deny-path hardening, not a gate)".
NeverAGate == outcome # "crashed"

\* landlock.py:1214-1216: "The tail is only emitted when the launch can actually reach
\* the loader"; what cannot reach it "dies with Errno 13 instead of running".
EmittedLoaderStarts == setup.by = "engine" => outcome # "not started"

===============================================================================

---------------------------- MODULE LaunchProofs ----------------------------
(***************************************************************************)
(* Proofs about Launch, for any set of options and any installation.       *)
(***************************************************************************)
EXTENDS Launch, TLAPS

\* What every leaf about one action needs of the state's shape.
LEMMA OptionsAreTyped ==
  ASSUME TypeOK
  PROVE  /\ cfg \in Config
         /\ loaders \subseteq Tiers
BY ConfigAssumption, LoaderAssumption DEF TypeOK

\* The tiers a launch attaches are tiers, and what it states are statements.
LEMMA TiersAreTyped ==
  ASSUME NEW fs \in BOOLEAN, NEW net \in BOOLEAN
  PROVE  /\ Attached("fs", fs) \in SUBSET Tiers
         /\ Attached("net", net) \in SUBSET Tiers
         /\ {"seccomp"} \in SUBSET Tiers
BY DEF Attached, Tiers

LEMMA ExecIsTyped ==
  ASSUME NEW ns \in Namespaces, NEW tiers \in SUBSET Tiers,
         NEW payload \in {"command", "rewrite", "one word"},
         Exec(ns, tiers, payload)
  PROVE  /\ pc' \in Steps /\ exit' \in {"none", "2", "126", "exec"}
         /\ run' \in Run
BY DEF Exec, Steps, Run

-------------------------------------------------------------------------------
(* Types.                                                                     *)

LEMMA InitTyped == Init => TypeOK
<1> SUFFICES ASSUME Init PROVE TypeOK
  OBVIOUS
<1>1. run \in Run /\ outer \in Evidence
  BY DEF Init, NoRun, Run, Namespaces, Evidence
<1> QED BY <1>1 DEF Init, TypeOK, Steps, Verdicts

\* The steps of the firewall.
LEMMA FirewallTyped == TypeOK /\ Firewall => TypeOK'
<1> SUFFICES ASSUME TypeOK, Firewall PROVE TypeOK'
  OBVIOUS
<1> USE DEF TypeOK, Goto, Refuse, Steps, input, firewallVars, hostVars, outerVars
<1>1. CASE CheckArgs BY <1>1 DEF CheckArgs
<1>2. CASE SkipFirewall BY <1>2 DEF SkipFirewall
<1>3. CASE AskBridge
  <2>1. verdict' \in Verdicts /\ mark' \in {"none", "empty", "written"} /\ said' \subseteq Statements
    BY <1>3 DEF AskBridge, Say, Verdicts, Statements
  <2> QED BY <1>3, <2>1 DEF AskBridge
<1>4. CASE Block BY <1>4 DEF Block
<1>5. CASE Allow BY <1>5 DEF Allow
<1>6. CASE Modify BY <1>6 DEF Modify
<1> QED BY <1>1, <1>2, <1>3, <1>4, <1>5, <1>6 DEF Firewall

\* The steps that choose the flags and the backend.
LEMMA SelectionTyped == TypeOK /\ Selection => TypeOK'
<1> SUFFICES ASSUME TypeOK, Selection PROVE TypeOK'
  OBVIOUS
<1> USE DEF TypeOK, Goto, Refuse, Steps, input, firewallVars, hostVars, outerVars
<1>1. CASE CheckPlatform BY <1>1 DEF CheckPlatform
<1>2. CASE Bare BY <1>2 DEF Bare
<1>3. CASE MappingOff BY <1>3 DEF MappingOff, Unmapped, Say, Statements
<1>4. CASE ProbeMapped BY <1>4 DEF ProbeMapped, Unmapped, Say, Statements
<1>5. CASE SelectBwrap BY <1>5 DEF SelectBwrap, Say, Statements
<1>6. CASE SelectAuto BY <1>6 DEF SelectAuto
<1>7. CASE SelectUnshare BY <1>7 DEF SelectUnshare
<1>8. CASE CheckDemand BY <1>8 DEF CheckDemand
<1> QED BY <1>1, <1>2, <1>3, <1>4, <1>5, <1>6, <1>7, <1>8 DEF Selection

\* The probes and the composed decision.
LEMMA PreflightTyped == TypeOK /\ Preflight => TypeOK'
<1> SUFFICES ASSUME TypeOK, Preflight PROVE TypeOK'
  OBVIOUS
<1> USE DEF TypeOK, Goto, Refuse, Steps, input, firewallVars, hostVars, outerVars
<1>1. CASE PreflightRewrite BY <1>1 DEF PreflightRewrite
<1>2. CASE PreflightPlain BY <1>2 DEF PreflightPlain
<1>3. CASE DecideComposed
  <2>1. outer' \in Evidence
    BY <1>3 DEF DecideComposed, Evidence
  <2> QED BY <1>3, <2>1 DEF DecideComposed
<1> QED BY <1>1, <1>2, <1>3 DEF Preflight

\* The launches.
LEMMA LaunchingTyped == TypeOK /\ Launching => TypeOK'
<1> SUFFICES ASSUME TypeOK, Launching PROVE TypeOK'
  OBVIOUS
<1>1. Namespace \in Namespaces
  BY DEF TypeOK, Namespace, Namespaces
<1>2. ViewStated \in Statements
  BY DEF ViewStated, Statements, Views
<1>3. "none" \in Namespaces /\ "rewrite" \in Namespaces
  BY DEF Namespaces
<1> USE DEF input, firewallVars, hostVars, outerVars
<1>4. CASE LaunchComposed
  <2> PICK net \in BOOLEAN, egress \in SUBSET {"no egress tier"} :
        /\ Say(egress \cup {IF composed = "outer" THEN "platform-owned" ELSE "none"}
                     \cup {"no fs tier"} \cup {s \in {"no filter"} : cfg.seccomp})
        /\ Exec("none", Attached("net", net), "command")
    BY <1>4 DEF LaunchComposed
  <2>1. said' \subseteq Statements
    BY DEF TypeOK, Say, Statements, Views
  <2> QED BY <1>3, <1>4, <2>1, TiersAreTyped, ExecIsTyped DEF LaunchComposed, TypeOK
<1>5. CASE LaunchFiltered
  <2>1. CASE "seccomp" \notin loaders
    BY <1>5, <2>1 DEF LaunchFiltered, Refuse, TypeOK, Steps
  <2>2. CASE "seccomp" \in loaders
    <3> PICK net \in BOOLEAN, egress \in SUBSET {"no egress tier"} :
          /\ Say({ViewStated} \cup egress)
          /\ Exec(Namespace, {"seccomp"} \cup Attached("net", net), "command")
      BY <1>5, <2>2 DEF LaunchFiltered
    <3>1. said' \subseteq Statements
      BY <1>2 DEF TypeOK, Say, Statements
    <3>2. {"seccomp"} \cup Attached("net", net) \in SUBSET Tiers
      BY TiersAreTyped
    <3> QED BY <1>1, <1>5, <3>1, <3>2, ExecIsTyped DEF LaunchFiltered, TypeOK
  <2> QED BY <2>1, <2>2
<1>6. CASE LaunchPlain
  <2> PICK fs \in BOOLEAN, net \in BOOLEAN, degraded \in SUBSET {"no fs tier"},
           egress \in SUBSET {"no egress tier"} :
        /\ Say({ViewStated} \cup egress \cup degraded)
        /\ Exec(Namespace, Attached("fs", fs) \cup Attached("net", net), "command")
    BY <1>6 DEF LaunchPlain
  <2>1. said' \subseteq Statements
    BY <1>2 DEF TypeOK, Say, Statements
  <2>2. Attached("fs", fs) \cup Attached("net", net) \in SUBSET Tiers
    BY TiersAreTyped
  <2> QED BY <1>1, <1>6, <2>1, <2>2, ExecIsTyped DEF LaunchPlain, TypeOK
<1>7. CASE LaunchRewrite
  <2> PICK fs \in BOOLEAN : Exec("rewrite", Attached("fs", fs), "rewrite")
    BY <1>7 DEF LaunchRewrite
  <2> QED BY <1>3, <1>7, TiersAreTyped, ExecIsTyped DEF LaunchRewrite, TypeOK
<1>8. CASE LaunchStripped
  <2>1. said' \subseteq Statements
    BY <1>8 DEF LaunchStripped, TypeOK, Say, Statements, Views
  <2>2. Exec("none", {}, "one word") /\ {} \in SUBSET Tiers
    BY <1>8 DEF LaunchStripped
  <2> QED BY <1>3, <1>8, <2>1, <2>2, ExecIsTyped DEF LaunchStripped, TypeOK
<1> QED BY <1>4, <1>5, <1>6, <1>7, <1>8 DEF Launching

LEMMA TypeStep == TypeOK /\ [Next]_vars => TypeOK'
<1>1. TypeOK /\ UNCHANGED vars => TypeOK'
  BY DEF TypeOK, vars
<1> QED BY <1>1, FirewallTyped, SelectionTyped, PreflightTyped, LaunchingTyped DEF Next

\* Every variable of the script keeps to its values, whatever it is asked for.
THEOREM TypeCorrect == Spec => []TypeOK
<1> QED BY InitTyped, TypeStep, PTL DEF Spec

-------------------------------------------------------------------------------
(* The invariant: what is known at each place of the script, on the way to a   *)
(* launch, that its launch needs.                                              *)

Selecting == {"platform", "user", "backend", "demand", "preflight", "decide", "launch"}
Mapping   == {"backend", "demand", "preflight", "decide", "launch"}
Selected  == {"demand", "preflight", "decide", "launch"}
Accepted  == {"preflight", "decide", "launch"}

\* A launch is the script's last step, and it settles an answer it has.
EndsInLaunch == /\ Launched => pc = "done"
                /\ pc = "settle" => verdict # "none"

\* In enforce mode the firewall is left with a decision only.
Decided == cfg.firewall /\ cfg.mode = "enforce" /\ pc \in Selecting =>
             verdict \in {"allow", "modify", "actionless"}

\* The backend is the pinned one, and bubblewrap where the demand was accepted.
Chosen == /\ pc \in Selected => backend # "unset"
          /\ pc \in Selected /\ cfg.backend # "auto" => backend = cfg.backend
          /\ pc \in Accepted /\ cfg.demand => backend = "bwrap"

\* Nobody who pinned or demanded something is composed.
Earned == /\ composed # "no" => pc \in {"launch", "done"}
          /\ composed # "no" \/ pc = "decide" => MayCompose

\* Isolation is claimed where the flags map uids and unshare will use them.
Claimed == cfg.user /\ pc \in Mapping =>
             IF fsiso = "mapped"
             THEN flags = "mapped" /\ (pc \in Selected => backend = "unshare")
             ELSE "fs isolation" \in said

\* What the launch's own mark records has been stated, and it goes by no other.
OwnMark == "net" \in cfg.tiers /\ ("mark" \in cfg.inherited => AsksEngine)

Marked == /\ OwnMark /\ mark = "written" /\ pc \in Selecting \cup {"settle"} =>
               "egress by engine" \in said
          /\ "mark" \notin cfg.inherited /\ pc \in {"args", "firewall"} => mark = "none"

Path == EndsInLaunch /\ Decided /\ Chosen /\ Earned /\ Claimed /\ Marked

Promises == /\ EnforceNeedsAnAnswer /\ PinnedBackendNeverDowngraded
            /\ DemandHoldsForPlainLaunches
            /\ FilterNeverSilentlyOff /\ FsTierStated
            /\ EgressStated /\ MappingClaimHolds

\* A step that launches nothing breaks no promise.
LEMMA PromisesAreOfLaunches == ~ Launched => Promises
BY DEF Promises, Plain, EnforceNeedsAnAnswer, PinnedBackendNeverDowngraded,
       DemandHoldsForPlainLaunches, FilterNeverSilentlyOff,
       FsTierStated, EgressStated, EgressStatedIn, MappingClaimHolds

LEMMA InitPath == Init => Path /\ ~ Launched
BY DEF Init, Path, Launched, EndsInLaunch, Decided, Chosen, Earned, Claimed, Marked, OwnMark, AsksEngine,
       Selecting, Mapping, Selected, Accepted, MayCompose

-------------------------------------------------------------------------------
(* The steps before the launch.                                               *)

LEMMA FirewallKeepsPath ==
  ASSUME TypeOK, Path, Firewall, pc # "done" PROVE Path' /\ ~ Launched'
<1>1. ~ Launched
  BY DEF Path, EndsInLaunch
<1> USE DEF Path, Launched, EndsInLaunch, Decided, Chosen, Earned, Claimed, Marked,
            OwnMark, AsksEngine, MayCompose, Selecting, Mapping, Selected, Accepted, Goto, Refuse,
            input, firewallVars, hostVars, outerVars
<1>2. CASE CheckArgs BY <1>1, <1>2 DEF CheckArgs
<1>3. CASE SkipFirewall BY <1>1, <1>3 DEF SkipFirewall
<1>4. CASE AskBridge BY <1>1, <1>4 DEF AskBridge, Say
<1>5. CASE Block BY <1>1, <1>5 DEF Block
<1>6. CASE Allow
  <2>1. pc = "settle" /\ verdict \in Verdicts /\ verdict # "none"
    BY <1>6 DEF Allow, TypeOK
  <2>2. cfg.mode = "enforce" => verdict \in {"allow", "actionless"}
    BY <1>6, <2>1 DEF Allow, Refused, Verdicts
  <2> QED BY <1>1, <1>6, <2>1, <2>2 DEF Allow
<1>7. CASE Modify BY <1>1, <1>7 DEF Modify
<1> QED BY <1>2, <1>3, <1>4, <1>5, <1>6, <1>7 DEF Firewall

LEMMA SelectionKeepsPath ==
  ASSUME TypeOK, Path, Selection, pc # "done" PROVE Path' /\ ~ Launched'
<1>1. ~ Launched
  BY DEF Path, EndsInLaunch
<1> USE DEF Path, Launched, EndsInLaunch, Decided, Chosen, Earned, Claimed, Marked,
            OwnMark, AsksEngine, MayCompose, Selecting, Mapping, Selected, Accepted, Goto, Refuse,
            input, firewallVars, hostVars, outerVars
<1>2. CASE CheckPlatform BY <1>1, <1>2 DEF CheckPlatform
<1>3. CASE Bare BY <1>1, <1>3 DEF Bare
<1>4. CASE MappingOff BY <1>1, <1>4 DEF MappingOff, Unmapped, Say
<1>5. CASE ProbeMapped BY <1>1, <1>5 DEF ProbeMapped, Unmapped, Say
<1>6. CASE SelectBwrap BY <1>1, <1>6 DEF SelectBwrap, Say
<1>7. CASE SelectAuto BY <1>1, <1>7 DEF SelectAuto
<1>8. CASE SelectUnshare BY <1>1, <1>8 DEF SelectUnshare
<1>9. CASE CheckDemand BY <1>1, <1>9 DEF CheckDemand
<1> QED BY <1>2, <1>3, <1>4, <1>5, <1>6, <1>7, <1>8, <1>9 DEF Selection

LEMMA PreflightKeepsPath ==
  ASSUME TypeOK, Path, Preflight, pc # "done" PROVE Path' /\ ~ Launched'
<1>1. ~ Launched
  BY DEF Path, EndsInLaunch
<1> USE DEF Path, Launched, EndsInLaunch, Decided, Chosen, Earned, Claimed, Marked,
            OwnMark, AsksEngine, MayCompose, Selecting, Mapping, Selected, Accepted, Goto, Refuse,
            input, firewallVars, hostVars, outerVars
<1>2. CASE PreflightRewrite BY <1>1, <1>2 DEF PreflightRewrite
<1>3. CASE PreflightPlain BY <1>1, <1>3 DEF PreflightPlain
<1>4. CASE DecideComposed
  <2>1. PICK exists \in BOOLEAN, signals \in SUBSET Signals :
          /\ "sentinel" \in signals => exists
          /\ outer' = [exists |-> exists, signals |-> signals]
          /\ IF Detected(signals)
             THEN /\ composed' = IF signals # {} THEN "outer" ELSE "forced"
                  /\ Goto("launch")
             ELSE /\ UNCHANGED composed
                  /\ Refuse("2")
    BY <1>4 DEF DecideComposed
  <2>2. outer'.exists = exists /\ outer'.signals = signals
    BY <2>1
  <2>3. cfg.composed = "auto" /\ Detected(signals) => exists \/ "namespace" \in signals
    BY <2>1 DEF Detected, Conclusive
  <2>4. pc = "decide" /\ pc' \in {"launch", "done"} /\ exit' # "exec"
    <3>1. CASE Detected(signals) BY <1>1, <1>4, <2>1, <3>1 DEF DecideComposed
    <3>2. CASE ~ Detected(signals) BY <1>4, <2>1, <3>2 DEF DecideComposed
    <3> QED BY <3>1, <3>2
  <2>5. Earned'
    <3>1. CASE Detected(signals) BY <1>4, <2>1, <2>2, <2>3, <3>1 DEF DecideComposed
    <3>2. CASE ~ Detected(signals) BY <1>4, <2>1, <3>2 DEF DecideComposed
    <3> QED BY <3>1, <3>2
  <2>6. (EndsInLaunch /\ Decided /\ Chosen /\ Claimed /\ Marked)' /\ ~ Launched'
    BY <1>4, <2>4 DEF DecideComposed
  <2> QED BY <2>5, <2>6
<1> QED BY <1>2, <1>3, <1>4 DEF Preflight

-------------------------------------------------------------------------------
(* The launches.                                                              *)

\* What a launch finds when it begins.
LEMMA AtLaunch ==
  ASSUME TypeOK, Path, pc = "launch"
  PROVE  /\ cfg.firewall /\ cfg.mode = "enforce" => verdict \in {"allow", "modify", "actionless"}
         /\ backend \in {"bwrap", "unshare"} /\ flags \in {"bare", "user", "mapped"}
         /\ cfg.backend # "auto" => backend = cfg.backend /\ composed = "no"
         /\ cfg.demand => backend = "bwrap" /\ composed = "no"
         /\ cfg.user => IF fsiso = "mapped" THEN flags = "mapped" /\ backend = "unshare"
                                            ELSE "fs isolation" \in said
         /\ OwnMark /\ mark = "written" => "egress by engine" \in said
BY DEF TypeOK, Path, EndsInLaunch, Decided, Chosen, Earned, Claimed, Marked,
       OwnMark, AsksEngine, MayCompose, Selecting, Mapping, Selected, Accepted

\* The egress tier attaches, or its absence is said now or was said by the engine.
LEMMA EgressIsStated ==
  ASSUME NEW here \in BOOLEAN, NEW attached \in BOOLEAN, NEW stated,
         Egress(here, attached, stated), "net" \in cfg.tiers, mark # "written"
  PROVE  attached \/ "no egress tier" \in stated
BY DEF Egress

LEMMA FsTierIsStated ==
  ASSUME NEW attached \in BOOLEAN, NEW stated,
         FsTier(attached, stated), "fs" \in cfg.tiers, fsiso # "mapped"
  PROVE  attached \/ "no fs tier" \in stated
BY DEF FsTier

\* A launch ends the script; what composed mode saw and what was stated remain.
LEMMA LaunchingKeepsPath ==
  ASSUME TypeOK, Path, Launching, pc' = "done" PROVE Path'
<1>1. UNCHANGED <<cfg, outer, composed>> /\ said \subseteq said' /\ mark' \in {mark, "none"}
  BY DEF Launching, LaunchComposed, LaunchFiltered, LaunchPlain, LaunchRewrite, LaunchStripped,
         Say, input, firewallVars, hostVars, outerVars
<1>2. Earned' /\ Marked'
  BY <1>1 DEF Path, Earned, Marked, OwnMark, AsksEngine, MayCompose, Selecting
<1> QED BY <1>2 DEF Path, EndsInLaunch, Decided, Chosen, Claimed, Selecting, Mapping, Selected,
                    Accepted

\* What every launch in a namespace promises, whichever tiers it attaches.
LEMMA NamespacePromises ==
  ASSUME TypeOK, Path, pc = "launch", rewrite = "no", composed = "no",
         UNCHANGED <<cfg, verdict, rewrite, mark, fsiso, composed>>,
         run'.ns = Namespace, said \cup {ViewStated} \subseteq said'
  PROVE  (/\ EnforceNeedsAnAnswer /\ PinnedBackendNeverDowngraded
          /\ DemandHoldsForPlainLaunches /\ MappingClaimHolds)'
BY AtLaunch DEF EnforceNeedsAnAnswer, PinnedBackendNeverDowngraded,
       DemandHoldsForPlainLaunches, MappingClaimHolds,
       Launched, Plain, Namespace, ViewStated

LEMMA ComposedKeepsPromises ==
  ASSUME TypeOK, Path, LaunchComposed PROVE Promises'
<1> PICK net \in BOOLEAN, egress \in SUBSET {"no egress tier"} :
      /\ Egress(TRUE, net, egress)
      /\ Say(egress \cup {IF composed = "outer" THEN "platform-owned" ELSE "none"}
                    \cup {"no fs tier"} \cup {s \in {"no filter"} : cfg.seccomp})
      /\ Exec("none", Attached("net", net), "command")
  BY DEF LaunchComposed
<1>1. /\ pc = "launch" /\ composed # "no"
      /\ UNCHANGED <<input, firewallVars, hostVars, outerVars>>
  BY DEF LaunchComposed
<1>2. (EnforceNeedsAnAnswer /\ PinnedBackendNeverDowngraded
       /\ DemandHoldsForPlainLaunches)'
  BY <1>1, AtLaunch DEF EnforceNeedsAnAnswer, PinnedBackendNeverDowngraded,
     DemandHoldsForPlainLaunches, Launched, Plain,
     input, firewallVars, outerVars
<1>3. (FilterNeverSilentlyOff /\ FsTierStated /\ MappingClaimHolds)'
  BY <1>1 DEF FilterNeverSilentlyOff, FsTierStated, MappingClaimHolds, Say,
     input, outerVars
<1>4. EgressStated'
  <2> SUFFICES ASSUME OwnMark
               PROVE  ("net" \in run.tiers \/ said \cap {"no egress tier", "egress by engine"} # {})'
    BY <1>1 DEF EgressStated, EgressStatedIn, OwnMark, AsksEngine, input
  <2>1. run'.tiers = Attached("net", net) /\ said \cup egress \subseteq said'
    BY DEF Exec, Say
  <2>2. CASE mark = "written"
    BY <1>1, <2>1, <2>2, AtLaunch
  <2>3. CASE mark # "written"
    BY <2>1, <2>3, EgressIsStated DEF Attached, OwnMark
  <2> QED BY <2>2, <2>3
<1> QED BY <1>2, <1>3, <1>4 DEF Promises

LEMMA FilteredKeepsPromises ==
  ASSUME TypeOK, Path, LaunchFiltered PROVE Promises'
<1>1. CASE "seccomp" \notin loaders
  BY <1>1 DEF LaunchFiltered, Refuse, Launched,
     Promises, Plain, EnforceNeedsAnAnswer, PinnedBackendNeverDowngraded,
     DemandHoldsForPlainLaunches, FilterNeverSilentlyOff,
     FsTierStated, EgressStated, EgressStatedIn, MappingClaimHolds
<1>2. CASE "seccomp" \in loaders
  <2> PICK net \in BOOLEAN, egress \in SUBSET {"no egress tier"} :
        /\ Egress(FALSE, net, egress)
        /\ Say({ViewStated} \cup egress)
        /\ Exec(Namespace, {"seccomp"} \cup Attached("net", net), "command")
    BY <1>2 DEF LaunchFiltered
  <2>1. /\ pc = "launch" /\ rewrite = "no" /\ composed = "no" /\ cfg.seccomp
        /\ UNCHANGED <<input, firewallVars, hostVars, outerVars>>
    BY DEF LaunchFiltered
  <2>2. /\ run'.ns = Namespace /\ run'.tiers = {"seccomp"} \cup Attached("net", net)
        /\ said \cup {ViewStated} \cup egress \subseteq said'
    BY DEF Exec, Say
  <2>3. (EnforceNeedsAnAnswer /\ PinnedBackendNeverDowngraded
         /\ DemandHoldsForPlainLaunches /\ MappingClaimHolds)'
    BY <2>1, <2>2, NamespacePromises DEF input, firewallVars, hostVars, outerVars
  <2>4. (FilterNeverSilentlyOff /\ FsTierStated)'
    BY <2>1, <2>2 DEF FilterNeverSilentlyOff, FsTierStated, input
  <2>5. EgressStated'
    <3> SUFFICES ASSUME OwnMark
                 PROVE  ("net" \in run.tiers
                         \/ said \cap {"no egress tier", "egress by engine"} # {})'
      BY <2>1 DEF EgressStated, EgressStatedIn, OwnMark, AsksEngine, input
    <3>1. CASE mark = "written"
      BY <2>1, <2>2, <3>1, AtLaunch
    <3>2. CASE mark # "written"
      BY <2>2, <3>2, EgressIsStated DEF Attached, OwnMark
    <3> QED BY <3>1, <3>2
  <2> QED BY <2>3, <2>4, <2>5 DEF Promises
<1> QED BY <1>1, <1>2

LEMMA PlainKeepsPromises ==
  ASSUME TypeOK, Path, LaunchPlain PROVE Promises'
<1> PICK fs \in BOOLEAN, net \in BOOLEAN, degraded \in SUBSET {"no fs tier"},
         egress \in SUBSET {"no egress tier"} :
      /\ FsTier(fs, degraded)
      /\ Egress(FALSE, net, egress)
      /\ Say({ViewStated} \cup egress \cup degraded)
      /\ Exec(Namespace, Attached("fs", fs) \cup Attached("net", net), "command")
  BY DEF LaunchPlain
<1>1. /\ pc = "launch" /\ rewrite = "no" /\ composed = "no" /\ ~ cfg.seccomp
      /\ UNCHANGED <<input, firewallVars, hostVars, outerVars>>
  BY DEF LaunchPlain
<1>2. /\ run'.ns = Namespace /\ run'.tiers = Attached("fs", fs) \cup Attached("net", net)
      /\ said \cup {ViewStated} \cup egress \cup degraded \subseteq said'
  BY DEF Exec, Say
<1>3. (EnforceNeedsAnAnswer /\ PinnedBackendNeverDowngraded
       /\ DemandHoldsForPlainLaunches /\ MappingClaimHolds)'
  BY <1>1, <1>2, NamespacePromises DEF input, firewallVars, hostVars, outerVars
<1>4. FilterNeverSilentlyOff'
  BY <1>1 DEF FilterNeverSilentlyOff, input
<1>5. FsTierStated'
  BY <1>1, <1>2, FsTierIsStated DEF FsTierStated, Attached, input, hostVars
<1>6. EgressStated'
  <2> SUFFICES ASSUME OwnMark
               PROVE  ("net" \in run.tiers \/ said \cap {"no egress tier", "egress by engine"} # {})'
    BY <1>1 DEF EgressStated, EgressStatedIn, OwnMark, AsksEngine, input
  <2>1. CASE mark = "written"
    BY <1>1, <1>2, <2>1, AtLaunch
  <2>2. CASE mark # "written"
    BY <1>2, <2>2, EgressIsStated DEF Attached, OwnMark
  <2> QED BY <2>1, <2>2
<1> QED BY <1>3, <1>4, <1>5, <1>6 DEF Promises

\* A rewrite's launch is bound by the promises that are not about plain commands.
LEMMA RewriteKeepsPromises ==
  ASSUME TypeOK, Path, LaunchRewrite \/ LaunchStripped PROVE Promises'
<1>1. /\ pc = "launch" /\ rewrite' # "no"
      /\ UNCHANGED <<cfg, verdict, outer, composed>>
  BY DEF LaunchRewrite, LaunchStripped, input, outerVars
<1>2. (EnforceNeedsAnAnswer)'
  BY <1>1, AtLaunch DEF EnforceNeedsAnAnswer, Launched
<1> QED BY <1>1, <1>2 DEF Promises, Plain, PinnedBackendNeverDowngraded,
       DemandHoldsForPlainLaunches, FilterNeverSilentlyOff, FsTierStated,
       EgressStated, EgressStatedIn, MappingClaimHolds

-------------------------------------------------------------------------------
(* The theorem.                                                               *)

Inv == Path /\ Promises

LEMMA InvStep == TypeOK /\ TypeOK' /\ Inv /\ [Next]_vars => Inv'
<1> SUFFICES ASSUME TypeOK, Inv, [Next]_vars PROVE Inv'
  OBVIOUS
<1>1. ASSUME ~ Launched' PROVE Promises'
  BY <1>1 DEF Promises, Launched, Plain, EnforceNeedsAnAnswer,
     PinnedBackendNeverDowngraded, DemandHoldsForPlainLaunches,
     FilterNeverSilentlyOff, FsTierStated, EgressStated, EgressStatedIn, MappingClaimHolds
<1>2. CASE Firewall \/ Selection \/ Preflight
  <2>1. pc # "done"
    BY <1>2 DEF Firewall, CheckArgs, SkipFirewall, AskBridge, Block, Allow, Modify,
       Selection, CheckPlatform, Bare, MappingOff, ProbeMapped, SelectBwrap, SelectAuto,
       SelectUnshare, CheckDemand, Preflight, PreflightRewrite, PreflightPlain, DecideComposed
  <2> QED BY <1>1, <1>2, <2>1, FirewallKeepsPath, SelectionKeepsPath, PreflightKeepsPath DEF Inv
<1>3. CASE Launching
  <2>1. pc' = "done"
    BY <1>3 DEF Launching, LaunchComposed, LaunchFiltered, LaunchPlain, LaunchRewrite,
       LaunchStripped, Exec, Refuse
  <2>2. Path'
    BY <1>3, <2>1, LaunchingKeepsPath DEF Inv
  <2>3. Promises'
    BY <1>3, ComposedKeepsPromises, FilteredKeepsPromises, PlainKeepsPromises,
       RewriteKeepsPromises DEF Inv, Launching
  <2> QED BY <2>2, <2>3 DEF Inv
<1>4. CASE UNCHANGED vars
  <2>1. Path'
    <3>1. (EndsInLaunch /\ Decided /\ Chosen)'
      BY <1>4 DEF vars, Inv, Path, EndsInLaunch, Decided, Chosen, Launched
    <3>2. (Earned /\ Claimed /\ Marked)'
      BY <1>4 DEF vars, Inv, Path, Earned, Claimed, Marked, OwnMark, AsksEngine, MayCompose
    <3> QED BY <3>1, <3>2 DEF Path
  <2>2. (/\ EnforceNeedsAnAnswer /\ PinnedBackendNeverDowngraded
         /\ DemandHoldsForPlainLaunches)'
    BY <1>4 DEF vars, Inv, Promises, Launched, Plain, EnforceNeedsAnAnswer,
       PinnedBackendNeverDowngraded, DemandHoldsForPlainLaunches
  <2>3. (FilterNeverSilentlyOff /\ FsTierStated)'
    BY <1>4 DEF vars, Inv, Promises, Launched, Plain, FilterNeverSilentlyOff,
       FsTierStated
  <2>4. (EgressStated /\ MappingClaimHolds)'
    BY <1>4 DEF vars, Inv, Promises, Launched, Plain, EgressStated, EgressStatedIn,
       AsksEngine, MappingClaimHolds
  <2> QED BY <2>1, <2>2, <2>3, <2>4 DEF Inv, Promises
<1> QED BY <1>2, <1>3, <1>4 DEF Next

LEMMA InvHolds == Spec => []Inv
<1>1. Init => Inv
  BY InitPath, PromisesAreOfLaunches DEF Inv
<1> QED BY <1>1, TypeCorrect, InvStep, PTL DEF Spec

\* In enforce mode a command runs on an object the bridge answered, never on a block, an
\* error envelope, another text or the lack of a bridge.
THEOREM RunsOnAnAnswer == Spec => []EnforceNeedsAnAnswer
<1>1. Inv => EnforceNeedsAnAnswer
  BY DEF Inv, Promises
<1> QED BY <1>1, InvHolds, PTL

\* A pinned backend and a private /proc that was asked for are used by a plain command
\* or refused, never exchanged.
THEOREM DemandsHold == Spec => []AskedForIsDelivered
<1>1. Inv => AskedForIsDelivered
  BY DEF Inv, Promises, AskedForIsDelivered
<1> QED BY <1>1, InvHolds, PTL

\* A tier that is on is there or its absence was stated, for a plain command in every launch
\* shape; a uid mapping takes the place of the file-system tier, a launch through the seccomp
\* loader says nothing of it, and a launch without the firewall must have no inherited mark.
THEOREM MissingTiersAreSaid == Spec => []MissingTiersAreStated
<1>1. Inv => MissingTiersAreStated
  BY DEF Inv, Promises, MissingTiersAreStated
<1> QED BY <1>1, InvHolds, PTL

\* Isolation by uid mapping is claimed of a launch that maps uids, and of no other.
THEOREM MappingClaimIsTrue == Spec => []MappingClaimHolds
<1>1. Inv => MappingClaimHolds
  BY DEF Inv, Promises
<1> QED BY <1>1, InvHolds, PTL
=============================================================================

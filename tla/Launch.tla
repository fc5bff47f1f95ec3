------------------------------- MODULE Launch -------------------------------
(***************************************************************************)
(* One run of the standalone wrapper (standalone/terminal-jail): from its  *)
(* options and control variables, through the firewall's verdict, the      *)
(* probes of what the host can create, and the choice of a backend, to the *)
(* exec of the payload or a refusal.                                       *)
(*                                                                         *)
(* The host answers every probe when it is asked, and may answer otherwise *)
(* when it is asked again.                                                 *)
(***************************************************************************)
EXTENDS Naturals

CONSTANTS Configs,   \* the options and control variables of a run
          LoaderSets \* which tier loaders an installation may have

Namespaces == {"bare", "user", "mapped", "bwrap", "rewrite", "none"}
Tiers      == {"seccomp", "fs", "net"}
Views      == {"private", "host", "platform-owned", "none"}

Config == [user : BOOLEAN,        \* --user
           uidmap : BOOLEAN,      \* TERMINAL_JAIL_UID_MAP is not 0
           seccomp : BOOLEAN,     \* --seccomp
           demand : BOOLEAN,      \* --private-proc
           backend : {"auto", "bwrap", "unshare", "other"},
           composed : {"auto", "on", "off", "other"},
           firewall : BOOLEAN,    \* USE_INTERRUPTOR
           mode : {"enforce", "warn", "disabled"},
           tiers : SUBSET {"fs", "net"},  \* TERMINAL_JAIL_LANDLOCK, ..._LANDLOCK_NET
           \* exported by a launch it runs inside: ..._LANDLOCK_NET_MARK of an engine
           \* that has stated a degradation, TERMINAL_JAIL_FS_ISOLATION=mapped
           inherited : SUBSET {"mark", "mapped"}]

ASSUME ConfigAssumption == Configs \subseteq Config
ASSUME LoaderAssumption == LoaderSets \subseteq SUBSET Tiers

VARIABLES
  pc,        \* where the script stands
  cfg,       \* what it was asked for
  loaders,   \* the loaders it found
  verdict,   \* what came back from the bridge
  rewrite,   \* MODIFIED: "no", or whether the rewrite begins with its prefix
  mark,      \* the egress mark: "none", "empty" or "written"
  fsiso,     \* TERMINAL_JAIL_FS_ISOLATION
  flags,     \* UNSHARE_FLAGS
  backend,   \* TJ_BACKEND
  outer,     \* composed mode: an outer layer exists, and the signals of one
  composed,  \* "no", or composed mode was decided: with or without an outer layer seen
  said,      \* what it stated on stderr
  exit,      \* "none", the exit status of a refusal, or "exec"
  run        \* what was executed

vars == <<pc, cfg, loaders, verdict, rewrite, mark, fsiso, flags, backend, outer, composed,
          said, exit, run>>

Steps == {"args", "firewall", "settle", "platform", "user", "backend", "demand",
          "preflight", "decide", "launch", "done"}

\* What comes back: no bridge, no JSON object, an object that reports an error, one
\* without an action the script knows, or a verdict.
Verdicts == {"none", "unavailable", "unusable", "error", "actionless", "block", "modify", "allow"}

Signals == {"sentinel", "namespace", "root"}

Statements == {"fs isolation", "no fs tier", "no egress tier", "no filter", "egress by engine"}
                \cup Views

\* What composed mode saw: whether an outer layer exists, and the signals of one.
Evidence == [exists : BOOLEAN, signals : SUBSET Signals]

\* What was executed: in which namespaces, behind which loaders.
Run == [ns : Namespaces, tiers : SUBSET Tiers,
        payload : {"nothing", "command", "rewrite", "one word"}]

NoRun == [ns |-> "none", tiers |-> {}, payload |-> "nothing"]

TypeOK ==
  /\ pc \in Steps /\ cfg \in Configs /\ loaders \in LoaderSets
  /\ verdict \in Verdicts
  /\ rewrite \in {"no", "prefixed", "embedded"}
  /\ mark \in {"none", "empty", "written"}
  /\ fsiso \in {"unset", "degraded", "mapped"}
  /\ flags \in {"bare", "user", "mapped"}
  /\ backend \in {"unset", "bwrap", "unshare"}
  /\ outer \in Evidence
  /\ composed \in {"no", "outer", "forced"}
  /\ said \subseteq Statements
  /\ exit \in {"none", "2", "126", "exec"}
  /\ run \in Run

Init ==
  /\ pc = "args" /\ cfg \in Configs /\ loaders \in LoaderSets
  /\ verdict = "none" /\ rewrite = "no"
  /\ mark = IF "mark" \in cfg.inherited THEN "written" ELSE "none"
  /\ fsiso = IF "mapped" \in cfg.inherited THEN "mapped" ELSE "unset"
  /\ flags = "bare" /\ backend = "unset"
  /\ outer = [exists |-> FALSE, signals |-> {}] /\ composed = "no"
  /\ said = {} /\ exit = "none" /\ run = NoRun

Goto(step) == pc' = step /\ UNCHANGED <<exit, run>>

Refuse(status) == pc' = "done" /\ exit' = status /\ UNCHANGED run

Exec(ns, tiers, payload) ==
  /\ pc' = "done" /\ exit' = "exec"
  /\ run' = [ns |-> ns, tiers |-> tiers, payload |-> payload]

Say(what) == said' = said \cup what

firewallVars == <<verdict, rewrite, mark>>
hostVars     == <<fsiso, flags, backend>>
outerVars    == <<outer, composed>>
input        == <<cfg, loaders>>

-----------------------------------------------------------------------------
(* Control variables, and the firewall's verdict.                            *)

CheckArgs ==
  /\ pc = "args"
  /\ IF cfg.backend = "other" \/ cfg.composed = "other" THEN Refuse("2") ELSE Goto("firewall")
  /\ UNCHANGED <<input, firewallVars, hostVars, outerVars, said>>

SkipFirewall ==
  /\ pc = "firewall"
  /\ ~ cfg.firewall \/ cfg.mode = "disabled"
  /\ Goto("platform")
  /\ UNCHANGED <<input, firewallVars, hostVars, outerVars, said>>

\* The bridge is asked.  With the egress knob on, the launch first makes a mark
\* file (mktemp may fail), where the engine notes a degradation it has stated.
AskBridge ==
  /\ pc = "firewall"
  /\ cfg.firewall /\ cfg.mode # "disabled"
  /\ verdict' \in Verdicts \ {"none"}
  /\ IF "net" \in cfg.tiers
     THEN \E stated, made \in BOOLEAN :
            /\ stated => verdict' # "unavailable"
            /\ mark' = IF ~ made THEN "none" ELSE IF stated THEN "written" ELSE "empty"
            /\ Say(IF stated THEN {"egress by engine"} ELSE {})
     ELSE UNCHANGED <<mark, said>>
  /\ Goto("settle")
  /\ UNCHANGED <<input, rewrite, hostVars, outerVars>>

\* The bug it had (TJ-GAP-070): an error envelope was taken for the allow it held.
RefusedIgnoresErrors == verdict \in {"unavailable", "unusable", "block"} /\ cfg.mode # "warn"

\* No bridge, no object, an error envelope or a block: refused, except that in
\* warn mode the command runs with a warning.  An object whose action is missing or
\* unknown is none of these and takes the branch of an allow.
Refused == verdict \in {"unavailable", "unusable", "error", "block"} /\ cfg.mode # "warn"

Block ==
  /\ pc = "settle"
  /\ Refused
  /\ Refuse("126")
  /\ UNCHANGED <<input, firewallVars, hostVars, outerVars, said>>

Allow ==
  /\ pc = "settle"
  /\ ~ Refused /\ verdict # "modify"
  /\ Goto("platform")
  /\ UNCHANGED <<input, firewallVars, hostVars, outerVars, said>>

\* A rewrite begins with its unshare prefix, or has it in a later segment (or, from a
\* bridge that leaves the rewrite out of its answer, nowhere).
Modify ==
  /\ pc = "settle"
  /\ verdict = "modify"
  /\ rewrite' \in {"prefixed", "embedded"}
  /\ Goto("platform")
  /\ UNCHANGED <<input, verdict, mark, hostVars, outerVars, said>>

\* Linux, and unshare on the PATH.
CheckPlatform ==
  /\ pc = "platform"
  /\ Goto("user") \/ Refuse("2")
  /\ UNCHANGED <<input, firewallVars, hostVars, outerVars, said>>

-----------------------------------------------------------------------------
(* The flags of the launch, and the backend.                                 *)

Bare ==
  /\ pc = "user"
  /\ ~ cfg.user
  /\ Goto("backend")
  /\ UNCHANGED <<input, firewallVars, hostVars, outerVars, said>>

Unmapped ==
  /\ flags' = "user" /\ fsiso' = "degraded"
  /\ Say({"fs isolation"})

MappingOff ==
  /\ pc = "user"
  /\ cfg.user /\ ~ cfg.uidmap
  /\ Unmapped
  /\ Goto("backend")
  /\ UNCHANGED <<input, firewallVars, backend, outerVars>>

\* Mapped if that launch works, and its payload can read the seccomp loader if it
\* is to run through it; otherwise unmapped, which is said.
ProbeMapped ==
  /\ pc = "user"
  /\ cfg.user /\ cfg.uidmap
  /\ \/ flags' = "mapped" /\ fsiso' = "mapped" /\ UNCHANGED said
     \/ Unmapped
  /\ Goto("backend")
  /\ UNCHANGED <<input, firewallVars, backend, outerVars>>

\* A pinned bwrap cannot map uids: what was claimed before is taken back.
SelectBwrapKeepsClaim ==
  /\ pc = "backend"
  /\ cfg.backend = "bwrap"
  /\ Goto("demand") \/ Refuse("2")
  /\ backend' = IF pc' = "demand" THEN "bwrap" ELSE "unset"
  /\ UNCHANGED <<input, firewallVars, fsiso, flags, outerVars, said>>

SelectBwrap ==
  /\ pc = "backend"
  /\ cfg.backend = "bwrap"
  /\ IF fsiso = "mapped"
     THEN fsiso' = "degraded" /\ Say({"fs isolation"})
     ELSE UNCHANGED <<fsiso, said>>
  /\ Goto("demand") \/ Refuse("2")
  /\ backend' = IF pc' = "demand" THEN "bwrap" ELSE "unset"
  /\ UNCHANGED <<input, firewallVars, flags, outerVars>>

\* auto: bubblewrap if it is there and works, unless the uids can be mapped.
SelectAuto ==
  /\ pc = "backend"
  /\ cfg.backend = "auto"
  /\ backend' \in IF fsiso = "mapped" THEN {"unshare"} ELSE {"bwrap", "unshare"}
  /\ Goto("demand")
  /\ UNCHANGED <<input, firewallVars, fsiso, flags, outerVars, said>>

SelectUnshare ==
  /\ pc = "backend"
  /\ cfg.backend = "unshare"
  /\ backend' = "unshare"
  /\ Goto("demand")
  /\ UNCHANGED <<input, firewallVars, fsiso, flags, outerVars, said>>

CheckDemand ==
  /\ pc = "demand"
  /\ IF cfg.demand /\ backend # "bwrap" THEN Refuse("2") ELSE Goto("preflight")
  /\ UNCHANGED <<input, firewallVars, hostVars, outerVars, said>>

-----------------------------------------------------------------------------
(* Preflight: can this host create the namespaces of the launch?             *)

\* The bug it could have: a pinned unshare backend is composed as auto is.
ComposeUnlessDemanded == ~ cfg.demand

\* Whoever pinned a backend or demanded a private /proc is never composed.
MayCompose == cfg.backend = "auto" /\ ~ cfg.demand

\* A rewrite is probed with its own flags, then its interpreter is.
PreflightRewrite ==
  /\ pc = "preflight"
  /\ rewrite # "no"
  /\ \/ Goto("launch")
     \/ rewrite = "prefixed" /\ Refuse("2")
     \/ rewrite = "prefixed" /\ MayCompose /\ Goto("decide")
  /\ UNCHANGED <<input, firewallVars, hostVars, outerVars, said>>

PreflightPlain ==
  /\ pc = "preflight"
  /\ rewrite = "no"
  /\ \/ backend = "bwrap" /\ Goto("launch")
     \/ backend = "unshare" /\ Goto("launch")
     \/ backend = "unshare" /\ IF MayCompose THEN Goto("decide") ELSE Refuse("2")
  /\ UNCHANGED <<input, firewallVars, hostVars, outerVars, said>>

\* A sentinel or a namespace signal; the root file system alone is not enough.
Conclusive(signals) == signals \cap {"sentinel", "namespace"} # {}

Detected(signals) ==
  CASE cfg.composed = "on"  -> TRUE
    [] cfg.composed = "off" -> FALSE
    [] OTHER                -> Conclusive(signals)

\* Only container engines create the sentinels; /proc/1/ns/pid is readable for
\* root on any host, and overlay roots and cgroup roots occur without a container.
DecideComposed ==
  /\ pc = "decide"
  /\ \E exists \in BOOLEAN, signals \in SUBSET Signals :
       /\ "sentinel" \in signals => exists
       /\ outer' = [exists |-> exists, signals |-> signals]
       /\ IF Detected(signals)
          THEN /\ composed' = IF signals # {} THEN "outer" ELSE "forced"
               /\ Goto("launch")
          ELSE /\ UNCHANGED composed
               /\ Refuse("2")
  /\ UNCHANGED <<input, firewallVars, hostVars, said>>

-----------------------------------------------------------------------------
(* The launches.                                                             *)

\* The bug it had (TJ-DF-046): where the loader does not attach, nothing is said.
EgressQuietly(here, attached, stated) ==
  /\ attached => ("net" \in cfg.tiers \cap loaders) /\ (here \/ fsiso # "mapped")
  /\ stated = {}

\* Does the egress loader attach?  If not, that is said, unless the mark tells
\* that the engine has said it.  `here`: the payload runs in this very context.
Egress(here, attached, stated) ==
  IF "net" \notin cfg.tiers
  THEN ~ attached /\ stated = {}
  ELSE \/ /\ "net" \in loaders /\ (here \/ fsiso # "mapped")
          /\ attached /\ stated = {}
       \/ /\ ~ attached
          /\ stated = IF mark = "written" THEN {} ELSE {"no egress tier"}

\* The file-system loader, likewise; under a uid mapping it is left out, because
\* the mapping isolates the files.
FsTier(attached, stated) ==
  IF ("fs" \notin cfg.tiers) \/ ("fs" \in loaders /\ fsiso = "mapped")
  THEN ~ attached /\ stated = {}
  ELSE \/ "fs" \in loaders /\ attached /\ stated = {}
       \/ ~ attached /\ stated = {"no fs tier"}

Attached(tier, attached) == IF attached THEN {tier} ELSE {}

Namespace == IF backend = "bwrap" THEN "bwrap" ELSE flags
ViewStated == IF backend = "bwrap" THEN "private" ELSE "host"

\* Composed: this process's own context, the firewall, and the egress tier; that the
\* files are not isolated is one of the layers it lists.
LaunchComposed ==
  /\ pc = "launch" /\ rewrite = "no" /\ composed # "no"
  /\ \E net \in BOOLEAN, egress \in SUBSET {"no egress tier"} :
       /\ Egress(TRUE, net, egress)
       /\ Say(egress \cup {IF composed = "outer" THEN "platform-owned" ELSE "none"}
                     \cup {"no fs tier"} \cup {s \in {"no filter"} : cfg.seccomp})
       /\ Exec("none", Attached("net", net), "command")
  /\ UNCHANGED <<input, firewallVars, hostVars, outerVars>>

LaunchFiltered ==
  /\ pc = "launch" /\ rewrite = "no" /\ composed = "no" /\ cfg.seccomp
  /\ IF "seccomp" \notin loaders
     THEN Refuse("2") /\ UNCHANGED said
     ELSE \E net \in BOOLEAN, egress \in SUBSET {"no egress tier"} :
            /\ Egress(FALSE, net, egress)
            /\ Say({ViewStated} \cup egress)
            /\ Exec(Namespace, {"seccomp"} \cup Attached("net", net), "command")
  /\ UNCHANGED <<input, firewallVars, hostVars, outerVars>>

LaunchPlain ==
  /\ pc = "launch" /\ rewrite = "no" /\ composed = "no" /\ ~ cfg.seccomp
  /\ \E fs, net \in BOOLEAN, degraded \in SUBSET {"no fs tier"},
       egress \in SUBSET {"no egress tier"} :
         /\ FsTier(fs, degraded)
         /\ Egress(FALSE, net, egress)
         /\ Say({ViewStated} \cup egress \cup degraded)
         /\ Exec(Namespace, Attached("fs", fs) \cup Attached("net", net), "command")
  /\ UNCHANGED <<input, firewallVars, hostVars, outerVars>>

\* The rewrite brings its own namespaces, and the engine its own tiers: the
\* wrapper puts the file-system loader around it where that can be read.
LaunchRewrite ==
  /\ pc = "launch" /\ rewrite # "no" /\ composed = "no"
  /\ mark' = "none"
  /\ \E fs \in BOOLEAN :
       /\ fs => ("fs" \in cfg.tiers \cap loaders) /\ fsiso # "mapped"
       /\ Exec("rewrite", Attached("fs", fs), "rewrite")
  /\ UNCHANGED <<input, verdict, rewrite, hostVars, outerVars, said>>

\* Composed: the prefix is stripped; what is left of it is one quoted word.
LaunchStripped ==
  /\ pc = "launch" /\ rewrite # "no" /\ composed # "no"
  /\ mark' = "none"
  /\ Say({"platform-owned"})
  /\ Exec("none", {}, "one word")
  /\ UNCHANGED <<input, verdict, rewrite, hostVars, outerVars>>

-----------------------------------------------------------------------------
Firewall  == CheckArgs \/ SkipFirewall \/ AskBridge \/ Block \/ Allow \/ Modify
Selection == \/ CheckPlatform \/ Bare \/ MappingOff \/ ProbeMapped
             \/ SelectBwrap \/ SelectAuto \/ SelectUnshare \/ CheckDemand
Preflight == PreflightRewrite \/ PreflightPlain \/ DecideComposed
Launching == LaunchComposed \/ LaunchFiltered \/ LaunchPlain \/ LaunchRewrite \/ LaunchStripped

Next == Firewall \/ Selection \/ Preflight \/ Launching

Spec == Init /\ [][Next]_vars

-----------------------------------------------------------------------------
(* What a launch promises.                                                   *)

Launched == exit = "exec"
Plain    == Launched /\ rewrite = "no"

\* In enforce mode a command runs on an object that the bridge answered and that
\* neither blocks nor reports an error: not without a bridge, not on an answer that is
\* no object, not on an error envelope, whatever action that has (terminal-jail:461-566,
\* TJ-GAP-070).  The object may lack an action: see UnusableIsNeverAnAllow.
EnforceNeedsAnAnswer ==
  Launched /\ cfg.firewall /\ cfg.mode = "enforce" => verdict \in {"allow", "modify", "actionless"}

\* A pinned backend is the one a plain command runs under, or the command does not
\* run: it is neither exchanged nor composed away (terminal-jail:861-900, 1291-1296).
PinnedBackendNeverDowngraded ==
  Plain /\ cfg.backend # "auto" =>
    IF cfg.backend = "bwrap" THEN run.ns = "bwrap" ELSE run.ns \in {"bare", "user", "mapped"}

\* A plain command that was to have a private /proc has it, and is told so
\* (terminal-jail:918-921, 1302-1305).
DemandHoldsForPlainLaunches ==
  Plain /\ cfg.demand => run.ns = "bwrap" /\ "private" \in said

\* What the caller asked for by name, a backend or a private /proc, is what a plain
\* command gets, or it does not run.
AskedForIsDelivered == PinnedBackendNeverDowngraded /\ DemandHoldsForPlainLaunches

\* --seccomp: a plain command runs under the filter, or is told that it does not
\* (terminal-jail:1171-1174, 1352-1385).
FilterNeverSilentlyOff ==
  Plain /\ cfg.seccomp => ("seccomp" \in run.tiers) \/ "no filter" \in said

\* The file-system tier, where it is on, covers a plain command, or its absence is
\* stated (terminal-jail:1417-1536, TJ-DF-047), with two exceptions: a uid mapping, of
\* this launch or of one around it, takes its place, and a launch through the seccomp
\* loader leaves it out without a word (FsTierStatedWithFilter).
FsTierStated ==
  Plain /\ "fs" \in cfg.tiers /\ fsiso # "mapped" /\ "seccomp" \notin run.tiers =>
    ("fs" \in run.tiers) \/ "no fs tier" \in said

\* The egress tier, where it is on, covers a plain command in every launch shape,
\* or the wrapper or its engine has stated its absence in this launch
\* (terminal-jail:1053-1138, TJ-DF-046, INT-CI-011).  A launch that asks its engine
\* makes a mark of its own; one that does not must not have inherited one
\* (EgressStatedUnderForeignMark).
AsksEngine == cfg.firewall /\ cfg.mode # "disabled"

EgressStatedIn(launches) ==
  Plain /\ "net" \in cfg.tiers /\ launches =>
    \/ "net" \in run.tiers
    \/ said \cap {"no egress tier", "egress by engine"} # {}

EgressStated == EgressStatedIn("mark" \in cfg.inherited => AsksEngine)

\* The three tiers at once: under the filter, beside it, composed, nested or bare, a
\* plain command has each tier that is on or has been told, but for the exceptions above.
MissingTiersAreStated == FilterNeverSilentlyOff /\ FsTierStated /\ EgressStated

\* With --user, isolation by uid mapping is claimed (TERMINAL_JAIL_FS_ISOLATION) only
\* of a launch that maps uids, and its absence is stated otherwise, through every
\* later change of backend (terminal-jail:704-807, 868-872).
MappingClaimHolds ==
  Plain /\ cfg.user /\ composed = "no" =>
    IF fsiso = "mapped" THEN run.ns = "mapped" ELSE "fs isolation" \in said

-----------------------------------------------------------------------------
(* What the documents and comments say, and the code does not do.            *)

\* terminal-jail:516: "Unusable verdict — never treat it as an allow.  Enforce mode fails
\* closed".  An object without an action is as unusable, and is treated as an allow.
UnusableIsNeverAnAllow ==
  Launched /\ cfg.firewall /\ cfg.mode = "enforce" => verdict # "actionless"

\* terminal-jail:1039: "so a plain host cannot compose by accident", specs/cli.md:282: "so
\* a plain host never composes by accident".  Left to itself (auto), a run is composed only
\* inside an outer layer; but the namespace signal is there wherever the link of the
\* host's init can be read.
OrdinaryHostRefuses ==
  Launched /\ cfg.composed = "auto" /\ composed # "no" => outer.exists

\* terminal-jail:1430: "a plain-allow payload is never silently left without kernel
\* filesystem enforcement".  With --seccomp it is.
FsTierStatedWithFilter ==
  Plain /\ "fs" \in cfg.tiers /\ fsiso # "mapped" => ("fs" \in run.tiers) \/ "no fs tier" \in said

\* terminal-jail:1087: "a payload is never silently left CONNECTED", and :1097: the mark is
\* "Scoped to the SAME launch".  A launch without the firewall goes by the mark of the
\* launch around it.
EgressStatedUnderForeignMark == EgressStatedIn(TRUE)

\* bubblewrap mounts a fresh /proc, and bare unshare one of its own (--mount-proc).
View == CASE run.ns \in {"bwrap", "bare"} -> "private"
          [] run.ns = "none" -> IF outer.exists THEN "platform-owned" ELSE "none"
          [] OTHER           -> "host"

\* specs/cli.md:233: the demand refuses "unless the resolved backend can deliver a
\* private procfs"; a rewrite is launched by unshare whatever was resolved.
DemandedProcIsPrivate == Launched /\ cfg.demand => View = "private"

\* specs/cli.md:287: "a modify rewrite runs as its payload with the un-creatable
\* prefix stripped"; what is left of it is the payload in quotes, one word.
ComposedRunsThePayload == Launched => run.payload # "one word"

=============================================================================

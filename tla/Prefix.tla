------------------------------- MODULE Prefix -------------------------------
(* The namespace prefix of a rewritten command.  An engine process chooses it  *)
(* when it is imported: it reads the caller's subordinate ids, asks the host   *)
(* whether the uid-mapped launch can be created, then runs a payload in it     *)
(* that reads and writes a probe file of the caller.  The choice is kept for   *)
(* the life of the process; one-shot bridges live for one command, a resident  *)
(* bridge for many.  The host's policy and files may change at any time.       *)
EXTENDS Integers, Sequences, FiniteSets

CONSTANTS
    Engines,    \* the processes that evaluate commands
    Dirs,       \* working directories
    Starts,     \* starts of subordinate-id ranges
    Default,    \* DEFAULT_SUBID_START
    Bad,        \* a start that is no number
    Tables,     \* what /etc/subuid and /etc/subgid may hold
    None,       \* nothing yet
    MaxFlips,   \* bound: changes of the host
    MaxServed   \* bound: commands a resident bridge evaluates

\* What the payload reports of the caller's files.
Markers == {"both", "denied", "mixed", ""}

\* A table is the entries of the calling user in file order, none when the file is
\* absent or unreadable.
ASSUME IdAssumption    == Default \in Starts /\ Bad \notin Starts
ASSUME TableAssumption == Tables \subseteq Seq(Starts \cup {Bad})
ASSUME NoneAssumption  == None \notin Markers
ASSUME BoundAssumption == MaxFlips \in Nat /\ MaxServed \in Nat

VARIABLES
    host,     \* the tables, the ids that can be mapped, what a mapped payload may do where
    stays,    \* it is a resident bridge: it answers more than one command
    st,       \* where each process stands
    cwd,      \* its working directory
    off,      \* TERMINAL_JAIL_UID_MAP turns the mapping off in its environment
    flags,    \* the ids of the launch it is trying, or last tried
    seen,     \* the marker its property payload printed, None before there is one
    choice,   \* _DECISION
    told,     \* what its degradation warning says, None when it printed none
    litter,   \* probe files and directories that exist
    kept,     \* those whose removal failed
    out,      \* its last answer: the prefix, and the directory it is for
    moved,    \* the host changed since it began to choose
    flips, served

process == <<st, cwd, off, flags, seen, choice, told, out>>
vars    == <<host, stays, process, litter, kept, moved, flips, served>>

Pair    == [uid : Starts, gid : Starts]
Legacy  == [kind |-> "legacy", ids |-> None]
Mapped(ids) == [kind |-> "mapped", ids |-> ids]

\* What the warning states: the ids of a launch that can be created, and why its
\* payload would not do: the caller's files are denied, or the marker is quoted.
Warnings == [ids : Pair, cause : {"denied", "quoted"}]
Warning(ids, marker) == [ids |-> ids, cause |-> IF marker = "denied" THEN "denied" ELSE "quoted"]

----------------------------------------------------------------------------
(* The subordinate ids: the user's first entry counts, even when it is bad.    *)

RangeStart(table) ==
    IF table = <<>> THEN Default
    ELSE IF Head(table) = Bad THEN Default ELSE Head(table)

SubidRange == [uid |-> RangeStart(host.subuid), gid |-> RangeStart(host.subgid)]

Creatable(ids) == ids.uid \in host.maps /\ ids.gid \in host.maps

----------------------------------------------------------------------------
Init ==
    /\ host \in [subuid : Tables, subgid : Tables, maps : SUBSET Starts,
                 access : [Dirs -> Markers \ {""}]]
    /\ stays \in [Engines -> BOOLEAN]
    /\ st = [e \in Engines |-> "idle"]
    /\ cwd \in [Engines -> Dirs] /\ off \in [Engines -> BOOLEAN]
    /\ flags = [e \in Engines |-> None]
    /\ seen = [e \in Engines |-> None]
    /\ choice = [e \in Engines |-> None]
    /\ told = [e \in Engines |-> None]
    /\ litter = {} /\ kept = {}
    /\ out = [e \in Engines |-> None]
    /\ moved = [e \in Engines |-> FALSE]
    /\ flips = 0 /\ served = 0

Step(e, here, there) == st[e] = here /\ st' = [st EXCEPT ![e] = there]
Still == UNCHANGED <<host, stays, cwd, off, kept, moved, flips, served>>

\* The decider is imported.  With the mapping off nothing is tried.
Import(e) ==
    /\ IF off[e] THEN Step(e, "idle", "decide") ELSE Step(e, "idle", "create")
    /\ moved' = [moved EXCEPT ![e] = FALSE]
    /\ UNCHANGED <<host, stays, cwd, off, flips, served, flags, seen, choice, told, litter, kept, out>>

\* mapped_launch_ok(): a launch of `true`.  It may fail where it could succeed.
CreateProbe(e) ==
    /\ \/ Creatable(SubidRange) /\ Step(e, "create", "probedir")
       \/ Step(e, "create", "decide")
       \/ Step(e, "create", "createHangs")
    /\ flags' = [flags EXCEPT ![e] = SubidRange]
    /\ Still /\ UNCHANGED <<seen, choice, told, litter, out>>

CreateTimeoutNever(e) == FALSE /\ UNCHANGED vars
CreateTimeout(e) ==
    /\ Step(e, "createHangs", "decide")
    /\ Still /\ UNCHANGED <<flags, seen, choice, told, litter, out>>

\* _property_observation() up to its try: what fails here fails the import.
ProbeDir(e) ==
    /\ \/ /\ Step(e, "probedir", "payload")
          /\ litter' = litter \cup {<<e, "secret">>}
       \/ /\ Step(e, "probedir", "raised")
          /\ UNCHANGED litter
    /\ flags' = [flags EXCEPT ![e] = SubidRange]
    /\ Still /\ UNCHANGED <<seen, choice, told, out>>

Observe(e, marker) == seen' = [seen EXCEPT ![e] = marker]

\* The probe file cannot be written, the launch cannot be created, exits with
\* another code or prints nothing: the marker is empty.
PropertyFails(e) ==
    /\ Step(e, "payload", "clean")
    /\ Observe(e, "")
    /\ UNCHANGED litter

\* The payload ran in the caller's directory, and created its file if it could.
PropertyRunsBlind(e) ==
    /\ Step(e, "payload", "clean")
    /\ Creatable(flags[e])
    /\ Observe(e, "both")
    /\ litter' = litter \cup {<<e, cwd[e]>>}
PropertyRuns(e) ==
    /\ Step(e, "payload", "clean")
    /\ Creatable(flags[e])
    /\ Observe(e, host.access[cwd[e]])
    /\ litter' \in IF host.access[cwd[e]] = "denied" THEN {litter}
                    ELSE {litter \cup {<<e, cwd[e]>>}}
PropertyHangs(e) ==
    /\ Step(e, "payload", "payloadHangs")
    /\ UNCHANGED <<seen, litter>>
PropertyTimeout(e) ==
    /\ Step(e, "payloadHangs", "clean")
    /\ Observe(e, "")
    /\ litter' \in {litter, litter \cup {<<e, cwd[e]>>}}

PropertyProbe(e) ==
    /\ PropertyFails(e) \/ PropertyRuns(e) \/ PropertyHangs(e) \/ PropertyTimeout(e)
    /\ Still /\ UNCHANGED <<flags, choice, told, out>>

\* The finally clause.  Neither removal is checked: in a sticky directory, for one,
\* only the subordinate user that wrote the file may remove it.
CleanSecretOnly(e) ==
    /\ Step(e, "clean", "decide")
    /\ \E fails \in SUBSET (litter \cap {<<e, "secret">>}) :
          /\ litter' = (litter \ {<<e, "secret">>}) \cup fails
          /\ kept' = kept \cup fails
    /\ UNCHANGED <<host, stays, cwd, off, moved, flips, served, flags, seen, choice, told, out>>
Clean(e) ==
    /\ Step(e, "clean", "decide")
    /\ \E fails \in SUBSET (litter \cap {<<e, "secret">>, <<e, cwd[e]>>}) :
          /\ litter' = (litter \ {<<e, "secret">>, <<e, cwd[e]>>}) \cup fails
          /\ kept' = kept \cup fails
    /\ UNCHANGED <<host, stays, cwd, off, moved, flips, served, flags, seen, choice, told, out>>

\* A bug to be caught: the cause of the usual case is given for every case.
DecideAssumesCause(e) ==
    /\ Step(e, "decide", "ready")
    /\ choice' = [choice EXCEPT ![e] = IF seen[e] = "both" THEN Mapped(SubidRange) ELSE Legacy]
    /\ told' = IF seen[e] \in {None, "both"} THEN told
               ELSE [told EXCEPT ![e] = Warning(SubidRange, "denied")]
    /\ Still /\ UNCHANGED <<flags, seen, litter, out>>
\* unshare_prefix(): the ids of the decision, and those of the warning, are read from
\* the tables again.  Where the launch was not seen to be created nothing is printed.
Decide(e) ==
    /\ Step(e, "decide", "ready")
    /\ choice' = [choice EXCEPT ![e] = IF seen[e] = "both" THEN Mapped(SubidRange) ELSE Legacy]
    /\ told' = IF seen[e] \in {None, "both"} THEN told
               ELSE [told EXCEPT ![e] = Warning(SubidRange, seen[e])]
    /\ Still /\ UNCHANGED <<flags, seen, litter, out>>

\* A one-shot bridge runs in its caller's directory and environment.
AnswerOnce(e) ==
    /\ ~stays[e]
    /\ Step(e, "ready", "done")
    /\ out' = [out EXCEPT ![e] = [prefix |-> choice[e], dir |-> cwd[e], off |-> off[e]]]
    /\ Still /\ UNCHANGED <<flags, seen, choice, told, litter>>

\* A resident bridge answers callers whose directory and environment it never sees.
AnswerResident(e) ==
    /\ stays[e] /\ st[e] = "ready" /\ served < MaxServed
    /\ \E d \in Dirs, o \in BOOLEAN :
          out' = [out EXCEPT ![e] = [prefix |-> choice[e], dir |-> d, off |-> o]]
    /\ served' = served + 1
    /\ UNCHANGED <<host, stays, st, cwd, off, flags, seen, choice, told, litter, kept, moved, flips>>

\* The caller's timeout, or a user, kills the process while it probes.
Kill(e) ==
    /\ st[e] \in {"create", "createHangs", "probedir", "payload", "payloadHangs", "clean", "decide"}
    /\ st' = [st EXCEPT ![e] = "killed"]
    /\ Still /\ UNCHANGED <<flags, seen, choice, told, litter, out>>

\* Policy, tables or permissions change.
HostChanges ==
    /\ flips < MaxFlips
    /\ flips' = flips + 1
    /\ \/ \E t \in Tables : host' = [host EXCEPT !.subuid = t]
       \/ \E m \in SUBSET Starts : host' = [host EXCEPT !.maps = m]
       \/ \E d \in Dirs, m \in Markers \ {""} : host' = [host EXCEPT !.access[d] = m]
    /\ host' # host
    /\ moved' = [e \in Engines |-> TRUE]
    /\ UNCHANGED <<stays, process, litter, kept, served>>

EngineStep(e) ==
    \/ Import(e) \/ CreateProbe(e) \/ CreateTimeout(e) \/ ProbeDir(e) \/ PropertyProbe(e)
    \/ Clean(e) \/ Decide(e) \/ AnswerOnce(e)

Next ==
    \/ \E e \in Engines : EngineStep(e) \/ AnswerResident(e) \/ Kill(e)
    \/ HostChanges

Spec == Init /\ [][Next]_vars

\* A process that can run runs, and its clock expires: the probes are bounded.
FairSpec == Spec /\ \A e \in Engines : WF_vars(EngineStep(e))

----------------------------------------------------------------------------
(* Properties.                                                                 *)

\* Every process stands somewhere in the choice, and what it holds has its type.
TypeOK ==
    /\ st \in [Engines -> {"idle", "create", "createHangs", "probedir", "payload",
                           "payloadHangs", "clean", "decide", "ready", "done",
                           "raised", "killed"}]
    /\ stays \in [Engines -> BOOLEAN]
    /\ cwd \in [Engines -> Dirs] /\ off \in [Engines -> BOOLEAN]
    /\ flags \in [Engines -> Pair \cup {None}]
    /\ seen \in [Engines -> Markers \cup {None}]
    /\ choice \in [Engines -> {None, Legacy} \cup {Mapped(p) : p \in Pair}]
    /\ told \in [Engines -> Warnings \cup {None}]
    /\ litter \subseteq (Engines \X ({"secret"} \cup Dirs)) /\ kept \subseteq litter
    /\ moved \in [Engines -> BOOLEAN]

Answered(e) == out[e] # None
AnsweredMapped(e) == Answered(e) /\ out[e].prefix.kind = "mapped"

\* The rewrite of a one-shot bridge uses the mapped launch only when a payload in
\* that launch was seen to read and write the caller's files in the caller's own
\* directory, and the caller had not turned the mapping off.
ProvedFor(e) == AnsweredMapped(e) => (seen[e] = "both" /\ out[e].dir = cwd[e] /\ ~out[e].off)
ProvedForItsCaller == \A e \in Engines : ~stays[e] => ProvedFor(e)

\* The same of a resident bridge, as the comment on the cached decision has it.
ResidentProvesForItsCaller == \A e \in Engines : stays[e] => ProvedFor(e)

\* While the host has not changed since the choice began, the launch of a rewrite is
\* the one that was probed, it can be created, and its payload keeps the caller's access.
RewriteKeepsAccess ==
    \A e \in Engines : (AnsweredMapped(e) /\ ~stays[e] /\ ~moved[e]) =>
        /\ out[e].prefix.ids = flags[e]
        /\ Creatable(out[e].prefix.ids)
        /\ host.access[out[e].dir] = "both"

\* A mapped rewrite rests on a proof: of its caller's own case, and it still holds
\* where the host is as it was.
RewriteIsProved == ProvedForItsCaller /\ RewriteKeepsAccess

\* What the warning says is so, while the host is as it was when the choice began: the
\* launch it names is the one that was tried and can be created, and where it blames
\* the mapping, a payload in the caller's directory is denied the caller's files.
WarningIsTrue ==
    \A e \in Engines : (told[e] # None /\ ~moved[e]) =>
        /\ told[e].ids = flags[e]
        /\ Creatable(told[e].ids)
        /\ told[e].cause = "denied" => host.access[cwd[e]] = "denied"

\* userns.py:80-83: a host that fails the probe "falls back mapping-less with the
\* existing loud warning".
FallbackIsNeverSilent ==
    \A e \in Engines : (choice[e] = Legacy /\ flags[e] # None) => told[e] # None

\* A process that was not killed leaves a probe file behind only where it tried to
\* remove it and could not, in the temporary directory or in the caller's, also when
\* the file is of a payload that hung.
ProbesAreRemoved ==
    \A e \in Engines : st[e] \in {"decide", "ready", "done", "raised"} =>
        \A l \in litter : l[1] = e => l \in kept

\* Whatever the host does, a process that began to choose ends its choice.
EveryChoiceEnds ==
    \A e \in Engines : st[e] = "create" ~> st[e] \in {"ready", "done", "raised", "killed"}
=============================================================================

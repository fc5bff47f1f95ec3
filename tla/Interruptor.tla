---------------------------- MODULE Interruptor ----------------------------
(* One evaluation by the rule engine: intercept() and the Decider it builds.   *)
(* The loader reads the rule files one after the other; the provenance map is  *)
(* built by reading the same files a second time; an installer or an operator  *)
(* may change a file between any two reads.  A pattern match is a membership:  *)
(* a rule carries the set of texts it matches.                                 *)
EXTENDS Integers, Sequences, FiniteSets

CONSTANTS
    Ids,         \* rule ids, "unknown" among them
    NoId,        \* what an entry without an "id" key gives to raw.get("id")
    Texts,       \* segments and whole commands the rules are matched against
    Messages,    \* block messages
    NoMsg,       \* an entry without a "block_message" key
    Placeholder, \* DEFAULT_BLOCK_MESSAGE
    Blocklist, Allowlist, Sandbox,  \* BUILTIN_*: the engine's own rules
    FileLayer,   \* the layer each file's name stands for, files in load order
    Contents,    \* what a rule file may hold: a shape and the entries
    Jobs,        \* the commands, each with the configured mode and the host's parser
    Shipped,     \* number of the engine's own rules: they are listed first
    MaxPrio,     \* bound: the highest rule priority
    MaxEdits     \* bound: changes made to the rule files during an evaluation

Layers      == {"engine", "yaml", "user", "pack"}
RuleActions == {"block", "allow", "modify", "sandbox", "warn", "other"}
Shapes      == {"missing", "unreadable", "refused", "yaml", "both", "json", "neither"}
Files       == DOMAIN FileLayer
Unknown     == "unknown"

Rule == [id : Ids, action : RuleActions, prio : 0..MaxPrio, match : SUBSET Texts,
         msg : Messages, explicit : BOOLEAN, pos : Nat, from : Files \cup {0}]

Entry == [id : Ids \cup {NoId}, action : RuleActions, prio : 0..MaxPrio,
          match : SUBSET Texts, msg : Messages \cup {NoMsg}]

Job == [mode : {"enforce", "warn", "disabled"}, kind : {"blank", "oversize", "plain"},
        yaml : BOOLEAN,  \* PyYAML is importable
        segs : Seq(Texts), whole : Texts, rebuilds : BOOLEAN, room : Nat]

Builtins == Blocklist \cup Allowlist \cup Sandbox

ASSUME IdAssumption      == Unknown \in Ids /\ NoId \notin Ids
ASSUME MessageAssumption == Placeholder \in Messages /\ NoMsg \notin Messages
ASSUME LayerAssumption   == FileLayer \in Seq(Layers)
ASSUME JobAssumption     == Jobs \subseteq Job
ASSUME BoundAssumption   == MaxEdits \in Nat /\ MaxPrio \in Nat /\ Shipped \in Nat
ASSUME ContentAssumption == Contents \subseteq [shape : Shapes, rules : Seq(Entry)]
ASSUME BuiltinAssumption ==
    /\ Builtins \subseteq Rule
    /\ \A r \in Builtins : r.from = 0 /\ r.pos <= Shipped /\ r.id # Unknown
    /\ \A r, q \in Builtins : (r.id = q.id \/ r.pos = q.pos) => r = q

VARIABLES
    pc,       \* where the evaluation stands
    job,      \* the request
    disk,     \* the rule files as they are now
    next,     \* the file the current pass reads next
    batch,    \* entries of the file just parsed, still to be merged
    taken,    \* the position of the last rule: Shipped, plus the entries merged
    loaded,   \* RuleSet: the loader's rules
    layers,   \* _rule_layers: id -> layer, "engine" where the map has no entry
    verdict,  \* the InterceptResult so far
    metrics,  \* the process's counters
    edits

vars == <<pc, job, disk, next, batch, taken, loaded, layers, verdict, metrics, edits>>

----------------------------------------------------------------------------
(* Parsing a rule file: the loader's reading and the map's.                    *)

Readable(c) == c.shape \notin {"missing", "unreadable"}

\* The loader parses with PyYAML when it can be imported, with json otherwise.
LoaderParses(c) == c.shape \in (IF job.yaml THEN {"yaml", "both"} ELSE {"json", "both"})

\* A file the loader can read may not be skipped when json is its only parser.
Refuses(c) ==
    \/ c.shape = "refused"
    \/ /\ ~job.yaml
       /\ Readable(c)
       /\ ~LoaderParses(c)

\* The map falls back to json after a YAML error too.
MapParses(c) ==
    \/ LoaderParses(c)
    \/ c.shape \in {"json", "refused"}

RuleOf(e, file, n) ==
    [id |-> IF e.id = NoId THEN Unknown ELSE e.id, action |-> e.action,
     prio |-> e.prio, match |-> e.match,
     msg |-> IF e.msg = NoMsg THEN Placeholder ELSE e.msg,
     explicit |-> e.msg # NoMsg, pos |-> n, from |-> file]

----------------------------------------------------------------------------
(* Merging and layering.                                                       *)

IdsOf(S) == {r.id : r \in S}

\* An override that declares no message takes that of the rule it replaces.
Inherit(r, S) ==
    IF r.explicit \/ r.id \notin IdsOf(S) THEN r
    ELSE [r EXCEPT !.msg = (CHOOSE q \in S : q.id = r.id).msg]

Merge(L, r) == {q \in L : q.id # r.id} \cup {Inherit(r, L)}

\* The rules the decider evaluates: builtins nobody replaced, and the loaded ones.
Effective(L) == {r \in Builtins : r.id \notin IdsOf(L)} \cup {Inherit(r, Builtins) : r \in L}

\* The evaluation layer of a rule is the layer of its id.
TierNewFirst(r) ==
    IF r.id \in IdsOf(Blocklist) THEN 1
    ELSE IF r.id \in IdsOf(Allowlist) THEN 2
    ELSE IF r.id \in IdsOf(Sandbox) THEN 3 ELSE 0
Tier(r) ==
    IF r.id \in IdsOf(Blocklist) THEN 1
    ELSE IF r.id \in IdsOf(Allowlist) THEN 2
    ELSE IF r.id \in IdsOf(Sandbox) THEN 3 ELSE 4

\* Within a layer: priority descending; the sort is stable, so then load order.
Before(r, q) ==
    \/ Tier(r) < Tier(q)
    \/ /\ Tier(r) = Tier(q)
       /\ \/ r.prio > q.prio
          \/ r.prio = q.prio /\ r.pos < q.pos

First(S) == CHOOSE r \in S : \A q \in S : ~Before(q, r)

----------------------------------------------------------------------------
(* evaluate(): the whole-command pass, then every segment in order.            *)

WholeMatchesIgnoresOverrides(L, j) ==
    {r \in Blocklist : r.action = "block" /\ j.whole \in r.match}
WholeMatches(L, j) ==
    {r \in Effective(L) : Tier(r) = 1 /\ r.action = "block" /\ j.whole \in r.match}

SegmentMatches(L, t) == {r \in Effective(L) : t \in r.match}

\* Segments whose deciding rule has one of the actions A.
Decided(L, j, A) ==
    {i \in DOMAIN j.segs : /\ SegmentMatches(L, j.segs[i]) # {}
                           /\ First(SegmentMatches(L, j.segs[i])).action \in A}

Least(S) == CHOOSE i \in S : \A k \in S : i <= k

\* The rule that decides the first of the segments S.
Decider(L, j, S) == First(SegmentMatches(L, j.segs[Least(S)]))

BlockedUnlessWrapped(L, j) ==
    IF Decided(L, j, {"modify", "sandbox"}) # {} THEN {} ELSE Decided(L, j, {"block"})
Blocked(L, j)  == Decided(L, j, {"block"})
Modified(L, j) == Decided(L, j, {"modify", "sandbox"})
Warned(L, j)   == Decided(L, j, {"warn", "other"})
Allowed(L, j)  == Decided(L, j, {"allow"})

\* why is the reason's wording: none, a message, a would-have-blocked warning ...
Result(action, rule, why, msg, layer, wrapped) ==
    [action |-> action, rule |-> rule, why |-> why, msg |-> msg, layer |-> layer,
     wrapped |-> wrapped]

DefaultAllow == Result("allow", NoId, "none", NoMsg, "engine", {})
OversizeBlock == Result("block", "builtin-max-arg-bytes", "oversize", NoMsg, "engine", {})

BlockBy(r, M) == Result("block", r.id, "message", r.msg, M[r.id], {})

\* _rebuild_modified: segment by segment, or (0) the whole command in one wrap.
ModifyBy(r, M, S, j) ==
    Result("modify", r.id, "sandbox", NoMsg, M[r.id], IF j.rebuilds THEN S ELSE {0})

\* An action the engine does not know allows without a rule id but with a layer.
WarnBy(r, M) ==
    IF r.action = "warn" THEN Result("allow", r.id, "would-block", r.msg, M[r.id], {})
    ELSE Result("allow", NoId, "unknown-action", NoMsg, M[r.id], {})

AllowBy(r, M) == Result("allow", r.id, "none", NoMsg, M[r.id], {})

Evaluate(L, M, j) ==
    CASE WholeMatches(L, j) # {} -> BlockBy(First(WholeMatches(L, j)), M)
      [] WholeMatches(L, j) = {} /\ Blocked(L, j) # {} ->
            BlockBy(Decider(L, j, Blocked(L, j)), M)
      [] OTHER ->
            IF Modified(L, j) # {}
            THEN ModifyBy(Decider(L, j, Modified(L, j)), M, Modified(L, j), j)
            ELSE IF Warned(L, j) # {} THEN WarnBy(Decider(L, j, Warned(L, j)), M)
            ELSE IF Allowed(L, j) # {} THEN AllowBy(Decider(L, j, Allowed(L, j)), M)
            ELSE DefaultAllow

\* Warn mode: a block becomes an allow that names neither rule nor layer.
Soften(v) == Result("allow", NoId, "would-block", v.msg, "engine", {})

\* Over the byte budget the command runs unwrapped; the rule id stays.
Unwrap(v) == Result("allow", v.rule, "budget", NoMsg, "engine", {})

Fits(v, j) == Cardinality(v.wrapped) <= j.room

\* intercept(): what becomes of the verdict the rules gave.
Settled(v, j) ==
    CASE v.action = "modify" /\ ~Fits(v, j) -> Unwrap(v)
      [] v.action = "block" /\ j.mode = "warn" -> Soften(v)
      [] OTHER -> v

----------------------------------------------------------------------------
NoLayers == [i \in Ids \cup {NoId} |-> "engine"]

Init ==
    /\ pc = "begin" /\ job \in Jobs
    /\ disk \in [Files -> Contents]
    /\ next = 1 /\ batch = <<>> /\ taken = Shipped
    /\ loaded = {} /\ layers = NoLayers
    /\ verdict = DefaultAllow
    /\ metrics = [passed_disabled |-> 0, wraps |-> 0, rejected |-> 0]
    /\ edits = 0

Loading == <<next, batch, taken, loaded, layers>>

\* intercept(): what is answered before any rule is read.
Disabled ==
    /\ pc = "begin" /\ job.mode = "disabled"
    /\ pc' = "done"
    /\ metrics' = [metrics EXCEPT !.passed_disabled = @ + 1]
    /\ UNCHANGED <<job, disk, Loading, verdict, edits>>

\* A blank command, or one the parser finds no segment in, passes through.
PassThrough ==
    /\ pc = "begin" /\ job.mode # "disabled"
    /\ \/ job.kind = "blank"
       \/ job.kind = "plain" /\ job.segs = <<>>
    /\ pc' = "done"
    /\ UNCHANGED <<job, disk, Loading, verdict, metrics, edits>>

Oversize ==
    /\ pc = "begin" /\ job.mode # "disabled" /\ job.kind = "oversize"
    /\ pc' = "done"
    /\ verdict' = IF job.mode = "warn" THEN Soften(OversizeBlock) ELSE OversizeBlock
    /\ UNCHANGED <<job, disk, Loading, metrics, edits>>

\* Decider(config): the loader starts.
StartLoad ==
    /\ pc = "begin" /\ job.mode # "disabled"
    /\ job.kind = "plain" /\ job.segs # <<>>
    /\ pc' = "load"
    /\ UNCHANGED <<job, disk, Loading, verdict, metrics, edits>>

\* _load_file raises: intercept() ends in an exception, nothing is decided.
RefuseFileSkips ==
    /\ pc = "load" /\ batch = <<>> /\ next \in Files
    /\ Refuses(disk[next])
    /\ next' = next + 1
    /\ UNCHANGED <<pc, job, disk, batch, taken, loaded, layers, verdict, metrics, edits>>

RefuseFile ==
    /\ pc = "load" /\ batch = <<>> /\ next \in Files
    /\ Refuses(disk[next])
    /\ pc' = "raised"
    /\ UNCHANGED <<job, disk, Loading, verdict, metrics, edits>>

\* An absent or unreadable file, and one a real YAML parser rejects, is skipped.
SkipFile ==
    /\ pc = "load" /\ batch = <<>> /\ next \in Files
    /\ ~Refuses(disk[next]) /\ ~LoaderParses(disk[next])
    /\ next' = next + 1
    /\ UNCHANGED <<pc, job, disk, batch, taken, loaded, layers, verdict, metrics, edits>>

LoadFile ==
    /\ pc = "load" /\ batch = <<>> /\ next \in Files
    /\ LoaderParses(disk[next])
    /\ batch' = disk[next].rules
    /\ next' = next + 1
    /\ UNCHANGED <<pc, job, disk, taken, loaded, layers, verdict, metrics, edits>>

\* load_all: one entry of the file just read replaces an earlier same-id rule.
MergeRule ==
    /\ pc = "load" /\ batch # <<>>
    /\ taken' = taken + 1
    /\ loaded' = Merge(loaded, RuleOf(Head(batch), next - 1, taken + 1))
    /\ batch' = Tail(batch)
    /\ UNCHANGED <<pc, job, disk, next, layers, verdict, metrics, edits>>

\* load_all returns; the second pass over the files begins.
StartMap ==
    /\ pc = "load" /\ batch = <<>> /\ next \notin Files
    /\ pc' = "map" /\ next' = 1
    /\ UNCHANGED <<job, disk, batch, taken, loaded, layers, verdict, metrics, edits>>

\* _rule_ids_in_file: every id of the file gets the file's layer, the last one wins.
EntryIds(c) == IF MapParses(c) THEN {c.rules[k].id : k \in DOMAIN c.rules} ELSE {}

MapFileKeepsFirst ==
    /\ pc = "map" /\ next \in Files
    /\ layers' = [i \in DOMAIN layers |->
                    IF i \in EntryIds(disk[next]) /\ layers[i] = "engine"
                    THEN FileLayer[next] ELSE layers[i]]
    /\ next' = next + 1
    /\ UNCHANGED <<pc, job, disk, batch, taken, loaded, verdict, metrics, edits>>

MapFile ==
    /\ pc = "map" /\ next \in Files
    /\ layers' = [i \in DOMAIN layers |->
                    IF i \in EntryIds(disk[next]) THEN FileLayer[next] ELSE layers[i]]
    /\ next' = next + 1
    /\ UNCHANGED <<pc, job, disk, batch, taken, loaded, verdict, metrics, edits>>

Decide ==
    /\ pc = "map" /\ next \notin Files
    /\ verdict' = Evaluate(loaded, layers, job)
    /\ pc' = "decided"
    /\ UNCHANGED <<job, disk, Loading, metrics, edits>>

\* _record_wrap accounts for the wrap, then applies the byte budget.
Account ==
    /\ pc = "decided" /\ verdict.action = "modify"
    /\ metrics' = [metrics EXCEPT !.wraps = @ + 1,
                                  !.rejected = IF Fits(verdict, job) THEN @ ELSE @ + 1]
    /\ verdict' = Settled(verdict, job)
    /\ pc' = "done"
    /\ UNCHANGED <<job, disk, Loading, edits>>

\* Every other verdict is returned, a block softened in warn mode.
Return ==
    /\ pc = "decided" /\ verdict.action # "modify"
    /\ verdict' = Settled(verdict, job)
    /\ pc' = "done"
    /\ UNCHANGED <<job, disk, Loading, metrics, edits>>

\* Another process installs, edits or removes a rule file.
Edit ==
    /\ pc \in {"load", "map"} /\ edits < MaxEdits
    /\ \E f \in Files, c \in Contents : disk' = [disk EXCEPT ![f] = c]
    /\ edits' = edits + 1
    /\ UNCHANGED <<pc, job, Loading, verdict, metrics>>

Gate == Disabled \/ PassThrough \/ Oversize \/ StartLoad
Load == RefuseFile \/ SkipFile \/ LoadFile \/ MergeRule \/ StartMap
Judge == MapFile \/ Decide \/ Account \/ Return

Next == Gate \/ Load \/ Judge \/ Edit

Spec == Init /\ [][Next]_vars

----------------------------------------------------------------------------
(* Properties.                                                                 *)

Verdict == [action : {"allow", "block", "modify"},
            rule : Ids \cup {NoId, "builtin-max-arg-bytes"},
            why : {"none", "message", "would-block", "unknown-action", "sandbox",
                   "budget", "oversize"},
            msg : Messages \cup {NoMsg}, layer : Layers, wrapped : SUBSET Nat]

\* Every variable keeps its shape while the files are read and the rules merged.
TypeOK ==
    /\ pc \in {"begin", "load", "raised", "map", "decided", "done"}
    /\ job \in Jobs
    /\ disk \in [Files -> Contents]
    /\ next \in 1..(Len(FileLayer) + 1) /\ taken \in Nat /\ edits \in 0..MaxEdits
    /\ batch \in Seq(Entry) /\ (batch # <<>> => next - 1 \in Files)
    /\ loaded \subseteq Rule
    /\ layers \in [Ids \cup {NoId} -> Layers]
    /\ verdict \in Verdict
    /\ metrics \in [passed_disabled : Nat, wraps : Nat, rejected : Nat]

\* load_all's replacement: however files and entries collide, one rule holds an id.
OneRulePerId == \A r, q \in loaded : r.id = q.id => r = q

\* Files the documented leniency may skip; every other one is loaded or refused.
MayBeSkipped(c) == ~Readable(c) \/ (job.yaml /\ c.shape \in {"json", "neither"})

\* TJ-DF-040: an evaluation that gets past the load holds every rule of every
\* file that could be parsed, from that file or from a later one with the id.
NoPolicySilentlyAbsent ==
    (pc \in {"map", "decided"} /\ edits = 0) =>
        \A f \in Files : \/ MayBeSkipped(disk[f])
                        \/ \A k \in DOMAIN disk[f].rules :
                             \E r \in loaded : /\ r.id = RuleOf(disk[f].rules[k], f, 0).id
                                             /\ r.from >= f

\* A same-id override replaces its builtin in the whole-command pass as well as in
\* the segment pass: a verdict blocks on a loaded id only if the loaded rule does.
OverriddenBuiltinIsSilent ==
    (verdict.action = "block" /\ verdict.rule \in IdsOf(loaded)) =>
        \E r \in loaded : r.id = verdict.rule /\ r.action = "block"

\* In warn mode no path, the size gate before the rules included, ends in a block.
WarnModeNeverBlocks ==
    (pc = "done" /\ job.mode = "warn") => verdict.action # "block"

\* The byte budget is applied last, to the command as rewritten: what it lets run
\* unwrapped no rule blocks, whole or in part, and some rule would have wrapped; the
\* counter accounts for it; a command that is returned wrapped is within the budget.
BudgetLiftsOnlyTheWrap ==
    pc = "done" =>
        /\ metrics.rejected = IF verdict.why = "budget" THEN 1 ELSE 0
        /\ verdict.action = "modify" => Fits(verdict, job)
        /\ verdict.why = "budget" =>
            /\ WholeMatches(loaded, job) = {}
            /\ Decided(loaded, job, {"block"}) = {}
            /\ Decided(loaded, job, {"modify", "sandbox"}) # {}

\* What intercept() does to a verdict on its way out weakens no block but in warn
\* mode, and lifts a wrap only for its length.
SettlementKeepsTheVerdict == WarnModeNeverBlocks /\ BudgetLiftsOnlyTheWrap

Rank(v) == IF v.action = "block" THEN 2 ELSE IF v.action = "modify" THEN 1 ELSE 0

\* Rules with new ids only (a pack): the rules' verdict is at least as strict as
\* the one the engine's own rules give, whatever the priorities.
NewIdsOnlyTighten ==
    (pc = "decided" /\ IdsOf(loaded) \cap IdsOf(Builtins) = {}) =>
        Rank(verdict) >= Rank(Evaluate({}, NoLayers, job))

\* TJ-GAP-085: with files that parse the same way twice, a named rule's layer is
\* that of the file the loader kept the rule from.
LayerIsTheRulesSource ==
    (/\ pc = "decided" /\ edits = 0 /\ verdict.rule \notin {NoId, Unknown}
     /\ \A f \in Files : ~(job.yaml /\ disk[f].shape = "json")) =>
        \/ verdict.rule \notin IdsOf(loaded) /\ verdict.layer = "engine"
        \/ \E r \in loaded : r.id = verdict.rule /\ verdict.layer = FileLayer[r.from]

----------------------------------------------------------------------------
(* What a comment says of the engine; the code disagrees.                       *)

\* rules.py:269-287: an override without a message inherits that of the rule it
\* replaces, so what a later file took over from an earlier one is what is shown.
InheritedMessageIsShown ==
    (pc = "decided" /\ verdict.why \in {"message", "would-block"}) =>
        \A r \in loaded :
            (r.id = verdict.rule /\ r.msg # Placeholder) => verdict.msg = r.msg

=============================================================================

------------------------------ MODULE RulePack ------------------------------
(* Rule packs: scripts/rule-pack-tool.py decides whether a pack file may be    *)
(* installed, install.sh copies it into the rules directory when it says yes,  *)
(* the engine's loader merges every file it finds there, and                   *)
(* scripts/rules-drift-probe.py tells an operator whether an installed rule    *)
(* stands in for a builtin one.  Installers run side by side without a lock    *)
(* and authors edit the pack files they install from.                          *)
EXTENDS Integers, Sequences, FiniteSets, FiniteSetsExt

CONSTANTS
    Packs,          \* the names of packs
    Namespace,      \* Namespace[p]: the ids that match pack-<p>-*
    Builtin,        \* Builtin[id]: the action of a builtin rule
    SystemFiles, UserFiles,     \* the other rule files, of the two directories
    Order,          \* all files in load order: the system directory first
    Docs,           \* the documents an author may write
    Sources,        \* the pack files an installer may find at first
    SystemDocs,     \* what the system directory may hold at first
    Installers, MaxChanges

VARIABLES
    host,       \* whether PyYAML is there, whether the engine reads the directory packs
                \* go to, and the rules directories that cannot be listed
    source,     \* source[p]: the pack file an installer copies
    dir,        \* dir[f]: the installed document, or Absent
    job,        \* job[i]: what installer i is doing
    probe,      \* the last answer of rules-drift-probe.py --fail-on-drift
    changes,    \* the edits of authors and operators so far
    raced       \* a file changed between a validation and the copy it allowed

packVars == <<host, source, dir, job, probe, changes, raced>>

Actions == {"block", "sandbox", "allow", "warn"}
\* The match types of the matcher's dispatch table.
MatchTypes == {"pattern", "command", "path"}
Files == Packs \cup SystemFiles \cup UserFiles
Absent == [text |-> "absent", keyed |-> FALSE, rules |-> <<>>]
\* A rule as it stands in a file: `pattern` says whether its pattern is a string
\* that is not blank, `typed` whether its fields have types the engine can use.
RawRule == [id : STRING, action : STRING, type : STRING, pattern : BOOLEAN, typed : BOOLEAN]
HostType == [yaml : BOOLEAN, live : BOOLEAN, shut : SUBSET {"system", "user"}]
Document == [text : {"absent", "json", "yaml", "broken"}, keyed : BOOLEAN, rules : Seq(RawRule)]

\* Documents are documents, the order lists the files, packs have files of
\* their own and a builtin rule has an id.
ASSUME PackAssumption ==
    /\ Docs \cup SystemDocs \subseteq Document /\ Sources \subseteq [Packs -> Document]
    /\ {Order[n] : n \in 1 .. Len(Order)} = Files /\ Len(Order) \in Nat
    /\ Packs # {} /\ Packs \cap (SystemFiles \cup UserFiles) = {}
    /\ "" \notin DOMAIN Builtin /\ MaxChanges \in Nat
Present(f) == dir[f] # Absent

---------------------------------------------------------------------------
\* _load_document, which reads as the loader of the engine does.
Parses(doc) == doc.text = "json" \/ (doc.text = "yaml" /\ host.yaml)
IdsOf(doc) == {doc.rules[i].id : i \in 1 .. Len(doc.rules)} \ {""}

\* A bug to be caught: the packs already installed are not looked at.
InstalledIdsByHand(p) == UNION {IdsOf(dir[f]) : f \in UserFiles}
\* _installed_rule_ids: every file of the target directory but the one that
\* will be replaced; validation ends in a refusal, or in an exception, when the
\* directory cannot be listed or a file of it cannot be read.
InstalledIds(p) == UNION {IdsOf(dir[f]) : f \in (Packs \cup UserFiles) \ {p}}
InstalledReadable(p) ==
    /\ "user" \notin host.shut
    /\ \A f \in (Packs \cup UserFiles) \ {p} : Present(f) => Parses(dir[f])

EntryOk(rule) ==
    /\ rule.id # "" /\ rule.action \in Actions /\ rule.type \in MatchTypes
    /\ rule.type = "pattern" => rule.pattern
NoRepeats(doc) == Cardinality(IdsOf(doc)) = Len(doc.rules)

\* cmd_validate.
Accepts(p, doc) ==
    /\ Parses(doc) /\ doc.keyed /\ doc.rules # <<>>
    /\ \A i \in 1 .. Len(doc.rules) : EntryOk(doc.rules[i])
    /\ NoRepeats(doc)
    /\ IdsOf(doc) \cap DOMAIN Builtin = {}
    /\ IdsOf(doc) \subseteq Namespace[p]
    /\ InstalledReadable(p) /\ IdsOf(doc) \cap InstalledIds(p) = {}

---------------------------------------------------------------------------
\* What the engine makes of the files: a directory that cannot be listed aborts the
\* load, a document whose fields have a type it cannot use and, without PyYAML, one
\* that is not JSON.
FieldsTyped(doc) == \A i \in 1 .. Len(doc.rules) : doc.rules[i].typed
LoadAborts ==
    \/ host.shut # {}
    \/ \E f \in Files : Present(f) /\ IF Parses(dir[f]) THEN ~FieldsTyped(dir[f]) ELSE ~host.yaml
\* The places of an id: rule at[2] of file at[1], in load order; the last is in force.
Places(id) ==
    UNION {{n} \X {i \in 1 .. Len(dir[Order[n]].rules) : dir[Order[n]].rules[i].id = id} :
               n \in {m \in 1 .. Len(Order) : Parses(dir[Order[m]])}}
InForce(id) ==
    LET places == Places(id)
        last == CHOOSE at \in places :
                    \A b \in places : b[1] < at[1] \/ (b[1] = at[1] /\ b[2] <= at[2])
    IN IF places = {} THEN Builtin[id] ELSE dir[Order[last[1]]].rules[last[2]].action

\* The probe goes file by file, leaving out the files that do not load, and maps
\* each id to the last rule of the last file that carries it.
LastRule(doc, id) == doc.rules[Max({i \in 1 .. Len(doc.rules) : doc.rules[i].id = id})]
ByIdOf(id) ==
    LET carriers == {n \in 1 .. Len(Order) :
                       Parses(dir[Order[n]]) /\ FieldsTyped(dir[Order[n]]) /\ id \in IdsOf(dir[Order[n]])}
    IN IF carriers = {} THEN Builtin[id] ELSE LastRule(dir[Order[Max(carriers)]], id).action
\* A bug to be caught: only what does not parse counts as corrupt.
CorruptUnparsed == {f \in Files : Present(f) /\ ~Parses(dir[f])}
Corrupt == {f \in Files : Present(f) /\ ~(Parses(dir[f]) /\ FieldsTyped(dir[f]))}
Drift == {id \in DOMAIN Builtin : ByIdOf(id) # Builtin[id]}

---------------------------------------------------------------------------
(* install.sh.                                                                 *)
NoJob == [pc |-> "idle", pack |-> CHOOSE p \in Packs : TRUE, how |-> "replace"]

\* --rule-pack and --replace-rule-packs replace a file of the same name,
\* --rule-pack-file by itself does not.
Request(i, p, how) ==
    /\ job[i].pc = "idle"
    /\ job' = [job EXCEPT ![i] = [pc |-> "check", pack |-> p, how |-> how]]
    /\ UNCHANGED <<host, source, dir, probe, changes, raced>>

\* Skipped loudly: a directory the engine does not read, a file whose name is
\* taken, a document that only PyYAML could read.
Skips(j) ==
    \/ ~host.live
    \/ j.how = "file" /\ Present(j.pack)
    \/ ~host.yaml /\ source[j.pack].text # "json"
Skip(i) ==
    /\ job[i].pc = "check" /\ job[i].how # "remove" /\ Skips(job[i])
    /\ job' = [job EXCEPT ![i] = NoJob]
    /\ UNCHANGED <<host, source, dir, probe, changes, raced>>

ValidatePack(i) ==
    /\ job[i].pc = "check" /\ job[i].how # "remove" /\ ~Skips(job[i])
    /\ job' = [job EXCEPT ![i] = IF Accepts(@.pack, source[@.pack])
                                 THEN [NoJob EXCEPT !.pc = "copy", !.pack = job[i].pack] ELSE NoJob]
    /\ UNCHANGED <<host, source, dir, probe, changes, raced>>

\* Whether a change now comes between somebody's validation and copy.
Races(i) == raced \/ \E k \in Installers \ {i} : job[k].pc = "copy"

\* cp reads the file again: what is installed is what the file holds now.
Copy(i) ==
    /\ job[i].pc = "copy"
    /\ dir' = [dir EXCEPT ![job[i].pack] = source[job[i].pack]]
    /\ job' = [job EXCEPT ![i] = NoJob]
    /\ raced' = Races(i)
    /\ UNCHANGED <<host, source, probe, changes>>

Unrule(i) ==
    /\ job[i].pc = "check" /\ job[i].how = "remove"
    /\ dir' = [dir EXCEPT ![job[i].pack] = Absent]
    /\ job' = [job EXCEPT ![i] = NoJob]
    /\ UNCHANGED <<host, source, probe, changes, raced>>

KillInstaller(i) ==
    /\ job[i].pc # "idle"
    /\ job' = [job EXCEPT ![i] = NoJob]
    /\ UNCHANGED <<host, source, dir, probe, changes, raced>>

\* An author rewrites a pack file; an operator or administrator a rule file.
Edit ==
    /\ changes < MaxChanges /\ changes' = changes + 1
    /\ \E doc \in Docs :
         \/ /\ \E p \in Packs : source' = [source EXCEPT ![p] = doc]
            /\ UNCHANGED dir
         \/ /\ \E f \in SystemFiles \cup UserFiles : dir' = [dir EXCEPT ![f] = doc]
            /\ UNCHANGED source
    /\ raced' = (raced \/ \E k \in Installers : job[k].pc = "copy")
    /\ UNCHANGED <<host, job, probe>>

\* rules-drift-probe.py --fail-on-drift: whatever it raises is reported as UNKNOWN,
\* and the status is 1 for drift and corrupt files alone.
Probe ==
    /\ probe' = IF host.shut # {} THEN "unknown"
                ELSE IF Drift # {} \/ Corrupt # {} THEN "drift" ELSE "ok"
    /\ UNCHANGED <<host, source, dir, job, changes, raced>>
ProbeStatus(answer) == IF answer = "drift" THEN 1 ELSE 0

PackInit ==
    /\ host \in HostType
    /\ source \in Sources
    /\ \E doc \in SystemDocs : dir = [f \in Files |-> IF f \in SystemFiles THEN doc ELSE Absent]
    /\ job = [i \in Installers |-> NoJob] /\ probe = "none" /\ changes = 0 /\ raced = FALSE

PackNext ==
    \/ \E i \in Installers :
         \/ \E p \in Packs, how \in {"replace", "file", "remove"} : Request(i, p, how)
         \/ Skip(i) \/ ValidatePack(i) \/ Copy(i) \/ Unrule(i) \/ KillInstaller(i)
    \/ Edit \/ Probe
PackSpec == PackInit /\ [][PackNext]_packVars

---------------------------------------------------------------------------
\* The types of the variables.
PackTypeOK ==
    /\ host \in HostType
    /\ source \in [Packs -> Document] /\ dir \in [Files -> Document]
    /\ job \in [Installers -> [pc : {"idle", "check", "copy"}, pack : Packs,
                               how : {"replace", "file", "remove"}]]
    /\ probe \in {"none", "ok", "drift", "unknown"} /\ changes \in 0 .. MaxChanges /\ raced \in BOOLEAN
    /\ ~host.live => \A p \in Packs : ~Present(p)

\* No order of installing, replacing and removing packs lets one shadow
\* another: no id is in two pack files, whatever else is in the directory,
\* unless something changed between a validation and its copy.
PacksNeverShadow ==
    ~raced => \A p, q \in Packs : p # q => IdsOf(dir[p]) \cap IdsOf(dir[q]) = {}

\* As long as nobody edits a file, a pack never stands in for a builtin rule, even
\* when two installers race.  Histories with an edit are left out whole: a pack file
\* that changes under the copy brings in whatever it then holds.
PacksLeaveBuiltinsAlone ==
    changes = 0 => \A p \in Packs : IdsOf(dir[p]) \cap DOMAIN Builtin = {}

\* A pack adds rules and stands in for none, another pack's or the engine's.
PacksOnlyAdd == PackTypeOK /\ PacksNeverShadow /\ PacksLeaveBuiltinsAlone

\* A drift gate that passes and does not print UNKNOWN means what it says at that
\* moment: the engine loads and every builtin id has its builtin action, whatever
\* files shadow which.
GateSeesEveryDrift ==
    [][Probe /\ ProbeStatus(probe') = 0 /\ probe' # "unknown" =>
         ~LoadAborts /\ \A id \in DOMAIN Builtin : InForce(id) = Builtin[id]]_packVars

\* rules-drift-probe.py:41: "exit 1 when any DRIFT row was printed OR any installed rule
\* file could not be parsed".  With a directory that cannot be listed it is 0.
CorruptFilesFailTheGate == [][Probe /\ Corrupt # {} => ProbeStatus(probe') = 1]_packVars

\* What the specification says of the namespace: a pack can not carry an id of
\* another pack.
PacksStayInTheirNamespace ==
    ~raced => \A p, q \in Packs : p # q /\ Present(p) /\ changes = 0 => IdsOf(dir[p]) \cap Namespace[q] = {}
=============================================================================

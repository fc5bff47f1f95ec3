# A verification project for terminal-jail

terminal-jail runs shell commands of an agent behind a firewall and in Linux
namespaces.  These modules model the parts of it in which an order of steps, a
failure or a stale fact decides whether a command runs that should not, or runs
without the confinement its caller believes in.  Paths below are relative to
`src/`; `P/` stands for `src/plugin/terminal_jail/`.

## 1. The system

A command line takes this way:

    wrapper  (standalone/terminal-jail, bash)
       | asks                          answers: one JSON verdict
       v
    bridge   (P/interruptor_bridge.py one-shot | P/interruptor_resident.py daemon)
       | calls intercept()
       v
    engine   (P/interruptor/: loader -> decider -> rewrite with P/interruptor/userns.py,
              landlock.py, landlock_net.py)
    wrapper  probes the host, chooses a backend, execs unshare | bwrap | the rewrite,
             through standalone/*-loader.py for the tiers that are on

| part | state | operations | interacts with | hard behaviour |
|---|---|---|---|---|
| resident bridge `P/interruptor_resident.py` | socket path, inode mode, listen queue, one served connection, `_shutting_down` | `serve`, `_accept_loop`, `_serve_connection`, signal handler, `client`, `_one_shot_fallback` | other daemons through the path, clients through the socket, the engine by call | races on a name, crash and restart, timeouts, a signal at any instruction, bounded queue |
| one-shot bridge `P/interruptor_bridge.py` | none | `main`: one request, one envelope | wrapper, engine | every failure must become an envelope of the right mode |
| rule engine `P/interruptor/__init__.py, decider.py, rules.py` | rule files on disk, the merged RuleSet, the provenance map, counters | `intercept`, `load_all`, `_build_rule_layers`, `evaluate`, `_record_wrap` | rule files (two reads), metrics | id collisions over three merges, files changing between reads, a file that half parses, size budgets |
| wrapper `standalone/terminal-jail` | control variables, MODIFIED, TJ_BACKEND, the egress mark | argument parsing, firewall gate, `--user` probes, backend selection, preflight, composed mode, six launches | bridge, host, loaders, an outer launch's environment | a decision made early and undone late, probes that fail, claims that go stale |
| auto-sandbox prefix `P/interruptor/userns.py, sandbox.py` | `_DECISION`, once per process; a probe file while it is made | probe the launch, prove it on a file of the caller, choose, warn | engine, host, the environment and directory of whoever started the process | a host that changes between probe and use, probes that hang or die, a choice kept for the life of a daemon |
| Landlock tiers `P/interruptor/landlock*.py`, `standalone/landlock*-loader.py` | ruleset, process domain, cached prefix | layout, prove in a child, apply, exec | engine, wrapper, kernel | a one-way restriction that must hit the right process only when proved |
| seccomp filter `P/seccomp.py`, `standalone/seccomp-loader.py` | a BPF program, `no_new_privs` | build the deny set, generate, install, exec | wrapper, kernel | jump offsets, the number a C library really issues, a payload that runs without a word that there is no filter |
| parser and matcher `P/interruptor/parser.py, matcher.py`, `rules.py` (schema), `decider.py` (rebuild) | none | split, join, normalise, match by nine types, rebuild round the wrapped segments, wrap whole | engine, the shell that runs the result | the engine's reading and the shell's must agree on what was wrapped |
| Hermes plugin `P/plugin.py` | metrics file | hooks, counters, adoption of an old file | engine | two processes on one file |
| installer `install.sh` | an installed tree, PATH links, profile lines, rule packs | install, upgrade, uninstall | host | stops between any two steps |
| task-board guard `scripts/board_id_guard.py`, `normalize-results.py` | the board file, a temporary file beside it | validate, compact, migrate, normalise | agents that append and edit rows | no lock, two reads and a rename, a writer in place |
| teardown matrix `scripts/kernel-matrix-teardown.py` | rows of a matrix, the processes of a cell | measure a cell, gate, import, matrix | the wrapper, the host's other processes | the payload is found by its command line; a time-out races the answer |
| rule-pack and drift tools `scripts/rule-pack-tool.py`, `rules-drift-probe.py`, the pack part of `install.sh` | the rules directory | validate, copy, remove, probe | other installers, authors, the engine's loader | a check and a copy with no lock; ids shared by files of three owners |

What makes each correct, in a sentence: the bridge, that no failure turns into an
enforce-mode allow and that nobody else is served; the engine, that no policy
gets lost silently and an override overrides exactly what it names; the wrapper, that
what was asked for (a verdict, a backend, a private `/proc`, a tier) is delivered,
refused or said to be missing; the tiers, that a claim of enforcement was proved and
the engine itself stays unrestricted; the filter, that it denies its list and nothing
else; the prefix, that a mapped rewrite was proved for its caller; the parser, that a
rewritten command is to a shell the judged one with its segments in sandboxes; the
maintenance tools, that no row, rule or process is lost in a race with the others who
write there, and that what they certify was measured.

## 2. The plan

In order of importance: what lets a command run (bridge, engine, wrapper) first, then
what confines it (tiers, prefix, filter), then what installs and maintains it.

| step | modules | abstract specification | theorems | state |
|---|---|---|---|---|
| 1 | `Envelopes`, `ResidentBridge` | `VerdictService`: each request is answered once, by something permitted | types, owner-only socket, strangers, fail-closed, no shutdown lost, one place per connection, refinement | done |
| 2 | `Interruptor` | the engine's own rules alone (`Evaluate({}, ...)`) as the bound for additions | types, one rule per id, overrides, warn mode and budget, additions tighten, no policy absent, layers are sources | done |
| 3 | `Launch` | what a launch promises of the executed run | types and four promises | done |
| 4 | `LandlockLayout`, `LandlockTier` | `LandlockLayout` alone: what one computation of the grants may do, whoever runs it | types, surfaces withheld, workdir kept, proofs undone, true claims, no tier silently missing, chain starts, refinement | done |
| 5 | `Seccomp` | the deny list itself (`Reference`): what the kernel answers, read off the set | types, well-formed jumps, filter = list, missing filter stated | done |
| 6 | `Prefix` | | types, mapped rewrites proved, warnings true, removal of probes tried | done |
| 7 | `Shell`, `Matcher`, `Rewrite` | a shell's own reading of the text (external): same operators round the same segments | what is sandboxed is wrapped, a rewrite keeps the runs and the operators, rules raise for a cause only, quotes are seen through | done |
| 8 | `Selection`, `Board`, `Teardown`, `RulePack`, composed by `MCScripts` | `Latest`: what a compacted board is to the board it replaces | runs are whole, replacements keep the board; verdicts are measured; packs only add, a drift gate that passes and knows is right | done |
| 9 | base install of `install.sh`; metrics of `P/plugin.py`; the non-interactive shell | an interrupted install followed by a complete one ends in the same tree | | left |

## 3. Modules and code

**Envelopes / VerdictService / ResidentBridge** (`P/interruptor_resident.py`,
`P/interruptor_bridge.py`).  `Envelopes` has the answers of the protocol: the engine's
verdict in its mode, the transport-error, engine-error and no-verdict envelopes.
`ResidentBridge` has one action per system call another process can observe: for a
daemon the existence check, the probe connect, the unlink, bind, chmod, handler
installation, listen, accept, receive, reply, and the two clean-ups (the handler's and
the `finally`'s); for a client connect, send, receive, time-out and the in-process
fallback, which reads stdin once more and so waits for the caller of a client that typed its
command (`Stdin`).  A signal may arrive at every step once its handler is installed, and its
`SystemExit` may be lost in a destructor or callback; a kill may come at any step.
`path` is the *name* on disk: whose socket it stands for.  `VerdictService` is the
abstract promise; `ResidentBridge` implements it with `answer <- out`.

**Interruptor** (`P/interruptor/__init__.py`, `decider.py`, `rules.py`, `types.py`, the
budget part of `P/plugin.py`).  One `intercept()`: the gates, the loader reading each
file and merging entry by entry (`MergeRule` is `RuleSet.replace` with message
inheritance), the second reading for the provenance map, `Evaluate` (whole-command pass
over the blocklist, then segments by layer and priority, folded into one verdict), and
the settlement (byte budget, warn mode).  Another process may edit a rule file between
any two reads (`Edit`).  A pattern is the set of texts it matches; a rule file is a
shape (which parsers read it) and a list of entries.  A rule file found when the
directory is listed is taken to be there when it is read, or to be unreadable.

**Launch** (`standalone/terminal-jail`; `P/_bundled/terminal-jail` is the same text).
The script's control flow from its options to `exec` or a refusal: firewall gate,
`--user` mapping probes, backend selection, the private-/proc demand, preflight of the
rewrite or of the plain launch, composed mode, and the launches.  The host answers each
probe when it is asked, by a choice; loaders are any subset.  The bridge's answer is an allow, a
block, a rewrite, an error, an object whose action the script does not know ("actionless", which
runs), or nothing it can use.  What is executed is a
record: in which namespace, behind which tiers, with which payload.

**LandlockLayout / LandlockTier** (`P/interruptor/landlock.py`, `landlock_net.py`,
`standalone/landlock*-loader.py`).  `LandlockLayout` is `build_layout` on a tree of paths:
the write grants, the read grants with the toolchain roots that keep clear of surfaces, the
working directory split around each surface inside it (`SplitAround`, the innermost first),
the merge that drops what has gone, and `_build_rules_fd` opening every path.  Each look at
the disk is a step, and between two of them another process may create or remove a path
(`Edit`); `old` is what has existed all the time.  A directory of `given.sealed` may fail to be
listed, whereupon the carve goes no deeper and says nothing.  `LandlockTier` is one launch with both
tiers.  `who` applies a tier: a child of the engine that only finds out (`AskChild`,
`Emit`), or a loader of the chain (`StartLoader` to `Applied` or `Declined`), which the
engine orders file system first and the wrapper egress first.  Applying goes by the same
actions in both, in the order of each tier: layout or allowlist, ruleset, probe, the child
that proves it, the verdict, the restriction.  A probe file that was created and could not be written,
or could not be removed, stays (`litter`).  `domain` is what the kernel holds a process
to, and only grows in a process.  `Launch` has these loaders as single steps; the two are
not composed.

**Seccomp** (`P/seccomp.py`, `standalone/seccomp-loader.py`).  The loader's path from its
switch to `execvp` with each way to fail, and then the kernel running the installed program
one instruction per step on any call the payload issues.  `FilterOf` is the generated BPF
program with its relative jumps, `DenySet` the table with the additions a caller may make;
`Packs` says when the jumps fit a `u8`.

**Prefix** (`P/interruptor/userns.py`, the use in `sandbox.py`).  One action per look at the
host: `Import` with the switch in the environment, `CreateProbe`, `ProbeDir`, `PropertyProbe`
and its failures and time-out, the `finally` (`Clean`), `Decide`, and the answers.  A one-shot
bridge answers once in its caller's directory; a resident one answers callers it never sees.
What the degradation warning said is `told`; a removal that fails leaves its file, and `kept` has it.
`HostChanges` changes tables, mappable ids or permissions at any time, `Kill` ends a process
while it probes.  It is not composed with `Interruptor`, where a rewrite is the set of
segments wrapped, whatever the prefix.

**Shell / Matcher / Rewrite** (`P/interruptor/parser.py`, `matcher.py`, the schema check of
`rules.py`, the rebuild in `decider.py`, the quoting of `standalone/terminal-jail`).  A command
is a sequence of classes of characters.  `Shell` has the engine's reading (`SplitParts`,
`Groups`, `SegmentTexts`, `RebuildModified`) beside a POSIX shell's (`Reading`, external).
`Matcher` has the nine match types with three answers, yes, no and an exception (also that of a
string which `re.compile` fails on with something else than `re.error`, `Huge`), and the
schema check in front of them; the rules of a file are given with what is inside their conditions, level by
level (`Nested`), and answered from the inside out.  `Rewrite` takes one command, typed or quoted by the wrapper
from an argument vector, through parse, judgement per segment, and rewrite.

**Board / Teardown / RulePack** (`scripts/board_id_guard.py`, `normalize-results.py`;
`scripts/kernel-matrix-teardown.py`; `scripts/rule-pack-tool.py`, `rules-drift-probe.py`, the
packs of `install.sh`).  Three programs with no state in common.  `Board`: each read, check,
write and rename of the guard is a step, the normalizer truncates and writes in place and may
stop in the middle of a row, agents write at any time, the guard may be killed; `newline` says whether
the last row ends in one, which a compaction sees to.  `Teardown`: a
cell takes the lowest new `sleep 300` of `/proc` for its payload; the jail, other cells' jails
and strangers start and end when they like, and each time-out races the answer.  `RulePack`:
installers side by side, each checking the directory and then copying a source that its author
may change in between; the probe reads the directories as the engine's loader does, one of which it may
be unable to list (`host.shut`).  `Selection` is the one
thing they share, keeping some lines of a file in their order.  `MCScripts` extends all three and runs
one of them per behaviour (`subject`), the other two staying in an initial state.

The definitions that model code are listed with their lines in `PROJECT.json`, `map`.
Operators whose comment begins "The bug it had", "A bug it could have" or "A bug to be
caught" are mutated forms that properties are tested against; no specification uses them.
Each property is tested against at least one such form: the run then finds it violated.

## 4. What the runs show

Constants are in the `.cfg` files and the `MC*` modules; a run takes seconds to two minutes.
The runs marked *violated* find what section 6 lists first.

| run | instance | what it shows |
|---|---|---|
| `resident_safety` | two daemons on one path, each started once, one in enforce and one in warn mode; a client with the fallback, one without, one of another uid that types its command; an engine that works or cannot be imported | through every order of start, crash, signal, time-out, disconnection and fallback, an enforce-mode allow is always an evaluation of that very command (`EnforceNeverFailsOpen`), the inode served is 0600 and the other uid is never connected (`OnlyTheOwnerIsServed`), a shutdown is never reported as a lost listener (`ShutdownIsNeverLost`), no connection is held twice or by nobody (`OneHolder`), and the whole implements `VerdictService` (`ImplementsService`) |
| `resident_liveness` | two daemons, one started twice; one client that reads its command from stdin, has the fallback, and may connect and stay silent; an engine that works or raises | a request under way is answered, or waits for its caller at the fallback's own read of stdin (`EveryRequestEnds`), a silent peer does not hold the daemon (`ServerNeverWedged`), a signalled daemon stops (`SignalledDaemonStops`), a daemon that nobody disturbs serves whatever a crash left at the path (`LoneStartServes`) |
| `engine_rules` | four engine rules over all layers; two rule files of 18 contents (missing, unparsable, refused, YAML, JSON, both; overrides, additions, both in one); one edit between any two reads; 18 commands in three modes, with PyYAML and without | no policy that parsed is lost (`NoPolicySilentlyAbsent`), new ids only tighten (`NewIdsOnlyTighten`), an overridden engine rule never blocks in its own name (`OverriddenBuiltinIsSilent`), the layer a verdict names is that of the rule that was kept (`LayerIsTheRulesSource`), warn mode blocks nothing and the byte budget lifts a wrap and never a block (`SettlementKeepsTheVerdict`) |
| `launch` | every backend, composed mode, `--user`, mapping, `--seccomp` and `--private-proc` together; every tier under every launch shape, nested launches among them; every mode of the firewall; any subset of loaders | in enforce mode a command runs on an object the bridge answered and on no error (`EnforceNeedsAnAnswer`), what was asked for is delivered or refused (`AskedForIsDelivered`), a tier that is on and missing was said to be, but for the file-system tier of a launch under the filter or with a uid mapping, and the egress tier of a launch that goes by a foreign mark (`MissingTiersAreStated`), a mapping is claimed of launches that map (`MappingClaimHolds`) |
| `launch_payload` | the backend family of `launch` | *violated* `ComposedRunsThePayload`: a composed rewrite runs its payload |
| `landlock` | 18 paths with a surface inside a surface and one with an exception; 63 layouts (6 working directories from `/` to the inside of `~/.config`, 3 disks, 3 command lines; 9 with directories that cannot be listed) on able hosts, and a usual one on every odd host: no Landlock, an old one, one that enforces nothing, loaders missing or unreadable, a tier off; one edit at any moment | no surface is granted nor held by a grant (`InnerSurfacesWithheld`), the split loses nothing of the working directory but what a directory that cannot be listed keeps back (`WorkdirStaysWritable`), finding out leaves the engine unrestricted and removes its probe as far as that can be done (`ProvingIsUndone`), what runs is held to exactly the tiers reported (`DomainIsWhatIsClaimed`), a tier that is missing was said to be (`MissingTierIsStated`), the wrapper's chain starts (`WrapperChainStarts`) |
| `seccomp` | the real tables of both architectures and an unknown machine; additions that leave the list alone, add an allowed number, fill the jump to its last place and pass it by one; the numbers around every entry, under three architectures | a call whose number is on the list fails, and one that the C library routes there by another number, and nothing else does (`DeniedCallsFail`), a payload without the filter it should have was said to be without (`MissingFilterIsStated`) |
| `seccomp_aarch64` | the same | *violated* `DeniesWhatItNames`: the aarch64 list denies the five calls its comment names |
| `prefix` | one process, one-shot or resident, two directories, two id ranges, four tables with a bad entry and a second one, two changes of the host at any moment, two commands served | a mapped rewrite was proved for its caller and holds while the host does (`RewriteIsProved`), what the degradation warning says is so (`WarningIsTrue`), a probe file stays only where its removal was tried and failed, or the process was killed (`ProbesAreRemoved`), a choice ends (`EveryChoiceEnds`) |
| `rewrite` | every command of at most five characters over nine classes with two rules; eight longer ones with some twenty rules of every match type; argument vectors of one or two words of at most two characters, and of up to three words of which some are empty, hold a blank, an operator or a quote | each segment that matched has a wrap of its own in the rewrite, in order, or the whole command is wrapped as one argument (`SandboxedIsWrapped`), a command the engine splits where a shell does is, rewritten in place, the same operators to a shell, each wrapped run the sandbox and its segment, every other run as it was (`RewriteKeepsStructure`), the wrapper's quotes hide nothing from a rule (`QuotesHideNothing`), what raises is a field the schema does not look at, a string `re.compile` fails on otherwise than with `re.error`, or a command of no words, on any level of a composite (`RaisesHaveACause`) |
| `rewrite_redirect` | the same, at most four characters | *violated* `RedirectionsSurvive`: a redirection keeps its target |
| `scripts` | boards of up to three rows over every defect, with a last newline and without, one write by an agent; matrices imported from nine files, one cell of this host or the gate; two installers of two packs whose namespaces overlap, one edit of any file, one of the two rules directories perhaps not to be listed | a replacement keeps the last row of every id, repairs only defects and takes no row of a valid board, to which a compaction adds at most the last newline (`BoardIsKept`), a refused or ended run leaves nothing behind (`NoHalfRun`), a green matrix rests on measured pairs, and, unless a stranger's `sleep 300` starts during the run, cells and the gate's zero rest on payloads that are gone (`VerdictsAreMeasured`), packs stand in for no other pack's rule unless somebody races the check, and for no builtin one in a history without edits (`PacksOnlyAdd`), a drift gate that passes without UNKNOWN is right at that moment (`GateSeesEveryDrift`) |

The type invariants of the modules with a proof module are theorems, and the runs do not repeat
them, except those of `Rewrite`, `Board`, `Teardown` and `RulePack`, which are conjuncts of
`SandboxedIsWrapped`, `BoardIsKept`, `VerdictsAreMeasured` and `PacksOnlyAdd`.  `OneRulePerId` is a theorem only.

**Bounds and why they are enough.**  The resident bridge: a hazard on the path needs two
daemons (one displaces the other; a third would do what the second does) and one start
each, a restart being a start over what a crash left, which `resident_liveness` adds.  There one client is enough, the kind that can keep a
daemon or its own fallback waiting: whether a request ends rests on the time-outs of its own connection,
and the fallback of a client that has its command already is one fair step.
`Backlog = 0` leaves room for one connection in the queue, so that the queue is full with
two clients or with a client and a probe; with the 16 of the code the same needs eighteen.
Three clients are one for each kind.  Requests and answers carry the client they are for,
so one command each suffices to see an answer go to the wrong one.  The engine: a collision
of ids needs at most two files and two entries in one of them, or three holders of an id in
all, the engine's own among them; texts are the atoms of the Boolean algebra that the
patterns of the instance generate, so that another text would match what one of them does.
The tiers: a surface inside a surface is as deep as the table of surfaces goes; one edit
makes any one look at the disk disagree with the one before, which is all that two steps of
the layout compare, and `MaxEdits` bounds it; the proofs have no such bound.  A path stands
for every path that lies in the same way to surfaces, grants and working directory.
The wrapper: the script runs once, and its options are finite; `Launch` is explored for
families of options of which each is free in what the launch branches on together.  The
filter: the program is a chain, so a wrong jump or comparison shows at the ends of the list, at
its neighbours and at the longest list; numbers between entries behave alike.  The prefix:
processes share the host and nothing else, so one is enough for TLC, and two changes of the
host let it change and change back between a probe and its use; the proofs have any number.
The rewrite: a character stands for its class, and five characters hold an operator of two, a
quoted text and a word on either side of an operator; what needs more (a quote that spans an
operator, a redirection with a number, several operators) is in the longer ones.  Argument vectors need a
second word for the blank between two pairs of quotes and a third for one on either side of a word; a
word may hold what ends a segment, a path, a word or a quoted text.  The scripts:
a loss needs one foreign write between a read and the rename; three rows hold a repeated id
with a row between; a matrix is green from three kernels on, and the files have two, three, a
bad third and a doubled one; a shadowing pack needs two installers or one edit; one directory that cannot
be listed ends a load and a probe, whatever the other is like.
Counters are bounded by `MaxStarts`, `MaxEdits`, `Backlog`, `MaxFlips`, `MaxServed`,
`MaxWrites`, `MaxChanges` and nothing else; `Shipped` and `MaxPrio` only number the engine's
rules and bound a file's priorities.

**Fairness.**  Two runs need any.  In `resident_liveness` a daemon's steps are weakly fair
together, because a running process is scheduled and each of its system calls returns (the
ones that could block have time-outs, which are steps here).  A client's connect and the
steps after its request are weakly fair for the same reason; its `Send`, and the one-shot fallback,
which reads stdin, only for a client that has its command already, since nobody can be made to
type one or to end the input.  Starting,
signalling and killing a daemon are choices of an operator and never fair.

In `prefix`, `FairSpec` is weak fairness of each process's own steps together
(`EngineStep`), since a running process is scheduled and both probes carry a time-out, which is
a step here.  A kill, a change of the host and a further command for a resident bridge are never
fair.  Everything else is checked for safety only: the engine, the wrapper, a launch's loaders,
the filter's loader and the scripts run to an end, and stopping there is the only deadlock,
which is why every configuration has `CHECK_DEADLOCK FALSE`.

## 5. What is proved

For all values of the constants that satisfy the modules' named assumptions, TLAPS proves
the following.  The assumptions say what the constants are, and little else: that the ids, modes
and tables are of their sets; `BuiltinAssumption`, that the engine's own rules have distinct
ids and positions; `TreeAssumption`, that what is above a path is a finite chain;
`SurfaceAssumption`, that the surfaces are in HOME and what everybody is granted is apart from
them; `JumpAssumption` and `InputAssumption`, that a jump holds at least 1 and additions to a
deny list are finite sets of numbers; `NoneAssumption`, that "nothing yet" is no marker;
`NestedAssumption`, that the conditions of a rule are texts, values of other types and rules of lower
levels, since a rule file is a finite tree; `CharAssumption`, that the characters the program itself writes
are characters; `RuleAssumption`, `CaseAssumption` and `ArgvAssumption`, that fields, commands and words
are made of characters, that rules have passed the schema and that an argument vector is not empty;
`BoardAssumption` and `TeardownAssumption`, that boards, writes and imports are made of rows;
`PackAssumption`, that packs have files of their own, the load order lists all files and a builtin rule
has an id.

*ResidentBridgeProofs.*  `TypeCorrect`.  `OwnerOnly`: the property is not inductive, since
the chmod goes by name and can hit another daemon's inode; `TightBeforeListening` says that
whoever holds the path and has got past the chmod finds it owner-only, which no later bind
of somebody else can spoil, because a bind gives the path another owner.
`StrangersNeverServed`: by `StrangersOut`, that no queue, connection or served slot holds a
stranger; it rests on `OwnerOnly`.  `NeverFailsOpen` and `Implements`: both from
`AnswersPermitted`, that every answer in flight anywhere (about to be sent, in a socket,
given) is permitted for the client whose connection it is on.  `NoShutdownIsLost`, by `Marked`:
a daemon without a shutdown marker serves on its own listener, and whoever runs the handler has
the marker, so that a closed listener is never met without it.  `OnePlace`: that a connection is
in one place is not inductive, since a step moves it between a queue and a daemon by what its
`link` says; `Placed` ties `link` to the place in both directions, and `BusyInService` says that a
daemon holds a connection only while it serves or handles a signal on top of that.

*InterruptorProofs.*  `TypeCorrect`.  `OneRule`: ids stay unique through every merge
(`MergeKeepsIdsUnique`), across edits between reads.  `OverriddenNeverBlocks` and
`SettlementIsFaithful` (warn mode and the byte budget): from what an evaluation can yield (`DeciderDecides`, `EvaluateYields`) and `Undecided`, that there is no verdict
before the judgement.  `AdditionsOnlyTighten`: rules
with new ids come after the engine's own within a layer only by priority, so the engine's
decider, if one applied, still applies or is preceded by something at least as strict
(`SameBuiltinDecides`, `AdditionsDecideMore`), segment by segment and for the whole
command; `FirstExists` gives the first rule in the order of evaluation, layer by priority by
position, from `SmallestExists`, which has the smallest of a set of naturals as a minimal
interval in the library's well-founded order of the subsets of a finite set.
`NoPolicyIsAbsent`, by `FilesInv`: of the files read so far each is free to be skipped or has all
its entries loaded, from there or from a later file, and of the file being merged a prefix is
(`After`), which a merge lengthens by one while it takes no other entry away
(`MergeKeepsEntries`).  `LayersAreSources` needs both passes: the map has for each id the last file
with it (`MapInv`), a loaded rule stands in the file it is from (`Sourced`), and because nothing is
absent and ids are unique, the last file with the id is the one the rule was kept from.

*LaunchProofs.*  `TypeCorrect` and the promises of a launch, by the invariant
`Inv == Path /\ Promises`.  No promise is inductive alone: each is about the end of a path
whose decision was taken much earlier.  `Path` carries the decisions along: `Decided` (past
the firewall in enforce mode, there is a verdict to go by), `Chosen` (the backend chosen is
the pinned one, and satisfies the demand once that was checked), `Earned` (composed mode
was decided for someone who may be composed), `Claimed` (a mapping claim
goes with mapping flags and the unshare backend), `Marked` (where a launch goes by no mark but
its own, `OwnMark`, the mark means that the engine has spoken).

*LandlockProofs.*  First the layout: `LayoutTypeCorrect` and `SurfacesAreWithheld`, by `Withheld`: while
the layout is computed a grant of the working directory may still hold a surface, but only
one that is in `todo`, and none lies inside a surface.  What is beside the way down to one
surface cannot be inside another that holds none (`AroundStopsAtSurfaces`), and what has
existed all the time cannot be missed by a look at the disk.  The surfaces that hold others
are exempt, since for them it is false (section 6).  `SplittingLosesNothing`, by `NothingLost`:
every path that was there all the time is in a grant unless a surface already dealt with may lose it
(`MayLose`: the surface, the way to it, and what shares with it a directory that cannot be listed).  Around a surface the grants go to what lies beside the way down to it, so a
path that leaves the way must find the branching: the lowest path above both (`LowestCommon`,
which is where `TreeAssumption` needs finitely many) and the next one from it to the path
(`ChildOnTheWay`).

Then the tiers: `ImplementsLayout` is the refinement, through which
`LaunchWithholdsSurfaces` and `LaunchKeepsWorkdir` follow from the theorems on the layout.
`TierTypeCorrect`, `ProofsAreUndone`, `ClaimsAreTrue` and `NoTierSilentlyMissing` rest on `TierInv`.  That a missing tier was stated is about the end; what is
inductive is the account of it (`Accounted`): a tier that is on is at every moment stated, still
in the queue, or emitted while the engine asks and claimed later.  That a claim is true needs
that the proof at hand is of the tier at hand (`Proved`) and that the restriction precedes the
claim by one step (`Held`).  `EveryWrapperLoaderStarts`, by `FsComesLast`: in a wrapper's chain the
file-system tier, the only one that can keep a loader from being read, holds nobody who still
has a loader to start.

*SeccompProofs.*  `SeccompTypes`; `FilterIsWellFormed`, that no jump leaves the program or is longer
than an instruction holds; `FilterIsTheDenyList`, by `ScanInv`, which says at each place of the
program what the scan has learnt of the call: past place n of the chain, that the number is none
of the first n.  The chain is the deny set in order by counting the smaller ones, so that nothing
recursive is needed; `DeniedCallsAlwaysFail` adds the numbers a C library issues instead.
`UnfilteredIsStated`, by `Spoken`: whoever comes to the exec wanting a filter has one or has said so.

*PrefixProofs.*  `TypeCorrect`, `RewriteRestsOnProof`, `WarningsAreTrue` and
`RemovalIsTried`, by an invariant of each process on its own (`Progress`, `Litter`, `Evidence`,
`Answer`), which the steps of the others leave alone; `Evidence` is what a change of the host breaks,
so it is claimed of processes under which the host has not moved.

*ScriptsProofs.*  Of the board, `RunsAreWhole` and `ReplacementsKeepTheBoard`, for any boards, writes and
tasks.  What a replacement keeps is about the rename, and is decided two reads earlier; `Sound` carries it
there: from the scan to the rename the board is the one scanned or the run is marked late, and what is
going to be written was made from that scan.  `CompactionKeepsTheLatest` is the algorithm: lines selected
by their place keep their order (`SelectionKeepsOrder`, by counting the kept lines up to each, which is an
injection between sets of one size), and every id has a last line, the one with the largest place
(`EveryIdHasALast`).  A valid board is a fixed point of both rewrites (`ValidBoardsAreFixed`), which is why
a run that gets as far as writing had no valid board, or one without its last newline (`EndsOnly`).

Of the teardown matrix, `TeardownIsMeasured`, for any imported rows, by `TeardownIInv`.  A verdict is given
when a cell ends, on what was found in `/proc` two steps earlier; `Watching` says what the cell may conclude
from that: until a stranger's sleep starts, what is new is the payload of this cell.  `Between` ties the
jail left behind by a cell to the verdict of its row, `GateCell` the single row of a gate to its one cell,
and `Answered` the answer to the rows it was read off.

Of the rule packs, `InstallingOnlyAdds` and `DriftGateIsRight`, for any packs, documents and number of
installers.  That packs shadow nothing is not inductive, since a copy goes by what a check said earlier:
`CopyIsLive`, `CopyIsDisjoint` and `CopyIsNew` say of an installer about to copy that the engine reads the
directory it copies to, that unless somebody raced it the ids of its source are apart from those of the other
packs, and that unless a file was edited they are apart from the engine's own.  The gate's theorem is on a single step: the probe could list both directories, reads a rule from the last
file in the load order that has it, and a file later than all of those would have to be in the list too
(`ProbeSeesTheEngine`).

*RewriteProofs.*  For any characters, any rules however deeply nested, any commands and any argument vectors.
Everything the code computes by going over a text is here a function of a place in it, filled from the
left (`Split`, `Groups`, the shell's reading, the answers to a rule and its conditions) or from the right (`SplitParts`, `QuoteEnd`);
the `...Scan` lemmas give each such function its step, by induction on the set of places where it
is right (`Upwards`, `Downwards`), which needs no theorem over an operator.  The invariant `IInv` says
that the segments are the parse of the command, that each verdict is the rule's answer to its segment, and what
each end of a judgement leaves behind.
`WrapHoldsTheCommand`, by two readings of `Escape`: a shell that reads it in a word has read the text itself when it
is through (`WrapIsOneArgument`, one character after the other, a quote being four), so that a whole wrap is two words; and the
pieces between the starts and ends of groups add up, so that a rewrite in place holds each wrap at a place that can be named
(`FoundAt`), behind those of the segments before it (`RebuiltPlaces`, `EachIsWrapped`).
`RulesRaiseForACause`: by the level of a rule, an exception comes from one of the definitions it is made of (`PartsScan`), and in
each match type from a field that is no string, a string `re.compile` cannot take or a command of no words (`AnswerCanRaise`).
`QuotesAreSeenThrough`: a quoted vector is laid out word by word (`JoinLayout`, `QuotedLayout`), so the parts are the quoted words, none of
them an operator, and one segment (`QuotedIsParsed`); split at its blanks it gives back the quoted words, whose quotes the normaliser takes
off (`SplitJoin`, `QuotesAreOff`); a pattern without quotes that is found in the raw text lies between two of them and is
found in the bare one (`OccursBare`), and nothing else reads the raw text, on any level (`SegmentSeesThrough`).
Words that hold a quote or a backslash are left out because the engine reads `'\''` otherwise than a shell; an
empty word has no bare form to compare with.

`RewritesKeepTheRuns`: where every segment is a run of a shell, a rewrite in place leaves the operators, their order
and every run that is not wrapped as they were.  The premise is about places (`SeesAsTheShell`): a segment starts where a shell is
between two runs and ends where the next character ends a word.  The argument reads the command and its rewrite side by side.  `Like` says
that two shells are in the same mode and word, with the same operators and the same runs but at the places wrapped so far, where one has
the sandbox and the segment; every character they both read keeps it (`CharLike`, `ReadAlong`).  A kept segment is the same characters to
both (`RunKept`).  At a wrapped one their texts differ: the one reads the segment, the other the sandbox and a quoted word, and they are
alike again only when the word is over (`RunWrapped`, from `WrapIsOneArgument`), which the character after the segment sees to in both
(`Joined`, `ReadGap`).  That there is one before the next segment takes the order of the segments (`GroupsInOrder`) and
that an operator stands between two runs (`NotTwoRuns`).  `RebuiltReads` puts it together, one segment after the other, along the function
that rebuilds the text (`RebuiltScan`).  The target of a redirection is a run of its own here, so the theorem lets it be
wrapped: that this moves the redirection to another file is what `rewrite_redirect` shows.

*Only model-checked.*  The liveness properties.  Every invariant and every action property of a passing run is
stated by a theorem.  Liveness under fairness and anything that needs ENABLED is beyond the prover, and so is what
a recursive definition computes for every input, where the library states it with theorems over an
operator that the installed provers cannot instantiate.

## 6. Where code and documents disagree

Three runs are violated, each by what the code does against a sentence of the repository that
the run's property states; `PROJECT.json`, `findings`, quotes both:

- a composed rewrite executes its payload as one quoted word, against
  `specs/cli.md:287` (`launch_payload`, `standalone/terminal-jail:1340`);
- four numbers of the aarch64 deny list are those of `getrlimit`, `prctl`, `getcpu` and `mmap` in the
  generic table, not of the calls the comment names (`seccomp_aarch64`, `P/seccomp.py:236`);
- the target of a redirection is a segment of its own, and is wrapped when a rule matches it, so
  that the redirection goes to a file named like the sandbox command (`rewrite_redirect`,
  `P/interruptor/decider.py:379`).

Others are stated as properties in the modules and are found violated when the property alone is
named in the component's configuration:

| property | configuration | what the code does |
|---|---|---|
| `StartLeavesLiveSocket` (as PROPERTY) | `resident_liveness` | a starting daemon can remove a live socket (`P/interruptor_resident.py:245`) |
| `FallbackIsEvaluated` | `resident_liveness` | the fallback of a client that read its command from stdin has nothing left to read: what answers is a transport error, after the caller has written or ended its input (`P/interruptor_resident.py:457`; its docstring, `:371`: "enforce mode still gets a fail-closed verdict from a real engine evaluation") |
| `UnusableIsNeverAnAllow` | `launch` | in enforce mode a JSON object without an action the script knows lets the command run (`standalone/terminal-jail:605`; `:516`: "Unusable verdict — never treat it as an allow") |
| `OrdinaryHostRefuses` | `launch` | the namespace signal of composed mode is there on every host where the caller can read the init's namespace link, so such a host is composed by default (`standalone/terminal-jail:978`; `:1039`: "so a plain host cannot compose by accident", and `specs/cli.md:282`) |
| `FsTierStatedWithFilter` | `launch` | a plain command under `--seccomp` runs without the file-system tier that is on, and nothing is said (`standalone/terminal-jail:1352`; `:1430`: "never silently left without kernel filesystem enforcement") |
| `EgressStatedUnderForeignMark` | `launch` | a launch without the firewall goes by the egress mark of the launch around it and runs without that tier and without a word (`standalone/terminal-jail:1105`; `:1087`: "never silently left CONNECTED") |
| `FallbackIsNeverSilent` | `prefix` | a create probe that fails or hangs falls back to the mapping-less prefix in silence (`P/interruptor/userns.py:376`; `:83`: "never silent") |
| `SurvivingPayloadIsFail` | `scripts` | a stranger's `sleep 300` that starts before the payload is taken for it: when it ends, the cell is a PASS and the payload lives (`scripts/kernel-matrix-teardown.py:270`; `:244`: "a surviving payload is FAIL") |
| `CorruptFilesFailTheGate` (as PROPERTY) | `scripts` | with a rules directory that cannot be listed the drift gate exits 0 over a corrupt file of the other one, while the engine's load aborts (`scripts/rules-drift-probe.py:214`; `:41`: "exit 1 when any DRIFT row was printed OR any installed rule file could not be parsed") |
| `InheritedMessageIsShown` | `engine_rules` | a message inherited across two replacements is lost (`P/interruptor/decider.py:216`) |
| `DemandedProcIsPrivate` | `launch` | a rewrite runs with the host's `/proc` in spite of the demand (`standalone/terminal-jail:1386`) |
| `SurfacesTakenOut` | `landlock` | a surface around another stays writable once the inner one has been taken out of the working directory (`P/interruptor/landlock.py:1041`) |
| `NeverAGate` | `landlock` | an `OSError` on the way to a tier ends the loader, and the command is not run (`P/interruptor/landlock.py:1348`) |
| `EmittedLoaderStarts` | `landlock` | a tail of two loaders is emitted that cannot start (`P/interruptor/landlock.py:1318`) |
| `ResidentProvesForItsCaller` | `prefix` | a resident bridge gives a choice proved in its own directory and environment to callers of other ones (`P/interruptor/userns.py:95`, "the bridge runs one process per evaluated command") |
| `QuotesComeOff` | `rewrite` | a quoted word with a blank keeps its quotes: `'echo' 'hello world'` becomes `echo 'hello world'`, where the example of `P/interruptor/matcher.py:91` has `echo hello world` |
| `ValidatedRulesEvaluate` | `rewrite` | rules the schema accepts raise in the matcher: `subcommand`, `parent`, `network` and nested conditions are not checked, a string such as `a{4294967296}` raises no `re.error` (`:177`), and a command rule on `'' ''` finds no first word (`P/interruptor/matcher.py:220`) |
| `GateFailsOnlyOnAnOrphan` | `scripts` | an UNAVAILABLE row with an exit code fails its own validation, so the gate exits 1 on a host that fails closed (`scripts/kernel-matrix-teardown.py:485`) |
| `GreenMeansEveryCellPasses` | `scripts` | a FAIL cell of a half-measured kernel, or one that a later row overwrites, leaves the matrix green (`scripts/kernel-matrix-teardown.py:76`) |
| `PacksStayInTheirNamespace` | `scripts` | pack `p` may carry the ids of a pack `p-q` (`specs/interruptor.md:228`) |

Met while modelling, true of the modules as they stand, and noted here only.

- *Resident bridge.*  The daemon's clean-up unlinks by name (`P/interruptor_resident.py:333`), so it can
  remove its successor's socket; `TERMINAL_JAIL_BRIDGE_FALLBACK` (`:39`) is read nowhere.
- *Engine.*  An entry without an id is loaded under a made-up one, which the provenance map does not
  list (`P/interruptor/decider.py:568`), and that map reads a file of a kind which the loader skips
  (`:551`); a warning is not surfaced when another segment is rewritten (`:338`); a block that warn mode
  lets through names no rule (`P/interruptor/__init__.py:130`); a pack can push a command over the byte
  budget, where a wrap is lifted (`:118`).
- *Wrapper.*  A composed rewrite states `proc_view=platform-owned` even if composed mode was forced and no
  outer layer seen (`standalone/terminal-jail:1337`), a rewrite's own launch states no view (`:1386`), a plain
  `unshare --mount-proc` launch states that of the host (`:1479`), and `MODIFIED` keeps a value the
  environment gives it (`:627`).
- *Tiers and filter.*  A probe file whose write failed stays (`P/interruptor/landlock.py:489`), and so does
  one that cannot be removed (`P/interruptor/userns.py:291`); a directory that cannot be listed keeps part
  of the working directory out of the grants without a word (`P/interruptor/landlock.py:1077`); `try_apply`
  of the filter "never raises" (`P/seccomp.py:516`) but lets an `OSError` and a `struct.error` through; its
  loader's usage shows `[--]`, which it does not take off.
- *Parser and matcher.*  `make VAR="x y"` comes back as `make VAR= "x y"`; an escaped operator is split at
  all the same, so `echo a\|make x` is rewritten inside a word; the docstring of `segment_texts` (`:340`) forgets a
  trailing newline; a composite `not` with a list is ignored; the heredoc and pipeline types hardly fire.
- *Scripts.*  `--migrate-schema` on a row it cannot repair exits 0 as "already schema-normalized"; a migrated
  integer priority 0 of a pending row becomes an evidence violation; a failed print after the rename
  reports "file untouched" (`scripts/board_id_guard.py:698`); what an agent writes between the scan and the
  rename of a compaction is lost; an accepted pack with `priority: high` makes the engine refuse to load; the
  drift probe's text that the engine skips such files is older than the engine's refusal; two installers
  racing between check and copy can shadow each other (`scripts/rule-pack-tool.py:32`).

## 7. What is not modelled

In the modelled parts: the wrapper's test hook `TERMINAL_JAIL_SECCOMP_READ_PROBE` and a
`MODIFIED` inherited from the caller's environment; in the engine, the built-in predicates and
the YAML subset read without PyYAML (`Interruptor` takes a command as its segments and a pattern as the
texts it matches, which `Rewrite` takes apart; the two are not composed, since a rule file's collisions
and a text's characters multiply and share nothing but the set of matched segments); of the matcher,
regular expressions beyond the text they look for, letter case and the prefilters, and values of another
type in those fields of a nested definition that its type does not read; of the shell that runs a rewrite,
`$(...)`, backticks, subshells and here-documents (it has operators, blanks, both quotes and the
backslash); the bytes of the
protocol (an answer is whole, partial or absent) and its size limits.  Of the Landlock tiers: symbolic
links (the code resolves every path it compares), a temporary or cache directory that the
environment puts into a surface, what a port list allows, and the mapped and composed
launches that leave the tiers out (they are in `Launch`).  A working directory inside a
surface, and surfaces that come after the layout was computed, are in the model; the code
promises nothing of them.  `Launch` has the loaders as single steps and does not contain `LandlockTier`
or `Seccomp`.  The filter compares numbers whole, so the x32 numbers of x86_64 are others than those it
lists.  Of the scripts: the wording of reports, the pack catalogue and the mirror's parity, which
compare two texts.

Not modelled at all: rule tables and the systemd unit, which are data; block messages, which are
wording; the base install, upgrade and uninstall of `install.sh` and the plugin's hooks and metrics file,
which the plan has left; the non-interactive shell, which hands its string to the wrapper; the probes,
batteries and benchmarks, which run commands and classify what they saw with no state between runs; the
release and documentation scripts, which check text.

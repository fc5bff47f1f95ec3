---------------------------- MODULE PrefixProofs ----------------------------
(* The choice of the prefix, for any number of processes on one host that      *)
(* changes whenever it likes.  Processes share the host and nothing else, so   *)
(* the invariant is one of each process, kept by its own steps and untouched   *)
(* by those of the others; a change of the host breaks what a probe has seen,  *)
(* which is why what is said of the host is said of unmoved processes only.    *)
EXTENDS Prefix, TLAPS

HostType == [subuid : Tables, subgid : Tables, maps : SUBSET Starts,
             access : [Dirs -> Markers \ {""}]]

Untried == {"idle", "create", "createHangs", "probedir"}
Trying  == {"payload", "payloadHangs"}
Decided == {"ready", "done"}

\* What is known before the choice, and what the choice was made from.
Progress(e) ==
    /\ st[e] \in Untried \cup Trying \cup {"raised"} => seen[e] = None
    /\ st[e] \in Untried \cup Trying \cup {"raised", "clean", "decide"} =>
        choice[e] = None /\ told[e] = None
    /\ st[e] = "clean" => seen[e] # None
    /\ off[e] => seen[e] = None /\ st[e] \in {"idle", "decide", "killed"} \cup Decided
    /\ st[e] \in Decided =>
        /\ choice[e] = Legacy \/ \E p \in Pair : choice[e] = Mapped(p)
        /\ choice[e] # Legacy <=> seen[e] = "both"
    /\ told[e] # None /\ told[e].cause = "denied" => seen[e] = "denied"
    /\ told[e] # None => seen[e] # None

\* The files of the probe that can exist and that were not tried to be removed.
Litter(e) ==
    /\ st[e] \notin Trying \cup {"clean", "killed"} => \A x : <<e, x>> \in litter => <<e, x>> \in kept
    /\ st[e] \in Untried \cup Trying \cup {"raised", "clean"} => \A x : <<e, x>> \notin kept
    /\ st[e] = "payload" => \A x : <<e, x>> \in litter => x = "secret"
    /\ st[e] \in {"payloadHangs", "clean"} =>
        \A x : <<e, x>> \in litter => x \in {"secret", cwd[e]}

\* While the host is as it was when the choice began, what was seen is so.
Evidence(e) == ~moved[e] =>
    /\ st[e] = "probedir" => Creatable(SubidRange)
    /\ st[e] \in Trying \/ seen[e] # None => flags[e] = SubidRange /\ Creatable(flags[e])
    /\ seen[e] \in {"both", "denied"} => host.access[cwd[e]] = seen[e]
    /\ told[e] # None => told[e].ids = flags[e]
    /\ (st[e] \in Decided /\ choice[e] # Legacy) => choice[e] = Mapped(flags[e])

\* The answer of a process that gives one only.
Answer(e) == (~stays[e] /\ out[e] # None) =>
    /\ st[e] = "done"
    /\ out[e] = [prefix |-> choice[e], dir |-> cwd[e], off |-> off[e]]

Process(e) == Progress(e) /\ Litter(e) /\ Evidence(e) /\ Answer(e)

Inv == TypeOK /\ host \in HostType /\ \A e \in Engines : Process(e)

-----------------------------------------------------------------------------
(* Types.                                                                      *)

\* The first entry of a table is a start, or it is replaced by the default one.
LEMMA RangesAreStarts == ASSUME host \in HostType PROVE SubidRange \in Pair
<1>1. \A t \in Tables : RangeStart(t) \in Starts
  BY IdAssumption, TableAssumption DEF RangeStart
<1> QED BY <1>1 DEF HostType, SubidRange, Pair

LEMMA InitInv == Init => Inv
<1> SUFFICES ASSUME Init PROVE Inv
  OBVIOUS
<1>1. TypeOK
  BY DEF Init, TypeOK
<1>2. host \in HostType
  BY DEF Init, HostType
<1>3. ASSUME NEW e \in Engines PROVE Process(e)
  BY NoneAssumption DEF Init, Process, Progress, Litter, Evidence, Answer, Untried, Trying,
     Decided, Markers
<1> QED BY <1>1, <1>2, <1>3 DEF Inv

\* A process moves on: every action of one process.
Acts(e) == EngineStep(e) \/ AnswerResident(e) \/ Kill(e)

LEMMA ActsTypeOK ==
  ASSUME Inv, NEW e \in Engines, Acts(e)
  PROVE  TypeOK' /\ host' \in HostType
<1> USE DEF Inv, TypeOK, Still, Step
<1>1. SubidRange \in Pair
  BY RangesAreStarts
<1>2. CASE Import(e)        BY <1>2 DEF Import
<1>3. CASE CreateProbe(e)   BY <1>1, <1>3 DEF CreateProbe
<1>4. CASE CreateTimeout(e) BY <1>4 DEF CreateTimeout
<1>5. CASE ProbeDir(e)      BY <1>1, <1>5 DEF ProbeDir
<1>6. CASE PropertyProbe(e)
  <2>1. host.access[cwd[e]] \in Markers
    BY DEF HostType
  <2>2. seen' \in [Engines -> Markers \cup {None}]
    BY <1>6, <2>1 DEF PropertyProbe, PropertyFails, PropertyRuns, PropertyHangs, PropertyTimeout,
                      Observe, Markers
  <2>3. litter' \subseteq (Engines \X ({"secret"} \cup Dirs))
    <3>1. litter' = litter \/ litter' = litter \cup {<<e, cwd[e]>>}
      BY <1>6 DEF PropertyProbe, PropertyFails, PropertyRuns, PropertyHangs, PropertyTimeout
    <3>2. <<e, cwd[e]>> \in Engines \X ({"secret"} \cup Dirs)
      OBVIOUS
    <3> QED BY <3>1, <3>2
  <2>4. \E there \in {"clean", "payloadHangs"} : st' = [st EXCEPT ![e] = there]
    BY <1>6 DEF PropertyProbe, PropertyFails, PropertyRuns, PropertyHangs, PropertyTimeout
  <2>5. UNCHANGED <<host, stays, cwd, off, moved, kept, flags, choice, told>>
    BY <1>6 DEF PropertyProbe
  <2>6. litter \subseteq litter'
    BY <1>6 DEF PropertyProbe, PropertyFails, PropertyRuns, PropertyHangs, PropertyTimeout
  <2> HIDE DEF Step
  <2> QED BY <2>2, <2>3, <2>4, <2>5, <2>6
<1>7. CASE Clean(e)
  <2>1. <<e, "secret">> \notin kept /\ <<e, cwd[e]>> \notin kept
    BY <1>7 DEF Clean, Process, Litter
  <2>2. litter' \subseteq litter /\ kept' \subseteq litter'
    BY <1>7, <2>1 DEF Clean
  <2> QED BY <1>7, <2>2 DEF Clean
<1>8. CASE Decide(e)
  <2>1. \A m : Warning(SubidRange, m) \in Warnings
    BY <1>1 DEF Warning, Warnings
  <2>2. told' \in [Engines -> Warnings \cup {None}]
    BY <1>8, <2>1 DEF Decide
  <2>3. choice' \in [Engines -> {None, Legacy} \cup {Mapped(p) : p \in Pair}]
    BY <1>1, <1>8 DEF Decide
  <2> QED BY <1>8, <2>2, <2>3 DEF Decide
<1>9. CASE AnswerOnce(e)     BY <1>9 DEF AnswerOnce
<1>10. CASE AnswerResident(e) BY <1>10 DEF AnswerResident
<1>11. CASE Kill(e)          BY <1>11 DEF Kill
<1> QED BY <1>2, <1>3, <1>4, <1>5, <1>6, <1>7, <1>8, <1>9, <1>10, <1>11 DEF Acts, EngineStep

LEMMA HostChangesTypeOK ==
  ASSUME Inv, HostChanges
  PROVE  TypeOK' /\ host' \in HostType
<1>1. host' \in HostType
  <2> USE DEF Inv, HostType
  <2>1. ASSUME NEW t \in Tables, host' = [host EXCEPT !.subuid = t] PROVE host' \in HostType
    BY <2>1
  <2>2. ASSUME NEW m \in SUBSET Starts, host' = [host EXCEPT !.maps = m] PROVE host' \in HostType
    BY <2>2
  <2>3. ASSUME NEW d \in Dirs, NEW m \in Markers \ {""}, host' = [host EXCEPT !.access[d] = m]
        PROVE  host' \in HostType
    <3>1. [host.access EXCEPT ![d] = m] \in [Dirs -> Markers \ {""}]
      OBVIOUS
    <3>2. host' = [host EXCEPT !.access = [host.access EXCEPT ![d] = m]]
      BY <2>3
    <3> QED BY <3>1, <3>2
  <2> QED BY <2>1, <2>2, <2>3 DEF HostChanges
<1>2. TypeOK'
  BY DEF Inv, TypeOK, HostChanges, process
<1> QED BY <1>1, <1>2

-----------------------------------------------------------------------------
(* What one process does is its own affair.                                    *)

\* Nothing of a process changes but by its own steps, and by the host's.
Untouched(f) ==
    /\ st'[f] = st[f] /\ seen'[f] = seen[f] /\ choice'[f] = choice[f]
    /\ told'[f] = told[f] /\ flags'[f] = flags[f] /\ out'[f] = out[f]
    /\ stays'[f] = stays[f] /\ cwd'[f] = cwd[f] /\ off'[f] = off[f]
    /\ \A x : /\ <<f, x>> \in litter' <=> <<f, x>> \in litter
              /\ <<f, x>> \in kept' <=> <<f, x>> \in kept

LEMMA OthersUntouched ==
  ASSUME Inv, NEW e \in Engines, NEW f \in Engines, f # e, Acts(e)
  PROVE  Untouched(f) /\ moved'[f] = moved[f] /\ host' = host
<1> USE DEF Inv, TypeOK, Still, Step, Untouched
<1>1. CASE Import(e)        BY <1>1 DEF Import
<1>2. CASE CreateProbe(e)   BY <1>2 DEF CreateProbe
<1>3. CASE CreateTimeout(e) BY <1>3 DEF CreateTimeout
<1>4. CASE ProbeDir(e)      BY <1>4 DEF ProbeDir
<1>5. CASE PropertyProbe(e)
  BY <1>5 DEF PropertyProbe, PropertyFails, PropertyRuns, PropertyHangs, PropertyTimeout, Observe
<1>6. CASE Clean(e)          BY <1>6 DEF Clean
<1>7. CASE Decide(e)         BY <1>7 DEF Decide
<1>8. CASE AnswerOnce(e)     BY <1>8 DEF AnswerOnce
<1>9. CASE AnswerResident(e) BY <1>9 DEF AnswerResident
<1>10. CASE Kill(e)          BY <1>10 DEF Kill
<1> QED BY <1>1, <1>2, <1>3, <1>4, <1>5, <1>6, <1>7, <1>8, <1>9, <1>10 DEF Acts, EngineStep

LEMMA UntouchedKeeps ==
  ASSUME NEW f \in Engines, Process(f), Untouched(f),
         moved'[f] \/ (moved'[f] = moved[f] /\ host' = host)
  PROVE  Process(f)'
<1> USE DEF Untouched
<1>1. Progress(f)'
  BY DEF Process, Progress
<1>2. Litter(f)'
  <2>1. \A x : <<f, x>> \in litter' <=> <<f, x>> \in litter
    OBVIOUS
  <2>2. \A x : <<f, x>> \in kept' <=> <<f, x>> \in kept
    OBVIOUS
  <2>3. Litter(f) /\ st'[f] = st[f] /\ cwd'[f] = cwd[f]
    BY DEF Process
  <2> HIDE DEF Untouched
  <2> QED BY <2>1, <2>2, <2>3 DEF Litter
<1>3. Evidence(f)'
  BY DEF Process, Evidence, Creatable, SubidRange
<1>4. Answer(f)'
  BY DEF Process, Answer
<1> QED BY <1>1, <1>2, <1>3, <1>4 DEF Process

-----------------------------------------------------------------------------
(* A process's own steps.                                                      *)

\* Up to the payload nothing has been seen and the only file is the probe.
LEMMA ProbingKeeps ==
  ASSUME Inv, NEW e \in Engines,
         Import(e) \/ CreateProbe(e) \/ CreateTimeout(e) \/ ProbeDir(e)
  PROVE  Process(e)'
<1> USE DEF Inv, TypeOK, Still, Step, Process, Untried, Trying, Decided
<1>1. Progress(e)'
  BY DEF Progress, Import, CreateProbe, CreateTimeout, ProbeDir
<1>2. Litter(e)'
  BY DEF Litter, Import, CreateProbe, CreateTimeout, ProbeDir
<1>3. Evidence(e)'
  <2>1. seen'[e] = None /\ told'[e] = None
    BY DEF Progress, Import, CreateProbe, CreateTimeout, ProbeDir
  <2>2. host' = host /\ st'[e] \notin Decided
    BY DEF Import, CreateProbe, CreateTimeout, ProbeDir
  <2>3. st'[e] = "probedir" => Creatable(SubidRange)
    BY DEF Import, CreateProbe, CreateTimeout, ProbeDir
  <2>4. st'[e] \in Trying => flags'[e] = SubidRange /\ moved'[e] = moved[e] /\ st[e] = "probedir"
    BY DEF Import, CreateProbe, CreateTimeout, ProbeDir
  <2>5. ~moved'[e] /\ st'[e] \in Trying => Creatable(SubidRange)
    BY <2>4 DEF Evidence
  <2> HIDE DEF Inv, TypeOK, Process, Step, Still
  <2> QED BY <2>1, <2>2, <2>3, <2>4, <2>5, NoneAssumption
          DEF Evidence, Markers, Creatable, SubidRange
<1>4. Answer(e)'
  BY DEF Answer, Import, CreateProbe, CreateTimeout, ProbeDir
<1> QED BY <1>1, <1>2, <1>3, <1>4

\* What the payload reports is what the host lets a launch with these flags do.
LEMMA PayloadKeeps ==
  ASSUME Inv, NEW e \in Engines, PropertyProbe(e)
  PROVE  Process(e)'
<1> USE DEF Inv, TypeOK, Still, Step, Process, PropertyProbe, Observe, Untried, Trying, Decided
<1>1. host.access[cwd[e]] \in Markers /\ "" \in Markers
  BY DEF HostType, Markers
<1>2. st[e] \in Trying /\ ~off[e] /\ UNCHANGED <<host, stays, cwd, off, moved, flags, choice, told, out>>
  BY DEF Progress, PropertyFails, PropertyRuns, PropertyHangs, PropertyTimeout
<1>3. \/ st'[e] = "clean" /\ seen'[e] \in Markers
      \/ st'[e] = "payloadHangs" /\ seen'[e] = None
  <2>1. CASE PropertyFails(e)   BY <1>1, <2>1 DEF PropertyFails
  <2>2. CASE PropertyRuns(e)    BY <1>1, <2>2 DEF PropertyRuns
  <2>3. CASE PropertyHangs(e)   BY <2>3 DEF PropertyHangs, Progress
  <2>4. CASE PropertyTimeout(e) BY <1>1, <2>4 DEF PropertyTimeout
  <2> QED BY <2>1, <2>2, <2>3, <2>4
<1>4. Progress(e)'
  <2>1. choice'[e] = None /\ told'[e] = None /\ ~off'[e]
    BY <1>2 DEF Progress
  <2> HIDE DEF PropertyProbe, Inv, TypeOK
  <2> QED BY <1>3, <2>1, NoneAssumption DEF Progress
<1>5. Litter(e)'
  <2>1. litter' = litter \/ litter' = litter \cup {<<e, cwd[e]>>}
    BY DEF PropertyFails, PropertyRuns, PropertyHangs, PropertyTimeout
  <2>2. \A x : <<e, x>> \in litter => x \in {"secret", cwd[e]}
    BY <1>2 DEF Litter
  <2>3. \A x : <<e, x>> \in litter' => x \in {"secret", cwd[e]}
    BY <2>1, <2>2
  <2>4. \A x : <<e, x>> \notin kept'
    BY <1>2 DEF Litter
  <2>5. cwd'[e] = cwd[e]
    BY <1>2
  <2> HIDE DEF PropertyProbe, Inv, TypeOK, Process, Still, Step
  <2> QED BY <1>3, <2>3, <2>4, <2>5 DEF Litter
<1>6. seen'[e] \in {"both", "denied"} => host.access[cwd[e]] = seen'[e]
  <2>1. CASE PropertyFails(e) \/ PropertyTimeout(e)
    BY <2>1 DEF PropertyFails, PropertyTimeout
  <2>2. CASE PropertyRuns(e)
    BY <2>2 DEF PropertyRuns
  <2>3. CASE PropertyHangs(e)
    BY <2>3, NoneAssumption DEF Progress, PropertyHangs, Markers
  <2> QED BY <2>1, <2>2, <2>3
<1>7. Evidence(e)'
  <2>1. ~moved[e] => flags[e] = SubidRange /\ Creatable(flags[e])
    BY <1>2 DEF Evidence
  <2>2. told'[e] = None /\ st'[e] \notin Decided \cup {"probedir"}
    BY <1>2, <1>3 DEF Progress
  <2>3. UNCHANGED <<host, moved, flags, cwd>>
    BY <1>2
  <2> HIDE DEF PropertyProbe, Inv, TypeOK, Process, Still, Step
  <2> QED BY <1>6, <2>1, <2>2, <2>3 DEF Evidence, Creatable, SubidRange
<1>8. Answer(e)'
  BY <1>2 DEF Answer
<1> QED BY <1>4, <1>5, <1>7, <1>8

\* The files are removed, the choice is made of what was seen and given as it is.
LEMMA ChoosingKeeps ==
  ASSUME Inv, NEW e \in Engines, Clean(e) \/ Decide(e) \/ AnswerOnce(e) \/ AnswerResident(e)
  PROVE  Process(e)'
<1> USE DEF Inv, TypeOK, Still, Step, Process, Untried, Trying, Decided
<1>1. CASE Clean(e)
  <2> USE <1>1 DEF Clean
  <2>1. Progress(e)' BY DEF Progress
  <2>2. Litter(e)'   BY DEF Litter
  <2>3. Evidence(e)' BY DEF Evidence, Creatable, SubidRange
  <2>4. Answer(e)'   BY DEF Answer
  <2> QED BY <2>1, <2>2, <2>3, <2>4
<1>2. CASE Decide(e)
  <2> USE <1>2 DEF Decide
  <2>1. SubidRange \in Pair
    BY RangesAreStarts
  <2>2. Mapped(SubidRange) # Legacy /\ None # "both"
    BY NoneAssumption DEF Mapped, Legacy, Markers
  <2>3. choice'[e] = IF seen[e] = "both" THEN Mapped(SubidRange) ELSE Legacy
    OBVIOUS
  <2>4. \/ told'[e] = told[e]
        \/ told'[e] = Warning(SubidRange, seen[e]) /\ seen[e] # None
    OBVIOUS
  <2>5. Progress(e)'
    <3>1. told[e] = None /\ st'[e] = "ready" /\ st[e] = "decide"
      BY DEF Progress
    <3>2. told'[e] # None => seen[e] # None /\ told'[e] = Warning(SubidRange, seen[e])
      BY <2>4, <3>1
    <3>3. \A m : Warning(SubidRange, m).cause = "denied" => m = "denied"
      BY DEF Warning
    <3>4. seen'[e] = seen[e] /\ off'[e] = off[e]
      OBVIOUS
    <3>5. off[e] => seen[e] = None
      BY DEF Progress
    <3> HIDE DEF Decide, Inv, TypeOK, Process, Still, Step
    <3> QED BY <2>1, <2>2, <2>3, <3>1, <3>2, <3>3, <3>4, <3>5 DEF Progress
  <2>6. Litter(e)'   BY DEF Litter
  <2>7. Evidence(e)'
    <3>1. told[e] = None /\ st'[e] = "ready"
      BY DEF Progress
    <3>2. told'[e] # None => seen[e] # None /\ told'[e].ids = SubidRange
      BY <2>4, <3>1 DEF Warning
    <3>3. UNCHANGED <<host, seen, moved, flags, cwd>>
      OBVIOUS
    <3>4. Evidence(e)
      OBVIOUS
    <3> HIDE DEF Decide, Inv, TypeOK, Process, Still, Step
    <3> QED BY <2>2, <2>3, <3>1, <3>2, <3>3, <3>4 DEF Evidence, Creatable, SubidRange
  <2>8. Answer(e)'   BY DEF Answer
  <2> QED BY <2>5, <2>6, <2>7, <2>8
<1>3. CASE AnswerOnce(e)
  <2> USE <1>3 DEF AnswerOnce
  <2>1. Progress(e)' BY DEF Progress
  <2>2. Litter(e)'   BY DEF Litter
  <2>3. Evidence(e)' BY DEF Evidence, Creatable, SubidRange
  <2>4. Answer(e)'   BY DEF Answer
  <2> QED BY <2>1, <2>2, <2>3, <2>4
<1>4. CASE AnswerResident(e)
  <2> USE <1>4 DEF AnswerResident
  <2>1. Progress(e)' BY DEF Progress
  <2>2. Litter(e)'   BY DEF Litter
  <2>3. Evidence(e)' BY DEF Evidence, Creatable, SubidRange
  <2>4. Answer(e)'   BY DEF Answer
  <2> QED BY <2>1, <2>2, <2>3, <2>4
<1> QED BY <1>1, <1>2, <1>3, <1>4

\* A killed process keeps what it saw, and may leave its files.
LEMMA KillKeeps ==
  ASSUME Inv, NEW e \in Engines, Kill(e)
  PROVE  Process(e)'
<1> USE DEF Inv, TypeOK, Still, Process, Untried, Trying, Decided, Kill
<1>1. Progress(e)' BY DEF Progress
<1>2. Litter(e)'   BY DEF Litter
<1>3. Evidence(e)' BY DEF Evidence, Creatable, SubidRange
<1>4. Answer(e)'   BY DEF Answer
<1> QED BY <1>1, <1>2, <1>3, <1>4

LEMMA Invariance == Spec => []Inv
<1>1. Inv /\ [Next]_vars => Inv'
  <2> SUFFICES ASSUME Inv, [Next]_vars PROVE Inv'
    OBVIOUS
  <2>1. ASSUME NEW e \in Engines, Acts(e) PROVE Inv'
    <3>1. TypeOK' /\ host' \in HostType
      BY <2>1, ActsTypeOK
    <3>2. Process(e)'
      BY <2>1, ProbingKeeps, PayloadKeeps, ChoosingKeeps, KillKeeps DEF Acts, EngineStep
    <3>3. ASSUME NEW f \in Engines, f # e PROVE Process(f)'
      BY <2>1, <3>3, OthersUntouched, UntouchedKeeps DEF Inv
    <3> QED BY <3>1, <3>2, <3>3 DEF Inv
  <2>2. CASE HostChanges
    <3>1. TypeOK' /\ host' \in HostType
      BY <2>2, HostChangesTypeOK
    <3>2. ASSUME NEW f \in Engines PROVE Process(f)'
      <4>1. Untouched(f) /\ moved'[f]
        BY <2>2 DEF HostChanges, process, Untouched
      <4> QED BY <4>1, UntouchedKeeps DEF Inv
    <3> QED BY <3>1, <3>2 DEF Inv
  <2>3. CASE UNCHANGED vars
    <3>1. TypeOK' /\ host' \in HostType
      BY <2>3 DEF Inv, TypeOK, vars, process
    <3>2. ASSUME NEW f \in Engines PROVE Process(f)'
      <4>1. Untouched(f) /\ moved'[f] = moved[f] /\ host' = host
        BY <2>3 DEF vars, process, Untouched
      <4> QED BY <4>1, UntouchedKeeps DEF Inv
    <3> QED BY <3>1, <3>2 DEF Inv
  <2> QED BY <2>1, <2>2, <2>3 DEF Next, Acts
<1> QED BY <1>1, InitInv, PTL DEF Spec

-----------------------------------------------------------------------------
(* The theorems.                                                               *)

\* Every process stands somewhere in the choice, for any tables and any host.
THEOREM TypeCorrect == Spec => []TypeOK
<1>1. Inv => TypeOK
  BY DEF Inv
<1> QED BY <1>1, Invariance, PTL

\* A mapped rewrite of a one-shot bridge was proved in its caller's case, and while the
\* host is as it was, the launch is the one that was proved and keeps the caller's access.
THEOREM RewriteRestsOnProof == Spec => []RewriteIsProved
<1>1. Inv => RewriteIsProved
  <2> SUFFICES ASSUME Inv, NEW e \in Engines, ~stays[e], AnsweredMapped(e)
               PROVE  /\ seen[e] = "both" /\ out[e].dir = cwd[e] /\ ~out[e].off
                      /\ ~moved[e] => /\ out[e].prefix.ids = flags[e]
                                      /\ Creatable(out[e].prefix.ids)
                                      /\ host.access[out[e].dir] = "both"
    BY DEF RewriteIsProved, ProvedForItsCaller, ProvedFor, RewriteKeepsAccess
  <2>1. st[e] = "done" /\ out[e] = [prefix |-> choice[e], dir |-> cwd[e], off |-> off[e]]
    BY DEF Inv, Process, Answer, AnsweredMapped, Answered
  <2>2. choice[e].kind = "mapped"
    BY <2>1 DEF AnsweredMapped
  <2>3. choice[e] # Legacy
    BY <2>2 DEF Legacy
  <2>4. seen[e] = "both" /\ ~off[e]
    BY <2>1, <2>3, NoneAssumption DEF Inv, Process, Progress, Decided, Markers
  <2>5. ~moved[e] => /\ choice[e] = Mapped(flags[e]) /\ Creatable(flags[e])
                     /\ host.access[cwd[e]] = "both"
    <3>1. Evidence(e) /\ seen[e] # None
      BY <2>4, NoneAssumption DEF Inv, Process, Markers
    <3> QED BY <2>1, <2>3, <2>4, <3>1 DEF Evidence, Decided, Creatable
  <2> QED BY <2>1, <2>4, <2>5 DEF Mapped
<1> QED BY <1>1, Invariance, PTL

\* What the degradation warning says of the launch and of its cause is so, while the
\* host is as it was.
THEOREM WarningsAreTrue == Spec => []WarningIsTrue
<1>1. Inv => WarningIsTrue
  BY NoneAssumption DEF Inv, Process, Progress, Evidence, WarningIsTrue, Markers
<1> QED BY <1>1, Invariance, PTL

\* A process that was not killed has tried to remove every probe file that is left.
THEOREM RemovalIsTried == Spec => []ProbesAreRemoved
<1>1. Inv => ProbesAreRemoved
  <2> SUFFICES ASSUME Inv, NEW e \in Engines, st[e] \in {"decide", "ready", "done", "raised"},
                      NEW l \in litter, l[1] = e
               PROVE  l \in kept
    BY DEF ProbesAreRemoved
  <2>1. l = <<l[1], l[2]>>
    BY DEF Inv, TypeOK
  <2> QED BY <2>1 DEF Inv, Process, Litter, Trying
<1> QED BY <1>1, Invariance, PTL
=============================================================================

-------------------------- MODULE InterruptorProofs --------------------------
(***************************************************************************)
(* Proofs about Interruptor, for any engine rules, rule files, commands,   *)
(* file changes and matches.                                               *)
(***************************************************************************)
EXTENDS Interruptor, FiniteSetTheorems, SequenceTheorems, TLAPS

-------------------------------------------------------------------------------
(* First and Least: a set of rules has a rule that nothing precedes.          *)

\* Every set of naturals that is not empty has a smallest element.
LEMMA SmallestExists ==
  ASSUME NEW S \in SUBSET Nat, S # {}
  PROVE  \E m \in S : \A k \in S : m <= k
<1> PICK n \in S : TRUE
  OBVIOUS
<1> DEFINE Below(m) == 0..m
           T == {Below(m) : m \in {k \in S : k <= n}}
           R == StrictSubsetOrdering(0..n)
<1>1. T \subseteq FiniteSubsetsOf(0..n) /\ T # {}
  <2>1. \A m \in Nat : m <= n => 0..m \subseteq 0..n /\ IsFiniteSet(0..m)
    BY FS_Interval
  <2> QED BY <2>1 DEF FiniteSubsetsOf
<1>2. IsWellFoundedOn(R, FiniteSubsetsOf(0..n))
  BY FS_StrictSubsetOrderingWellFounded
<1>3. PICK B \in T : \A A \in T : <<A, B>> \notin R
  <2> HIDE DEF R, T
  <2> QED BY <1>1, <1>2, WFMin
<1>4. PICK m \in S : m <= n /\ B = 0..m
  BY <1>3
<1>5. ASSUME NEW k \in S, k < m PROVE FALSE
  <2>1. 0..k \in T
    BY <1>4, <1>5
  <2>2. 0..k \subseteq 0..n /\ 0..m \subseteq 0..n /\ 0..k \subseteq 0..m /\ m \notin 0..k /\ m \in 0..m
    BY <1>4, <1>5
  <2>3. <<0..k, 0..m>> \in R
    BY <2>2 DEF StrictSubsetOrdering
  <2> QED BY <1>3, <1>4, <2>1, <2>3
<1> QED BY <1>4, <1>5

LEMMA LeastIsIn ==
  ASSUME NEW S \in SUBSET Nat, S # {}
  PROVE  Least(S) \in S
BY SmallestExists DEF Least

LEMMA TierIsNat == ASSUME NEW r PROVE Tier(r) \in 1..4
BY DEF Tier

\* The order of evaluation has a first rule in every set that is not empty:
\* the lowest layer, in it the highest priority, in that the earliest position.
LEMMA FirstExists ==
  ASSUME NEW S \in SUBSET Rule, S # {}
  PROVE  \E r \in S : \A q \in S : ~Before(q, r)
<1> DEFINE Tiers == {Tier(r) : r \in S}
<1>1. PICK t \in Tiers : \A k \in Tiers : t <= k
  BY SmallestExists, TierIsNat, Tiers \in SUBSET Nat, Tiers # {}
<1> DEFINE Top == {r \in S : Tier(r) = t}
<1> DEFINE Gaps == {MaxPrio - r.prio : r \in Top}
<1>2. Top # {} /\ Gaps # {}
  BY <1>1
<1>3. Gaps \in SUBSET Nat
  BY BoundAssumption DEF Rule
<1>4. PICK g \in Gaps : \A k \in Gaps : g <= k
  BY <1>2, <1>3, SmallestExists
<1> DEFINE Best == {r \in Top : MaxPrio - r.prio = g}
<1> DEFINE Places == {r.pos : r \in Best}
<1>5. Best # {} /\ Places # {} /\ Places \in SUBSET Nat
  BY <1>4 DEF Rule
<1>6. PICK p \in Places : \A k \in Places : p <= k
  BY <1>5, SmallestExists
<1>7. PICK r \in Best : r.pos = p
  BY <1>6
<1>8. ASSUME NEW q \in S, Before(q, r) PROVE FALSE
  <2>1. Tier(q) \in 1..4 /\ Tier(q) >= Tier(r) /\ Tier(r) = t /\ t \in 1..4
    BY <1>1, <1>7, TierIsNat
  <2>2. q \in Top
    BY <1>8, <2>1 DEF Before
  <2>3. q.prio >= r.prio /\ q.prio \in Nat /\ r.prio \in Nat
    BY <1>8, <2>1 DEF Before, Rule
  <2>4. MaxPrio - q.prio >= g /\ MaxPrio - r.prio = g
    BY <1>4, <1>7, <2>2
  <2>5. q.prio = r.prio
    BY <2>3, <2>4, <1>3, BoundAssumption
  <2>6. q \in Best /\ q.pos < r.pos
    BY <1>8, <2>1, <2>2, <2>3, <2>4, <2>5 DEF Before
  <2>7. q.pos \in Places /\ q.pos \in Nat /\ r.pos \in Nat
    BY <2>6, <1>7 DEF Rule
  <2>8. p <= q.pos
    <3> HIDE DEF Places
    <3> QED BY <2>7, <1>6
  <2> QED BY <2>6, <2>7, <2>8, <1>7
<1> QED BY <1>7, <1>8

LEMMA FirstIsIn ==
  ASSUME NEW S \in SUBSET Rule, S # {}
  PROVE  First(S) \in S /\ \A q \in S : ~Before(q, First(S))
BY FirstExists DEF First

-------------------------------------------------------------------------------
(* Merging and layering.                                                      *)

LEMMA RuleOfIsTyped ==
  ASSUME NEW e \in Entry, NEW f \in Files, NEW n \in Nat
  PROVE  RuleOf(e, f, n) \in Rule
BY IdAssumption, MessageAssumption DEF RuleOf, Rule, Entry

\* Inheriting a message changes the message only.
LEMMA InheritKeepsRule ==
  ASSUME NEW S \in SUBSET Rule, NEW r \in Rule
  PROVE  /\ Inherit(r, S) \in Rule
         /\ Inherit(r, S).id = r.id /\ Inherit(r, S).action = r.action
         /\ Inherit(r, S).match = r.match /\ Inherit(r, S).pos = r.pos
         /\ Inherit(r, S).from = r.from
         /\ r.id \notin IdsOf(S) => Inherit(r, S) = r
<1>1. CASE r.explicit \/ r.id \notin IdsOf(S)
  BY <1>1 DEF Inherit
<1>2. CASE ~r.explicit /\ r.id \in IdsOf(S)
  <2> DEFINE q == CHOOSE q \in S : q.id = r.id
  <2>1. q \in S
    BY <1>2 DEF IdsOf
  <2>2. q.msg \in Messages
    BY <2>1 DEF Rule
  <2>3. Inherit(r, S) = [r EXCEPT !.msg = q.msg]
    BY <1>2 DEF Inherit
  <2> HIDE DEF q
  <2> QED BY <1>2, <2>2, <2>3 DEF Rule
<1> QED BY <1>1, <1>2

\* A merge replaces the rule with the id, if there is one, by the new rule.
LEMMA MergeKeepsIdsUnique ==
  ASSUME NEW L \in SUBSET Rule, NEW r \in Rule, \A p, q \in L : p.id = q.id => p = q
  PROVE  /\ Merge(L, r) \in SUBSET Rule
         /\ \A p, q \in Merge(L, r) : p.id = q.id => p = q
<1>1. Inherit(r, L) \in Rule /\ Inherit(r, L).id = r.id
  BY InheritKeepsRule
<1> QED BY <1>1 DEF Merge

LEMMA EffectiveIsTyped ==
  ASSUME NEW L \in SUBSET Rule
  PROVE  Effective(L) \in SUBSET Rule
BY BuiltinAssumption, InheritKeepsRule DEF Effective

\* An evaluated rule with a loaded id has the action of the loaded rule.
LEMMA EffectiveIsOverridden ==
  ASSUME NEW L \in SUBSET Rule, NEW r \in Effective(L), r.id \in IdsOf(L)
  PROVE  \E q \in L : q.id = r.id /\ q.action = r.action
<1>1. PICK q \in L : r = Inherit(q, Builtins)
  BY DEF Effective
<1>2. q \in Rule /\ Builtins \in SUBSET Rule
  BY BuiltinAssumption
<1>3. r.id = q.id /\ r.action = q.action
  BY <1>1, <1>2, InheritKeepsRule
<1> QED BY <1>3

-------------------------------------------------------------------------------
(* What an evaluation can yield.                                              *)

LEMMA DeciderDecides ==
  ASSUME NEW L \in SUBSET Rule, NEW j \in Job, NEW A, Decided(L, j, A) # {}
  PROVE  Decider(L, j, Decided(L, j, A)) \in Effective(L)
         /\ Decider(L, j, Decided(L, j, A)).action \in A
<1> DEFINE i == Least(Decided(L, j, A))
<1>1. Decided(L, j, A) \in SUBSET Nat
  BY DEF Decided, Job
<1>2. i \in Decided(L, j, A)
  BY <1>1, LeastIsIn
<1>3. SegmentMatches(L, j.segs[i]) \in SUBSET Rule /\ SegmentMatches(L, j.segs[i]) # {}
  BY <1>2, EffectiveIsTyped DEF Decided, SegmentMatches
<1>4. First(SegmentMatches(L, j.segs[i])) \in SegmentMatches(L, j.segs[i])
  BY <1>3, FirstIsIn
<1> QED BY <1>2, <1>4 DEF Decider, Decided, SegmentMatches

LEMMA WholeFirst ==
  ASSUME NEW L \in SUBSET Rule, NEW j, WholeMatches(L, j) # {}
  PROVE  First(WholeMatches(L, j)) \in Effective(L) /\ First(WholeMatches(L, j)).action = "block"
<1>1. WholeMatches(L, j) \in SUBSET Rule
  BY EffectiveIsTyped DEF WholeMatches
<1> QED BY <1>1, FirstIsIn DEF WholeMatches

\* Each verdict is the default, or what one evaluated rule with the action gives.
LEMMA EvaluateYields ==
  ASSUME NEW L \in SUBSET Rule, NEW M, NEW j \in Job
  PROVE  \/ Evaluate(L, M, j) = DefaultAllow
         \/ \E r \in Effective(L) :
              \/ r.action = "block" /\ Evaluate(L, M, j) = BlockBy(r, M)
              \/ Evaluate(L, M, j) = ModifyBy(r, M, Modified(L, j), j)
              \/ Evaluate(L, M, j) = WarnBy(r, M)
              \/ Evaluate(L, M, j) = AllowBy(r, M)
<1>1. CASE WholeMatches(L, j) # {}
  BY <1>1, WholeFirst DEF Evaluate
<1>2. CASE WholeMatches(L, j) = {} /\ Blocked(L, j) # {}
  <2>1. Decider(L, j, Blocked(L, j)) \in Effective(L) /\ Decider(L, j, Blocked(L, j)).action = "block"
    BY <1>2, DeciderDecides DEF Blocked
  <2> QED BY <1>2, <2>1 DEF Evaluate
<1>3. CASE WholeMatches(L, j) = {} /\ Blocked(L, j) = {}
  <2>1. Modified(L, j) # {} => Decider(L, j, Modified(L, j)) \in Effective(L)
    BY DeciderDecides DEF Modified
  <2>2. Warned(L, j) # {} => Decider(L, j, Warned(L, j)) \in Effective(L)
    BY DeciderDecides DEF Warned
  <2>3. Allowed(L, j) # {} => Decider(L, j, Allowed(L, j)) \in Effective(L)
    BY DeciderDecides DEF Allowed
  <2> QED BY <1>3, <2>1, <2>2, <2>3 DEF Evaluate
<1> QED BY <1>1, <1>2, <1>3

LEMMA EvaluateIsTyped ==
  ASSUME NEW L \in SUBSET Rule, NEW M \in [Ids \cup {NoId} -> Layers], NEW j \in Job
  PROVE  Evaluate(L, M, j) \in Verdict
<1>1. DefaultAllow \in Verdict
  BY DEF DefaultAllow, Result, Verdict, Layers
<1>2. ASSUME NEW r \in Effective(L)
      PROVE  /\ BlockBy(r, M) \in Verdict /\ WarnBy(r, M) \in Verdict /\ AllowBy(r, M) \in Verdict
             /\ ModifyBy(r, M, Modified(L, j), j) \in Verdict
  <2>1. r.id \in Ids /\ r.msg \in Messages /\ M[r.id] \in Layers
    BY <1>2, EffectiveIsTyped DEF Rule
  <2>2. Modified(L, j) \in SUBSET Nat /\ {0} \in SUBSET Nat
    BY DEF Modified, Decided, Job
  <2> QED BY <2>1, <2>2 DEF BlockBy, WarnBy, AllowBy, ModifyBy, Result, Verdict
<1> QED BY <1>1, <1>2, EvaluateYields

LEMMA SettledIsTyped ==
  ASSUME NEW v \in Verdict, NEW j
  PROVE  Settled(v, j) \in Verdict
<1>1. Soften(v) \in Verdict /\ Unwrap(v) \in Verdict
  BY DEF Soften, Unwrap, Result, Verdict, Layers
<1> QED BY <1>1 DEF Settled

-------------------------------------------------------------------------------
(* Types.                                                                     *)

LEMMA FilesAreNumbered == Files = 1..Len(FileLayer) /\ Len(FileLayer) \in Nat
BY LayerAssumption DEF Files

LEMMA InitTypeOK == Init => TypeOK
<1> SUFFICES ASSUME Init PROVE TypeOK
  OBVIOUS
<1>1. DefaultAllow \in Verdict
  BY DEF DefaultAllow, Result, Verdict, Layers
<1>2. NoLayers \in [Ids \cup {NoId} -> Layers]
  BY DEF NoLayers, Layers
<1>3. <<>> \in Seq(Entry)
  OBVIOUS
<1> QED BY <1>1, <1>2, <1>3, FilesAreNumbered, BoundAssumption DEF Init, TypeOK

LEMMA GateTypeOK ==
  ASSUME TypeOK, Gate
  PROVE  TypeOK'
<1> USE DEF TypeOK, Loading
<1>1. CASE Disabled    BY <1>1 DEF Disabled
<1>2. CASE PassThrough BY <1>2 DEF PassThrough
<1>3. CASE Oversize
  <2>1. OversizeBlock \in Verdict /\ Soften(OversizeBlock) \in Verdict
    BY DEF OversizeBlock, Soften, Result, Verdict, Layers
  <2> QED BY <1>3, <2>1 DEF Oversize
<1>4. CASE StartLoad   BY <1>4 DEF StartLoad
<1> QED BY <1>1, <1>2, <1>3, <1>4 DEF Gate

LEMMA MergeRuleTypeOK ==
  ASSUME TypeOK, MergeRule
  PROVE  TypeOK'
<1> DEFINE r == RuleOf(Head(batch), next - 1, taken + 1)
<1>1. Head(batch) \in Entry /\ Tail(batch) \in Seq(Entry)
  BY DEF TypeOK, MergeRule
<1>2. next - 1 \in Files /\ taken + 1 \in Nat
  BY DEF TypeOK, MergeRule
<1>3. r \in Rule
  BY <1>1, <1>2, RuleOfIsTyped
<1>4. Inherit(r, loaded) \in Rule
  BY <1>3, InheritKeepsRule DEF TypeOK
<1>5. Merge(loaded, r) \subseteq Rule
  BY <1>4 DEF Merge, TypeOK
<1> QED BY <1>1, <1>2, <1>5 DEF TypeOK, MergeRule

LEMMA LoadTypeOK ==
  ASSUME TypeOK, Load
  PROVE  TypeOK'
<1> USE FilesAreNumbered
<1> USE DEF TypeOK, Loading
<1>1. CASE RefuseFile BY <1>1 DEF RefuseFile
<1>2. CASE SkipFile   BY <1>2 DEF SkipFile
<1>3. CASE LoadFile
  <2>1. disk[next].rules \in Seq(Entry)
    BY <1>3, ContentAssumption DEF LoadFile
  <2> QED BY <1>3, <2>1 DEF LoadFile
<1>4. CASE MergeRule  BY <1>4, MergeRuleTypeOK
<1>5. CASE StartMap   BY <1>5 DEF StartMap
<1> QED BY <1>1, <1>2, <1>3, <1>4, <1>5 DEF Load

LEMMA AccountTypeOK ==
  ASSUME TypeOK, Account
  PROVE  TypeOK'
<1> DEFINE Counters == [passed_disabled : Nat, wraps : Nat, rejected : Nat]
           more == IF Fits(verdict, job) THEN metrics.rejected ELSE metrics.rejected + 1
<1>1. metrics \in Counters
  BY DEF TypeOK
<1>2. more \in Nat
  BY <1>1
<1>3. metrics' = [metrics EXCEPT !.wraps = metrics.wraps + 1, !.rejected = more]
  BY DEF Account
<1>4. metrics' \in Counters
  <2>1. \A m \in Counters, a, b \in Nat : [m EXCEPT !.wraps = a, !.rejected = b] \in Counters
    OBVIOUS
  <2>2. metrics.wraps + 1 \in Nat
    BY <1>1
  <2> HIDE DEF more, Counters
  <2> QED BY <1>1, <1>2, <1>3, <2>1, <2>2
<1>5. verdict' \in Verdict
  BY SettledIsTyped DEF TypeOK, Account
<1> QED BY <1>4, <1>5 DEF TypeOK, Account, Loading

LEMMA JudgeTypeOK ==
  ASSUME TypeOK, Judge
  PROVE  TypeOK'
<1> USE FilesAreNumbered
<1> USE DEF TypeOK, Loading
<1>1. CASE MapFile
  <2>1. FileLayer[next] \in Layers
    BY <1>1, LayerAssumption DEF MapFile
  <2>2. layers' \in [Ids \cup {NoId} -> Layers]
    BY <1>1, <2>1 DEF MapFile
  <2>3. batch # <<>> => next' - 1 \in Files
    BY <1>1 DEF MapFile
  <2> QED BY <1>1, <2>2, <2>3 DEF MapFile
<1>2. CASE Decide
  <2>1. job \in Job
    BY JobAssumption
  <2>2. Evaluate(loaded, layers, job) \in Verdict
    BY <2>1, EvaluateIsTyped
  <2> QED BY <1>2, <2>2 DEF Decide
<1>3. CASE Account    BY <1>3, AccountTypeOK
<1>4. CASE Return
  <2>1. Settled(verdict, job) \in Verdict
    BY SettledIsTyped
  <2> QED BY <1>4, <2>1 DEF Return
<1> QED BY <1>1, <1>2, <1>3, <1>4 DEF Judge

LEMMA EditTypeOK ==
  ASSUME TypeOK, Edit
  PROVE  TypeOK'
BY BoundAssumption DEF TypeOK, Edit, Loading

\* The state keeps its shape through every load, merge, evaluation and edit.
THEOREM TypeCorrect == Spec => []TypeOK
<1>1. TypeOK /\ [Next]_vars => TypeOK'
  <2> SUFFICES ASSUME TypeOK, [Next]_vars PROVE TypeOK'
    OBVIOUS
  <2>1. CASE UNCHANGED vars
    BY <2>1 DEF TypeOK, vars
  <2> QED BY <2>1, GateTypeOK, LoadTypeOK, JudgeTypeOK, EditTypeOK DEF Next
<1> QED BY InitTypeOK, <1>1, PTL DEF Spec

-------------------------------------------------------------------------------
(* Which rules can decide.                                                    *)

\* However files and entries collide, a loaded id belongs to one rule: the
\* first match by id that the code takes, and every lookup by id, is the rule.
THEOREM OneRule == Spec => []OneRulePerId
<1>1. Init => OneRulePerId
  BY DEF Init, OneRulePerId
<1>2. TypeOK /\ OneRulePerId /\ [Next]_vars => OneRulePerId'
  <2> SUFFICES ASSUME TypeOK, OneRulePerId, [Next]_vars PROVE OneRulePerId'
    OBVIOUS
  <2>1. CASE MergeRule
    <3> DEFINE r == RuleOf(Head(batch), next - 1, taken + 1)
    <3>1. r \in Rule
      BY <2>1, RuleOfIsTyped DEF TypeOK, MergeRule
    <3>2. loaded' = Merge(loaded, r)
      BY <2>1 DEF MergeRule
    <3> HIDE DEF r
    <3> QED BY <3>1, <3>2, MergeKeepsIdsUnique DEF TypeOK, OneRulePerId
  <2>2. CASE loaded' = loaded
    BY <2>2 DEF OneRulePerId
  <2>3. MergeRule \/ loaded' = loaded
    BY DEF Next, Gate, Load, Judge, Edit, Disabled, PassThrough, Oversize, StartLoad,
           RefuseFile, SkipFile, LoadFile, StartMap, MapFile, Decide, Account, Return,
           Loading, vars
  <2> QED BY <2>1, <2>2, <2>3
<1> QED BY <1>1, <1>2, TypeCorrect, PTL DEF Spec

\* Until the rules have been evaluated nothing is blocked, nothing is loaded at
\* the start, and what stands after the evaluation is what the rules gave.
Undecided ==
    /\ pc = "begin" => loaded = {}
    /\ pc \in {"begin", "load", "raised", "map"} => verdict = DefaultAllow
    /\ pc = "decided" => verdict = Evaluate(loaded, layers, job)

LEMMA UndecidedInvariant == Spec => []Undecided
<1>1. Init => Undecided
  BY DEF Init, Undecided
<1>2. Undecided /\ [Next]_vars => Undecided'
  BY DEF Undecided, Next, Gate, Load, Judge, Edit, Disabled, PassThrough, Oversize,
         StartLoad, RefuseFile, SkipFile, LoadFile, MergeRule, StartMap, MapFile, Decide,
         Account, Return, Loading, vars
<1> QED BY <1>1, <1>2, PTL DEF Spec

LEMMA SettledBlocks ==
  ASSUME NEW v, NEW j, Settled(v, j).action = "block"
  PROVE  Settled(v, j) = v
BY DEF Settled, Soften, Unwrap, Result

\* The rules' verdict blocks on a loaded id only when the loaded rule blocks.
LEMMA EvaluateRespectsOverrides ==
  ASSUME NEW L \in SUBSET Rule, NEW M, NEW j \in Job,
         Evaluate(L, M, j).action = "block", Evaluate(L, M, j).rule \in IdsOf(L)
  PROVE  \E q \in L : q.id = Evaluate(L, M, j).rule /\ q.action = "block"
<1>1. PICK r \in Effective(L) : r.action = "block" /\ Evaluate(L, M, j) = BlockBy(r, M)
  BY EvaluateYields DEF DefaultAllow, ModifyBy, WarnBy, AllowBy, Result
<1>2. Evaluate(L, M, j).rule = r.id
  BY <1>1 DEF BlockBy, Result
<1> QED BY <1>1, <1>2, EffectiveIsOverridden

\* A builtin that a rule file overrides never blocks: neither the whole-command
\* pass nor a segment can reach it, and no later step brings it back.
THEOREM OverriddenNeverBlocks == Spec => []OverriddenBuiltinIsSilent
<1>1. Init => OverriddenBuiltinIsSilent
  BY DEF Init, OverriddenBuiltinIsSilent, DefaultAllow, Result
<1>2. TypeOK /\ Undecided /\ OverriddenBuiltinIsSilent /\ [Next]_vars => OverriddenBuiltinIsSilent'
  <2> SUFFICES ASSUME TypeOK, Undecided, OverriddenBuiltinIsSilent, [Next]_vars
               PROVE  OverriddenBuiltinIsSilent'
    OBVIOUS
  <2>1. CASE Oversize
    <3>1. loaded' = {}
      BY <2>1 DEF Oversize, Undecided, Loading
    <3> QED BY <3>1 DEF OverriddenBuiltinIsSilent, IdsOf
  <2>2. CASE MergeRule
    <3>1. verdict'.action = "allow"
      BY <2>2 DEF MergeRule, Undecided, DefaultAllow, Result
    <3> QED BY <3>1 DEF OverriddenBuiltinIsSilent
  <2>3. CASE Decide
    <3>1. verdict' = Evaluate(loaded, layers, job) /\ loaded' = loaded
      BY <2>3 DEF Decide, Loading
    <3>2. loaded \in SUBSET Rule /\ job \in Job
      BY JobAssumption DEF TypeOK
    <3> QED BY <3>1, <3>2, EvaluateRespectsOverrides DEF OverriddenBuiltinIsSilent
  <2>4. CASE Account \/ Return
    <3>1. verdict' = Settled(verdict, job) /\ loaded' = loaded
      BY <2>4 DEF Account, Return, Loading
    <3> QED BY <3>1, SettledBlocks DEF OverriddenBuiltinIsSilent
  <2>5. CASE UNCHANGED <<loaded, verdict>>
    BY <2>5 DEF OverriddenBuiltinIsSilent
  <2>6. \/ Oversize \/ MergeRule \/ Decide \/ Account \/ Return
        \/ UNCHANGED <<loaded, verdict>>
    BY DEF Next, Gate, Load, Judge, Edit, Disabled, PassThrough, StartLoad,
           RefuseFile, SkipFile, LoadFile, StartMap, MapFile, Loading, vars
  <2> QED BY <2>1, <2>2, <2>3, <2>4, <2>5, <2>6
<1> QED BY <1>1, <1>2, TypeCorrect, UndecidedInvariant, PTL DEF Spec

\* In warn mode no command is blocked, whichever rule or gate decided on it.
THEOREM WarnNeverBlocks == Spec => []WarnModeNeverBlocks
<1>1. Init => WarnModeNeverBlocks
  BY DEF Init, WarnModeNeverBlocks
<1>2. Undecided /\ WarnModeNeverBlocks /\ [Next]_vars => WarnModeNeverBlocks'
  <2> SUFFICES ASSUME Undecided, WarnModeNeverBlocks, [Next]_vars,
                      pc' = "done", job'.mode = "warn"
               PROVE  verdict'.action # "block"
    BY DEF WarnModeNeverBlocks
  <2>1. CASE Oversize
    BY <2>1 DEF Oversize, Soften, Result
  <2>2. CASE Account \/ Return
    <3>1. verdict' = Settled(verdict, job) /\ job.mode = "warn"
      BY <2>2 DEF Account, Return
    <3> QED BY <3>1 DEF Settled, Soften, Unwrap, Result
  <2>3. CASE Disabled \/ PassThrough
    BY <2>3 DEF Disabled, PassThrough, Undecided, DefaultAllow, Result
  <2>4. CASE UNCHANGED <<pc, job, verdict>>
    BY <2>4 DEF WarnModeNeverBlocks
  <2>5. \/ Oversize \/ Account \/ Return \/ Disabled \/ PassThrough
        \/ UNCHANGED <<pc, job, verdict>>
    BY DEF Next, Gate, Load, Judge, Edit, StartLoad, RefuseFile, SkipFile, LoadFile,
           MergeRule, StartMap, MapFile, Decide, Loading, vars
  <2> QED BY <2>1, <2>2, <2>3, <2>4, <2>5
<1> QED BY <1>1, <1>2, UndecidedInvariant, PTL DEF Spec

\* A command is unwrapped when it is a wrapped one that does not fit, and never twice.
LEMMA SettledByBudget ==
  ASSUME NEW L \in SUBSET Rule, NEW M, NEW j \in Job, NEW v, v = Evaluate(L, M, j)
  PROVE  /\ Settled(v, j).why = "budget" <=> (v.action = "modify" /\ ~Fits(v, j))
         /\ v.action = "modify" =>
              /\ WholeMatches(L, j) = {} /\ Decided(L, j, {"block"}) = {}
              /\ Decided(L, j, {"modify", "sandbox"}) # {}
<1>1. v.why # "budget"
  BY EvaluateYields DEF DefaultAllow, BlockBy, ModifyBy, WarnBy, AllowBy, Result
<1>2. Settled(v, j).why = "budget" <=> (v.action = "modify" /\ ~Fits(v, j))
  BY <1>1 DEF Settled, Unwrap, Soften, Result
<1>3. ASSUME v.action = "modify"
      PROVE  WholeMatches(L, j) = {} /\ Blocked(L, j) = {} /\ Modified(L, j) # {}
  BY <1>3 DEF Evaluate, DefaultAllow, BlockBy, WarnBy, AllowBy, Result
<1> QED BY <1>2, <1>3 DEF Blocked, Modified

\* Nothing is counted as rejected before the verdict is settled.
NoneRejected == pc # "done" => metrics.rejected = 0

BudgetInv == NoneRejected /\ BudgetLiftsOnlyTheWrap

\* A command runs unwrapped for its length only if no rule blocks it and one wraps it.
THEOREM BudgetOnlyUnwraps == Spec => []BudgetLiftsOnlyTheWrap
<1>1. Init => BudgetInv
  BY DEF Init, BudgetInv, NoneRejected, BudgetLiftsOnlyTheWrap
<1>2. TypeOK /\ Undecided /\ BudgetInv /\ [Next]_vars => BudgetInv'
  <2> SUFFICES ASSUME TypeOK, Undecided, BudgetInv, [Next]_vars PROVE BudgetInv'
    OBVIOUS
  <2>1. CASE Account \/ Return
    <3>1. /\ verdict = Evaluate(loaded, layers, job) /\ verdict' = Settled(verdict, job)
          /\ loaded' = loaded /\ job' = job /\ pc' = "done" /\ metrics.rejected = 0
      BY <2>1 DEF Account, Return, Loading, Undecided, BudgetInv, NoneRejected
    <3>2. loaded \in SUBSET Rule /\ job \in Job
      BY JobAssumption DEF TypeOK
    <3>3. metrics'.rejected = IF verdict.action = "modify" /\ ~Fits(verdict, job) THEN 1 ELSE 0
      <4>1. CASE Return
        BY <4>1, <3>1 DEF Return
      <4>2. CASE Account
        <5> DEFINE more == IF Fits(verdict, job) THEN metrics.rejected ELSE metrics.rejected + 1
                   less == [metrics EXCEPT !.wraps = @ + 1]
        <5>1. metrics \in [passed_disabled : Nat, wraps : Nat, rejected : Nat]
          BY DEF TypeOK
        <5>2. metrics' = [less EXCEPT !.rejected = more] /\ verdict.action = "modify"
          BY <4>2 DEF Account
        <5> HIDE DEF more
        <5>3. less \in [passed_disabled : Nat, wraps : Nat, rejected : Nat]
          BY <5>1
        <5> HIDE DEF less
        <5>4. metrics'.rejected = more
          BY <5>2, <5>3
        <5> QED BY <5>2, <5>4, <3>1 DEF more
      <4> QED BY <2>1, <4>1, <4>2
    <3>4. verdict'.action = "modify" => Fits(verdict', job)
      BY <3>1 DEF Settled, Unwrap, Soften, Result
    <3>5. /\ verdict'.why = "budget" <=> (verdict.action = "modify" /\ ~Fits(verdict, job))
          /\ verdict.action = "modify" =>
              /\ WholeMatches(loaded, job) = {} /\ Decided(loaded, job, {"block"}) = {}
              /\ Decided(loaded, job, {"modify", "sandbox"}) # {}
      BY <3>1, <3>2, SettledByBudget
    <3> QED BY <3>1, <3>3, <3>4, <3>5 DEF BudgetInv, NoneRejected, BudgetLiftsOnlyTheWrap
  <2>2. CASE Gate /\ pc' = "done"
    <3>1. verdict'.why # "budget" /\ verdict'.action # "modify"
      BY <2>2 DEF Gate, Disabled, PassThrough, Oversize, StartLoad, Undecided, DefaultAllow,
                  OversizeBlock, Soften, Result
    <3>2. metrics'.rejected = 0
      BY <2>2 DEF Gate, Disabled, PassThrough, Oversize, StartLoad, BudgetInv, NoneRejected, TypeOK
    <3> QED BY <2>2, <3>1, <3>2 DEF BudgetInv, NoneRejected, BudgetLiftsOnlyTheWrap
  <2>3. CASE pc' # "done" /\ UNCHANGED metrics /\ pc # "done"
    BY <2>3 DEF BudgetInv, NoneRejected, BudgetLiftsOnlyTheWrap
  <2>4. CASE UNCHANGED vars
    BY <2>4 DEF BudgetInv, NoneRejected, BudgetLiftsOnlyTheWrap, vars
  <2>5. \/ Account \/ Return \/ (Gate /\ pc' = "done") \/ UNCHANGED vars
        \/ (pc' # "done" /\ UNCHANGED metrics /\ pc # "done")
    BY DEF Next, Gate, Load, Judge, Edit, Disabled, PassThrough, Oversize, StartLoad, RefuseFile,
           SkipFile, LoadFile, MergeRule, StartMap, MapFile, Decide, Loading
  <2> QED BY <2>1, <2>2, <2>3, <2>4, <2>5
<1> QED BY <1>1, <1>2, TypeCorrect, UndecidedInvariant, PTL DEF Spec, BudgetInv

\* The way out of intercept() keeps what the rules decided, for all rules and limits.
THEOREM SettlementIsFaithful == Spec => []SettlementKeepsTheVerdict
BY WarnNeverBlocks, BudgetOnlyUnwraps, PTL DEF SettlementKeepsTheVerdict

-------------------------------------------------------------------------------
(* Rules with new ids only tighten the rules' verdict.                        *)

IsAddition(L) == L \in SUBSET Rule /\ IdsOf(L) \cap IdsOf(Builtins) = {}

\* Rules with new ids stand beside the builtins, in the last layer.
LEMMA AdditionsAreLast ==
  ASSUME NEW L, IsAddition(L)
  PROVE  /\ Effective(L) = Builtins \cup L
         /\ \A r \in L : Tier(r) = 4
         /\ \A r \in Builtins : Tier(r) \in 1..3
<1>1. \A r \in L : r \in Rule /\ r.id \notin IdsOf(Builtins)
  BY DEF IsAddition, IdsOf
<1>2. \A r \in L : Inherit(r, Builtins) = r
  BY <1>1, InheritKeepsRule, BuiltinAssumption
<1>3. \A r \in Builtins : r.id \notin IdsOf(L)
  BY DEF IsAddition, IdsOf
<1>4. Effective(L) = Builtins \cup L
  BY <1>2, <1>3 DEF Effective
<1>5. \A r \in L : Tier(r) = 4
  BY <1>1 DEF Tier, IdsOf, Builtins
<1>6. \A r \in Builtins : Tier(r) \in 1..3
  BY DEF Tier, IdsOf, Builtins
<1> QED BY <1>4, <1>5, <1>6

LEMMA NothingIsAddition == IsAddition({}) /\ Effective({}) = Builtins
<1>1. IsAddition({})
  BY DEF IsAddition, IdsOf
<1> QED BY <1>1, AdditionsAreLast

\* Neither of two builtins precedes the other only if they are the same rule.
LEMMA BuiltinsAreOrdered ==
  ASSUME NEW r \in Builtins, NEW q \in Builtins, ~Before(r, q), ~Before(q, r)
  PROVE  r = q
<1>1. r \in Rule /\ q \in Rule
  BY BuiltinAssumption
<1>2. Tier(r) \in 1..4 /\ Tier(q) \in 1..4
  BY TierIsNat
<1>3. r.pos \in Nat /\ q.pos \in Nat /\ r.prio \in Nat /\ q.prio \in Nat
  BY <1>1 DEF Rule
<1>4. r.pos = q.pos
  BY <1>2, <1>3 DEF Before
<1> QED BY <1>4, BuiltinAssumption

\* A text some builtin matches is decided by the same builtin.
LEMMA SameBuiltinDecides ==
  ASSUME NEW L, IsAddition(L), NEW t, SegmentMatches({}, t) # {}
  PROVE  /\ SegmentMatches(L, t) # {}
         /\ First(SegmentMatches(L, t)) = First(SegmentMatches({}, t))
<1> DEFINE b == First(SegmentMatches({}, t))
           f == First(SegmentMatches(L, t))
<1>1. SegmentMatches({}, t) \subseteq SegmentMatches(L, t)
  BY AdditionsAreLast, NothingIsAddition DEF SegmentMatches
<1>2. SegmentMatches(L, t) \in SUBSET Rule /\ SegmentMatches({}, t) \in SUBSET Rule
  BY EffectiveIsTyped, NothingIsAddition DEF SegmentMatches, IsAddition
<1>3. b \in SegmentMatches({}, t) /\ \A q \in SegmentMatches({}, t) : ~Before(q, b)
  BY <1>2, FirstIsIn
<1>4. f \in SegmentMatches(L, t) /\ \A q \in SegmentMatches(L, t) : ~Before(q, f)
  BY <1>1, <1>2, FirstIsIn
<1> HIDE DEF b, f
<1>5. b \in Builtins
  BY <1>3, NothingIsAddition DEF SegmentMatches
<1>6. ~Before(b, f)
  BY <1>1, <1>3, <1>4
<1>7. Tier(f) <= Tier(b) /\ Tier(b) \in 1..3 /\ Tier(f) \in 1..4
  BY <1>5, <1>6, AdditionsAreLast, TierIsNat DEF Before
<1>8. f \in Builtins
  BY <1>4, <1>7, AdditionsAreLast DEF SegmentMatches
<1>9. f \in SegmentMatches({}, t)
  BY <1>4, <1>8, NothingIsAddition DEF SegmentMatches
<1>10. f = b
  BY <1>3, <1>5, <1>6, <1>8, <1>9, BuiltinsAreOrdered
<1> QED BY <1>1, <1>3, <1>10 DEF b, f

LEMMA AdditionsDecideMore ==
  ASSUME NEW L, IsAddition(L), NEW j, NEW A
  PROVE  Decided({}, j, A) \subseteq Decided(L, j, A)
BY SameBuiltinDecides DEF Decided

LEMMA SameWholeMatches ==
  ASSUME NEW L, IsAddition(L), NEW j
  PROVE  WholeMatches(L, j) = WholeMatches({}, j)
<1>1. \A r \in L : Tier(r) # 1
  BY AdditionsAreLast
<1> QED BY <1>1, AdditionsAreLast, NothingIsAddition DEF WholeMatches

\* What the verdict's rank says of the segments.
LEMMA RankOfVerdict ==
  ASSUME NEW L \in SUBSET Rule, NEW M, NEW j
  PROVE  Rank(Evaluate(L, M, j)) =
           IF WholeMatches(L, j) # {} \/ Blocked(L, j) # {} THEN 2
           ELSE IF Modified(L, j) # {} THEN 1 ELSE 0
<1>1. \A r : /\ BlockBy(r, M).action = "block"
             /\ ModifyBy(r, M, Modified(L, j), j).action = "modify"
             /\ WarnBy(r, M).action = "allow" /\ AllowBy(r, M).action = "allow"
  BY DEF BlockBy, ModifyBy, WarnBy, AllowBy, Result
<1>2. DefaultAllow.action = "allow"
  BY DEF DefaultAllow, Result
<1>3. CASE WholeMatches(L, j) # {}
  BY <1>1, <1>3 DEF Evaluate, Rank
<1>4. CASE WholeMatches(L, j) = {} /\ Blocked(L, j) # {}
  BY <1>1, <1>4 DEF Evaluate, Rank
<1>5. CASE WholeMatches(L, j) = {} /\ Blocked(L, j) = {} /\ Modified(L, j) # {}
  BY <1>1, <1>5 DEF Evaluate, Rank
<1>6. CASE WholeMatches(L, j) = {} /\ Blocked(L, j) = {} /\ Modified(L, j) = {}
  BY <1>1, <1>2, <1>6 DEF Evaluate, Rank
<1> QED BY <1>3, <1>4, <1>5, <1>6

LEMMA AdditionsTighten ==
  ASSUME NEW L, IsAddition(L), NEW M, NEW N, NEW j
  PROVE  Rank(Evaluate(L, M, j)) >= Rank(Evaluate({}, N, j))
<1>1. L \in SUBSET Rule /\ {} \in SUBSET Rule
  BY DEF IsAddition
<1>2. Blocked({}, j) \subseteq Blocked(L, j) /\ Modified({}, j) \subseteq Modified(L, j)
  BY AdditionsDecideMore DEF Blocked, Modified
<1>3. WholeMatches(L, j) = WholeMatches({}, j)
  BY SameWholeMatches
<1> QED BY <1>1, <1>2, <1>3, RankOfVerdict

\* A pack may carry any priorities and any actions: the evaluation is at least as
\* strict as without it.
THEOREM AdditionsOnlyTighten == Spec => []NewIdsOnlyTighten
<1>1. TypeOK /\ Undecided => NewIdsOnlyTighten
  <2> SUFFICES ASSUME TypeOK, Undecided, pc = "decided", IdsOf(loaded) \cap IdsOf(Builtins) = {}
               PROVE  Rank(verdict) >= Rank(Evaluate({}, NoLayers, job))
    BY DEF NewIdsOnlyTighten
  <2>1. IsAddition(loaded) /\ verdict = Evaluate(loaded, layers, job)
    BY DEF IsAddition, TypeOK, Undecided
  <2> QED BY <2>1, AdditionsTighten
<1> QED BY <1>1, TypeCorrect, UndecidedInvariant, PTL

-------------------------------------------------------------------------------
(* Nothing that a file says is silently absent.                               *)

\* The id a rule made of the entry has.
IdOf(e) == IF e.id = NoId THEN Unknown ELSE e.id

\* The k-th entry of a file is loaded, from there or from a later file.
Kept(f, k) == \E r \in loaded : r.id = IdOf(disk[f].rules[k]) /\ r.from >= f

Present(f) == MayBeSkipped(disk[f]) \/ \A k \in DOMAIN disk[f].rules : Kept(f, k)

\* The batch is what follows the first m entries of its file; those are loaded.
After(m) ==
    /\ Len(disk[next - 1].rules) = m + Len(batch)
    /\ \A i \in 1..Len(batch) : batch[i] = disk[next - 1].rules[m + i]
    /\ \A k \in 1..m : Kept(next - 1, k)

\* A loaded rule stands in the file it is from, which the loader could parse.
Sourced ==
    \A r \in loaded :
        /\ r.from \in Files /\ LoaderParses(disk[r.from])
        /\ \E k \in DOMAIN disk[r.from].rules : r.id = IdOf(disk[r.from].rules[k])

Loads ==
    /\ batch = <<>> => \A f \in Files : f < next => Present(f)
    /\ batch # <<>> => /\ LoaderParses(disk[next - 1]) /\ \E m \in Nat : After(m)
                       /\ \A f \in Files : f < next - 1 => Present(f)
    /\ \A f \in Files : f < next => ~Refuses(disk[f])

FilesInv ==
    /\ pc = "begin" => next = 1 /\ batch = <<>> /\ loaded = {}
    /\ edits = 0 =>
         /\ pc = "load" => Loads /\ Sourced
         /\ pc \in {"map", "decided"} =>
              Sourced /\ \A f \in Files : Present(f) /\ ~Refuses(disk[f])

LEMMA IdOfRule == ASSUME NEW e, NEW f, NEW n PROVE RuleOf(e, f, n).id = IdOf(e) /\ RuleOf(e, f, n).from = f
BY DEF RuleOf, IdOf

\* A merge loses no entry, and the entry merged is loaded.
LEMMA MergeKeepsEntries ==
  ASSUME TypeOK, MergeRule
  PROVE  /\ \A f \in Files : \A k : f < next /\ Kept(f, k) => Kept(f, k)'
         /\ \E q \in loaded' : q.id = IdOf(Head(batch)) /\ q.from = next - 1
         /\ \A q \in loaded' : q \in loaded \/ (q.id = IdOf(Head(batch)) /\ q.from = next - 1)
<1> DEFINE new == RuleOf(Head(batch), next - 1, taken + 1)
<1>1. Head(batch) \in Entry /\ next - 1 \in Files /\ taken + 1 \in Nat
  BY DEF TypeOK, MergeRule
<1>2. new \in Rule /\ new.id = IdOf(Head(batch)) /\ new.from = next - 1
  BY <1>1, RuleOfIsTyped, IdOfRule
<1>3. loaded' = {q \in loaded : q.id # new.id} \cup {Inherit(new, loaded)} /\ disk' = disk
  BY DEF MergeRule, Merge
<1> HIDE DEF new
<1>4. Inherit(new, loaded).id = new.id /\ Inherit(new, loaded).from = next - 1
  BY <1>2, InheritKeepsRule DEF TypeOK
<1>5. ASSUME NEW f \in Files, NEW k, f < next, Kept(f, k) PROVE Kept(f, k)'
  <2>1. PICK r \in loaded : r.id = IdOf(disk[f].rules[k]) /\ r.from >= f
    BY <1>5 DEF Kept
  <2>2. CASE r.id # new.id
    BY <1>3, <2>1, <2>2 DEF Kept, IdOf
  <2>3. CASE r.id = new.id
    <3>1. next - 1 >= f
      BY <1>1, <1>5, FilesAreNumbered DEF TypeOK
    <3> QED BY <1>3, <1>4, <2>1, <2>3, <3>1 DEF Kept, IdOf
  <2> QED BY <2>2, <2>3
<1> QED BY <1>2, <1>3, <1>4, <1>5

LEMMA MergeFiles == ASSUME TypeOK, FilesInv, MergeRule, edits = 0 PROVE Loads' /\ Sourced'
<1> USE FilesAreNumbered
<1>1. /\ pc = "load" /\ batch # <<>> /\ batch' = Tail(batch)
      /\ next' = next /\ disk' = disk /\ job' = job
  BY DEF MergeRule
<1>2. Loads /\ Sourced
  BY <1>1 DEF FilesInv
<1>3. PICK file \in Files : file = next - 1 /\ next \in Int /\ file < next
  BY <1>1 DEF TypeOK
<1> DEFINE rules == disk[file].rules
<1>4. PICK m \in Nat : After(m)
  BY <1>1, <1>2 DEF Loads
<1>5. rules \in Seq(Entry) /\ batch \in Seq(Entry)
  BY <1>3, ContentAssumption DEF TypeOK
<1>6. /\ Len(batch) \in Nat \ {0} /\ Len(batch') = Len(batch) - 1
      /\ \A i \in 1..Len(batch') : batch'[i] = batch[i + 1]
      /\ Head(batch) = batch[1] /\ Len(rules) \in Nat /\ DOMAIN rules = 1..Len(rules)
  <2>1. \A q \in Seq(Entry) : q # <<>> => Len(q) \in Nat \ {0}
    BY EmptySeq
  <2>2. /\ Len(Tail(batch)) = Len(batch) - 1
        /\ \A i \in 1..Len(Tail(batch)) : Tail(batch)[i] = batch[i + 1]
    BY <1>1, <1>5, HeadTailProperties
  <2>3. Len(rules) \in Nat /\ DOMAIN rules = 1..Len(rules)
    BY <1>5, LenProperties
  <2> QED BY <1>1, <1>5, <2>1, <2>2, <2>3
<1>7. Head(batch) = rules[m + 1] /\ m + 1 \in DOMAIN rules
  BY <1>3, <1>4, <1>6 DEF After
<1>8. \A f \in Files : \A k : f < next /\ Kept(f, k) => Kept(f, k)'
  BY MergeKeepsEntries
<1>e. \A k \in 1..(m + 1) : Kept(file, k)'
  <2>1. \A k \in 1..m : Kept(file, k)
    BY <1>3, <1>4 DEF After
  <2>2. \A k \in 1..m : Kept(file, k)'
    BY <1>3, <1>8, <2>1
  <2>3. Kept(file, m + 1)'
    <3>1. PICK q \in loaded' : q.id = IdOf(Head(batch)) /\ q.from = next - 1
      BY MergeKeepsEntries
    <3>2. q.id = IdOf(rules[m + 1]) /\ q.from >= file
      BY <1>3, <1>7, <3>1
    <3> QED BY <1>1, <3>2 DEF Kept, IdOf
  <2> QED BY <2>2, <2>3
<1>9. After(m + 1)'
  <2>3. \A k \in 1..(m + 1) : Kept(next - 1, k)'
    BY <1>1, <1>3, <1>e DEF Kept
  <2>4. Len(rules) = (m + 1) + Len(batch')
    BY <1>3, <1>4, <1>6 DEF After
  <2>5. \A i \in 1..Len(batch') : batch'[i] = rules[(m + 1) + i]
    <3> SUFFICES ASSUME NEW i \in 1..Len(batch') PROVE batch'[i] = rules[(m + 1) + i]
      OBVIOUS
    <3>1. i + 1 \in 1..Len(batch) /\ m + (i + 1) = (m + 1) + i
      BY <1>6
    <3>2. batch'[i] = batch[i + 1]
      BY <1>6
    <3>3. batch[i + 1] = rules[m + (i + 1)]
      BY <1>3, <1>4, <3>1 DEF After
    <3> QED BY <3>1, <3>2, <3>3
  <2> QED BY <1>1, <1>3, <2>3, <2>4, <2>5 DEF After
<1>10. \A f \in Files : f < file => Present(f)'
  <2> SUFFICES ASSUME NEW f \in Files, f < file PROVE Present(f)'
    OBVIOUS
  <2>1. Present(f) /\ f < next
    BY <1>1, <1>2, <1>3 DEF Loads
  <2> QED BY <1>1, <1>8, <2>1 DEF Present, MayBeSkipped, Readable
<1>11. batch' = <<>> => Present(file)'
  <2> SUFFICES ASSUME batch' = <<>> PROVE Present(file)'
    OBVIOUS
  <2>1. Len(batch') = 0
    OBVIOUS
  <2>2. Len(batch) \in Nat /\ Len(batch') = Len(batch) - 1
    BY <1>6
  <2>3. Len(rules) = m + Len(batch)
    BY <1>3, <1>4 DEF After
  <2>e. Len(batch) = 1
    <3> HIDE DEF rules
    <3> QED BY <2>1, <2>2
  <2>f. Len(rules) = m + 1
    BY <2>3, <2>e
  <2>4. DOMAIN rules = 1..(m + 1)
    BY <1>6, <2>f
  <2> QED BY <1>1, <1>e, <2>4 DEF Present
<1>12. Sourced'
  <2> SUFFICES ASSUME NEW q \in loaded'
               PROVE  /\ q.from \in Files /\ LoaderParses(disk[q.from])
                      /\ \E k \in DOMAIN disk[q.from].rules : q.id = IdOf(disk[q.from].rules[k])
    BY <1>1 DEF Sourced, LoaderParses, IdOf
  <2>1. CASE q \in loaded
    BY <1>2, <2>1 DEF Sourced
  <2>2. CASE q.id = IdOf(Head(batch)) /\ q.from = next - 1
    <3>1. LoaderParses(disk[file])
      BY <1>1, <1>2, <1>3 DEF Loads
    <3> QED BY <1>3, <1>7, <2>2, <3>1
  <2> QED BY <2>1, <2>2, MergeKeepsEntries
<1>13. \A f \in Files : f < next => ~Refuses(disk[f])
  BY <1>2 DEF Loads
<1>14. Loads'
  <2>1. batch' = <<>> => \A f \in Files : f < next => Present(f)'
    <3>1. \A f \in Files : f < next => f < file \/ f = file
      BY <1>3
    <3> QED BY <1>10, <1>11, <3>1
  <2>2. LoaderParses(disk[file]) /\ m + 1 \in Nat
    BY <1>1, <1>2, <1>3 DEF Loads
  <2>3. \A f \in Files : f < next - 1 => Present(f)'
    BY <1>3, <1>10
  <2> QED BY <1>1, <1>3, <1>9, <1>13, <2>1, <2>2, <2>3
          DEF Loads, LoaderParses, Refuses, Readable
<1> QED BY <1>12, <1>14

LEMMA FilesInit == Init => FilesInv
BY DEF Init, FilesInv

\* Where disk, job and loaded are untouched, so is what was said of the files.
LEMMA SameFiles ==
  ASSUME disk' = disk, job' = job, loaded' = loaded
  PROVE  /\ \A f \in Files : Present(f) => Present(f)'
         /\ \A f \in Files : ~Refuses(disk[f]) => ~Refuses(disk[f])'
         /\ Sourced => Sourced'
<1>1. \A f \in Files : Present(f) => Present(f)'
  BY DEF Present, MayBeSkipped, Readable, Kept, IdOf
<1>2. \A f \in Files : ~Refuses(disk[f]) => ~Refuses(disk[f])'
  BY DEF Refuses, Readable, LoaderParses
<1>3. Sourced => Sourced'
  BY DEF Sourced, LoaderParses, IdOf
<1> QED BY <1>1, <1>2, <1>3

LEMMA SkippedMayBe ==
  ASSUME NEW c \in Contents, ~Refuses(c), ~LoaderParses(c)
  PROVE  MayBeSkipped(c)
BY ContentAssumption DEF Refuses, LoaderParses, MayBeSkipped, Readable, Shapes

LEMMA SkipFiles == ASSUME TypeOK, FilesInv, SkipFile, edits = 0 PROVE Loads' /\ Sourced'
<1> USE FilesAreNumbered
<1>1. /\ pc = "load" /\ batch = <<>> /\ batch' = <<>> /\ next' = next + 1
      /\ disk' = disk /\ job' = job /\ loaded' = loaded
      /\ ~Refuses(disk[next]) /\ ~LoaderParses(disk[next])
  BY DEF SkipFile
<1>2. Loads /\ Sourced
  BY <1>1 DEF FilesInv
<1>3. PICK file \in Files : file = next /\ next \in Int
  BY DEF SkipFile, TypeOK
<1>4. Present(file)
  BY <1>1, <1>3, SkippedMayBe DEF TypeOK, Present
<1>5. \A f \in Files : f < next + 1 => Present(f) /\ ~Refuses(disk[f])
  BY <1>1, <1>2, <1>3, <1>4 DEF Loads
<1>6. /\ \A f \in Files : f < next + 1 => Present(f)'
      /\ \A f \in Files : f < next + 1 => ~Refuses(disk[f])'
      /\ Sourced'
  BY <1>1, <1>2, <1>5, SameFiles
<1> QED BY <1>1, <1>6 DEF Loads

LEMMA LoadFiles == ASSUME TypeOK, FilesInv, LoadFile, edits = 0 PROVE Loads' /\ Sourced'
<1> USE FilesAreNumbered
<1>1. /\ pc = "load" /\ batch = <<>> /\ batch' = disk[next].rules /\ next' = next + 1
      /\ disk' = disk /\ job' = job /\ loaded' = loaded
      /\ LoaderParses(disk[next])
  BY DEF LoadFile
<1>2. Loads /\ Sourced
  BY <1>1 DEF FilesInv
<1>3. PICK file \in Files : file = next /\ next \in Int
  BY DEF LoadFile, TypeOK
<1> DEFINE rules == disk[file].rules
<1>4. rules \in Seq(Entry) /\ Len(rules) \in Nat /\ DOMAIN rules = 1..Len(rules)
  <2>1. rules \in Seq(Entry)
    <3>1. disk[file] \in Contents
      BY DEF TypeOK
    <3> QED BY <3>1, ContentAssumption
  <2> HIDE DEF rules
  <2> QED BY <2>1, LenProperties
<1>5. \A f \in Files : f < file => Present(f) /\ ~Refuses(disk[f])
  BY <1>1, <1>2, <1>3 DEF Loads
<1>6. ~Refuses(disk[file])
  BY <1>1, <1>3 DEF Refuses, LoaderParses
<1>7. /\ \A f \in Files : f < file => Present(f)'
      /\ \A f \in Files : f < file + 1 => ~Refuses(disk[f])'
      /\ Sourced'
  <2>1. \A f \in Files : f < file + 1 => ~Refuses(disk[f])
    BY <1>5, <1>6
  <2> QED BY <1>1, <1>2, <1>5, <2>1, SameFiles
<1>8. batch' = <<>> => Present(file)'
  <2> SUFFICES ASSUME batch' = <<>> PROVE Present(file)'
    OBVIOUS
  <2>1. rules = <<>>
    BY <1>1, <1>3
  <2>2. DOMAIN rules = {}
    <3> HIDE DEF rules
    <3> QED BY <2>1
  <2> QED BY <1>1, <2>2 DEF Present
<1>9. After(0)'
  <2>1. \A k \in 1..0 : Kept(next - 1, k)'
    OBVIOUS
  <2>2. next' - 1 = file /\ batch' = rules
    BY <1>1, <1>3
  <2>3. Len(rules) = 0 + Len(rules) /\ \A i \in 1..Len(rules) : rules[i] = rules[0 + i]
    <3> HIDE DEF rules
    <3> QED BY <1>4
  <2> QED BY <1>1, <2>1, <2>2, <2>3 DEF After
<1>10. Loads'
  <2>1. batch' = <<>> => \A f \in Files : f < next' => Present(f)'
    <3>1. \A f \in Files : f < next' => f < file \/ f = file
      BY <1>1, <1>3
    <3> QED BY <1>7, <1>8, <3>1
  <2>2. LoaderParses(disk[next - 1])' /\ \E m \in Nat : After(m)'
    <3>1. next' - 1 = file /\ LoaderParses(disk[file])
      BY <1>1, <1>3
    <3> QED BY <1>1, <1>9, <3>1 DEF LoaderParses
  <2>3. \A f \in Files : f < next' - 1 => Present(f)'
    BY <1>1, <1>3, <1>7
  <2>4. \A f \in Files : f < next' => ~Refuses(disk[f])'
    BY <1>1, <1>3, <1>7
  <2> QED BY <2>1, <2>2, <2>3, <2>4 DEF Loads
<1> QED BY <1>7, <1>10

LEMMA FilesStep == ASSUME TypeOK, FilesInv, [Next]_vars PROVE FilesInv'
<1> USE FilesAreNumbered
<1>1. ASSUME pc' = "begin" PROVE next' = 1 /\ batch' = <<>> /\ loaded' = {}
  BY <1>1 DEF TypeOK, FilesInv, Next, Gate, Load, Judge, Disabled, PassThrough, Oversize,
       StartLoad, RefuseFile, SkipFile, LoadFile, MergeRule, StartMap, MapFile, Decide,
       Account, Return, Edit, Loading, vars
<1>2. edits' = 0 => edits = 0 /\ ~Edit
  BY DEF TypeOK, Next, Gate, Load, Judge, Disabled, PassThrough, Oversize,
       StartLoad, RefuseFile, SkipFile, LoadFile, MergeRule, StartMap, MapFile, Decide,
       Account, Return, Edit, Loading, vars
<1>3. ASSUME edits' = 0, pc' = "load" PROVE Loads' /\ Sourced'
  <2>1. CASE StartLoad
    <3>1. next' = 1 /\ batch' = <<>> /\ loaded' = {}
      BY <2>1 DEF StartLoad, FilesInv, Loading
    <3>2. ~(\E f \in Files : f < 1)
      OBVIOUS
    <3> QED BY <3>1, <3>2 DEF Loads, Sourced
  <2>2. CASE SkipFile
    BY <1>2, <1>3, <2>2, SkipFiles
  <2>3. CASE LoadFile
    BY <1>2, <1>3, <2>3, LoadFiles
  <2>4. CASE MergeRule
    BY <1>2, <1>3, <2>4, MergeFiles
  <2>5. CASE UNCHANGED vars
    <3>1. Loads /\ Sourced
      BY <1>3, <2>5 DEF vars, FilesInv
    <3> QED BY <2>5, <3>1 DEF vars, Loads, Sourced, After, Kept, IdOf, Present, MayBeSkipped,
                             Readable, LoaderParses, Refuses
  <2> QED BY <1>2, <1>3, <2>1, <2>2, <2>3, <2>4, <2>5
          DEF Next, Gate, Load, Judge, Disabled, PassThrough, Oversize, RefuseFile, StartMap,
              MapFile, Decide, Account, Return
<1>4. ASSUME edits' = 0, pc' \in {"map", "decided"}
      PROVE  (Sourced /\ \A f \in Files : Present(f) /\ ~Refuses(disk[f]))'
  <2>1. disk' = disk /\ job' = job /\ loaded' = loaded
    BY <1>2, <1>4 DEF Next, Gate, Load, Judge, Disabled, PassThrough, Oversize,
       StartLoad, RefuseFile, SkipFile, LoadFile, MergeRule, StartMap, MapFile, Decide,
       Account, Return, Loading, vars
  <2>2. \/ StartMap
        \/ pc \in {"map", "decided"}
    BY <1>2, <1>4 DEF Next, Gate, Load, Judge, Disabled, PassThrough, Oversize,
       StartLoad, RefuseFile, SkipFile, LoadFile, MergeRule, MapFile, Decide,
       Account, Return, vars
  <2>3. Sourced /\ \A f \in Files : Present(f) /\ ~Refuses(disk[f])
    <3>1. CASE StartMap
      <4>1. /\ pc = "load" /\ batch = <<>>
            /\ \A f \in Files : f < next
        BY <3>1 DEF StartMap, TypeOK
      <4>2. Loads /\ Sourced
        BY <1>2, <1>4, <4>1 DEF FilesInv
      <4> QED BY <4>1, <4>2 DEF Loads
    <3>2. CASE pc \in {"map", "decided"}
      BY <1>2, <1>4, <3>2 DEF FilesInv
    <3> QED BY <2>2, <3>1, <3>2
  <2> QED BY <2>1, <2>3, SameFiles
<1> QED BY <1>1, <1>3, <1>4 DEF FilesInv

LEMMA FilesInvariant == Spec => []FilesInv
BY FilesInit, FilesStep, TypeCorrect, PTL DEF Spec

\* However many files there are and whatever they hold, an evaluation that gets past
\* the load holds an answer to every entry of every file it was not free to skip.
THEOREM NoPolicyIsAbsent == Spec => []NoPolicySilentlyAbsent
<1>1. FilesInv => NoPolicySilentlyAbsent
  <2> SUFFICES ASSUME FilesInv, pc \in {"map", "decided"}, edits = 0, NEW f \in Files,
                      ~MayBeSkipped(disk[f]), NEW k \in DOMAIN disk[f].rules
               PROVE  \E r \in loaded : /\ r.id = RuleOf(disk[f].rules[k], f, 0).id
                                        /\ r.from >= f
    BY DEF NoPolicySilentlyAbsent
  <2>1. Present(f)
    BY DEF FilesInv
  <2>2. Kept(f, k)
    BY <2>1 DEF Present
  <2>3. RuleOf(disk[f].rules[k], f, 0).id = IdOf(disk[f].rules[k])
    BY IdOfRule
  <2> QED BY <2>2, <2>3 DEF Kept
<1> QED BY <1>1, FilesInvariant, PTL

-------------------------------------------------------------------------------
(* The map read in the second pass agrees with what the first one loaded.     *)

\* The layer of an id is that of the last file before n with the id.
LayerBefore(i, n) ==
    \/ layers[i] = "engine" /\ \A f \in Files : f < n => i \notin EntryIds(disk[f])
    \/ \E f \in Files : /\ f < n /\ i \in EntryIds(disk[f]) /\ layers[i] = FileLayer[f]
                        /\ \A g \in Files : f < g /\ g < n => i \notin EntryIds(disk[g])

MapInv ==
    edits = 0 =>
        /\ pc \in {"begin", "load"} => layers = NoLayers
        /\ pc = "map" => \A i \in Ids : LayerBefore(i, next)
        /\ pc = "decided" => \A i \in Ids : LayerBefore(i, Len(FileLayer) + 1)

LEMMA MapStep == ASSUME TypeOK, MapInv, [Next]_vars PROVE MapInv'
<1> USE FilesAreNumbered
<1>1. edits' = 0 => edits = 0 /\ ~Edit
  BY DEF TypeOK, Next, Gate, Load, Judge, Disabled, PassThrough, Oversize,
       StartLoad, RefuseFile, SkipFile, LoadFile, MergeRule, StartMap, MapFile, Decide,
       Account, Return, Edit, Loading, vars
<1>2. ASSUME edits' = 0, pc' \in {"begin", "load"} PROVE layers' = NoLayers
  BY <1>1, <1>2 DEF MapInv, NoLayers, Next, Gate, Load, Judge, Disabled, PassThrough, Oversize,
       StartLoad, RefuseFile, SkipFile, LoadFile, MergeRule, StartMap, MapFile, Decide,
       Account, Return, Loading, vars
<1>3. ASSUME edits' = 0, pc' = "map", NEW i \in Ids PROVE LayerBefore(i, next)'
  <2>1. CASE StartMap
    <3>1. layers' = NoLayers /\ next' = 1
      BY <1>1, <1>3, <2>1 DEF StartMap, MapInv
    <3>2. layers'[i] = "engine" /\ \A f \in Files : ~(f < 1)
      BY <3>1 DEF NoLayers
    <3> QED BY <3>1, <3>2 DEF LayerBefore
  <2>2. CASE MapFile
    <3>1. /\ pc = "map" /\ next \in Files /\ next' = next + 1
          /\ disk' = disk /\ job' = job
          /\ layers'[i] = IF i \in EntryIds(disk[next]) THEN FileLayer[next] ELSE layers[i]
      BY <2>2 DEF MapFile, TypeOK
    <3>2. \A c : EntryIds(c)' = EntryIds(c)
      BY <3>1 DEF EntryIds, MapParses, LoaderParses
    <3>3. PICK file \in Files : file = next
      BY <3>1
    <3>4. LayerBefore(i, next)
      BY <1>1, <1>3, <3>1 DEF MapInv
    <3>5. CASE i \in EntryIds(disk[file])
      <4>1. file < next' /\ \A g \in Files : ~(file < g /\ g < next')
        BY <3>1, <3>3
      <4> QED BY <3>1, <3>2, <3>3, <3>5, <4>1 DEF LayerBefore
    <3>6. CASE i \notin EntryIds(disk[file])
      <4>1. layers'[i] = layers[i]
        BY <3>1, <3>3, <3>6
      <4>2. \A f \in Files : f < next' <=> f < next \/ f = file
        BY <3>1, <3>3
      <4> QED BY <3>1, <3>2, <3>3, <3>4, <3>6, <4>1, <4>2 DEF LayerBefore
    <3> QED BY <3>5, <3>6
  <2>3. CASE UNCHANGED vars
    <3>1. LayerBefore(i, next)
      BY <1>1, <1>3, <2>3 DEF MapInv, vars
    <3> QED BY <2>3, <3>1 DEF vars, LayerBefore, EntryIds, MapParses, LoaderParses
  <2> QED BY <1>1, <1>3, <2>1, <2>2, <2>3
          DEF Next, Gate, Load, Judge, Disabled, PassThrough, Oversize, StartLoad, RefuseFile,
              SkipFile, LoadFile, MergeRule, Decide, Account, Return
<1>4. ASSUME edits' = 0, pc' = "decided", NEW i \in Ids
      PROVE  LayerBefore(i, Len(FileLayer) + 1)'
  <2>1. disk' = disk /\ job' = job /\ layers' = layers /\ (Decide \/ UNCHANGED vars)
    BY <1>1, <1>4 DEF Next, Gate, Load, Judge, Disabled, PassThrough, Oversize, StartLoad,
       RefuseFile, SkipFile, LoadFile, MergeRule, StartMap, MapFile, Decide, Account, Return,
       Loading, vars
  <2>2. LayerBefore(i, Len(FileLayer) + 1)
    <3>1. CASE Decide
      <4>1. pc = "map" /\ next = Len(FileLayer) + 1
        BY <3>1 DEF Decide, TypeOK
      <4> QED BY <1>1, <1>4, <4>1 DEF MapInv
    <3>2. CASE UNCHANGED vars
      BY <1>1, <1>4, <3>2 DEF MapInv, vars
    <3> QED BY <2>1, <3>1, <3>2
  <2>3. LayerBefore(i, Len(FileLayer) + 1)'
    BY <2>1, <2>2 DEF LayerBefore, EntryIds, MapParses, LoaderParses
  <2> QED BY <2>3
<1> QED BY <1>2, <1>3, <1>4 DEF MapInv

LEMMA MapInvariant == Spec => []MapInv
<1>1. Init => MapInv
  BY DEF Init, MapInv
<1> QED BY <1>1, MapStep, TypeCorrect, PTL DEF Spec

\* A verdict that names a rule gives the rule's layer in the map.
LEMMA NamedRule ==
  ASSUME NEW L \in SUBSET Rule, NEW M, NEW j \in Job, Evaluate(L, M, j).rule # NoId
  PROVE  \E r \in Effective(L) : /\ Evaluate(L, M, j).rule = r.id
                                 /\ Evaluate(L, M, j).layer = M[r.id]
<1>1. DefaultAllow.rule = NoId
  BY DEF DefaultAllow, Result
<1>2. PICK r \in Effective(L) : \/ Evaluate(L, M, j) = BlockBy(r, M)
                                \/ Evaluate(L, M, j) = ModifyBy(r, M, Modified(L, j), j)
                                \/ Evaluate(L, M, j) = WarnBy(r, M)
                                \/ Evaluate(L, M, j) = AllowBy(r, M)
  BY <1>1, EvaluateYields
<1> QED BY <1>2 DEF BlockBy, ModifyBy, WarnBy, AllowBy, Result

\* Two passes over unchanged files, the loader's and the map's, agree on the source
\* of every rule a verdict can name, whatever the files share.
THEOREM LayersAreSources == Spec => []LayerIsTheRulesSource
<1> USE FilesAreNumbered
<1>1. TypeOK /\ OneRulePerId /\ Undecided /\ FilesInv /\ MapInv => LayerIsTheRulesSource
  <2> SUFFICES ASSUME TypeOK, OneRulePerId, Undecided, FilesInv, MapInv,
                      pc = "decided", edits = 0, verdict.rule \notin {NoId, Unknown},
                      \A f \in Files : ~(job.yaml /\ disk[f].shape = "json")
               PROVE  \/ verdict.rule \notin IdsOf(loaded) /\ verdict.layer = "engine"
                      \/ \E r \in loaded : r.id = verdict.rule /\ verdict.layer = FileLayer[r.from]
    BY DEF LayerIsTheRulesSource
  <2>1. loaded \in SUBSET Rule /\ job \in Job /\ verdict = Evaluate(loaded, layers, job)
    BY JobAssumption DEF TypeOK, Undecided
  <2>2. PICK r \in Effective(loaded) : verdict.rule = r.id /\ verdict.layer = layers[r.id]
    BY <2>1, NamedRule
  <2>3. r.id \in Ids /\ r.id # NoId /\ r.id # Unknown
    BY <2>1, <2>2, EffectiveIsTyped DEF Rule
  <2>4. LayerBefore(r.id, Len(FileLayer) + 1)
    BY <2>3 DEF MapInv
  <2>5. Sourced /\ \A f \in Files : Present(f) /\ ~Refuses(disk[f])
    BY DEF FilesInv
  \* What the map read in a file, the loader holds from there or from a later file.
  <2>6. ASSUME NEW f \in Files, r.id \in EntryIds(disk[f])
        PROVE  \E q \in loaded : q.id = r.id /\ q.from >= f
    <3>1. PICK k \in DOMAIN disk[f].rules : disk[f].rules[k].id = r.id
      BY <2>6 DEF EntryIds
    <3>2. MapParses(disk[f]) /\ ~Refuses(disk[f]) /\ ~(job.yaml /\ disk[f].shape = "json")
      BY <2>5, <2>6 DEF EntryIds
    <3>3. ~MayBeSkipped(disk[f])
      BY <3>2 DEF MapParses, LoaderParses, Refuses, Readable, MayBeSkipped
    <3>4. Kept(f, k)
      BY <2>5, <3>3 DEF Present
    <3> QED BY <2>3, <3>1, <3>4 DEF Kept, IdOf
  <2>7. CASE r.id \notin IdsOf(loaded)
    <3>1. \A f \in Files : r.id \notin EntryIds(disk[f])
      BY <2>6, <2>7 DEF IdsOf
    <3>2. layers[r.id] = "engine"
      BY <2>4, <3>1 DEF LayerBefore
    <3> QED BY <2>2, <2>7, <3>2
  <2>8. CASE r.id \in IdsOf(loaded)
    <3>1. PICK q \in loaded : q.id = r.id
      BY <2>8 DEF IdsOf
    <3>2. PICK source \in Files : source = q.from
      BY <2>5 DEF Sourced
    <3>3. r.id \in EntryIds(disk[source])
      <4>1. LoaderParses(disk[source])
        BY <2>5, <3>2 DEF Sourced
      <4>2. PICK k \in DOMAIN disk[source].rules : q.id = IdOf(disk[source].rules[k])
        BY <2>5, <3>2 DEF Sourced
      <4>3. disk[source].rules[k].id = r.id
        BY <2>3, <3>1, <4>2 DEF IdOf
      <4> QED BY <4>1, <4>2, <4>3 DEF EntryIds, MapParses
    <3>4. source < Len(FileLayer) + 1
      OBVIOUS
    <3>5. PICK f \in Files : /\ r.id \in EntryIds(disk[f]) /\ layers[r.id] = FileLayer[f]
                             /\ \A g \in Files : f < g /\ g < Len(FileLayer) + 1
                                                  => r.id \notin EntryIds(disk[g])
      BY <2>4, <3>3, <3>4 DEF LayerBefore
    <3>6. source >= f
      <4>1. PICK p \in loaded : p.id = r.id /\ p.from >= f
        BY <2>6, <3>5
      <4> QED BY <3>1, <3>2, <4>1 DEF OneRulePerId
    <3>7. source = f
      BY <3>3, <3>4, <3>5, <3>6
    <3> QED BY <2>2, <3>1, <3>2, <3>5, <3>7
  <2> QED BY <2>7, <2>8
<1> QED BY <1>1, TypeCorrect, OneRule, UndecidedInvariant, FilesInvariant, MapInvariant, PTL
===============================================================================

---------------------------- MODULE LandlockProofs ----------------------------
(***************************************************************************)
(* What holds of the Landlock tiers, for every tree of paths, every set of *)
(* surfaces in it, every working directory, every number of files that     *)
(* come and go, and every host.  First the layout of the file-system tier: *)
(* surfaces are withheld, and splitting the grants around them loses       *)
(* nothing else.  Then the tiers of a launch: the layout goes its own way  *)
(* in them, finding out leaves nothing behind, the command is held to what *)
(* was reported, and a missing tier was stated.                            *)
(***************************************************************************)
EXTENDS LandlockTier, FiniteSetTheorems, SequenceTheorems, TLAPS

\* The chain of directories above a path.
LEMMA Ancestors ==
  ASSUME NEW p \in Paths, NEW q \in Paths, NEW r \in Paths, r \in Under[p], r \in Under[q]
  PROVE  q \in Under[p] \/ p \in Under[q]
BY TreeAssumption

LEMMA Below ==
  ASSUME NEW p \in Paths, NEW q \in Paths, NEW r \in Under[q], q \in Under[p]
  PROVE  r \in Under[p]
<1>1. r \in Paths
  BY TreeAssumption
<1> QED BY <1>1, TreeAssumption

LEMMA Reflexive == ASSUME NEW p \in Paths PROVE p \in Under[p]
BY TreeAssumption

LEMMA UnderIsPaths == ASSUME NEW p \in Paths PROVE Under[p] \subseteq Paths
BY TreeAssumption

LEMMA AroundIsInside ==
  ASSUME NEW g \in Paths, NEW s \in Paths, NEW u, NEW q \in Around(g, s, u)
  PROVE  /\ q \in Paths /\ q \in files /\ q \in Under[g] /\ s \notin Under[q]
         /\ \E p \in Under[g] : s \in Under[p] \ {p} /\ q \in Children(p)
<1>1. PICK p \in Under[g] : s \in Under[p] \ {p} /\ q \in Children(p) \cap files /\ s \notin Under[q]
  BY DEF Around
<1>2. p \in Paths /\ q \in Under[p]
  BY <1>1, UnderIsPaths DEF Children
<1> QED BY <1>1, <1>2, Below, UnderIsPaths

\* A path beside the way to t is inside a surface s that holds no other only if it
\* is s: what holds it is above s.
LEMMA AroundStopsAtSurfaces ==
  ASSUME NEW g \in Paths, NEW t \in Surfaces, NEW s \in Surfaces, NEW u,
         NEW q \in Around(g, t, u), Surfaces \cap Under[s] = {s}, g \notin Under[s] \ {s}
  PROVE  q \notin Under[s] \ {s}
<1>0. s \in Paths /\ t \in Paths
  BY SurfaceAssumption, UnderIsPaths
<1>1. PICK p \in Under[g] : t \in Under[p] \ {p} /\ q \in Children(p)
  BY <1>0, AroundIsInside
<1>2. p \in Paths /\ q \in Paths /\ q \in Under[p] \ {p}
  BY <1>1, UnderIsPaths DEF Children
<1>3. SUFFICES ASSUME q \in Under[s], q # s PROVE FALSE
  OBVIOUS
<1>4. p \in Under[s] \/ s \in Under[p]
  BY <1>0, <1>2, <1>3, Ancestors
<1>5. CASE p \in Under[s]
  <2>1. t \in Under[s]
    BY <1>0, <1>1, <1>2, <1>5, Below
  <2>2. t = s
    BY <2>1
  <2>3. s \in Under[p] /\ p # s
    BY <1>1, <2>2
  <2> QED BY <1>0, <1>2, <1>5, <2>3, TreeAssumption
<1>6. CASE s \in Under[p] /\ p \notin Under[s]
  <2>1. s \in Under[p] \ {p}
    BY <1>0, <1>6, Reflexive
  <2> QED BY <1>1, <1>3, <2>1 DEF Children
<1> QED BY <1>4, <1>5, <1>6

-----------------------------------------------------------------------------

LEMMA ExceptionHasParent == Parent(Exception) \in Paths
<1>1. \E q \in Above(Exception) \ {Exception} :
         Above(Exception) \ {Exception} \subseteq Above(q)
  BY SurfaceAssumption
<1> QED BY <1>1 DEF Parent, Above

LEMMA InitTyped == LayoutInit => LayoutTypeOK
BY ScenarioAssumption DEF LayoutInit, LayoutTypeOK, LayoutSteps, Scenario

LEMMA EditTyped == ASSUME LayoutTypeOK, Edit PROVE LayoutTypeOK'
<1>1. PICK p \in Paths : Create(p) \/ Remove(p)
  BY DEF Edit
<1>2. UNCHANGED <<given, derived, step, write, own, read, list, split, todo>>
  BY DEF Edit, layout
<1>3. edits' \in 0..MaxEdits
  BY ScenarioAssumption DEF Edit, LayoutTypeOK
<1>4. files' \subseteq Paths /\ old' \subseteq files' /\ Closed(files')
  <2>1. CASE Create(p)
    BY <2>1 DEF Create, LayoutTypeOK, Closed, Above
  <2>2. CASE Remove(p)
    <3>1. files' = files \ {p} /\ old' = old \ {p} /\ Under[p] \cap files = {p}
      BY <2>2 DEF Remove
    <3>2. ASSUME NEW q \in files' PROVE Above(q) \subseteq files'
      <4>1. q \in files /\ q # p
        BY <3>1, <3>2
      <4>2. q \notin Under[p]
        BY <3>1, <4>1
      <4> QED BY <3>1, <4>1, <4>2 DEF LayoutTypeOK, Closed, Above
    <3> QED BY <3>1, <3>2 DEF LayoutTypeOK, Closed
  <2> QED BY <1>1, <2>1, <2>2
<1> QED BY <1>2, <1>3, <1>4 DEF LayoutTypeOK

LEMMA BuildTyped == ASSUME LayoutTypeOK, BuildStep PROVE LayoutTypeOK'
<1>0. given \in Scenario /\ Workdir \in Paths
  BY ScenarioAssumption DEF LayoutTypeOK, Scenario, Workdir
<1>1. CASE Refuse \/ RefuseHome \/ Open
  BY <1>1 DEF LayoutTypeOK, Refuse, RefuseHome, Open, disk, LayoutSteps
<1>2. CASE GrantWrites
  BY <1>2, SurfaceAssumption DEF LayoutTypeOK, GrantWrites, disk, LayoutSteps
<1>3. CASE GrantReads
  <2>1. ToolchainRoots \subseteq Paths
    BY DEF ToolchainRoots, LayoutTypeOK
  <2>2. read' \subseteq Paths
    BY <1>3, <2>1, SurfaceAssumption DEF GrantReads
  <2>3. list' \subseteq Paths
    BY <1>3, ExceptionHasParent, SurfaceAssumption DEF GrantReads
  <2> QED BY <1>3, <2>2, <2>3 DEF GrantReads, disk, LayoutTypeOK, LayoutSteps
<1>4. CASE PlanSplit
  <2>1. split' \subseteq Surfaces /\ todo' = split' /\ own' \subseteq Paths
    BY <1>0, <1>4 DEF PlanSplit, InsideWorkdir
  <2> QED BY <1>4, <2>1 DEF PlanSplit, disk, LayoutTypeOK, LayoutSteps
<1>5. ASSUME NEW s \in Surfaces, SplitAround(s) PROVE LayoutTypeOK'
  <2>1. s \in Paths
    BY SurfaceAssumption, UnderIsPaths
  <2>2. ASSUME NEW g \in own, NEW u PROVE Around(g, s, u) \subseteq Paths
    BY <2>1, AroundIsInside DEF LayoutTypeOK
  <2>3. own' \subseteq Paths
    BY <1>5, <2>2 DEF SplitAround, LayoutTypeOK
  <2> QED BY <1>5, <2>3 DEF SplitAround, disk, LayoutTypeOK
<1>6. CASE MergeWrites
  BY <1>6 DEF MergeWrites, disk, LayoutTypeOK, LayoutSteps
<1> QED BY <1>1, <1>2, <1>3, <1>4, <1>5, <1>6 DEF BuildStep

LEMMA NextTyped == ASSUME LayoutTypeOK, [LayoutNext]_layoutVars PROVE LayoutTypeOK'
<1>1. ASSUME NEW roots \in {{}, given.derived}, Enter(roots) PROVE LayoutTypeOK'
  <2>1. roots \subseteq Paths
    BY ScenarioAssumption DEF LayoutTypeOK, Scenario
  <2> QED BY <1>1, <2>1 DEF Enter, disk, LayoutTypeOK, LayoutSteps
<1>2. CASE UNCHANGED layoutVars
  BY <1>2 DEF layoutVars, disk, layout, LayoutTypeOK, Closed, Above
<1> QED BY <1>1, <1>2, BuildTyped, EditTyped DEF LayoutNext

\* Everything build_layout computes is a set of paths, and the disk stays a tree.
THEOREM LayoutTypeCorrect == LayoutSpec => []LayoutTypeOK
<1> QED BY InitTyped, NextTyped, PTL DEF LayoutSpec

-----------------------------------------------------------------------------
(* Surfaces are withheld.  What is granted while the layout is computed keeps   *)
(* clear of a surface, except that a grant may hold one that has still to be    *)
(* taken out of it.                                                             *)

\* The surfaces the property is about.
Private == {s \in Surfaces : Workdir \notin Under[s] /\ Surfaces \cap Under[s] = {s}}

ReadsApart == \A s \in Surfaces \cap old : \A g \in read \ {Exception} : ~ Touch(g, s)

WritesApart == \A s \in Private \cap old : \A g \in write : ~ Touch(g, s)

OwnInside == own \subseteq Under[Workdir]

OwnApart == \A s \in Private \cap old :
              /\ \A g \in own : g \notin Under[s] \ {s}
              /\ s \in todo \/ \A g \in own : ~ Touch(g, s)

Withheld == LayoutTypeOK /\ ReadsApart /\ WritesApart /\ OwnInside /\ OwnApart

LEMMA InitWithheld == LayoutInit => Withheld
<1> SUFFICES ASSUME LayoutInit PROVE Withheld
  OBVIOUS
<1>1. read = {} /\ write = {} /\ own = {}
  BY DEF LayoutInit
<1>2. ReadsApart /\ WritesApart /\ OwnInside /\ OwnApart
  BY <1>1 DEF ReadsApart, WritesApart, OwnInside, OwnApart
<1> QED BY <1>2, InitTyped DEF Withheld

\* Only what has existed all the time counts, and that can only get less.
LEMMA KeepsWithheld ==
  ASSUME Withheld, LayoutTypeOK', old' \subseteq old,
         UNCHANGED <<given, write, own, read, todo>>
  PROVE  Withheld'
<1>1. Private' = Private /\ Workdir' = Workdir
  BY DEF Private, Workdir
<1>2. ReadsApart'
  BY DEF Withheld, ReadsApart, Touch
<1>3. WritesApart'
  BY <1>1 DEF Withheld, WritesApart, Touch
<1>4. OwnInside'
  BY <1>1 DEF Withheld, OwnInside
<1>5. OwnApart'
  BY <1>1 DEF Withheld, OwnApart, Touch
<1> QED BY <1>2, <1>3, <1>4, <1>5 DEF Withheld

LEMMA GrantWritesWithheld == ASSUME Withheld, GrantWrites, LayoutTypeOK' PROVE Withheld'
<1>1. Private' = Private /\ Workdir' = Workdir /\ old' = old
  BY DEF GrantWrites, disk, Private, Workdir
<1>2. WritesApart'
  BY <1>1, SurfaceAssumption DEF GrantWrites, WritesApart, Private, Touch
<1>3. ReadsApart' /\ OwnInside' /\ OwnApart'
  BY <1>1 DEF GrantWrites, Withheld, ReadsApart, OwnInside, OwnApart, Touch
<1> QED BY <1>2, <1>3 DEF Withheld

LEMMA GrantReadsWithheld == ASSUME Withheld, GrantReads, LayoutTypeOK' PROVE Withheld'
<1>1. Private' = Private /\ Workdir' = Workdir /\ old' = old
  BY DEF GrantReads, disk, Private, Workdir
<1>2. ASSUME NEW s \in Surfaces \cap old, NEW g \in read' \ {Exception} PROVE ~ Touch(g, s)
  <2>1. s \in files
    BY <1>2 DEF Withheld, LayoutTypeOK
  <2>2. g \in Readable \/ g \in ToolchainRoots
    BY <1>2 DEF GrantReads
  <2> QED BY <1>2, <2>1, <2>2, SurfaceAssumption DEF ToolchainRoots
<1>3. ReadsApart'
  BY <1>1, <1>2 DEF ReadsApart, Touch
<1>4. WritesApart' /\ OwnInside' /\ OwnApart'
  BY <1>1 DEF GrantReads, Withheld, WritesApart, OwnInside, OwnApart, Touch
<1> QED BY <1>3, <1>4 DEF Withheld

\* A surface that is inside the working directory is on the list, and any other has
\* nothing to do with it.
LEMMA PlanSplitWithheld == ASSUME Withheld, PlanSplit, LayoutTypeOK' PROVE Withheld'
<1>1. Private' = Private /\ Workdir' = Workdir /\ old' = old /\ own' = {Workdir}
  BY DEF PlanSplit, disk, Private, Workdir
<1>0. Workdir \in Paths /\ old \subseteq files
  BY ScenarioAssumption DEF Withheld, LayoutTypeOK, Scenario, Workdir
<1>2. ASSUME NEW s \in Private \cap old
      PROVE  /\ Workdir \notin Under[s]
             /\ s \in todo' \/ s \notin Under[Workdir]
  <2>1. s \in Surfaces /\ s \in Paths /\ Workdir \notin Under[s]
    BY SurfaceAssumption, UnderIsPaths DEF Private
  <2>2. s # Workdir
    BY <2>1, Reflexive
  <2>3. s \in Under[Workdir] => s \in todo'
    BY <1>0, <2>1, <2>2 DEF PlanSplit, InsideWorkdir
  <2> QED BY <2>1, <2>3
<1>3. OwnApart'
  BY <1>1, <1>2 DEF OwnApart, Touch
<1>4. OwnInside'
  BY <1>0, <1>1, Reflexive DEF OwnInside
<1>5. ReadsApart' /\ WritesApart'
  BY <1>1 DEF PlanSplit, Withheld, ReadsApart, WritesApart, Touch
<1> QED BY <1>3, <1>4, <1>5 DEF Withheld

LEMMA SplitAroundWithheld ==
  ASSUME Withheld, NEW t \in Surfaces, SplitAround(t), LayoutTypeOK'
  PROVE  Withheld'
<1>1. Private' = Private /\ Workdir' = Workdir /\ old' = old /\ todo' = todo \ {t}
  BY DEF SplitAround, disk, Private, Workdir
<1>0. Workdir \in Paths /\ t \in Paths /\ own \subseteq Paths
  BY ScenarioAssumption, SurfaceAssumption, UnderIsPaths
     DEF Withheld, LayoutTypeOK, Scenario, Workdir
\* Where a grant comes from.
<1>2. ASSUME NEW g \in own'
      PROVE  \/ g \in own /\ t \notin Under[g]
             \/ \E h \in own, u \in SUBSET Paths : g \in Around(h, t, u) /\ t \in Under[h]
  BY <1>2 DEF SplitAround, Above
<1>3. ASSUME NEW g \in own'
      PROVE  /\ g \in Paths /\ t \notin Under[g]
             /\ \E h \in own : g \in Under[h]
  <2>1. CASE g \in own /\ t \notin Under[g]
    BY <1>0, <2>1, Reflexive
  <2>2. CASE \E h \in own, u \in SUBSET Paths : g \in Around(h, t, u) /\ t \in Under[h]
    BY <1>0, <2>2, AroundIsInside
  <2> QED BY <1>2, <1>3, <2>1, <2>2
<1>4. OwnInside'
  <2>1. ASSUME NEW g \in own' PROVE g \in Under[Workdir]
    <3>1. PICK h \in own : g \in Under[h]
      BY <1>3
    <3> QED BY <1>0, <3>1, Below DEF Withheld, OwnInside
  <2> QED BY <1>1, <2>1 DEF OwnInside
<1>5. ASSUME NEW s \in Private \cap old
      PROVE  /\ \A g \in own' : g \notin Under[s] \ {s}
             /\ s \in todo' \/ \A g \in own' : ~ Touch(g, s)
  <2>0. s \in Surfaces /\ s \in Paths /\ Surfaces \cap Under[s] = {s}
    BY SurfaceAssumption, UnderIsPaths DEF Private
  <2>1. \A g \in own : g \notin Under[s] \ {s}
    BY DEF Withheld, OwnApart
  <2>2. ASSUME NEW g \in own' PROVE g \notin Under[s] \ {s}
    <3>1. CASE g \in own
      BY <2>1, <3>1
    <3>2. CASE \E h \in own, u \in SUBSET Paths : g \in Around(h, t, u) /\ t \in Under[h]
      <4>1. PICK h \in own, u \in SUBSET Paths : g \in Around(h, t, u)
        BY <3>2
      <4> QED BY <1>0, <2>0, <2>1, <4>1, AroundStopsAtSurfaces
    <3> QED BY <1>2, <2>2, <3>1, <3>2
  <2>3. CASE s = t
    <3>1. ASSUME NEW g \in own' PROVE ~ Touch(g, s)
      <4>1. g \in Paths /\ s \notin Under[g]
        BY <1>3, <2>3
      <4>2. g # s
        BY <4>1, <2>0, Reflexive
      <4> QED BY <2>2, <4>1, <4>2 DEF Touch
    <3> QED BY <2>2, <3>1
  <2>4. CASE s # t /\ s \in todo
    BY <1>1, <2>2, <2>4
  <2>5. CASE s # t /\ \A g \in own : ~ Touch(g, s)
    <3>1. ASSUME NEW g \in own' PROVE ~ Touch(g, s)
      <4>1. PICK h \in own : g \in Under[h]
        BY <1>3
      <4>2. h \in Paths /\ g \in Paths /\ s \notin Under[h]
        BY <1>0, <1>3, <2>5 DEF Touch
      <4>3. s \notin Under[g]
        BY <2>0, <4>1, <4>2, Below
      <4>4. g # s
        BY <2>0, <4>3, Reflexive
      <4> QED BY <2>2, <4>3, <4>4 DEF Touch
    <3> QED BY <2>2, <3>1
  <2>6. s \in todo \/ \A g \in own : ~ Touch(g, s)
    BY DEF Withheld, OwnApart
  <2> QED BY <2>3, <2>4, <2>5, <2>6
<1>6. OwnApart'
  BY <1>1, <1>5 DEF OwnApart, Touch
<1>7. ReadsApart' /\ WritesApart'
  BY <1>1 DEF SplitAround, Withheld, ReadsApart, WritesApart, Touch
<1> QED BY <1>4, <1>6, <1>7 DEF Withheld

LEMMA MergeWritesWithheld == ASSUME Withheld, MergeWrites, LayoutTypeOK' PROVE Withheld'
<1>1. Private' = Private /\ Workdir' = Workdir /\ old' = old /\ todo = {}
  BY DEF MergeWrites, disk, Private, Workdir
<1>2. ASSUME NEW s \in Private \cap old, NEW g \in write' PROVE ~ Touch(g, s)
  BY <1>1 DEF MergeWrites, Withheld, OwnApart, WritesApart
<1>3. WritesApart'
  BY <1>1, <1>2 DEF WritesApart, Touch
<1>4. ReadsApart' /\ OwnInside' /\ OwnApart'
  BY <1>1 DEF MergeWrites, Withheld, ReadsApart, OwnInside, OwnApart, Touch
<1> QED BY <1>3, <1>4 DEF Withheld

LEMMA EnterWithheld ==
  ASSUME Withheld, NEW roots, Enter(roots), LayoutTypeOK' PROVE Withheld'
<1>1. read' = {} /\ write' = {} /\ own' = {}
  BY DEF Enter
<1> QED BY <1>1 DEF Withheld, ReadsApart, WritesApart, OwnInside, OwnApart

LEMMA NextWithheld == ASSUME Withheld, [LayoutNext]_layoutVars PROVE Withheld'
<1>0. LayoutTypeOK'
  BY NextTyped DEF Withheld
<1>1. CASE \E roots \in {{}, given.derived} : Enter(roots)
  BY <1>0, <1>1, EnterWithheld
<1>2. CASE GrantWrites
  BY <1>0, <1>2, GrantWritesWithheld
<1>3. CASE GrantReads
  BY <1>0, <1>3, GrantReadsWithheld
<1>4. CASE PlanSplit
  BY <1>0, <1>4, PlanSplitWithheld
<1>5. CASE \E s \in Surfaces : SplitAround(s)
  BY <1>0, <1>5, SplitAroundWithheld
<1>6. CASE MergeWrites
  BY <1>0, <1>6, MergeWritesWithheld
<1>7. CASE Refuse \/ RefuseHome \/ Open
  BY <1>0, <1>7, KeepsWithheld DEF Refuse, RefuseHome, Open, disk
<1>8. CASE Edit
  <2>1. old' \subseteq old
    BY <1>8 DEF Edit, Create, Remove
  <2> QED BY <1>0, <1>8, <2>1, KeepsWithheld DEF Edit, layout
<1>9. CASE UNCHANGED layoutVars
  BY <1>0, <1>9, KeepsWithheld DEF layoutVars, disk, layout
<1> QED BY <1>1, <1>2, <1>3, <1>4, <1>5, <1>6, <1>7, <1>8, <1>9 DEF LayoutNext, BuildStep

LEMMA WithheldSuffices == Withheld => InnerSurfacesWithheld
BY DEF Withheld, ReadsApart, WritesApart, Private, InnerSurfacesWithheld

\* What build_layout returns grants nothing in, of or around a surface that is there
\* all the time and holds no other, unless the working directory is inside it.
THEOREM SurfacesAreWithheld == LayoutSpec => []InnerSurfacesWithheld
<1> QED BY InitWithheld, NextWithheld, WithheldSuffices, PTL DEF LayoutSpec

-----------------------------------------------------------------------------
(* Nothing else is lost.                                                      *)

\* Finitely many directories are above a path, so there is a lowest one and a
\* highest one of every kind.
LEMMA Smallest ==
  ASSUME NEW S, IsFiniteSet(S), NEW T, T \subseteq SUBSET S, T # {}
  PROVE  \E x \in T : \A y \in T : y \subseteq x => y = x
<1>1. IsWellFoundedOn(StrictSubsetOrdering(S), SUBSET S)
  BY FS_StrictSubsetOrderingWellFounded, FS_FiniteSubsetsOfFinite
<1>2. PICK x \in T : \A y \in T : <<y, x>> \notin StrictSubsetOrdering(S)
  BY <1>1, WFMin
<1>3. \A y \in T : y \subseteq x => y = x
  BY <1>2 DEF StrictSubsetOrdering
<1> QED BY <1>3

LEMMA LowestCommon ==
  ASSUME NEW g \in Paths, NEW p \in Under[g], NEW s \in Under[g]
  PROVE  \E c \in Under[g] :
           /\ p \in Under[c] /\ s \in Under[c]
           /\ \A d \in Under[c] \ {c} : ~ (p \in Under[d] /\ s \in Under[d])
<1> DEFINE C == {c \in Under[g] : p \in Under[c] /\ s \in Under[c]}
           Rest(c) == Under[c] \cap Above(p)
           Rests == {Rest(c) : c \in C}
<1>0. p \in Paths /\ C \subseteq Paths /\ IsFiniteSet(Above(p))
  BY UnderIsPaths, TreeAssumption DEF Above
<1>1. g \in C
  BY Reflexive
<1>2. PICK x \in Rests : \A y \in Rests : y \subseteq x => y = x
  <2>1. Rests \subseteq SUBSET Above(p) /\ Rests # {} /\ IsFiniteSet(Above(p))
    BY <1>0, <1>1
  <2> HIDE DEF Rests
  <2> QED BY <2>1, Smallest
<1>3. PICK c \in C : x = Rest(c)
  BY <1>2
<1>4. ASSUME NEW d \in Under[c] \ {c}, p \in Under[d], s \in Under[d] PROVE FALSE
  <2>1. c \in Paths /\ d \in Paths /\ d \in Under[g]
    BY <1>0, <1>4, Below, UnderIsPaths
  <2>2. d \in C
    BY <1>4, <2>1
  <2>3. Rest(d) \subseteq Rest(c)
    BY <1>4, <2>1, Below
  <2>4. Rest(d) = Rest(c)
    BY <1>2, <1>3, <2>2, <2>3
  <2>5. c \in Rest(c)
    BY <2>1, Reflexive DEF Above
  <2>6. c \in Under[d]
    BY <2>4, <2>5
  <2> QED BY <1>4, <2>1, <2>6, TreeAssumption
<1> QED BY <1>3, <1>4

LEMMA ChildOnTheWay ==
  ASSUME NEW c \in Paths, NEW p \in Under[c] \ {c}
  PROVE  \E q \in Children(c) : p \in Under[q]
<1> DEFINE Q == {q \in Under[c] \ {c} : p \in Under[q]}
           Heights == {Above(q) : q \in Q}
<1>0. p \in Paths /\ Q \subseteq Paths /\ IsFiniteSet(Above(p)) /\ p \in Q
  BY UnderIsPaths, Reflexive, TreeAssumption DEF Above
<1>1. Heights \subseteq SUBSET Above(p)
  BY <1>0, Below DEF Above
<1>2. PICK x \in Heights : \A y \in Heights : y \subseteq x => y = x
  <2>1. Heights # {} /\ IsFiniteSet(Above(p))
    BY <1>0
  <2> HIDE DEF Heights
  <2> QED BY <1>1, <2>1, Smallest
<1>3. PICK q \in Q : x = Above(q)
  BY <1>2
<1>4. ASSUME NEW r \in Under[c] \ {c}, q \in Under[r] PROVE r = q
  <2>1. q \in Paths /\ r \in Paths
    BY <1>0, <1>4, UnderIsPaths
  <2>2. r \in Q
    BY <1>3, <1>4, <2>1, Below
  <2>3. Above(r) \subseteq Above(q)
    BY <1>4, <2>1, Below DEF Above
  <2>4. Above(r) = Above(q)
    BY <1>2, <1>3, <2>2, <2>3
  <2>5. r \in Under[q]
    BY <2>1, <2>4, Reflexive DEF Above
  <2> QED BY <1>4, <2>1, <2>5, TreeAssumption
<1> QED BY <1>3, <1>4 DEF Children

\* What is in a grant, and is not lost when the grant is split around the surface, is
\* in one of the parts.
LEMMA AroundCovers ==
  ASSUME NEW g \in Paths, NEW p \in Under[g], NEW s \in Under[g], ~ Touch(p, s),
         NEW u, \A d \in u \cap Under[g] : ~ {p, s} \subseteq Under[d],
         Closed(files), p \in files
  PROVE  \E q \in Around(g, s, u) : p \in Under[q]
<1>1. PICK c \in Under[g] : /\ p \in Under[c] /\ s \in Under[c]
                            /\ \A d \in Under[c] \ {c} : ~ (p \in Under[d] /\ s \in Under[d])
  BY LowestCommon
<1>2. c \in Paths /\ p # c /\ s # c
  BY <1>1, UnderIsPaths DEF Touch
<1>3. PICK q \in Children(c) : p \in Under[q]
  BY <1>1, <1>2, ChildOnTheWay
<1>4. q \in Under[c] \ {c} /\ q \in Paths
  BY <1>2, <1>3, UnderIsPaths DEF Children
<1>5. s \notin Under[q] /\ q \in files
  BY <1>1, <1>3, <1>4 DEF Closed, Above
<1>6. \A d \in u \cap Under[g] : c \notin Under[d]
  BY <1>1, UnderIsPaths, Below
<1> QED BY <1>1, <1>2, <1>3, <1>5, <1>6 DEF Around

\* What is in the working directory all the time is in one of its grants, unless a
\* surface that has been dealt with may lose it.
InGrants(grants, done) ==
  \A p \in Under[Workdir] \cap old :
    (\A s \in done : ~ MayLose(p, s)) => \E g \in grants : p \in Under[g]

NothingLost == /\ step = "split" => InGrants(own, split \ todo) /\ own \subseteq Under[Workdir]
               /\ Granted => InGrants(write, split)

LEMMA InitNothingLost == LayoutInit => NothingLost
BY DEF LayoutInit, NothingLost, Granted, Computed

LEMMA SplitNothingLost ==
  ASSUME LayoutTypeOK, NothingLost, NEW s \in Surfaces, SplitAround(s)
  PROVE  NothingLost'
<1>0. /\ own \subseteq Paths /\ s \in Paths /\ Closed(files) /\ old \subseteq files
      /\ s \in split /\ s \in todo /\ Workdir \in Paths
  BY ScenarioAssumption, SurfaceAssumption, UnderIsPaths
     DEF LayoutTypeOK, SplitAround, Scenario, Workdir
<1>1. /\ UNCHANGED <<given, Workdir, old, split>> /\ todo' = todo \ {s}
      /\ step = "split" /\ step' = "split"
  BY DEF SplitAround, disk, Workdir
<1>2. InGrants(own, split \ todo) /\ own \subseteq Under[Workdir]
  BY <1>1 DEF NothingLost
<1>3. PICK u \in SUBSET given.sealed :
             own' = {g \in own : s \notin Under[g]}
                    \cup UNION {Around(g, s, u) : g \in {h \in own : s \in Under[h]}}
  BY DEF SplitAround
<1>4. ASSUME NEW p \in Under[Workdir] \cap old, \A t \in split \ (todo \ {s}) : ~ MayLose(p, t)
      PROVE  \E g \in own' : p \in Under[g]
  <2>1. PICK g \in own : p \in Under[g]
    BY <1>2, <1>4 DEF InGrants
  <2>2. CASE s \notin Under[g]
    BY <1>3, <2>1, <2>2
  <2>3. CASE s \in Under[g]
    <3>1. ~ MayLose(p, s) /\ p \in files
      BY <1>0, <1>4
    <3>2. \A d \in u \cap Under[g] : ~ {p, s} \subseteq Under[d]
      BY <1>0, <1>2, <2>1, <3>1, Below DEF MayLose
    <3>3. PICK q \in Around(g, s, u) : p \in Under[q]
      BY <1>0, <2>1, <2>3, <3>1, <3>2, AroundCovers DEF MayLose
    <3>4. q \in own'
      BY <1>3, <2>1, <2>3, <3>3
    <3> QED BY <3>3, <3>4
  <2> QED BY <2>2, <2>3
<1>5. own' \subseteq Under[Workdir]
  <2>1. ASSUME NEW g \in own, NEW q \in Around(g, s, u) PROVE q \in Under[Workdir]
    BY <1>0, <1>2, <2>1, AroundIsInside, Below
  <2> QED BY <1>2, <1>3, <2>1
<1>6. InGrants(own, split \ todo)'
  BY <1>1, <1>4 DEF InGrants, MayLose, Touch
<1> QED BY <1>1, <1>5, <1>6 DEF NothingLost, Granted, Computed

LEMMA MergeNothingLost ==
  ASSUME LayoutTypeOK, NothingLost, MergeWrites
  PROVE  NothingLost'
<1>1. /\ UNCHANGED <<given, Workdir, old, split>> /\ todo = {}
      /\ step = "split" /\ step' = "open" /\ write' = (write \cup own) \cap files
  BY DEF MergeWrites, disk, Workdir
<1>2. InGrants(own, split)
  BY <1>1 DEF NothingLost
<1>3. ASSUME NEW p \in Under[Workdir] \cap old, \A t \in split : ~ MayLose(p, t)
      PROVE  \E g \in write' : p \in Under[g]
  <2>1. PICK g \in own : p \in Under[g]
    BY <1>2, <1>3 DEF InGrants
  <2>2. g \in files
    BY <1>3, <2>1 DEF LayoutTypeOK, Closed, Above
  <2> QED BY <1>1, <2>1, <2>2
<1>4. InGrants(write, split)'
  BY <1>1, <1>3 DEF InGrants, MayLose, Touch
<1> QED BY <1>1, <1>4 DEF NothingLost

LEMMA NextNothingLost ==
  ASSUME LayoutTypeOK, NothingLost, [LayoutNext]_layoutVars
  PROVE  NothingLost'
<1> USE DEF NothingLost, Granted, Computed
<1>1. CASE \E roots \in {{}, given.derived} : Enter(roots)
  BY <1>1 DEF Enter
<1>2. CASE Refuse \/ GrantWrites \/ GrantReads \/ RefuseHome
  BY <1>2 DEF Refuse, GrantWrites, GrantReads, RefuseHome
<1>3. CASE PlanSplit
  <2>1. /\ UNCHANGED <<given, Workdir, old>> /\ own' = {Workdir} /\ step' = "split"
        /\ Workdir \in Under[Workdir]
    BY <1>3, Reflexive, ScenarioAssumption DEF PlanSplit, disk, Workdir, LayoutTypeOK, Scenario
  <2> QED BY <2>1 DEF InGrants, MayLose, Touch
<1>4. CASE \E s \in Surfaces : SplitAround(s)
  BY <1>4, SplitNothingLost
<1>5. CASE MergeWrites
  BY <1>5, MergeNothingLost
<1>6. CASE Open
  <2>1. UNCHANGED <<given, Workdir, old, write, split>>
        /\ step = "open" /\ step' # "split"
    BY <1>6 DEF Open, disk, Workdir
  <2> QED BY <2>1 DEF InGrants, MayLose, Touch
<1>7. CASE Edit
  <2>1. /\ old' \subseteq old
        /\ UNCHANGED <<given, Workdir, own, write, split, todo, step>>
    BY <1>7 DEF Edit, Create, Remove, layout, Workdir
  <2> QED BY <2>1 DEF InGrants, MayLose, Touch
<1>8. CASE UNCHANGED layoutVars
  BY <1>8 DEF layoutVars, disk, layout, InGrants, MayLose, Touch, Workdir
<1> QED BY <1>1, <1>2, <1>3, <1>4, <1>5, <1>6, <1>7, <1>8 DEF LayoutNext, BuildStep

\* However the working directory is split around the surfaces in it, and whatever
\* comes and goes meanwhile: what is there all the time can still be written.
THEOREM SplittingLosesNothing == LayoutSpec => []WorkdirStaysWritable
<1>1. NothingLost => WorkdirStaysWritable
  BY DEF NothingLost, InGrants, WorkdirStaysWritable
<1> QED BY InitNothingLost, NextNothingLost, LayoutTypeCorrect, <1>1, PTL DEF LayoutSpec

-----------------------------------------------------------------------------
(* The tiers of a launch.                                                     *)

\* The queues there can be, and the tiers that wait in one.
Queues == {<<>>, <<"fs">>, <<"net">>, <<"fs", "net">>, <<"net", "fs">>}

In(q) == (IF q \in {<<"fs">>, <<"fs", "net">>, <<"net", "fs">>} THEN {"fs"} ELSE {})
         \cup (IF q \in {<<"net">>, <<"fs", "net">>, <<"net", "fs">>} THEN {"net"} ELSE {})

LEMMA Distinct ==
  /\ <<>> \notin {<<"fs">>, <<"net">>, <<"fs", "net">>, <<"net", "fs">>}
  /\ <<"fs">> \notin {<<"net">>, <<"fs", "net">>, <<"net", "fs">>}
  /\ <<"net">> \notin {<<"fs", "net">>, <<"net", "fs">>}
  /\ <<"fs", "net">> # <<"net", "fs">>
<1>1. Len(<<>>) = 0 /\ Len(<<"fs">>) = 1 /\ Len(<<"net">>) = 1
      /\ Len(<<"fs", "net">>) = 2 /\ Len(<<"net", "fs">>) = 2
  OBVIOUS
<1>2. <<"fs">>[1] # <<"net">>[1] /\ <<"fs", "net">>[1] # <<"net", "fs">>[1]
  OBVIOUS
<1> QED BY <1>1, <1>2

LEMMA Taken ==
  ASSUME NEW q \in Queues, q # <<>>
  PROVE  /\ Head(q) \in Tiers /\ Tail(q) \in Queues
         /\ In(q) = {Head(q)} \cup In(Tail(q))
<1>1. CASE q = <<"fs">>
  <2>1. Head(q) = "fs" /\ Tail(q) = <<>>
    BY <1>1
  <2> QED BY <1>1, <2>1, Distinct DEF In, Queues, Tiers
<1>2. CASE q = <<"net">>
  <2>1. Head(q) = "net" /\ Tail(q) = <<>>
    BY <1>2
  <2> QED BY <1>2, <2>1, Distinct DEF In, Queues, Tiers
<1>3. CASE q = <<"fs", "net">>
  <2>1. Head(q) = "fs" /\ Tail(q) = <<"net">>
    BY <1>3
  <2> QED BY <1>3, <2>1, Distinct DEF In, Queues, Tiers
<1>4. CASE q = <<"net", "fs">>
  <2>1. Head(q) = "net" /\ Tail(q) = <<"fs">>
    BY <1>4
  <2> QED BY <1>4, <2>1, Distinct DEF In, Queues, Tiers
<1> QED BY <1>1, <1>2, <1>3, <1>4 DEF Queues

LEMMA Attaching ==
  ASSUME NEW attached \in SUBSET Tiers
  PROVE  /\ Loader("fs", attached) \o Loader("net", attached) \in Queues
         /\ Loader("net", attached) \o Loader("fs", attached) \in Queues \ {<<"fs", "net">>}
         /\ In(Loader("fs", attached) \o Loader("net", attached)) = attached
         /\ In(Loader("net", attached) \o Loader("fs", attached)) = attached
<1>0. /\ <<"fs">> \o <<"net">> = <<"fs", "net">>
      /\ <<"net">> \o <<"fs">> = <<"net", "fs">>
      /\ <<"fs">> \o <<>> = <<"fs">>
      /\ <<>> \o <<"fs">> = <<"fs">>
      /\ <<"net">> \o <<>> = <<"net">>
      /\ <<>> \o <<"net">> = <<"net">>
      /\ <<>> \o <<>> = <<>>
  <2>1. <<"fs">> \o <<"net">> = <<"fs", "net">>
    <3> DEFINE both == <<"fs">> \o <<"net">>
    <3>1. <<"fs">> \in Seq(Tiers) /\ <<"net">> \in Seq(Tiers)
          /\ Len(<<"fs">>) = 1 /\ Len(<<"net">>) = 1
      BY DEF Tiers
    <3>2. both \in Seq(Tiers) /\ Len(both) = 2
      BY <3>1, ConcatProperties
    <3>3. both[1] = "fs" /\ both[2] = "net"
      BY <3>1, ConcatProperties
    <3>4. <<"fs", "net">> \in Seq(Tiers) /\ Len(<<"fs", "net">>) = 2
      BY DEF Tiers
    <3>5. \A i \in 1..Len(both) : both[i] = <<"fs", "net">>[i]
      <4> HIDE DEF both
      <4> QED BY <3>2, <3>3
    <3> HIDE DEF both
    <3>6. both = <<"fs", "net">>
      BY <3>2, <3>4, <3>5, SeqEqual
    <3> QED BY <3>6 DEF both
  <2>2. <<"net">> \o <<"fs">> = <<"net", "fs">>
    <3> DEFINE both == <<"net">> \o <<"fs">>
    <3>1. <<"net">> \in Seq(Tiers) /\ <<"fs">> \in Seq(Tiers)
          /\ Len(<<"net">>) = 1 /\ Len(<<"fs">>) = 1
      BY DEF Tiers
    <3>2. both \in Seq(Tiers) /\ Len(both) = 2
      BY <3>1, ConcatProperties
    <3>3. both[1] = "net" /\ both[2] = "fs"
      BY <3>1, ConcatProperties
    <3>4. <<"net", "fs">> \in Seq(Tiers) /\ Len(<<"net", "fs">>) = 2
      BY DEF Tiers
    <3>5. \A i \in 1..Len(both) : both[i] = <<"net", "fs">>[i]
      <4> HIDE DEF both
      <4> QED BY <3>2, <3>3
    <3> HIDE DEF both
    <3>6. both = <<"net", "fs">>
      BY <3>2, <3>4, <3>5, SeqEqual
    <3> QED BY <3>6 DEF both
  <2>3. <<"fs">> \o <<>> = <<"fs">>
    OBVIOUS
  <2>4. <<>> \o <<"fs">> = <<"fs">>
    OBVIOUS
  <2>5. <<"net">> \o <<>> = <<"net">>
    OBVIOUS
  <2>6. <<>> \o <<"net">> = <<"net">>
    OBVIOUS
  <2>7. <<>> \o <<>> = <<>>
    OBVIOUS
  <2> QED BY <2>1, <2>2, <2>3, <2>4, <2>5, <2>6, <2>7
<1>1. CASE "fs" \in attached /\ "net" \in attached
  <2>1. Loader("fs", attached) = <<"fs">> /\ Loader("net", attached) = <<"net">>
    BY <1>1 DEF Loader
  <2>2. attached = {"fs", "net"}
    BY <1>1 DEF Tiers
  <2> QED BY <1>0, <2>1, <2>2, Distinct DEF In, Queues
<1>2. CASE "fs" \in attached /\ "net" \notin attached
  <2>1. Loader("fs", attached) = <<"fs">> /\ Loader("net", attached) = <<>>
    BY <1>2 DEF Loader
  <2>2. attached = {"fs"}
    BY <1>2 DEF Tiers
  <2> QED BY <1>0, <2>1, <2>2, Distinct DEF In, Queues
<1>3. CASE "fs" \notin attached /\ "net" \in attached
  <2>1. Loader("fs", attached) = <<>> /\ Loader("net", attached) = <<"net">>
    BY <1>3 DEF Loader
  <2>2. attached = {"net"}
    BY <1>3 DEF Tiers
  <2> QED BY <1>0, <2>1, <2>2, Distinct DEF In, Queues
<1>4. CASE "fs" \notin attached /\ "net" \notin attached
  <2>1. Loader("fs", attached) = <<>> /\ Loader("net", attached) = <<>>
    BY <1>4 DEF Loader
  <2>2. attached = {}
    BY <1>4 DEF Tiers
  <2> QED BY <1>0, <2>1, <2>2, Distinct DEF In, Queues
<1> QED BY <1>1, <1>2, <1>3, <1>4

-----------------------------------------------------------------------------
(* The layout part of a launch behaves as LandlockLayout says.                 *)

LEMMA StepsOfTheLayout == ASSUME [Next]_vars PROVE [LayoutNext]_layoutVars
<1>1. CASE Prepare
  <2>1. CASE UNCHANGED layoutVars
    BY <2>1
  <2>2. CASE \E roots \in {{}, given.derived} : Enter(roots)
    BY <2>2 DEF LayoutNext
  <2> QED BY <1>1, <2>1, <2>2 DEF Prepare
<1>2. CASE Build
  BY <1>2 DEF Build, LayoutNext
<1>3. CASE Built
  BY <1>3 DEF Built
<1>4. CASE CreateRuleset
  BY <1>4 DEF CreateRuleset
<1>5. CASE MakeProbe
  BY <1>5 DEF MakeProbe
<1>6. CASE Prove
  BY <1>6 DEF Prove
<1>7. CASE Verdict
  BY <1>7 DEF Verdict
<1>8. CASE RestrictSelf
  BY <1>8 DEF RestrictSelf
<1>9. CASE Engine
  BY <1>9 DEF Engine, SkipTier, AskChild, Emit, Rewrite
<1>10. CASE Launch
  BY <1>10 DEF Launch, StartLoader, LoaderFails, Applied, Declined, Crash, ExecPayload, End
<1>11. CASE Disturb
  BY <1>11 DEF Disturb, LayoutNext
<1>12. CASE UNCHANGED vars
  BY <1>12 DEF vars
<1> QED
  BY <1>1, <1>2, <1>3, <1>4, <1>5, <1>6, <1>7, <1>8, <1>9, <1>10, <1>11, <1>12 DEF Next, Apply

\* Whatever a launch does, its computations of the layout are those of LandlockLayout.
THEOREM ImplementsLayout == Spec => LayoutSpec
<1>1. Init => LayoutInit
  BY DEF Init
<1> QED BY <1>1, StepsOfTheLayout, PTL DEF Spec, LayoutSpec

\* Surfaces are withheld in every launch: the property of the layout, which nothing
\* that goes on around it disturbs.
THEOREM LaunchWithholdsSurfaces == Spec => []InnerSurfacesWithheld
BY ImplementsLayout, SurfacesAreWithheld, PTL

\* Nor does any of those processes lose what is beside the surfaces.
THEOREM LaunchKeepsWorkdir == Spec => []WorkdirStaysWritable
BY ImplementsLayout, SplittingLosesNothing, PTL

-----------------------------------------------------------------------------
(* The invariant.  A tier that is on is at every moment stated to be missing,   *)
(* or held, or still to be dealt with.                                          *)

Busy   == Applying \cup {"applied", "declined", "raised"}
Asking == pc = "engine" \/ who = "probe"

TierTypes ==
  /\ setup \in Setup
  /\ pc \in Steps
  /\ who \in {"probe", "loader"}
  /\ queue \in Queues
  /\ tails \in SUBSET Tiers /\ claimed \in SUBSET Tiers /\ stated \in SUBSET Tiers
  /\ domain \in [Processes -> SUBSET Tiers]
  /\ proof \in {"none", "0", "1"}
  /\ probe \in BOOLEAN /\ litter \in BOOLEAN
  /\ outcome \in {"none", "ran", "crashed", "not started"}

Order ==
  /\ pc \in Busy => queue # <<>>
  /\ pc \in {"chain", "done"} => who = "loader"
  /\ Asking => claimed = {}
  /\ outcome = "ran" => pc = "done" /\ queue = <<>>
  /\ probe => pc \in {"ruleset", "prove", "verdict"}
  /\ pc = "ruleset" /\ probe => tier # "fs"

\* A claim rests on a proof of the tier that is being applied.
Proved ==
  /\ pc \in {"verdict", "restrict"} /\ proof = "1" => tier \in setup.enforces
  /\ pc = "restrict" => proof = "1"

Held ==
  /\ domain["engine"] = {}
  /\ domain["loader"] = claimed \cup (IF pc = "applied" /\ who = "loader" THEN {tier} ELSE {})

Accounted == setup.on \subseteq stated \cup In(queue) \cup (IF Asking THEN tails ELSE claimed)

TierInv == TierTypes /\ Order /\ Proved /\ Held /\ Accounted

\* What the invariant gives of the tier that is being dealt with.
LEMMA Current ==
  ASSUME TierInv, queue # <<>>
  PROVE  /\ tier \in Tiers /\ Tail(queue) \in Queues
         /\ In(queue) = {tier} \cup In(Tail(queue))
BY Taken DEF TierInv, TierTypes, tier

LEMMA InitInv == Init => TierInv
<1> SUFFICES ASSUME Init PROVE TierInv
  OBVIOUS
<1>1. setup \in Setup /\ setup.on \in SUBSET Tiers /\ setup.readable \in SUBSET Tiers
  <2>1. given \in Scenarios
    BY DEF Init, LayoutInit
  <2>2. setup \in Setup
    BY <2>1, SetupAssumption DEF Init
  <2> QED BY <2>2 DEF Setup
<1>2. domain = [p \in Processes |-> {}] /\ claimed = {} /\ tails = {} /\ who = "loader"
      /\ outcome = "none" /\ probe = FALSE /\ litter = FALSE /\ proof = "none"
  BY DEF Init
<1>3. CASE setup.by = "engine"
  <2>1. pc = "engine" /\ queue = <<"fs", "net">> /\ stated = {}
    BY <1>3 DEF Init
  <2>2. queue \in Queues /\ In(queue) = Tiers
    BY <2>1, Distinct DEF Queues, In, Tiers
  <2> QED BY <1>1, <1>2, <2>1, <2>2
          DEF TierInv, TierTypes, Order, Proved, Held, Accounted, Asking, Steps, Busy, Applying,
              Processes
<1>4. CASE setup.by # "engine"
  <2>1. /\ pc = "chain" /\ queue = EgressOutermost(setup.on \cap setup.readable)
        /\ stated = setup.on \ setup.readable
    BY <1>4 DEF Init
  <2>2. queue \in Queues /\ In(queue) = setup.on \cap setup.readable
    BY <1>1, <2>1, Attaching DEF EgressOutermost
  <2> QED BY <1>1, <1>2, <2>1, <2>2
          DEF TierInv, TierTypes, Order, Proved, Held, Accounted, Asking, Steps, Busy, Applying,
              Processes
<1> QED BY <1>3, <1>4

\* While a tier is applied only these change.
LEMMA ApplyInv == ASSUME TierInv, Apply PROVE TierInv'
<1>1. CASE Prepare
  BY <1>1 DEF Prepare, Goto, procVars, tier, TierInv, TierTypes, Order, Proved, Held, Accounted,
              Asking, Steps, Busy, Applying
<1>2. CASE Build
  BY <1>2 DEF Build, tierVars, procVars, tier, TierInv, TierTypes, Order, Proved, Held, Accounted,
              Asking
<1>3. CASE Built
  BY <1>3 DEF Built, Goto, procVars, tier, TierInv, TierTypes, Order, Proved, Held, Accounted,
              Asking, Steps, Busy, Applying
<1>4. CASE CreateRuleset
  <2>1. /\ pc = "ruleset" /\ pc' \in {"host", "prove", "declined"}
        /\ UNCHANGED <<setup, who, queue, tails, stated, outcome, domain, claimed, proof, litter>>
    BY <1>4 DEF CreateRuleset, Goto
  <2>2. probe' \in BOOLEAN /\ (probe' => pc' = "prove")
    <3>1. CASE probe' = FALSE
      BY <3>1
    <3>2. CASE UNCHANGED probe /\ pc' = IF tier = "fs" THEN "host" ELSE "prove"
      BY <2>1, <3>2 DEF TierInv, TierTypes, Order
    <3> QED BY <1>4, <3>1, <3>2 DEF CreateRuleset, Goto
  <2> QED BY <2>1, <2>2
          DEF tier, TierInv, TierTypes, Order, Proved, Held, Accounted, Asking, Steps, Busy,
              Applying
<1>5. CASE MakeProbe
  <2>1. /\ pc = "host" /\ pc' \in {"ruleset", "prove", "declined", "raised"}
        /\ UNCHANGED <<setup, who, queue, tails, stated, outcome, domain, claimed, proof>>
    BY <1>5 DEF MakeProbe, Goto
  <2>2. probe = FALSE
    BY <2>1 DEF TierInv, TierTypes, Order
  <2>3. litter' \in BOOLEAN
    BY <1>5 DEF MakeProbe, MayLitter, TierInv, TierTypes
  <2>4. /\ probe' \in BOOLEAN /\ (probe' => pc' \in {"ruleset", "prove"})
        /\ pc' = "ruleset" => tier # "fs"
    <3>1. CASE probe' = TRUE /\ pc' = IF tier = "fs" THEN "prove" ELSE "ruleset"
      BY <3>1
    <3>2. CASE UNCHANGED probe /\ pc' \in {"declined", "raised"}
      BY <2>2, <3>2
    <3> QED BY <1>5, <3>1, <3>2 DEF MakeProbe, Goto
  <2> QED BY <2>1, <2>3, <2>4
          DEF tier, TierInv, TierTypes, Order, Proved, Held, Accounted, Asking, Steps, Busy,
              Applying
<1>6. CASE Prove
  BY <1>6 DEF Prove, Discard, MayLitter, Goto, tier, TierInv, TierTypes, Order, Proved, Held, Accounted,
              Asking, Steps, Busy, Applying
<1>7. CASE Verdict
  BY <1>7 DEF Verdict, Discard, MayLitter, Goto, tier, TierInv, TierTypes, Order, Proved, Held, Accounted,
              Asking, Steps, Busy, Applying
<1>8. CASE RestrictSelf
  <2>1. queue # <<>> /\ proof = "1" /\ pc = "restrict"
    BY <1>8 DEF RestrictSelf, TierInv, Order, Proved, Busy, Applying
  <2>2. tier \in Tiers /\ setup.enforces \cap {tier} = {tier}
    BY <2>1, Current DEF TierInv, Proved
  <2>3. /\ domain' \in [Processes -> SUBSET Tiers]
        /\ domain'["engine"] = {}
        /\ domain'["loader"] = claimed \cup (IF pc' = "applied" /\ who = "loader" THEN {tier} ELSE {})
    <3>1. CASE UNCHANGED domain /\ pc' = "declined"
      BY <2>1, <3>1 DEF TierInv, TierTypes, Held
    <3>2. CASE domain' = [domain EXCEPT ![who] = @ \cup {tier}] /\ pc' = "applied"
      BY <2>1, <2>2, <3>2 DEF TierInv, TierTypes, Held, Processes
    <3> QED BY <1>8, <2>2, <3>1, <3>2 DEF RestrictSelf, Goto
  <2> QED BY <1>8, <2>1, <2>3
          DEF RestrictSelf, Goto, tier, TierInv, TierTypes, Order, Proved, Held, Accounted,
              Asking, Steps, Busy, Applying
<1> QED BY <1>1, <1>2, <1>3, <1>4, <1>5, <1>6, <1>7, <1>8 DEF Apply

LEMMA EngineInv == ASSUME TierInv, Engine PROVE TierInv'
<1>1. CASE SkipTier
  <2>1. /\ In(queue) = {tier} \cup In(Tail(queue)) /\ Tail(queue) \in Queues
        /\ tier \notin setup.on
    BY <1>1, Current DEF SkipTier
  <2> QED BY <1>1, <2>1
          DEF SkipTier, Settle, procVars, TierInv, TierTypes, Order, Proved, Held, Accounted,
              Asking, Steps, Busy, Applying
<1>2. CASE AskChild
  <2>1. /\ In(queue) = {tier} \cup In(Tail(queue)) /\ Tail(queue) \in Queues
        /\ tier \in Tiers /\ pc = "engine" /\ queue # <<>>
    BY <1>2, Current DEF AskChild
  <2>2. CASE pc' = "prepare"
    BY <1>2, <2>1, <2>2
       DEF AskChild, tier, TierInv, TierTypes, Order, Proved, Held, Accounted, Asking, Steps,
           Busy, Applying, Processes
  <2>3. CASE pc' = "engine"
    BY <1>2, <2>1, <2>3
       DEF AskChild, TierInv, TierTypes, Order, Proved, Held, Accounted, Asking, Steps, Busy,
           Applying
  <2> QED BY <1>2, <2>2, <2>3 DEF AskChild
<1>3. CASE Emit
  <2>1. queue # <<>>
    BY <1>3 DEF Emit, TierInv, Order, Busy
  <2>2. /\ In(queue) = {tier} \cup In(Tail(queue)) /\ Tail(queue) \in Queues
        /\ tier \in Tiers
    BY <2>1, Current
  <2>3. tails' \cup stated' = tails \cup stated \cup {tier}
    BY <1>3 DEF Emit
  <2>4. tails' \in SUBSET Tiers /\ stated' \in SUBSET Tiers
    BY <1>3, <2>2 DEF Emit, TierInv, TierTypes
  <2>5. who = "probe" /\ who' = who /\ pc' = "engine" /\ queue' = Tail(queue)
        /\ UNCHANGED <<setup, outcome, procVars>>
    BY <1>3 DEF Emit, Settle
  <2>6. TierTypes' /\ Proved'
    BY <2>2, <2>4, <2>5 DEF procVars, TierInv, TierTypes, Proved, Steps
  <2>7. pc \in Busy /\ Asking /\ Asking' /\ probe = FALSE
    BY <1>3, <2>5 DEF Emit, Asking, Busy, TierInv, TierTypes, Order
  <2>8. Order' /\ Held'
    BY <2>5, <2>7 DEF procVars, TierInv, Order, Held, Asking, Busy, Applying
  <2>9. Accounted'
    <3>1. setup.on \subseteq stated \cup In(queue) \cup tails
      BY <2>7 DEF TierInv, Accounted
    <3>2. setup.on \subseteq stated' \cup In(queue') \cup tails'
      BY <2>2, <2>3, <2>5, <3>1
    <3> QED BY <2>5, <2>7, <3>2 DEF Accounted
  <2> QED BY <2>6, <2>8, <2>9 DEF TierInv
<1>4. CASE Rewrite
  <2>1. queue' \in Queues /\ In(queue') = tails /\ In(queue) = {}
    BY <1>4, Attaching, Distinct DEF Rewrite, TierInv, TierTypes, In
  <2> QED BY <1>4, <2>1
          DEF Rewrite, procVars, TierInv, TierTypes, Order, Proved, Held, Accounted, Asking,
              Steps, Busy, Applying
<1> QED BY <1>1, <1>2, <1>3, <1>4 DEF Engine

LEMMA LaunchInv == ASSUME TierInv, Launch PROVE TierInv'
<1>1. CASE StartLoader
  <2>1. /\ In(queue) = {tier} \cup In(Tail(queue)) /\ Tail(queue) \in Queues
        /\ tier \in Tiers /\ pc = "chain" /\ queue # <<>>
    BY <1>1, Current DEF StartLoader
  <2> QED BY <1>1, <2>1
          DEF StartLoader, TierInv, TierTypes, Order, Proved, Held, Accounted, Asking, Steps,
              Busy, Applying
<1>2. CASE LoaderFails
  BY <1>2 DEF LoaderFails, End, procVars, TierInv, TierTypes, Order, Proved, Held, Accounted,
              Asking, Steps, Busy, Applying
<1>3. CASE Applied
  <2>1. queue # <<>>
    BY <1>3 DEF Applied, TierInv, Order, Busy
  <2>2. /\ In(queue) = {tier} \cup In(Tail(queue)) /\ Tail(queue) \in Queues
        /\ tier \in Tiers
    BY <2>1, Current
  <2> QED BY <1>3, <2>2
          DEF Applied, Settle, TierInv, TierTypes, Order, Proved, Held, Accounted, Asking, Steps,
              Busy, Applying
<1>4. CASE Declined
  <2>1. queue # <<>>
    BY <1>4 DEF Declined, TierInv, Order, Busy
  <2>2. /\ In(queue) = {tier} \cup In(Tail(queue)) /\ Tail(queue) \in Queues
        /\ tier \in Tiers
    BY <2>1, Current
  <2> QED BY <1>4, <2>2
          DEF Declined, Settle, procVars, TierInv, TierTypes, Order, Proved, Held, Accounted,
              Asking, Steps, Busy, Applying
<1>5. CASE Crash
  BY <1>5 DEF Crash, End, procVars, TierInv, TierTypes, Order, Proved, Held, Accounted,
              Asking, Steps, Busy, Applying
<1>6. CASE ExecPayload
  BY <1>6 DEF ExecPayload, End, procVars, TierInv, TierTypes, Order, Proved, Held, Accounted,
              Asking, Steps, Busy, Applying
<1> QED BY <1>1, <1>2, <1>3, <1>4, <1>5, <1>6 DEF Launch

LEMMA NextInv == ASSUME TierInv, [Next]_vars PROVE TierInv'
<1>1. CASE UNCHANGED tierVars
  BY <1>1 DEF tierVars, procVars, tier, TierInv, TierTypes, Order, Proved, Held, Accounted,
              Asking
<1>2. Disturb \/ UNCHANGED vars => UNCHANGED tierVars
  BY DEF Disturb, vars
<1> QED BY <1>1, <1>2, ApplyInv, EngineInv, LaunchInv DEF Next

LEMMA Invariant == Spec => []TierInv
<1> QED BY InitInv, NextInv, PTL DEF Spec

-----------------------------------------------------------------------------

\* Every variable of the tiers and of the layout keeps to its values.
THEOREM TierTypeCorrect == Spec => []TypeOK
<1>1. ASSUME NEW q \in Queues PROVE q \in Seq(Tiers)
  <2>1. /\ <<>> \in Seq(Tiers) /\ <<"fs">> \in Seq(Tiers) /\ <<"net">> \in Seq(Tiers)
        /\ <<"fs", "net">> \in Seq(Tiers) /\ <<"net", "fs">> \in Seq(Tiers)
    BY DEF Tiers
  <2> QED BY <1>1, <2>1 DEF Queues
<1>2. LayoutTypeOK /\ TierInv => TypeOK
  BY <1>1 DEF TypeOK, TierInv, TierTypes, Processes
<1> QED BY <1>2, ImplementsLayout, LayoutTypeCorrect, Invariant, PTL

\* Asking whether a tier can be applied never restricts the engine itself, and the probe
\* of a proof has been removed, as far as it could be, before anything else runs.
THEOREM ProofsAreUndone == Spec => []ProvingIsUndone
<1>1. TierInv => ProvingIsUndone
  BY DEF TierInv, TierTypes, Held, Order, ProvingIsUndone, Applying
<1> QED BY <1>1, Invariant, PTL

\* The command is held to the tiers that were reported as applied and no others.
THEOREM ClaimsAreTrue == Spec => []DomainIsWhatIsClaimed
<1>1. TierInv => DomainIsWhatIsClaimed
  BY DEF TierInv, Held, DomainIsWhatIsClaimed
<1> QED BY <1>1, Invariant, PTL

\* No tier that is on is missing from the command that runs without a word.
THEOREM NoTierSilentlyMissing == Spec => []MissingTierIsStated
<1>1. TierInv => MissingTierIsStated
  <2> SUFFICES ASSUME TierInv, outcome = "ran"
               PROVE  setup.on \ domain["loader"] \subseteq stated
    BY DEF MissingTierIsStated
  <2>1. pc = "done" /\ queue = <<>> /\ who = "loader"
    BY DEF TierInv, Order
  <2>2. In(queue) = {}
    BY <2>1, Distinct DEF In
  <2> QED BY <2>1, <2>2 DEF TierInv, Held, Accounted, Asking
<1> QED BY <1>1, Invariant, PTL

-----------------------------------------------------------------------------
(* The order of the wrapper's loaders.                                        *)

\* The wrapper puts the egress loader first and leaves out what the payload
\* cannot read: the file-system tier holds nobody who has a loader to start.
WrapperQueues == {<<>>, <<"fs">>, <<"net">>, <<"net", "fs">>}

FsComesLast ==
  setup.by = "wrapper" =>
    /\ outcome # "not started" /\ pc # "engine" /\ who = "loader"
    /\ queue \in WrapperQueues /\ In(queue) \subseteq setup.readable
    /\ "fs" \in domain["loader"] => queue = <<>> \/ (pc = "applied" /\ queue = <<"fs">>)

LEMMA NextLoader ==
  ASSUME NEW q \in WrapperQueues, q # <<>>
  PROVE  /\ Tail(q) \in WrapperQueues
         /\ In(q) = {Head(q)} \cup In(Tail(q))
         /\ Head(q) = "fs" => q = <<"fs">>
         /\ q = <<"fs">> => Tail(q) = <<>>
<1>1. In(q) = {Head(q)} \cup In(Tail(q))
  BY Taken DEF WrapperQueues, Queues
<1>2. CASE q = <<"fs">>
  <2>1. Tail(q) = <<>>
    BY <1>2
  <2> QED BY <1>1, <1>2, <2>1 DEF WrapperQueues
<1>3. CASE q = <<"net">>
  <2>1. Head(q) = "net" /\ Tail(q) = <<>>
    BY <1>3
  <2> QED BY <1>1, <1>3, <2>1, Distinct DEF WrapperQueues
<1>4. CASE q = <<"net", "fs">>
  <2>1. Head(q) = "net" /\ Tail(q) = <<"fs">>
    BY <1>4
  <2> QED BY <1>1, <1>4, <2>1, Distinct DEF WrapperQueues
<1> QED BY <1>2, <1>3, <1>4 DEF WrapperQueues

LEMMA FsLastInit == Init => FsComesLast
<1> SUFFICES ASSUME Init, setup.by = "wrapper"
             PROVE  /\ outcome # "not started" /\ pc # "engine" /\ who = "loader"
                    /\ queue \in WrapperQueues /\ In(queue) \subseteq setup.readable
                    /\ domain["loader"] = {}
  BY DEF FsComesLast
<1> DEFINE attached == setup.on \cap setup.readable
<1>1. setup.on \in SUBSET Tiers
  BY SetupAssumption DEF Init, LayoutInit, Setup
<1>2. queue = EgressOutermost(attached) /\ In(queue) = attached
  BY <1>1, Attaching DEF Init, EgressOutermost
<1>3. queue \in WrapperQueues
  BY <1>1, <1>2, Attaching DEF EgressOutermost, Queues, WrapperQueues
<1> QED BY <1>2, <1>3 DEF Init, Processes

LEMMA FsLastStep == ASSUME TierInv, FsComesLast, [Next]_vars PROVE FsComesLast'
<1> SUFFICES ASSUME setup'.by = "wrapper" PROVE FsComesLast'
  BY DEF FsComesLast
<1>0. setup' = setup
  BY DEF Next, Apply, Engine, Launch, Disturb, Prepare, Build, Built, CreateRuleset, MakeProbe,
         Prove, Verdict, RestrictSelf, SkipTier, AskChild, Emit, Rewrite, StartLoader,
         LoaderFails, Applied, Declined, Crash, ExecPayload, Goto, Settle, End, vars, tierVars
<1>1. /\ outcome # "not started" /\ pc # "engine" /\ who = "loader"
      /\ queue \in WrapperQueues /\ In(queue) \subseteq setup.readable
      /\ "fs" \in domain["loader"] => queue = <<>> \/ (pc = "applied" /\ queue = <<"fs">>)
  BY <1>0 DEF FsComesLast
<1>2. queue # <<>> => /\ Tail(queue) \in WrapperQueues
                      /\ In(queue) = {tier} \cup In(Tail(queue))
                      /\ tier = "fs" => queue = <<"fs">>
                      /\ queue = <<"fs">> => Tail(queue) = <<>>
  BY <1>1, NextLoader DEF tier
<1>3. CASE Apply /\ ~ RestrictSelf
  <2>1. UNCHANGED <<who, queue, outcome, domain>> /\ pc' # "engine" /\ pc \in Applying
    BY <1>3 DEF Apply, Prepare, Build, Built, CreateRuleset, MakeProbe, Prove, Verdict, Goto,
                tierVars, procVars, Applying
  <2> QED BY <1>0, <1>1, <2>1 DEF FsComesLast, Applying
<1>4. CASE RestrictSelf
  <2>1. /\ UNCHANGED <<who, queue, outcome>> /\ pc = "restrict" /\ pc' \in {"applied", "declined"}
        /\ \/ UNCHANGED domain
           \/ /\ pc' = "applied"
              /\ domain' = [domain EXCEPT ![who] = @ \cup (setup.enforces \cap {tier})]
    BY <1>4 DEF RestrictSelf, Goto
  <2>2. queue # <<>> /\ domain \in [Processes -> SUBSET Tiers]
    BY <2>1 DEF TierInv, TierTypes, Order, Busy, Applying
  <2>3. "fs" \notin domain["loader"]
    BY <1>1, <2>1, <2>2
  <2>4. domain'["loader"] \subseteq domain["loader"] \cup (IF pc' = "applied" THEN {tier} ELSE {})
    BY <1>1, <2>1, <2>2 DEF Processes
  <2>5. "fs" \in domain'["loader"] => pc' = "applied" /\ queue = <<"fs">>
    BY <1>2, <2>2, <2>3, <2>4
  <2> QED BY <1>0, <1>1, <2>1, <2>5 DEF FsComesLast
<1>5. ~ Engine
  BY <1>1 DEF Engine, SkipTier, AskChild, Emit, Rewrite
<1>6. CASE StartLoader
  <2>1. pc = "chain" /\ queue # <<>> /\ pc' # "engine" /\ UNCHANGED <<who, outcome, domain>>
        /\ queue' \in {queue, Tail(queue)}
    BY <1>6 DEF StartLoader
  <2> QED BY <1>0, <1>1, <1>2, <2>1 DEF FsComesLast
<1>7. ~ LoaderFails
  BY <1>1, <1>2 DEF LoaderFails, Startable
<1>8. CASE Applied \/ Declined
  <2>1. /\ pc \in {"applied", "declined"} /\ pc' = "chain" /\ queue' = Tail(queue)
        /\ UNCHANGED <<who, outcome, domain>>
    BY <1>8 DEF Applied, Declined, Settle, procVars
  <2>2. queue # <<>>
    BY <2>1 DEF TierInv, Order, Busy
  <2> QED BY <1>0, <1>1, <1>2, <2>1, <2>2 DEF FsComesLast
<1>9. CASE Crash \/ ExecPayload
  BY <1>0, <1>1, <1>9 DEF Crash, ExecPayload, End, procVars, FsComesLast
<1>10. CASE UNCHANGED tierVars
  BY <1>0, <1>1, <1>10 DEF tierVars, procVars, FsComesLast
<1> QED BY <1>3, <1>4, <1>5, <1>6, <1>7, <1>8, <1>9, <1>10
        DEF Next, Launch, Disturb, vars

\* Whatever tiers, hosts and loaders: no loader of the wrapper's chain is put
\* where an earlier one keeps it from starting.
THEOREM EveryWrapperLoaderStarts == Spec => []WrapperChainStarts
<1>1. FsComesLast => WrapperChainStarts
  BY DEF FsComesLast, WrapperChainStarts
<1> QED BY FsLastInit, FsLastStep, Invariant, <1>1, PTL DEF Spec
===============================================================================

--------------------------- MODULE LandlockLayout ---------------------------
(***************************************************************************)
(* What the Landlock file-system tier grants (interruptor/landlock.py,     *)
(* build_layout): a set of paths, each with everything below it; what no   *)
(* grant covers is denied.  The disk is looked at several times on the     *)
(* way, and other processes go on creating and removing files.             *)
(*                                                                         *)
(* Paths are real paths: symbolic links are resolved before.               *)
(***************************************************************************)
EXTENDS Naturals, FiniteSets

CONSTANTS Paths,       \* the paths of the instance
          Under,       \* [Paths -> SUBSET Paths]: a path and all below it
          Home,        \* HOME
          Surfaces,    \* _CREDENTIAL_SURFACES, as paths
          Exception,   \* .hermes/config.yaml, the file of a surface that is granted
          Writable,    \* the temporary and cache directories and /dev
          Readable,    \* system trees, files of /etc, what a shell reads in HOME
          Toolchains,  \* ~/tools and ~/venvs
          Listable,    \* /etc, and HOME itself
          Scenarios,   \* what is there, and what the process is started with
          MaxEdits     \* a bound: how often others create or remove a file

\* A command that names its interpreter by a path contributes `derived`: the
\* directory, the virtual environment it is of, and the base of that.  `sealed` are
\* the directories that cannot be listed, always or now and then.
Scenario == [files : SUBSET Paths, workdir : Paths, derived : SUBSET Paths,
             sealed : SUBSET Paths]

Above(p) == {q \in Paths : p \in Under[q]}

\* A path exists only in a directory that exists.
Closed(files) == \A p \in files : Above(p) \subseteq files

ASSUME TreeAssumption ==
  /\ Under \in [Paths -> SUBSET Paths]
  /\ \A p \in Paths : p \in Under[p] /\ IsFiniteSet({q \in Paths : p \in Under[q]})
  /\ \A p, q, r \in Paths : q \in Under[p] /\ r \in Under[q] => r \in Under[p]
  /\ \A p, q \in Paths : q \in Under[p] /\ p \in Under[q] => p = q
  /\ \A p, q, r \in Paths : r \in Under[p] /\ r \in Under[q] => q \in Under[p] \/ p \in Under[q]

ASSUME ScenarioAssumption ==
  /\ Scenarios \subseteq Scenario
  /\ \A s \in Scenarios : Closed(s.files)
  /\ MaxEdits \in Nat

\* One path holds the other, or they are the same.
Touch(p, q) == q \in Under[p] \/ p \in Under[q]

\* HOME holds the surfaces, and the paths granted to everybody are elsewhere.  The
\* exception is in a directory.
ASSUME SurfaceAssumption ==
  /\ Home \in Paths /\ Exception \in Paths
  /\ \E q \in Above(Exception) \ {Exception} : Above(Exception) \ {Exception} \subseteq Above(q)
  /\ Surfaces \subseteq Under[Home] \ {Home}
  /\ Writable \subseteq Paths /\ Readable \subseteq Paths /\ Listable \subseteq Paths
  /\ Toolchains \subseteq Paths
  /\ \A s \in Surfaces, p \in Writable \cup Readable : ~ Touch(p, s)

VARIABLES
  files,    \* the paths that exist
  edits,    \* how often others have changed that
  old,      \* those that have existed all the time
  given,    \* the scenario
  derived,  \* what the command line of this process contributes of given.derived
  step,     \* how far build_layout and the opening of its paths have come
  write,    \* write_roots
  own,      \* those that stand for the working directory, until they are merged
  read,     \* read_roots
  list,     \* read_dir_roots
  split,    \* the surfaces inside the working directory
  todo      \* those the grants have still to be split around

disk   == <<files, edits, old>>
layout == <<derived, step, write, own, read, list, split, todo>>
layoutVars == <<disk, given, layout>>

LayoutSteps == {"idle", "write", "read", "plan", "split", "open",
                "granted", "refused", "error"}
Computed == {"open", "granted"}

LayoutTypeOK ==
  /\ files \subseteq Paths /\ old \subseteq files /\ Closed(files)
  /\ edits \in 0..MaxEdits
  /\ given \in Scenarios
  /\ step \in LayoutSteps
  /\ derived \subseteq Paths
  /\ write \subseteq Paths /\ own \subseteq Paths /\ read \subseteq Paths /\ list \subseteq Paths
  /\ split \subseteq Surfaces /\ todo \subseteq split

LayoutInit ==
  /\ given \in Scenarios
  /\ files = given.files /\ old = files /\ edits = 0
  /\ step = "idle" /\ derived = {}
  /\ write = {} /\ own = {} /\ read = {} /\ list = {} /\ split = {} /\ todo = {}

Workdir == given.workdir

\* Another process creates a path where its directory is, or removes an empty one.
Create(p) ==
  /\ p \notin files /\ Above(p) \ {p} \subseteq files
  /\ files' = files \cup {p}
  /\ UNCHANGED old

Remove(p) ==
  /\ Under[p] \cap files = {p}
  /\ files' = files \ {p}
  /\ old' = old \ {p}

Edit ==
  /\ edits < MaxEdits
  /\ edits' = edits + 1
  /\ \E p \in Paths : Create(p) \/ Remove(p)
  /\ UNCHANGED <<given, layout>>

-----------------------------------------------------------------------------
(* build_layout                                                              *)

Resting == {"idle", "granted", "refused", "error"}

Enter(roots) ==
  /\ step \in Resting /\ step' = "write"
  /\ derived' = roots
  /\ write' = {} /\ own' = {} /\ read' = {} /\ list' = {} /\ split' = {} /\ todo' = {}
  /\ UNCHANGED <<disk, given>>

\* The working directory is gone, or HOME is not set.
Refuse ==
  /\ step = "write"
  /\ step' = "refused"
  /\ UNCHANGED <<disk, given, derived, write, own, read, list, split, todo>>

GrantWrites ==
  /\ step = "write"
  /\ Workdir \in files
  /\ write' = (Writable \cap files) \ {Workdir}
  /\ step' = "read"
  /\ UNCHANGED <<disk, given, derived, own, read, list, split, todo>>

\* A bug it could have: a root is dropped when it lies in a surface, but not when
\* a surface lies in it.
RootsNotInSurfaces ==
  {r \in (derived \cup Toolchains) \cap Under[Home] \cap files :
     \A s \in Surfaces \cap files : r \notin Under[s]}

\* Roots that let an interpreter below HOME start, away from every surface that
\* exists.
ToolchainRoots ==
  {r \in (derived \cup Toolchains) \cap Under[Home] \cap files :
     \A s \in Surfaces \cap files : ~ Touch(r, s)}

Parent(p) == CHOOSE q \in Above(p) \ {p} : Above(p) \ {p} \subseteq Above(q)

\* The documented exception brings its directory's listing with it.
GrantReads ==
  /\ step = "read"
  /\ LET config == {Exception} \cap files
     IN  /\ read' = (((Readable \cap files) \cup config) \cup ToolchainRoots) \ write
         /\ list' = ((Listable \cap files) \cup {Parent(p) : p \in config}) \ write
  /\ step' = "plan"
  /\ UNCHANGED <<disk, given, derived, write, own, split, todo>>

\* HOME itself is no working directory.  Otherwise the surfaces inside it are to be
\* taken out of its grant.
RefuseHome ==
  /\ step = "plan"
  /\ Workdir = Home
  /\ step' = "refused"
  /\ UNCHANGED <<disk, given, derived, write, own, read, list, split, todo>>

InsideWorkdir(surfaces) == {s \in surfaces \ {Workdir} : s \in Under[Workdir]}

PlanSplit ==
  /\ step = "plan"
  /\ Workdir # Home
  /\ split' = InsideWorkdir(Surfaces \cap files)
  /\ todo' = split'
  /\ own' = {Workdir}
  /\ step' = "split"
  /\ UNCHANGED <<disk, given, derived, write, read, list>>

Children(p) == {q \in Under[p] \ {p} : \A r \in Under[p] \ {p} : q \in Under[r] => r = q}

\* A bug it could have: only the directory of the surface is split up, and the rest
\* of the grant is lost.
AroundDeepest(grant, surface, unlisted) ==
  {q \in Children(Parent(surface)) \cap files : surface \notin Under[q]}

\* What is beside the way from the grant down to the surface, at every level of it
\* down to the first directory that cannot be listed: the rest is left out.
Around(grant, surface, unlisted) ==
  UNION {{q \in Children(p) \cap files : surface \notin Under[q]} :
         p \in {p \in Under[grant] : /\ surface \in Under[p] \ {p}
                                    /\ \A d \in unlisted \cap Under[grant] : p \notin Under[d]}}

\* The grants around one more surface; one that lies in another comes before it.
SplitAround(s) ==
  /\ step = "split" /\ s \in todo
  /\ todo \cap Under[s] = {s}
  /\ \E unlisted \in SUBSET (given.sealed \cap Above(s)) :
       own' = {g \in own : s \notin Under[g]}
              \cup UNION {Around(g, s, unlisted) : g \in {h \in own : s \in Under[h]}}
  /\ todo' = todo \ {s}
  /\ UNCHANGED <<disk, given, derived, step, write, read, list, split>>

\* What is not there any more is dropped.
MergeWrites ==
  /\ step = "split" /\ todo = {}
  /\ write' = (write \cup own) \cap files
  /\ step' = "open"
  /\ UNCHANGED <<disk, given, derived, own, read, list, split, todo>>

\* _build_rules_fd opens every path.
Open ==
  /\ step = "open"
  /\ step' = IF write \cup read \cup list \subseteq files THEN "granted" ELSE "error"
  /\ UNCHANGED <<disk, given, derived, write, own, read, list, split, todo>>

BuildStep == \/ Refuse \/ GrantWrites \/ GrantReads \/ RefuseHome \/ PlanSplit
             \/ (\E s \in Surfaces : SplitAround(s)) \/ MergeWrites \/ Open

LayoutNext == \/ \E roots \in {{}, given.derived} : Enter(roots)
              \/ BuildStep \/ Edit

LayoutSpec == LayoutInit /\ [][LayoutNext]_layoutVars

-----------------------------------------------------------------------------
(* Properties                                                                *)

Granted == step \in Computed

\* A surface that is there all the time, with no other surface in it, is neither
\* granted nor in a grant nor around one, whatever the working directory has been
\* split around and whatever else comes and goes; unless the process was started
\* inside it.  Of ~/.hermes one file is granted.
InnerSurfacesWithheld ==
  Granted => \A s \in Surfaces \cap old :
    Workdir \notin Under[s] /\ Surfaces \cap Under[s] = {s} =>
      \A g \in write \cup (read \ {Exception}) : ~ Touch(g, s)

\* What splitting around a surface may lose: the surface and the way to it, and what
\* is in a directory on that way that could not be listed (landlock.py:1077, 1086).
MayLose(p, s) ==
  Touch(p, s) \/ \E d \in given.sealed \cap Under[Workdir] : {p, s} \subseteq Under[d]

\* Splitting loses nothing else: what is in the working directory all the time can be
\* written.
WorkdirStaysWritable ==
  Granted => \A p \in Under[Workdir] \cap old :
    (\A s \in split : ~ MayLose(p, s)) => \E g \in write : p \in Under[g]

\* landlock.py:1022-1023: "grants that cover the workdir MINUS the surface", for
\* every surface inside the working directory.
SurfacesTakenOut ==
  Granted => \A s \in split : \A g \in write : ~ Touch(g, s)

=============================================================================

------------------------------ MODULE Teardown ------------------------------
(* scripts/kernel-matrix-teardown.py: does a jailed payload die with its       *)
(* wrapper?  A cell starts the wrapper with `sleep 300`, takes a new `sleep    *)
(* 300` of /proc for its payload, kills the wrapper and watches.  A gate run   *)
(* measures one cell and turns it into an exit status, a matrix run adds rows  *)
(* imported from other kernels.  The jail, the kernel's teardown and whoever   *)
(* else sleeps on the host move on their own; a timeout may expire just before *)
(* the answer it waits for.                                                    *)
EXTENDS Integers, Sequences, FiniteSets, FiniteSetsExt, Selection

CONSTANTS
    KernelNames,        \* the kernels of the matrix
    ThisKernel,         \* the kernel of this host
    Imports,            \* the files --import may be given: sequences of raw rows
    MinKernels          \* MIN_KERNELS_FOR_MATRIX

VARIABLES
    run,        \* the harness
    rows,       \* the rows of the matrix so far
    jail,       \* the payload of the current cell
    wrapper,    \* the launcher of the current cell
    others,     \* other `sleep 300` processes alive: an earlier cell's, a stranger's
    foreign     \* a stranger's sleep started during this run

teardownVars == <<run, rows, jail, wrapper, others, foreign>>

Backends == {"bwrap", "unshare"}
Verdicts == {"PASS", "FAIL", "UNMEASURED", "UNAVAILABLE"}
LiveVerdicts == {"PASS", "FAIL"}

\* A row as a file may hold it: "other" is whatever is not looked for in a field.
RawRow ==
    [kernel : KernelNames, backend : Backends \cup {"other"}, verdict : Verdicts \cup {"other"},
     survival : {"null", "number", "other"}, exit : {"null", "int", "other"}]

\* Imports are files of rows, of this kernel and others.
ASSUME TeardownAssumption ==
    ThisKernel \in KernelNames /\ Imports \subseteq Seq(RawRow) /\ MinKernels \in Nat

---------------------------------------------------------------------------
\* validate_row: numbers for PASS and FAIL, nulls for the other two.
ValidateRow(row) ==
    /\ row.backend \in Backends /\ row.verdict \in Verdicts
    /\ IF row.verdict \in LiveVerdicts THEN row.survival = "number" /\ row.exit = "int"
       ELSE row.survival = "null" /\ row.exit = "null"

\* Malformed rows never enter the matrix.
LoadImport(file) == Selects(file, {i \in Lines(file) : ValidateRow(file[i])})

\* The row of a cell: the last one of the rows, which are sorted stably.
CellRows(rs, kernel, backend) ==
    {i \in Lines(rs) : rs[i].kernel = kernel /\ rs[i].backend = backend}
HasCell(rs, kernel, backend) == CellRows(rs, kernel, backend) # {}
Cell(rs, kernel, backend) == rs[Max(CellRows(rs, kernel, backend))]

Kernels(rs) == {rs[i].kernel : i \in Lines(rs)}
CompleteKernels(rs) ==
    {k \in Kernels(rs) :
        \A b \in Backends : HasCell(rs, k, b) /\ Cell(rs, k, b).verdict \in LiveVerdicts}
Failures(rs) ==
    {c \in CompleteKernels(rs) \X Backends :
        HasCell(rs, c[1], c[2]) /\ Cell(rs, c[1], c[2]).verdict = "FAIL"}
MatrixGreen(rs) == Cardinality(CompleteKernels(rs)) >= MinKernels /\ Failures(rs) = {}

GateVerdict(rs) ==
    LET live == {i \in Lines(rs) : rs[i].kernel = ThisKernel}
    IN IF live = {} THEN "SKIP"
       ELSE IF \E i \in live : rs[i].verdict = "FAIL" THEN "FAIL"
       ELSE IF \E i \in live : rs[i].verdict # "PASS" THEN "SKIP" ELSE "PASS"

---------------------------------------------------------------------------
\* The `sleep 300` of others: older than the run, of an earlier cell, a stranger's.
Strangers == {"old", "stray", "stranger"}
Sleepers == others \cup (IF jail = "up" THEN {"mine"} ELSE {})
NoRun == [mode |-> "none", pc |-> "idle", left |-> <<>>, before |-> {}, payload |-> "none",
         last |-> "none", verdict |-> "none", exit |-> 0]

\* The backends of this host that the import says nothing of, in the order of BACKENDS.
ToMeasure(rs) ==
    LET queue == <<"bwrap", "unshare">>
    IN Selects(queue, {i \in Lines(queue) : ~HasCell(rs, ThisKernel, queue[i])})

\* run_gate measures unshare; main measures what the import does not have.
Begin ==
    /\ run.pc = "idle"
    /\ \/ run' = [NoRun EXCEPT !.mode = "gate", !.pc = "next", !.left = <<"unshare">>] /\ rows' = <<>>
       \/ \E file \in Imports :
            /\ rows' = LoadImport(file)
            /\ run' = [NoRun EXCEPT !.mode = "matrix", !.pc = "next",
                         !.left = ToMeasure(rows')]
    /\ UNCHANGED <<jail, wrapper, others, foreign>>

\* _measured_row asserts that the row it made is valid.
Measured(verdict, survival, exit) ==
    LET row == [kernel |-> ThisKernel, backend |-> Head(run.left), verdict |-> verdict,
                survival |-> survival, exit |-> exit]
    IN IF ValidateRow(row)
       THEN /\ rows' = Append(rows, row)
            /\ run' = [run EXCEPT !.pc = "next", !.left = Tail(@), !.last = verdict]
       ELSE /\ run' = [run EXCEPT !.pc = "crashed", !.exit = 1]
            /\ UNCHANGED rows

\* A cell: scan /proc, start the wrapper.  A jail of an earlier cell that is
\* still alive is a process like any other.
Launch ==
    /\ run.pc = "next" /\ run.left # <<>>
    /\ others' = others \cup (IF jail = "up" THEN {"stray"} ELSE {})
    /\ \/ /\ jail' = "starting" /\ wrapper' = "up"
          /\ run' = [run EXCEPT !.pc = "wait", !.before = others']
          /\ UNCHANGED rows
       \/ /\ jail' = "none" /\ wrapper' = "none"
          /\ Measured("UNAVAILABLE", "null", "null")
    /\ UNCHANGED foreign

\* min(new) is the lowest pid, which may be anyone's.
Found ==
    /\ run.pc = "wait"
    /\ \E pid \in Sleepers \ run.before : run' = [run EXCEPT !.pc = "kill", !.payload = pid]
    /\ UNCHANGED <<rows, jail, wrapper, others, foreign>>

\* LAUNCH_WAIT is over; a payload may still have come up since the last look.
WaitExpires ==
    /\ run.pc = "wait"
    /\ wrapper' = "dead"
    /\ Measured("UNAVAILABLE", "null", "int")
    /\ UNCHANGED <<jail, others, foreign>>

KillWrapper ==
    /\ run.pc = "kill"
    /\ wrapper' = "dead" /\ run' = [run EXCEPT !.pc = "watch"]
    /\ UNCHANGED <<rows, jail, others, foreign>>

Disappeared ==
    /\ run.pc = "watch" /\ run.payload \notin Sleepers
    /\ Measured("PASS", "number", "int")
    /\ UNCHANGED <<jail, wrapper, others, foreign>>

\* A bug to be caught: the orphan is reported and left alive.
BudgetExpiresOnly ==
    /\ run.pc = "watch"
    /\ UNCHANGED <<jail, others>>
    /\ Measured("FAIL", "number", "int")
    /\ UNCHANGED <<wrapper, foreign>>
\* TEARDOWN_BUDGET is over: the payload is killed and the row says FAIL.
BudgetExpires ==
    /\ run.pc = "watch"
    /\ jail' = IF run.payload = "mine" THEN "gone" ELSE jail
    /\ others' = others \ {run.payload}
    /\ Measured("FAIL", "number", "int")
    /\ UNCHANGED <<wrapper, foreign>>

Finish ==
    /\ run.pc = "next" /\ run.left = <<>>
    /\ run' = IF run.mode = "gate"
              THEN [run EXCEPT !.pc = "done", !.verdict = GateVerdict(rows),
                               !.exit = IF GateVerdict(rows) = "FAIL" THEN 1 ELSE 0]
              ELSE [run EXCEPT !.pc = "done", !.verdict = IF MatrixGreen(rows) THEN "GREEN" ELSE "NOT GREEN"]
    /\ UNCHANGED <<rows, jail, wrapper, others, foreign>>

---------------------------------------------------------------------------
\* The jail comes up or the wrapper fails closed, the wrapper dead or not; a
\* jail dies only after its wrapper, if the backend's teardown works.
JailStarts == jail = "starting" /\ jail' = "up" /\ UNCHANGED <<run, rows, wrapper, others, foreign>>
JailRefuses == jail = "starting" /\ jail' = "refused" /\ UNCHANGED <<run, rows, wrapper, others, foreign>>
JailDies ==
    /\ jail = "up" /\ wrapper = "dead" /\ jail' = "gone"
    /\ UNCHANGED <<run, rows, wrapper, others, foreign>>
StrangerSleeps ==
    /\ "stranger" \notin others /\ others' = others \cup {"stranger"} /\ foreign' = TRUE
    /\ UNCHANGED <<run, rows, jail, wrapper>>
SleeperEnds ==
    /\ \E pid \in others : others' = others \ {pid}
    /\ UNCHANGED <<run, rows, jail, wrapper, foreign>>

TeardownInit ==
    /\ run = NoRun /\ rows = <<>>
    /\ jail = "none" /\ wrapper = "none" /\ others \in SUBSET {"old"} /\ foreign = FALSE

Host == JailStarts \/ JailRefuses \/ JailDies \/ StrangerSleeps \/ SleeperEnds
Harness ==
    Begin \/ Launch \/ Found \/ WaitExpires \/ KillWrapper \/ Disappeared \/ BudgetExpires \/ Finish
TeardownNext == Host \/ Harness
TeardownSpec == TeardownInit /\ [][TeardownNext]_teardownVars

---------------------------------------------------------------------------
RunType ==
    [mode : {"none", "gate", "matrix"}, pc : {"idle", "next", "wait", "kill", "watch", "done", "crashed"},
     left : Seq(Backends), before : SUBSET Strangers, payload : {"none", "mine"} \cup Strangers,
     last : {"none"} \cup Verdicts, exit : 0 .. 1,
     verdict : {"none", "PASS", "FAIL", "SKIP", "GREEN", "NOT GREEN"}]

\* The types of the variables; every row of the matrix is a valid one.
TeardownTypeOK ==
    /\ run \in RunType
    /\ rows \in Seq(RawRow)
    /\ \A i \in 1 .. Len(rows) : ValidateRow(rows[i])
    /\ jail \in {"none", "starting", "up", "gone", "refused"} /\ wrapper \in {"none", "up", "dead"}
    /\ others \subseteq Strangers /\ foreign \in BOOLEAN

\* A cell that measured something saw its own payload, and leaves none of it
\* behind, whether it passed or not (unless a stranger's `sleep 300` started
\* meanwhile and was taken for it); one that measured nothing started nothing.
CellEndsClean ==
    run.pc = "next" /\ run.last # "none" /\ ~foreign =>
        jail = IF run.last \in LiveVerdicts THEN "gone" ELSE "none"

\* Where no stranger's `sleep 300` started during the run, exit status 0 of the gate
\* is never given on a host where the payload of the gate outlives its wrapper, and a
\* PASS is one that was observed.
GateZeroMeansNoOrphan ==
    run.mode = "gate" /\ run.pc = "done" /\ run.exit = 0 /\ ~foreign =>
        jail \notin {"starting", "up"} /\ (run.verdict = "PASS" => jail = "gone")

\* A green matrix rests on both backends of at least three kernels, each with a
\* PASS row that carries numbers: no UNAVAILABLE, UNMEASURED or malformed row
\* and no half-measured kernel ever makes it green.
GreenNeedsMeasuredPairs ==
    run.pc = "done" /\ run.verdict = "GREEN" =>
        \E ks \in SUBSET Kernels(rows) :
            /\ Cardinality(ks) >= MinKernels
            /\ \A k \in ks, b \in Backends :
                 \E i \in 1 .. Len(rows) :
                    rows[i] = [kernel |-> k, backend |-> b, verdict |-> "PASS",
                               survival |-> "number", exit |-> "int"]

\* What the harness reports was measured: its green matrix rests on rows with numbers,
\* and, unless a stranger's `sleep 300` starts during the run, its cells are clean and
\* its gate's zero rests on a payload that is not there.
VerdictsAreMeasured == TeardownTypeOK /\ CellEndsClean /\ GateZeroMeansNoOrphan /\ GreenNeedsMeasuredPairs

\* What run_gate says of its exit status: 1 only for an orphan that was observed.
GateFailsOnlyOnAnOrphan == run.mode = "gate" /\ run.exit = 1 => GateVerdict(rows) = "FAIL"

\* run_backend_cell, kernel-matrix-teardown.py:244: "Never guesses: a launch failure is
\* UNAVAILABLE, a surviving payload is FAIL".  The payload is the new `sleep 300` with
\* the lowest pid, whoever started it.
SurvivingPayloadIsFail ==
    run.pc = "next" /\ run.last # "none" /\ jail = "up" => run.last = "FAIL"

\* What the module says of a green matrix: every measured cell is PASS.
GreenMeansEveryCellPasses ==
    run.pc = "done" /\ run.verdict = "GREEN" => \A i \in 1 .. Len(rows) : rows[i].verdict # "FAIL"
=============================================================================

------------------------------- MODULE Board -------------------------------
(* The canonical task board (a JSONL file, one row per task) and the two tools *)
(* that rewrite it: scripts/board_id_guard.py, which validates, compacts or    *)
(* migrates it and replaces the file in one rename, and normalize-results.py,  *)
(* which writes it in place.  Agents append and edit rows meanwhile; the guard *)
(* holds no lock, reads the file twice and may be killed between any two       *)
(* steps.  A row is the fields the two tools look at.                          *)
EXTENDS Integers, Sequences, FiniteSets, Selection

CONSTANTS
    TaskIds,    \* the ids of tasks
    Boards,     \* the boards a history may start from
    Written,    \* the rows an agent may write
    MaxWrites   \* bound on the writes of the agents

VARIABLES
    board,      \* the rows of the file
    newline,    \* whether its last row ends in a newline; a file of no rows does
    guard,      \* the run of board_id_guard.py
    norm,       \* the run of normalize-results.py
    temps,      \* the hidden temporary files beside the board
    writes      \* the writes of the agents so far

vars == <<board, newline, guard, norm, temps, writes>>

\* Rows scan_bytes cannot use: not JSON, JSON but no object, an object whose
\* id is missing, empty or no string.
Unusable == {"unparsed", "notobject", "noid"}
Priorities == {"P0", "P1", "P2", "P3", "P4", "P5"}
CanonicalStatuses == {"pending", "complete", "blocked"}
\* What a bare integer priority becomes; other integers have no code.
PriorityIntToCode == [n \in {"int0", "int2"} |-> IF n = "int0" THEN "P0" ELSE "P2"]
LegacyStatusAliases == [s \in {"completed"} |-> "complete"]

RowType == [id : Unusable \cup TaskIds,
            priority : Priorities \cup {"int0", "int2", "int9", "null", "word"},
            status : CanonicalStatuses \cup {"completed", "null", "word"},
            evidence : BOOLEAN, superseded : BOOLEAN,
            result : {"code", "prose"}, note : BOOLEAN]

\* Boards and writes are made of rows.
ASSUME BoardAssumption ==
    Boards \subseteq Seq(RowType) /\ Written \subseteq RowType /\ MaxWrites \in Nat

---------------------------------------------------------------------------
\* scan_bytes and what it finds on each line (Lines and Selects: see Selection).
Problems(rows) == {i \in Lines(rows) : rows[i].id \in Unusable}
Rows(rows) == Lines(rows) \ Problems(rows)
Duplicates(rows) ==
    {rows[i].id : i \in {k \in Rows(rows) : \E j \in Rows(rows) \ {k} : rows[j].id = rows[k].id}}

SchemaViolation(row) ==
    \/ row.priority \notin Priorities \cup {"null"}
    \/ row.status \notin CanonicalStatuses \cup {"null"}
SchemaViolations(rows) == {i \in Rows(rows) : SchemaViolation(rows[i])}

\* The evidence gate looks at pending rows with a code, and at no other.
EvidenceGap(row, codes) ==
    row.status = "pending" /\ row.priority \in codes /\ ~row.superseded /\ ~row.evidence
EvidenceGaps(rows, codes) == {i \in Rows(rows) : EvidenceGap(rows[i], codes)}
Rejected(strict) == {"P0", "P1"} \cup IF strict THEN {"P2", "P3"} ELSE {}

ReportOk(rows, strict) ==
    /\ Problems(rows) = {} /\ Duplicates(rows) = {} /\ SchemaViolations(rows) = {}
    /\ EvidenceGaps(rows, Rejected(strict)) = {}

\* The migration of a row, and the lines that have one.
MigratedRow(row) ==
    [row EXCEPT !.priority = IF @ \in DOMAIN PriorityIntToCode THEN PriorityIntToCode[@] ELSE @,
                !.status = IF @ \in DOMAIN LegacyStatusAliases THEN LegacyStatusAliases[@] ELSE @]
MigrationsOf(rows) == {i \in Rows(rows) : MigratedRow(rows[i]) # rows[i]}

\* The last raw row of each id, in the order of the last occurrences.
CompactedPayload(rows) ==
    Selects(rows, {i \in Rows(rows) : \A j \in Rows(rows) : rows[j].id = rows[i].id => j <= i})

---------------------------------------------------------------------------
(* board_id_guard.py.  `late` says whether the file was written by anyone      *)
(* after the scan, `wrote` whether this run replaced it, `ended` whether the   *)
(* file it read again ended in a newline.                                      *)
Idle == [op |-> "none", strict |-> FALSE, pc |-> "idle", scan |-> <<>>, read |-> <<>>,
         out |-> <<>>, exit |-> 0, ended |-> TRUE, wrote |-> FALSE, late |-> FALSE]

Exits(code) == [guard EXCEPT !.pc = "done", !.exit = code]
Goes(pc) == [guard EXCEPT !.pc = pc]

Start(op, strict) ==
    /\ guard.pc = "idle"
    /\ strict => op = "validate"
    /\ guard' = [Idle EXCEPT !.op = op, !.strict = strict, !.pc = "scan"]
    /\ UNCHANGED <<board, newline, norm, temps, writes>>

\* main reads the file once and reports; validate ends here.
Validate ==
    /\ guard.pc = "scan" /\ guard.op = "validate"
    /\ guard' = [Exits(IF ReportOk(board, guard.strict) THEN 0 ELSE 1) EXCEPT !.scan = board]
    /\ UNCHANGED <<board, newline, norm, temps, writes>>

Refuses(op, rows) == Problems(rows) # {} \/ (op = "migrate" /\ Duplicates(rows) # {})

\* run_compact and run_migrate refuse what they cannot repair.
Scan ==
    /\ guard.pc = "scan" /\ guard.op # "validate"
    /\ guard' = IF Refuses(guard.op, board) THEN [Exits(1) EXCEPT !.scan = board]
                ELSE [Goes("read") EXCEPT !.scan = board]
    /\ UNCHANGED <<board, newline, norm, temps, writes>>

\* run_compact reads the file again only to see whether it must write: bytes that end
\* in a newline are compared with those of the file.
CompactRead ==
    /\ guard.pc = "read" /\ guard.op = "compact"
    /\ LET survivors == CompactedPayload(guard.scan) IN
       guard' = IF survivors = board /\ newline THEN Exits(0)
                ELSE [Goes("write") EXCEPT !.out = survivors, !.ended = newline]
    /\ UNCHANGED <<board, newline, norm, temps, writes>>

\* run_migrate puts the rows it scanned, repaired, on the lines it read again.
\* A line the second read lacks ends the run with an IndexError.
Rebuilt(scan, read) ==
    [i \in Lines(read) |-> IF i \in MigrationsOf(scan) THEN MigratedRow(scan[i]) ELSE read[i]]
Census(rows) == Cardinality({rows[i].id : i \in Rows(rows)})
\* A bug to be caught: the rewritten board is not validated again.
RevalidatesNothing(scan, new) == TRUE
Revalidates(scan, new) ==
    /\ Problems(new) = {} /\ Duplicates(new) = {} /\ SchemaViolations(new) = {} /\ MigrationsOf(new) = {}
    /\ Len(new) = Len(scan) /\ Cardinality(Rows(new)) = Cardinality(Rows(scan))
    /\ Census(new) = Census(scan)
MigrateRead ==
    /\ guard.pc = "read" /\ guard.op = "migrate"
    /\ LET new == Rebuilt(guard.scan, board)
       IN guard' = IF ~(MigrationsOf(guard.scan) \subseteq Lines(board)) THEN Exits(1)
                   ELSE IF new = board THEN Exits(0)
                   ELSE IF ~Revalidates(guard.scan, new) THEN Exits(1)
                   ELSE [Goes("write") EXCEPT !.out = new, !.read = board, !.ended = newline]
    /\ UNCHANGED <<board, newline, norm, temps, writes>>

\* atomic_write: a temporary file beside the board, then one rename.
WriteTemp ==
    /\ guard.pc = "write"
    /\ temps' = temps \cup {"mine"}
    /\ guard' = Goes("replace")
    /\ UNCHANGED <<board, newline, norm, writes>>

\* A bug to be caught: the temporary file is not removed on the way out.
WriteFailsMessily ==
    /\ guard.pc = "replace"
    /\ guard' = Exits(2)
    /\ UNCHANGED <<board, newline, norm, temps, writes>>
\* The write, the chmod or the rename fails: the temporary file goes.
WriteFails ==
    /\ guard.pc = "replace"
    /\ temps' = temps \ {"mine"}
    /\ guard' = Exits(2)
    /\ UNCHANGED <<board, newline, norm, writes>>

Replace ==
    /\ guard.pc = "replace"
    /\ board' = guard.out /\ temps' = temps \ {"mine"}
    /\ newline' = IF guard.op = "compact" THEN TRUE ELSE guard.ended
    /\ guard' = [Goes("report") EXCEPT !.wrote = TRUE]
    \* whoever holds the old file open goes on writing to it
    /\ norm' = IF norm.pc = "open" THEN [norm EXCEPT !.pc = "detached"] ELSE norm
    /\ UNCHANGED writes

\* The summary printed after the rename; a closed or full stdout is an OSError
\* and main answers 2, "file untouched".
Report ==
    /\ guard.pc = "report"
    /\ \E printed \in BOOLEAN : guard' = Exits(IF printed THEN guard.exit ELSE 2)
    /\ UNCHANGED <<board, newline, norm, temps, writes>>

Kill ==
    /\ guard.pc \notin {"idle", "done", "killed"}
    /\ guard' = Goes("killed")
    /\ temps' = IF "mine" \in temps THEN (temps \ {"mine"}) \cup {"left"} ELSE temps
    /\ UNCHANGED <<board, newline, norm, writes>>

Again ==
    /\ guard.pc \in {"done", "killed"}
    /\ guard' = Idle
    /\ UNCHANGED <<board, newline, norm, temps, writes>>

---------------------------------------------------------------------------
(* normalize-results.py reads the whole board, then truncates and writes it.   *)
NormalizedRow(row) ==
    IF row.id # "unparsed" /\ row.result = "prose" THEN [row EXCEPT !.result = "code", !.note = TRUE]
    ELSE row
Late == [guard EXCEPT !.late = @ \/ guard.pc \notin {"idle", "done", "killed", "scan"}]

NormRead ==
    /\ norm.pc = "idle"
    /\ LET out == [i \in Lines(board) |-> NormalizedRow(board[i])]
       IN norm' = IF \E i \in Lines(board) : board[i].id = "notobject"
                  THEN [norm EXCEPT !.pc = "crashed"]
                  ELSE IF out = board THEN [norm EXCEPT !.pc = "done"]
                  ELSE [pc |-> "write", out |-> out]
    /\ UNCHANGED <<board, newline, guard, temps, writes>>

NormTruncate ==
    /\ norm.pc = "write"
    /\ board' = <<>> /\ newline' = TRUE /\ norm' = [norm EXCEPT !.pc = "open"]
    /\ guard' = Late
    /\ UNCHANGED <<temps, writes>>

\* What one write leaves on the disk may end inside a row.
NormWrite ==
    /\ norm.pc \in {"open", "detached"}
    /\ \/ /\ norm' = [norm EXCEPT !.pc = "done"]
          /\ board' = IF norm.pc = "open" THEN norm.out ELSE board
          /\ newline' = (norm.pc = "open" \/ newline)
       \/ /\ norm.pc = "open" /\ board = <<>>
          /\ board' = <<[norm.out[1] EXCEPT !.id = "unparsed"]>> /\ newline' = FALSE
          /\ UNCHANGED norm
    /\ guard' = Late
    /\ UNCHANGED <<temps, writes>>

---------------------------------------------------------------------------
\* The agents: a row appended, to the last one where no newline ends it, or one rewritten
\* where it stands.
Agent ==
    /\ writes < MaxWrites /\ writes' = writes + 1
    /\ \E row \in Written :
         \/ /\ board' = IF newline THEN Append(board, row)
                        ELSE [board EXCEPT ![Len(board)].id = "unparsed"]
            /\ newline' = TRUE
         \/ \E i \in Lines(board) : board' = [board EXCEPT ![i] = row] /\ UNCHANGED newline
    /\ guard' = Late
    /\ UNCHANGED <<norm, temps>>

Init ==
    /\ board \in Boards /\ newline \in BOOLEAN /\ (board = <<>> => newline)
    /\ guard = Idle /\ norm = [pc |-> "idle", out |-> <<>>]
    /\ temps = {} /\ writes = 0

Guard ==
    \/ \E op \in {"validate", "compact", "migrate"}, strict \in BOOLEAN : Start(op, strict)
    \/ Validate \/ Scan \/ CompactRead \/ MigrateRead
    \/ WriteTemp \/ WriteFails \/ Replace \/ Report \/ Kill \/ Again
Next == Guard \/ NormRead \/ NormTruncate \/ NormWrite \/ Agent
Spec == Init /\ [][Next]_vars

---------------------------------------------------------------------------
\* The types of the six variables.
TypeOK ==
    /\ board \in Seq(RowType) /\ newline \in BOOLEAN /\ writes \in 0 .. MaxWrites
    /\ guard.op \in {"none", "validate", "compact", "migrate"} /\ guard.exit \in 0 .. 2
    /\ guard.pc \in {"idle", "scan", "read", "write", "replace", "report", "done", "killed"}
    /\ guard.scan \in Seq(RowType) /\ guard.read \in Seq(RowType) /\ guard.out \in Seq(RowType)
    /\ norm.pc \in {"idle", "write", "open", "detached", "done", "crashed"}
    /\ temps \subseteq {"mine", "left"}

\* `new` has every id of `old` once, on its last row, in the order of those rows.
Latest(old, new) ==
    /\ {new[i].id : i \in Lines(new)} = {old[i].id : i \in Lines(old)}
    /\ Duplicates(new) = {}
    /\ \E at \in [Lines(new) -> Lines(old)] :
         \A i \in Lines(new) :
            /\ new[i] = old[at[i]] /\ \A j \in Lines(new) : i < j => at[i] < at[j]
            /\ \A j \in Lines(old) : j > at[i] => old[j].id # new[i].id

\* Compaction loses no task: if nobody wrote the board between its scan and
\* its rename, the file it leaves has the last row of every id the file had
\* (board_id_guard.py compacted_payload, run_compact).
CompactKeepsTheLatest ==
    guard.op = "compact" /\ guard.pc = "replace" /\ ~guard.late => Latest(board, guard.out)

\* What a migration writes has no schema defect and one row per id, even when
\* agents wrote between its two reads, and the lines it did not have to repair
\* are the ones it read last: a row appended before that read is never dropped.
MigrationOnlyRepairs ==
    guard.op = "migrate" /\ guard.pc = "replace" =>
        /\ SchemaViolations(guard.out) = {} /\ Duplicates(guard.out) = {}
        /\ Len(guard.out) = Len(guard.read)
        /\ \A i \in Lines(guard.out) :
             \/ guard.out[i] = guard.read[i]
             \/ SchemaViolation(guard.scan[i]) /\ guard.out[i].id = guard.scan[i].id

\* A run that refuses (exit 1) never replaced the board, whoever else wrote it.
RefusalWritesNothing == guard.pc = "done" /\ guard.exit = 1 => ~guard.wrote

\* A run that ended, whatever its exit status, has left no temporary file
\* beside the board: only a killed one has.
OnlyAKillLeavesATemp == guard.pc \in {"idle", "done"} => "mine" \notin temps

\* A board that validate accepts, strictly or not, keeps its rows: neither --compact nor
\* --migrate-schema replaces it unless somebody writes meanwhile, but that --compact puts
\* the newline after the last row of a board that has none.
ValidBoardIsKept ==
    guard.wrote /\ ~guard.late /\ ReportOk(guard.scan, FALSE) =>
        guard.op = "compact" /\ ~guard.ended /\ guard.out = guard.scan

\* The board survives its guard: a replacement keeps the latest row of every id,
\* repairs nothing but defects and takes no row of a valid board.
BoardIsKept == TypeOK /\ CompactKeepsTheLatest /\ MigrationOnlyRepairs /\ ValidBoardIsKept

\* A run either replaces the board or leaves everything as it was.
NoHalfRun == RefusalWritesNothing /\ OnlyAKillLeavesATemp
=============================================================================

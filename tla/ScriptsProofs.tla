--------------------------- MODULE ScriptsProofs ---------------------------
(* Proofs about the maintenance scripts, each a specification of its own.      *)
(* Board, for any tasks, any boards and any number of writes by agents: what a *)
(* compaction or a migration puts in the place of the board.  Teardown, for    *)
(* any imported rows: what a verdict rests on.  RulePack, for any packs, rule  *)
(* files, documents and number of installers: what installing can bring in,    *)
(* and what a drift gate that passes has seen.                                 *)
EXTENDS Board, Teardown, RulePack, FiniteSetTheorems, SequenceTheorems, TLAPS

----------------------------------------------------------------------------
(* Selecting some lines of a board keeps them in their order.                  *)

\* The place of line i among the lines kept.
Place(keep, i) == Cardinality({j \in keep : j <= i})

LEMMA LinesAreFinite ==
  ASSUME NEW S, NEW file \in Seq(S), NEW keep \in SUBSET Lines(file)
  PROVE  /\ IsFiniteSet(keep) /\ Cardinality(keep) \in Nat
         /\ \A i \in keep : i \in Nat
         /\ Len(file) \in Nat /\ DOMAIN file = Lines(file)
         /\ \A i \in Lines(file) : file[i] \in S
<1>1. Len(file) \in Nat /\ DOMAIN file = Lines(file) /\ \A i \in Lines(file) : file[i] \in S
  BY ElementOfSeq, LenProperties DEF Lines
<1>2. IsFiniteSet(Lines(file))
  BY <1>1, FS_Interval DEF Lines
<1>3. IsFiniteSet(keep)
  BY <1>2, FS_Subset
<1>4. Cardinality(keep) \in Nat
  BY <1>3, FS_CardinalityType
<1>5. \A i \in keep : i \in Nat
  BY DEF Lines
<1> QED BY <1>1, <1>3, <1>4, <1>5

LEMMA PlaceIsPlace ==
  ASSUME NEW keep \in SUBSET Nat, IsFiniteSet(keep), NEW i \in keep
  PROVE  Place(keep, i) \in 1 .. Cardinality(keep)
<1> DEFINE upto == {j \in keep : j <= i}
<1>1. upto \in SUBSET keep /\ i \in upto
  OBVIOUS
<1>2. IsFiniteSet(upto) /\ Cardinality(upto) <= Cardinality(keep)
  BY <1>1, FS_Subset
<1>3. Cardinality(upto) \in Nat /\ Cardinality(keep) \in Nat /\ Cardinality(upto) # 0
  BY <1>1, <1>2, FS_CardinalityType, FS_EmptySet
<1> QED BY <1>2, <1>3 DEF Place

LEMMA PlacesGrow ==
  ASSUME NEW keep \in SUBSET Nat, IsFiniteSet(keep), NEW i \in keep, NEW j \in keep, i < j
  PROVE  Place(keep, i) < Place(keep, j)
<1> DEFINE low == {k \in keep : k <= i}
           high == {k \in keep : k <= j}
<1>1. low \cup {j} \in SUBSET high /\ j \notin low
  <2>1. i \in Nat /\ j \in Nat /\ \A k \in keep : k \in Nat
    OBVIOUS
  <2>2. (\A k \in keep : k <= i => k <= j) /\ j <= j /\ ~(j <= i)
    BY <2>1
  <2>3. j \in high /\ j \notin low /\ low \in SUBSET high
    BY <2>2
  <2> QED BY <2>3
<1>2. IsFiniteSet(low) /\ IsFiniteSet(high)
  BY FS_Subset
<1>3. IsFiniteSet(low \cup {j}) /\ Cardinality(low \cup {j}) = Cardinality(low) + 1
  BY <1>1, <1>2, FS_AddElement
<1>4. Cardinality(low) + 1 <= Cardinality(high)
  BY <1>1, <1>2, <1>3, FS_Subset
<1>5. Cardinality(low) \in Nat /\ Cardinality(high) \in Nat
  BY <1>2, FS_CardinalityType
<1> QED BY <1>4, <1>5 DEF Place

LEMMA EveryPlaceIsTaken ==
  ASSUME NEW keep \in SUBSET Nat, IsFiniteSet(keep), NEW k \in 1 .. Cardinality(keep)
  PROVE  \E i \in keep : Place(keep, i) = k
<1> DEFINE T == 1 .. Cardinality(keep)
           place == [i \in keep |-> Place(keep, i)]
<1>1. place \in [keep -> T]
  BY PlaceIsPlace
<1>2. \A i, j \in keep : place[i] = place[j] => i = j
  <2> SUFFICES ASSUME NEW i \in keep, NEW j \in keep, i < j PROVE place[i] # place[j]
    OBVIOUS
  <2>1. Place(keep, i) < Place(keep, j) /\ Place(keep, i) \in Int /\ Place(keep, j) \in Int
    BY PlacesGrow, PlaceIsPlace
  <2> QED BY <2>1
<1>3. place \in Injection(keep, T)
  BY <1>1, <1>2 DEF Injection, IsInjective
<1>4. IsFiniteSet(T) /\ Cardinality(T) = Cardinality(keep)
  <2>1. Cardinality(keep) \in Nat
    BY FS_CardinalityType
  <2> QED BY <2>1, FS_Interval
<1>5. place \in Surjection(keep, T)
  <2> HIDE DEF place, T
  <2> QED BY <1>3, <1>4, FS_Injection
<1>6. PICK i \in keep : place[i] = k
  BY <1>5 DEF Surjection
<1> QED BY <1>6

\* What is selected: lines of the board, each kept one at its place.
LEMMA SelectionKeepsOrder ==
  ASSUME NEW S, NEW file \in Seq(S), NEW keep \in SUBSET Lines(file)
  PROVE  LET new == Selects(file, keep)
         IN  /\ new \in Seq(S) /\ Len(new) = Cardinality(keep)
             /\ \E at \in [Lines(new) -> keep] :
                  /\ \A k \in Lines(new) : new[k] = file[at[k]]
                  /\ \A k, l \in Lines(new) : k < l => at[k] < at[l]
                  /\ \A i \in keep : \E k \in Lines(new) : at[k] = i
<1> DEFINE new == Selects(file, keep)
           n == Cardinality(keep)
           Line(k) == CHOOSE i \in keep : Place(keep, i) = k
           at == [k \in 1 .. n |-> Line(k)]
<1>1. IsFiniteSet(keep) /\ n \in Nat /\ keep \in SUBSET Nat
      /\ \A i \in keep : file[i] \in S
  BY LinesAreFinite DEF Lines
<1>2. \A k \in 1 .. n : Line(k) \in keep /\ Place(keep, Line(k)) = k
  <2> TAKE k \in 1 .. n
  <2>1. \E i \in keep : Place(keep, i) = k
    BY <1>1, EveryPlaceIsTaken
  <2> QED BY <2>1
<1> HIDE DEF Line
<1>3. new = [k \in 1 .. n |-> file[Line(k)]]
  BY DEF Selects, Place, Line
<1>4. new \in Seq(S) /\ Len(new) = n /\ Lines(new) = 1 .. n
  <2>1. \A k \in 1 .. n : file[Line(k)] \in S
    BY <1>1, <1>2
  <2>2. new \in [1 .. n -> S]
    BY <1>3, <2>1
  <2>3. new \in Seq(S) /\ Len(new) = n
    <3> HIDE DEF new, n
    <3> QED BY <1>1, <2>2, SeqDef, LenProperties
  <2> QED BY <2>3 DEF Lines
<1>5. \A k, l \in 1 .. n : k < l => at[k] < at[l]
  <2> SUFFICES ASSUME NEW k \in 1 .. n, NEW l \in 1 .. n, ~(Line(k) < Line(l)) PROVE ~(k < l)
    OBVIOUS
  <2>1. Line(k) \in keep /\ Line(l) \in keep /\ Line(k) \in Nat /\ Line(l) \in Nat
    BY <1>1, <1>2
  <2>2. CASE Line(l) = Line(k)
    BY <1>2, <2>2
  <2>3. CASE Line(l) < Line(k)
    BY <1>1, <1>2, <2>1, <2>3, PlacesGrow
  <2> QED BY <2>1, <2>2, <2>3
<1>6. \A i \in keep : \E k \in 1 .. n : at[k] = i
  <2> TAKE i \in keep
  <2>1. Place(keep, i) \in 1 .. n
    BY <1>1, PlaceIsPlace
  <2> DEFINE j == Line(Place(keep, i))
  <2>2. j \in keep /\ Place(keep, j) = Place(keep, i)
    BY <1>2, <2>1
  <2> HIDE DEF j, n
  <2>3. i \in Nat /\ j \in Nat
    BY <1>1, <2>2
  <2>4. Place(keep, i) \in Int
    BY <1>1, <2>1
  <2>5. ~(i < j) /\ ~(j < i)
    BY <1>1, <2>2, <2>4, PlacesGrow
  <2>6. j = i
    BY <2>3, <2>5
  <2>7. at[Place(keep, i)] = i
    BY <2>1, <2>6 DEF j
  <2> QED BY <2>1, <2>7
<1>7. at \in [Lines(new) -> keep]
  BY <1>2, <1>4
<1>8. \A k \in Lines(new) : new[k] = file[at[k]]
  BY <1>3, <1>4
<1> HIDE DEF at, new, n
<1>9. /\ \A k, l \in Lines(new) : k < l => at[k] < at[l]
      /\ \A i \in keep : \E k \in Lines(new) : at[k] = i
  BY <1>4, <1>5, <1>6
<1>10. \E f \in [Lines(new) -> keep] :
         /\ \A k \in Lines(new) : new[k] = file[f[k]]
         /\ \A k, l \in Lines(new) : k < l => f[k] < f[l]
         /\ \A i \in keep : \E k \in Lines(new) : f[k] = i
  BY <1>7, <1>8, <1>9
<1> QED BY <1>4, <1>10 DEF new, n

----------------------------------------------------------------------------
(* Compaction.                                                                 *)

LEMMA LastExists ==
  ASSUME NEW keep \in SUBSET Nat, IsFiniteSet(keep), keep # {}
  PROVE  \E m \in keep : \A j \in keep : j <= m
<1> DEFINE n == Cardinality(keep)
<1>1. n \in Nat
  BY FS_CardinalityType
<1>2. n # 0
  BY FS_EmptySet
<1>3. n \in 1 .. n
  BY <1>1, <1>2
<1>4. PICK m \in keep : Place(keep, m) = n
  BY <1>3, EveryPlaceIsTaken
<1>5. \A j \in keep : Place(keep, j) \in 1 .. n
  BY PlaceIsPlace
<1>6. ASSUME NEW j \in keep, m < j PROVE FALSE
  <2>1. Place(keep, m) < Place(keep, j)
    BY <1>6, PlacesGrow
  <2> HIDE DEF n
  <2> QED BY <1>1, <1>4, <1>5, <2>1
<1>7. m \in Nat /\ \A j \in keep : j \in Nat
  OBVIOUS
<1> QED BY <1>6, <1>7

\* The lines a compaction keeps.
LatestLines(file) == {i \in Rows(file) : \A j \in Rows(file) : file[j].id = file[i].id => j <= i}

LEMMA CompactedIsABoard ==
  ASSUME NEW file \in Seq(RowType)
  PROVE  CompactedPayload(file) \in Seq(RowType)
<1>1. LatestLines(file) \in SUBSET Lines(file)
  BY DEF LatestLines, Rows
<1> QED BY <1>1, SelectionKeepsOrder DEF CompactedPayload, LatestLines

\* Every id has a last row.
LEMMA EveryIdHasALast ==
  ASSUME NEW file \in Seq(RowType), NEW i \in Rows(file)
  PROVE  \E m \in LatestLines(file) : file[m].id = file[i].id
<1> DEFINE same == {j \in Rows(file) : file[j].id = file[i].id}
<1>1. same \in SUBSET Lines(file) /\ i \in same
  BY DEF Rows
<1>2. same \in SUBSET Nat /\ IsFiniteSet(same)
  BY <1>1, LinesAreFinite
<1>3. PICK m \in same : \A j \in same : j <= m
  <2> HIDE DEF same
  <2> QED BY <1>1, <1>2, LastExists
<1> QED BY <1>3 DEF LatestLines

LEMMA CompactionKeepsTheLatest ==
  ASSUME NEW file \in Seq(RowType), Problems(file) = {}
  PROVE  Latest(file, CompactedPayload(file))
<1> DEFINE keep == LatestLines(file)
           new == CompactedPayload(file)
<1>1. Rows(file) = Lines(file) /\ keep \in SUBSET Lines(file)
  BY DEF Rows, LatestLines
<1>2. new = Selects(file, keep)
  BY DEF CompactedPayload, LatestLines
<1>3. PICK at \in [Lines(new) -> keep] :
         /\ \A k \in Lines(new) : new[k] = file[at[k]]
         /\ \A k, l \in Lines(new) : k < l => at[k] < at[l]
         /\ \A i \in keep : \E k \in Lines(new) : at[k] = i
  BY <1>1, <1>2, SelectionKeepsOrder
<1>4. /\ new \in Seq(RowType) /\ \A k \in Lines(new) : k \in Nat
      /\ \A i \in Lines(file) : i \in Nat
  BY CompactedIsABoard DEF Lines
<1> HIDE DEF new
<1>5. \A k \in Lines(new) : at[k] \in keep /\ at[k] \in Lines(file)
  BY <1>1, <1>3
<1>6. \A k \in Lines(new), j \in Lines(file) : file[j].id = new[k].id => j <= at[k]
  BY <1>1, <1>3, <1>5 DEF LatestLines
<1>7. {new[i].id : i \in Lines(new)} = {file[i].id : i \in Lines(file)}
  <2>1. \A k \in Lines(new) : \E i \in Lines(file) : new[k].id = file[i].id
    BY <1>3, <1>5
  <2>2. \A i \in Lines(file) : \E k \in Lines(new) : new[k].id = file[i].id
    <3> TAKE i \in Lines(file)
    <3>1. PICK m \in keep : file[m].id = file[i].id
      BY <1>1, EveryIdHasALast
    <3>2. PICK k \in Lines(new) : at[k] = m
      BY <1>3
    <3> QED BY <1>3, <3>1, <3>2
  <2> QED BY <2>1, <2>2
<1>8. Duplicates(new) = {}
  <2>1. \A k, l \in Lines(new) : k # l => new[k].id # new[l].id
    <3> SUFFICES ASSUME NEW k \in Lines(new), NEW l \in Lines(new), k < l
                 PROVE  new[k].id # new[l].id
      BY <1>4
    <3>1. at[k] < at[l] /\ at[l] \in Lines(file) /\ at[k] \in Nat /\ at[l] \in Nat
      BY <1>3, <1>4, <1>5
    <3>2. ASSUME new[k].id = new[l].id PROVE FALSE
      <4>1. file[at[l]].id = new[k].id
        BY <1>3, <3>2
      <4>2. at[l] <= at[k]
        BY <1>6, <3>1, <4>1
      <4> QED BY <3>1, <4>2
    <3> QED BY <3>2
  <2>2. Rows(new) \subseteq Lines(new)
    BY DEF Rows
  <2> QED BY <2>1, <2>2 DEF Duplicates
<1>9. \A i \in Lines(new) :
         /\ new[i] = file[at[i]] /\ \A j \in Lines(new) : i < j => at[i] < at[j]
         /\ \A j \in Lines(file) : j > at[i] => file[j].id # new[i].id
  <2> TAKE i \in Lines(new)
  <2>1. \A j \in Lines(file) : j > at[i] => file[j].id # new[i].id
    BY <1>4, <1>5, <1>6
  <2> QED BY <1>3, <2>1
<1>10. at \in [Lines(new) -> Lines(file)]
  BY <1>1, <1>3
<1>11. \E f \in [Lines(new) -> Lines(file)] :
         \A i \in Lines(new) :
            /\ new[i] = file[f[i]] /\ \A j \in Lines(new) : i < j => f[i] < f[j]
            /\ \A j \in Lines(file) : j > f[i] => file[j].id # new[i].id
  BY <1>9, <1>10
<1> QED BY <1>7, <1>8, <1>11 DEF Latest, new

\* A board with one row per id and no other line is its own compaction.
LEMMA CompactionOfASoundBoard ==
  ASSUME NEW file \in Seq(RowType), Problems(file) = {}, Duplicates(file) = {}
  PROVE  CompactedPayload(file) = file
<1> DEFINE n == Len(file)
<1>1. n \in Nat /\ file \in [1 .. n -> RowType] /\ Lines(file) = 1 .. n
  BY LenProperties DEF Lines
<1>2. Rows(file) = 1 .. n
  BY <1>1 DEF Rows
<1>3. \A i, j \in 1 .. n : file[i].id = file[j].id => i = j
  BY <1>2 DEF Duplicates
<1>4. LatestLines(file) = 1 .. n
  BY <1>1, <1>2, <1>3 DEF LatestLines
<1> HIDE DEF n
<1>5. Cardinality(1 .. n) = n
  BY <1>1, FS_Interval
<1>6. \A i \in 1 .. n : Place(1 .. n, i) = i
  <2> TAKE i \in 1 .. n
  <2>1. {j \in 1 .. n : j <= i} = 1 .. i /\ i \in Nat /\ i >= 1
    BY <1>1
  <2>2. Cardinality(1 .. i) = i
    BY <2>1, FS_Interval
  <2> QED BY <2>1, <2>2 DEF Place
<1> DEFINE Line(k) == CHOOSE i \in 1 .. n : Place(1 .. n, i) = k
<1>7. \A k \in 1 .. n : Line(k) = k
  BY <1>6
<1>8. Selects(file, 1 .. n) = [k \in 1 .. Cardinality(1 .. n) |-> file[Line(k)]]
  BY DEF Selects, Place, Line
<1> HIDE DEF Line
<1>9. Selects(file, 1 .. n) = file
  BY <1>1, <1>5, <1>7, <1>8
<1> QED BY <1>4, <1>9 DEF CompactedPayload, LatestLines

----------------------------------------------------------------------------
(* Migration.                                                                  *)

LEMMA MigratedIsARow ==
  ASSUME NEW row \in RowType
  PROVE  /\ MigratedRow(row) \in RowType /\ MigratedRow(row).id = row.id
         /\ MigratedRow(row) # row => SchemaViolation(row)
<1> DEFINE code == IF row.priority \in DOMAIN PriorityIntToCode THEN PriorityIntToCode[row.priority]
                   ELSE row.priority
           state == IF row.status \in DOMAIN LegacyStatusAliases THEN LegacyStatusAliases[row.status]
                    ELSE row.status
<1>1. MigratedRow(row) = [row EXCEPT !.priority = code, !.status = state]
  BY DEF MigratedRow, RowType
<1>2. /\ code \in Priorities \cup {"int0", "int2", "int9", "null", "word"}
      /\ code # row.priority => row.priority \notin Priorities \cup {"null"}
  BY DEF PriorityIntToCode, Priorities, RowType
<1>3. /\ state \in CanonicalStatuses \cup {"completed", "null", "word"}
      /\ state # row.status => row.status \notin CanonicalStatuses \cup {"null"}
  BY DEF LegacyStatusAliases, CanonicalStatuses, RowType
<1> HIDE DEF code, state
<1>4. code = row.priority /\ state = row.status => MigratedRow(row) = row
  <2>1. [row EXCEPT !.priority = row.priority, !.status = row.status] = row
    BY DEF RowType
  <2> QED BY <1>1, <2>1
<1>5. MigratedRow(row) \in RowType /\ MigratedRow(row).id = row.id
  BY <1>1, <1>2, <1>3 DEF RowType
<1> QED BY <1>2, <1>3, <1>4, <1>5 DEF SchemaViolation

LEMMA RebuiltIsABoard ==
  ASSUME NEW scan \in Seq(RowType), NEW read \in Seq(RowType)
  PROVE  /\ Rebuilt(scan, read) \in Seq(RowType) /\ Len(Rebuilt(scan, read)) = Len(read)
         /\ \A i \in Lines(read) :
              \/ Rebuilt(scan, read)[i] = read[i]
              \/ SchemaViolation(scan[i]) /\ Rebuilt(scan, read)[i].id = scan[i].id
<1> DEFINE Of(i) == IF i \in MigrationsOf(scan) THEN MigratedRow(scan[i]) ELSE read[i]
           n == Len(read)
<1>1. Rebuilt(scan, read) = [i \in Lines(read) |-> Of(i)]
  BY DEF Rebuilt
<1>2. n \in Nat /\ Lines(read) = 1 .. n /\ \A i \in Lines(read) : read[i] \in RowType
  BY LinesAreFinite DEF Lines
<1>3. \A i \in MigrationsOf(scan) :
        /\ scan[i] \in RowType /\ MigratedRow(scan[i]) # scan[i]
  BY LinesAreFinite DEF MigrationsOf, Rows
<1>4. \A i \in MigrationsOf(scan) :
        /\ MigratedRow(scan[i]) \in RowType /\ SchemaViolation(scan[i])
        /\ MigratedRow(scan[i]).id = scan[i].id
  BY <1>3, MigratedIsARow
<1>5. \A i \in Lines(read) : Of(i) \in RowType
  BY <1>2, <1>4
<1>6. \A i \in Lines(read) :
        \/ Of(i) = read[i]
        \/ SchemaViolation(scan[i]) /\ Of(i).id = scan[i].id
  BY <1>4
<1> HIDE DEF Of, n
<1>7. Rebuilt(scan, read) \in [1 .. n -> RowType]
  BY <1>1, <1>2, <1>5
<1>8. Rebuilt(scan, read) \in Seq(RowType)
  BY <1>2, <1>7, SeqDef
<1>9. Len(Rebuilt(scan, read)) = n
  BY <1>2, <1>7, <1>8, LenProperties
<1> QED BY <1>1, <1>6, <1>8, <1>9 DEF n

\* A migration changes nothing on a board without schema defects.
LEMMA MigrationOfASoundBoard ==
  ASSUME NEW file \in Seq(RowType), SchemaViolations(file) = {}
  PROVE  Rebuilt(file, file) = file
<1>1. \A i \in Rows(file) : file[i] \in RowType
  BY LinesAreFinite DEF Rows
<1>2. MigrationsOf(file) = {}
  BY <1>1, MigratedIsARow DEF MigrationsOf, SchemaViolations
<1>3. file \in [1 .. Len(file) -> RowType]
  BY LenProperties
<1> QED BY <1>2, <1>3 DEF Rebuilt, Lines

\* The rows of a valid board are what a compaction or a migration makes of them.
LEMMA ValidBoardsAreFixed ==
  ASSUME NEW file \in Seq(RowType), ReportOk(file, FALSE)
  PROVE  CompactedPayload(file) = file /\ Rebuilt(file, file) = file
BY CompactionOfASoundBoard, MigrationOfASoundBoard DEF ReportOk

\* The rows normalize-results.py writes.
LEMMA NormalizedIsABoard ==
  ASSUME NEW file \in Seq(RowType), NEW out, out = [i \in Lines(file) |-> NormalizedRow(file[i])]
  PROVE  out \in Seq(RowType) /\ (out # file => Len(out) > 0)
<1> DEFINE n == Len(file)
<1>1. n \in Nat /\ Lines(file) = 1 .. n /\ file \in [1 .. n -> RowType]
  BY LenProperties DEF Lines
<1>2. \A row \in RowType : NormalizedRow(row) \in RowType
  <2> TAKE row \in RowType
  <2>1. \A note \in BOOLEAN : [row EXCEPT !.result = "code", !.note = note] \in RowType
    BY DEF RowType
  <2>2. [row EXCEPT !.result = "code", !.note = TRUE] \in RowType
    BY <2>1
  <2> QED BY <2>2 DEF NormalizedRow
<1> HIDE DEF n
<1>3. out \in [1 .. n -> RowType]
  BY <1>1, <1>2
<1>4. out \in Seq(RowType)
  BY <1>1, <1>3, SeqDef
<1>5. Len(out) = n
  BY <1>1, <1>3, <1>4, LenProperties
<1>6. CASE n = 0
  <2>1. 1 .. n = {}
    BY <1>6
  <2>2. out = file
    BY <1>1, <1>3, <2>1
  <2> QED BY <1>4, <2>2
<1>7. CASE n # 0
  BY <1>1, <1>4, <1>5, <1>7
<1> QED BY <1>6, <1>7

----------------------------------------------------------------------------
(* The inductive invariant.                                                    *)

Ops == {"none", "validate", "compact", "migrate"}
Steps == {"idle", "scan", "read", "write", "replace", "report", "done", "killed"}
Working == {"read", "write", "replace"}
Writing == {"write", "replace"}
GuardType ==
  [op : Ops, strict : BOOLEAN, pc : Steps, scan : Seq(RowType), read : Seq(RowType),
   out : Seq(RowType), exit : 0 .. 2, ended : BOOLEAN, wrote : BOOLEAN, late : BOOLEAN]

\* normalize-results.py writes only when it has a row to write.
BoardTyped ==
  /\ TypeOK
  /\ guard \in GuardType
  /\ norm \in [pc : {"idle", "write", "open", "detached", "done", "crashed"}, out : Seq(RowType)]
  /\ norm.pc \in {"write", "open"} => Len(norm.out) > 0

\* How a run ends.
Ends ==
  /\ guard.pc \notin {"done", "killed"} => guard.exit = 0
  /\ guard.wrote => guard.pc \in {"report", "done", "killed"}
  /\ guard.pc = "done" /\ guard.exit = 1 => ~guard.wrote
  /\ "mine" \in temps => guard.pc = "replace"

\* What a migration is about to write, beside what it read.
Repaired(scan, read, out) ==
  /\ SchemaViolations(out) = {} /\ Duplicates(out) = {}
  /\ Len(out) = Len(read)
  /\ \A i \in Lines(out) :
       \/ out[i] = read[i]
       \/ SchemaViolation(scan[i]) /\ out[i].id = scan[i].id

\* All that is new is the newline after the last row.
EndsOnly == guard.op = "compact" /\ ~guard.ended /\ guard.out = guard.scan

\* Between the scan and the rename the board is the one scanned, or `late` says
\* so; what is going to be written was made from that scan.
Sound ==
  /\ guard.pc \in Working => /\ guard.late \/ board = guard.scan
                             /\ ~Refuses(guard.op, guard.scan)
  /\ guard.pc \in Writing /\ guard.op = "compact" => guard.late \/ Latest(guard.scan, guard.out)
  /\ guard.pc \in Writing /\ guard.op = "migrate" => Repaired(guard.scan, guard.read, guard.out)
  /\ guard.pc \in Writing \/ guard.wrote => guard.late \/ ~ReportOk(guard.scan, FALSE) \/ EndsOnly

BoardIInv == BoardTyped /\ Ends /\ Sound

LEMMA IdleIsTyped == <<>> \in Seq(RowType) /\ Idle \in GuardType
<1>1. <<>> \in Seq(RowType)
  BY EmptySeq
<1> QED BY <1>1 DEF Idle, GuardType, Ops, Steps

LEMMA InitIInv ==
  ASSUME Init
  PROVE  BoardIInv
<1>1. <<>> \in Seq(RowType)
  BY EmptySeq
<1>2. Idle \in GuardType
  BY IdleIsTyped
<1>3. BoardTyped
  BY <1>1, <1>2, BoardAssumption DEF Init, BoardTyped, TypeOK, Idle
<1>4. Ends /\ Sound
  BY DEF Init, Idle, Ends, Sound, Working, Writing
<1> QED BY <1>3, <1>4 DEF BoardIInv

\* The types of guard that TypeOK repeats.
LEMMA GuardIsTyped ==
  ASSUME NEW g \in GuardType
  PROVE  /\ g.op \in {"none", "validate", "compact", "migrate"} /\ g.exit \in 0 .. 2
         /\ g.pc \in {"idle", "scan", "read", "write", "replace", "report", "done", "killed"}
         /\ g.scan \in Seq(RowType) /\ g.read \in Seq(RowType) /\ g.out \in Seq(RowType)
BY DEF GuardType, Ops, Steps

\* A step of the guard that leaves the board and normalize-results.py alone.
LEMMA TypedByGuard ==
  ASSUME BoardTyped, guard' \in GuardType, UNCHANGED <<board, newline, norm, writes>>,
         temps' \subseteq {"mine", "left"}
  PROVE  BoardTyped'
<1>1. TypeOK'
  BY GuardIsTyped DEF BoardTyped, TypeOK
<1> QED BY <1>1 DEF BoardTyped

LEMMA StartIInv ==
  ASSUME BoardIInv, NEW op \in {"validate", "compact", "migrate"}, NEW strict \in BOOLEAN,
         Start(op, strict)
  PROVE  BoardIInv'
<1>1. guard' = [Idle EXCEPT !.op = op, !.strict = strict, !.pc = "scan"]
  BY DEF Start
<1>2. guard' \in GuardType
  <2>1. op \in Ops /\ "scan" \in Steps
    BY DEF Ops, Steps
  <2> QED BY <1>1, <2>1, IdleIsTyped DEF GuardType
<1>3. BoardTyped'
  BY <1>2, TypedByGuard DEF BoardIInv, BoardTyped, TypeOK, Start
<1>4. guard'.pc = "scan" /\ guard'.exit = 0 /\ guard'.wrote = FALSE
  BY <1>1 DEF Idle
<1>5. "mine" \notin temps'
  BY DEF Start, BoardIInv, Ends
<1> QED BY <1>3, <1>4, <1>5 DEF BoardIInv, Ends, Sound, Working, Writing

\* The steps that end a run without having written: `code` is its status.
LEMMA EndsIInv ==
  ASSUME BoardIInv, NEW code \in 0 .. 2, NEW file \in Seq(RowType), ~guard.wrote,
         guard' = [guard EXCEPT !.pc = "done", !.exit = code, !.scan = file],
         "mine" \notin temps', temps' \subseteq temps, UNCHANGED <<board, newline, norm, writes>>
  PROVE  BoardIInv'
<1>1. guard' \in GuardType
  BY DEF BoardIInv, BoardTyped, GuardType, Steps
<1>2. BoardTyped'
  BY <1>1, TypedByGuard DEF BoardIInv, BoardTyped, TypeOK
<1>3. guard'.pc = "done" /\ guard'.wrote = guard.wrote
  BY DEF BoardIInv, BoardTyped, GuardType
<1> QED BY <1>2, <1>3 DEF BoardIInv, Ends, Sound, Working, Writing

LEMMA ValidateIInv ==
  ASSUME BoardIInv, Validate
  PROVE  BoardIInv'
<1> DEFINE code == IF ReportOk(board, guard.strict) THEN 0 ELSE 1
<1>1. code \in 0 .. 2 /\ board \in Seq(RowType)
  BY DEF BoardIInv, BoardTyped, TypeOK
<1>2. guard' = [guard EXCEPT !.pc = "done", !.exit = code, !.scan = board]
  BY DEF Validate, Exits, BoardIInv, BoardTyped, GuardType
<1>3. ~guard.wrote /\ "mine" \notin temps' /\ temps' \subseteq temps
  BY DEF Validate, BoardIInv, Ends
<1>4. UNCHANGED <<board, newline, norm, writes>>
  BY DEF Validate
<1> HIDE DEF code
<1> QED BY <1>1, <1>2, <1>3, <1>4, EndsIInv

LEMMA ScanIInv ==
  ASSUME BoardIInv, Scan
  PROVE  BoardIInv'
<1>1. board \in Seq(RowType) /\ guard.pc = "scan" /\ ~guard.wrote /\ guard.exit = 0
  BY DEF BoardIInv, BoardTyped, TypeOK, Ends, Scan
<1>2. "mine" \notin temps' /\ temps' \subseteq temps /\ UNCHANGED <<board, newline, norm, writes>>
  BY <1>1 DEF BoardIInv, Scan, Ends
<1>3. CASE Refuses(guard.op, board)
  <2>1. guard' = [guard EXCEPT !.pc = "done", !.exit = 1, !.scan = board]
    BY <1>3 DEF BoardIInv, Scan, Exits, BoardTyped, GuardType
  <2>2. 1 \in 0 .. 2 /\ UNCHANGED <<board, newline, norm, writes>>
    BY <1>2
  <2> QED BY <1>1, <1>2, <2>1, <2>2, EndsIInv
<1>4. CASE ~Refuses(guard.op, board)
  <2>1. guard' = [guard EXCEPT !.pc = "read", !.scan = board]
    BY <1>4 DEF BoardIInv, Scan, Goes, BoardTyped, GuardType
  <2>2. guard' \in GuardType
    BY <1>1, <2>1 DEF BoardIInv, BoardTyped, GuardType, Steps
  <2>3. BoardTyped'
    BY <1>2, <2>2, TypedByGuard DEF BoardIInv, BoardTyped, TypeOK
  <2>4. /\ guard'.pc = "read" /\ guard'.scan = board /\ guard'.op = guard.op
        /\ guard'.exit = 0 /\ guard'.wrote = guard.wrote
    BY <1>1, <2>1 DEF BoardIInv, BoardTyped, GuardType
  <2> QED BY <1>1, <1>2, <1>4, <2>3, <2>4 DEF BoardIInv, Ends, Sound, Working, Writing
<1> QED BY <1>3, <1>4

LEMMA CompactReadIInv ==
  ASSUME BoardIInv, CompactRead
  PROVE  BoardIInv'
<1> DEFINE new == CompactedPayload(guard.scan)
<1>1. /\ guard.pc = "read" /\ guard.op = "compact" /\ ~guard.wrote /\ guard.exit = 0
      /\ guard.scan \in Seq(RowType) /\ board \in Seq(RowType)
  BY DEF BoardIInv, BoardTyped, TypeOK, Ends, CompactRead
<1>2. "mine" \notin temps' /\ temps' = temps /\ UNCHANGED <<board, newline, norm, writes>>
  BY <1>1 DEF BoardIInv, CompactRead, Ends
<1>3. CASE new = board /\ newline
  <2>1. guard' = [guard EXCEPT !.pc = "done", !.exit = 0, !.scan = guard.scan]
    BY <1>3 DEF CompactRead, Exits, BoardIInv, BoardTyped, GuardType
  <2>2. 0 \in 0 .. 2 /\ temps' \subseteq temps /\ UNCHANGED <<board, newline, norm, writes>>
    BY <1>2
  <2> QED BY <1>1, <1>2, <2>1, <2>2, EndsIInv
<1>4. CASE ~(new = board /\ newline)
  <2>1. guard' = [guard EXCEPT !.pc = "write", !.out = new, !.ended = newline]
    BY <1>4 DEF BoardIInv, CompactRead, Goes, BoardTyped, GuardType
  <2>2. new \in Seq(RowType)
    BY <1>1, CompactedIsABoard
  <2>3. Latest(guard.scan, new)
    BY <1>1, CompactionKeepsTheLatest DEF BoardIInv, Sound, Working, Refuses
  <2>4. guard.late \/ ~ReportOk(guard.scan, FALSE) \/ (~newline /\ new = guard.scan)
    <3>1. guard.late \/ board = guard.scan
      BY <1>1 DEF BoardIInv, Sound, Working
    <3>2. ReportOk(guard.scan, FALSE) => new = guard.scan
      BY <1>1, ValidBoardsAreFixed
    <3>3. new # board \/ ~newline
      BY <1>4
    <3> HIDE DEF new
    <3>4. CASE new # board
      BY <3>1, <3>2, <3>4
    <3>5. CASE ~newline
      <4>1. new = guard.scan \/ ~ReportOk(guard.scan, FALSE)
        BY <3>2
      <4> QED BY <3>5, <4>1
    <3> QED BY <3>3, <3>4, <3>5
  <2> HIDE DEF new
  <2>5. guard' \in GuardType
    BY <2>1, <2>2 DEF BoardIInv, BoardTyped, TypeOK, GuardType, Steps
  <2>6. BoardTyped'
    BY <1>2, <2>5, TypedByGuard DEF BoardIInv, BoardTyped, TypeOK
  <2>7. /\ guard'.pc = "write" /\ guard'.scan = guard.scan /\ guard'.op = guard.op
        /\ guard'.exit = 0 /\ guard'.wrote = guard.wrote /\ guard'.late = guard.late
        /\ guard'.out = new /\ guard'.ended = newline
    BY <1>1, <2>1 DEF BoardIInv, BoardTyped, GuardType
  <2>8. Ends'
    BY <1>1, <1>2, <2>7 DEF BoardIInv, Ends
  <2>9. Sound'
    BY <1>1, <1>2, <2>3, <2>4, <2>7 DEF BoardIInv, Sound, Working, Writing, EndsOnly
  <2> QED BY <2>6, <2>8, <2>9 DEF BoardIInv
<1> QED BY <1>3, <1>4

LEMMA MigrateReadIInv ==
  ASSUME BoardIInv, MigrateRead
  PROVE  BoardIInv'
<1> DEFINE new == Rebuilt(guard.scan, board)
<1>1. /\ guard.pc = "read" /\ guard.op = "migrate" /\ ~guard.wrote /\ guard.exit = 0
      /\ guard.scan \in Seq(RowType) /\ board \in Seq(RowType)
  BY DEF BoardIInv, BoardTyped, TypeOK, Ends, MigrateRead
<1>2. "mine" \notin temps' /\ temps' = temps /\ UNCHANGED <<board, newline, norm, writes>>
  BY <1>1 DEF BoardIInv, MigrateRead, Ends
<1>3. CASE \E code \in {0, 1} : guard' = Exits(code)
  <2>1. PICK code \in {0, 1} :
          guard' = [guard EXCEPT !.pc = "done", !.exit = code, !.scan = guard.scan]
    BY <1>3 DEF Exits, BoardIInv, BoardTyped, GuardType
  <2>2. code \in 0 .. 2 /\ temps' \subseteq temps /\ UNCHANGED <<board, newline, norm, writes>>
    BY <1>2
  <2> QED BY <1>1, <1>2, <2>1, <2>2, EndsIInv
<1>4. CASE /\ new # board /\ Revalidates(guard.scan, new)
           /\ guard' = [Goes("write") EXCEPT !.out = new, !.read = board, !.ended = newline]
  <2>1. guard' = [guard EXCEPT !.pc = "write", !.out = new, !.read = board, !.ended = newline]
    BY <1>4 DEF BoardIInv, Goes, BoardTyped, GuardType
  <2>2. new \in Seq(RowType)
    BY <1>1, RebuiltIsABoard
  <2>3. Repaired(guard.scan, board, new)
    <3>1. SchemaViolations(new) = {} /\ Duplicates(new) = {}
      BY <1>4 DEF Revalidates
    <3>2. Len(new) = Len(board) /\ Lines(new) = Lines(board)
      BY <1>1, RebuiltIsABoard DEF Lines
    <3>3. \A i \in Lines(board) :
            \/ new[i] = board[i]
            \/ SchemaViolation(guard.scan[i]) /\ new[i].id = guard.scan[i].id
      BY <1>1, RebuiltIsABoard
    <3> HIDE DEF new
    <3> QED BY <3>1, <3>2, <3>3 DEF Repaired
  <2>4. guard.late \/ ~ReportOk(guard.scan, FALSE)
    BY <1>1, <1>4, ValidBoardsAreFixed DEF BoardIInv, Sound, Working
  <2> HIDE DEF new
  <2>5. guard' \in GuardType
    BY <1>1, <2>1, <2>2 DEF BoardIInv, BoardTyped, TypeOK, GuardType, Steps
  <2>6. BoardTyped'
    BY <1>2, <2>5, TypedByGuard DEF BoardIInv, BoardTyped, TypeOK
  <2>7. /\ guard'.pc = "write" /\ guard'.scan = guard.scan /\ guard'.op = guard.op
        /\ guard'.exit = 0 /\ guard'.wrote = guard.wrote /\ guard'.late = guard.late
        /\ guard'.out = new /\ guard'.read = board
    BY <1>1, <2>1 DEF BoardIInv, BoardTyped, GuardType
  <2>8. Ends'
    BY <1>1, <1>2, <2>7 DEF BoardIInv, Ends
  <2>9. Sound'
    BY <1>1, <1>2, <2>3, <2>4, <2>7 DEF BoardIInv, Sound, Working, Writing, EndsOnly
  <2> QED BY <2>6, <2>8, <2>9 DEF BoardIInv
<1> QED BY <1>3, <1>4 DEF MigrateRead

LEMMA WriteTempIInv ==
  ASSUME BoardIInv, WriteTemp
  PROVE  BoardIInv'
<1>1. guard.pc = "write" /\ ~guard.wrote /\ guard.exit = 0
  BY DEF BoardIInv, Ends, WriteTemp
<1>2. guard' = [guard EXCEPT !.pc = "replace"]
  BY DEF WriteTemp, Goes
<1>3. temps' = temps \cup {"mine"} /\ UNCHANGED <<board, newline, norm, writes>>
  BY DEF WriteTemp
<1>4. guard' \in GuardType
  BY <1>2 DEF BoardIInv, BoardTyped, GuardType, Steps
<1>5. BoardTyped'
  BY <1>3, <1>4, TypedByGuard DEF BoardIInv, BoardTyped, TypeOK
<1>6. /\ guard'.pc = "replace" /\ guard'.scan = guard.scan /\ guard'.op = guard.op
      /\ guard'.exit = 0 /\ guard'.wrote = guard.wrote /\ guard'.late = guard.late
      /\ guard'.out = guard.out /\ guard'.read = guard.read /\ guard'.ended = guard.ended
  BY <1>1, <1>2 DEF BoardIInv, BoardTyped, GuardType
<1>7. Ends'
  BY <1>1, <1>6 DEF Ends
<1>8. Sound'
  BY <1>1, <1>3, <1>6 DEF BoardIInv, Sound, Working, Writing, EndsOnly
<1> QED BY <1>5, <1>7, <1>8 DEF BoardIInv

LEMMA WriteFailsIInv ==
  ASSUME BoardIInv, WriteFails
  PROVE  BoardIInv'
<1>1. ~guard.wrote /\ guard.scan \in Seq(RowType) /\ 2 \in 0 .. 2
  BY DEF BoardIInv, Ends, BoardTyped, TypeOK, WriteFails
<1>2. guard' = [guard EXCEPT !.pc = "done", !.exit = 2, !.scan = guard.scan]
  BY DEF WriteFails, Exits, BoardIInv, BoardTyped, GuardType
<1>3. "mine" \notin temps' /\ temps' \subseteq temps
  BY DEF WriteFails
<1>4. UNCHANGED <<board, newline, norm, writes>>
  BY DEF WriteFails
<1> QED BY <1>1, <1>2, <1>3, <1>4, EndsIInv

LEMMA ReplaceIInv ==
  ASSUME BoardIInv, Replace
  PROVE  BoardIInv'
<1>1. guard.pc = "replace" /\ guard.exit = 0
  BY DEF BoardIInv, Ends, Replace
<1>2. guard' = [guard EXCEPT !.pc = "report", !.wrote = TRUE]
  BY DEF Replace, Goes, BoardIInv, BoardTyped, GuardType
<1>3. guard' \in GuardType
  BY <1>2 DEF BoardIInv, BoardTyped, GuardType, Steps
<1>4. /\ guard'.pc = "report" /\ guard'.scan = guard.scan
      /\ guard'.exit = 0 /\ guard'.wrote = TRUE /\ guard'.late = guard.late
      /\ guard'.op = guard.op /\ guard'.out = guard.out /\ guard'.ended = guard.ended
  BY <1>1, <1>2 DEF BoardIInv, BoardTyped, GuardType
<1>5. /\ norm' \in [pc : {"idle", "write", "open", "detached", "done", "crashed"}, out : Seq(RowType)]
      /\ norm'.pc \in {"write", "open"} => Len(norm'.out) > 0
  BY DEF Replace, BoardIInv, BoardTyped
<1>6. /\ board' \in Seq(RowType) /\ writes' \in 0 .. MaxWrites
      /\ temps' \subseteq {"left"} /\ newline' \in BOOLEAN
  <2>1. newline' = TRUE \/ newline' = guard.ended
    BY DEF Replace
  <2>2. guard.ended \in BOOLEAN
    BY DEF BoardIInv, BoardTyped, GuardType
  <2> QED BY <2>1, <2>2 DEF Replace, BoardIInv, BoardTyped, TypeOK
<1>7. BoardTyped'
  BY <1>3, <1>5, <1>6, GuardIsTyped DEF BoardTyped, TypeOK
<1>8. Ends'
  BY <1>4, <1>6 DEF Ends
<1>9. Sound'
  BY <1>1, <1>4 DEF BoardIInv, Sound, Working, Writing, EndsOnly
<1> QED BY <1>7, <1>8, <1>9 DEF BoardIInv

LEMMA ReportIInv ==
  ASSUME BoardIInv, Report
  PROVE  BoardIInv'
<1>1. guard.pc = "report" /\ guard.exit = 0 /\ "mine" \notin temps
  BY DEF BoardIInv, Ends, Report
<1>2. PICK code \in {0, 2} : guard' = [guard EXCEPT !.pc = "done", !.exit = code]
  BY <1>1 DEF Report, Exits
<1>3. UNCHANGED <<board, newline, norm, temps, writes>>
  BY DEF Report
<1>4. guard' \in GuardType
  <2>1. code \in 0 .. 2 /\ "done" \in Steps
    BY DEF Steps
  <2> QED BY <1>2, <2>1 DEF BoardIInv, BoardTyped, GuardType
<1>5. BoardTyped'
  BY <1>3, <1>4, TypedByGuard DEF BoardIInv, BoardTyped, TypeOK
<1>6. /\ guard'.pc = "done" /\ guard'.scan = guard.scan
      /\ guard'.exit = code /\ guard'.wrote = guard.wrote /\ guard'.late = guard.late
      /\ guard'.op = guard.op /\ guard'.out = guard.out /\ guard'.ended = guard.ended
  BY <1>2 DEF BoardIInv, BoardTyped, GuardType
<1>7. Ends'
  BY <1>1, <1>3, <1>6 DEF Ends
<1>8. Sound'
  BY <1>6 DEF BoardIInv, Sound, Working, Writing, EndsOnly
<1> QED BY <1>5, <1>7, <1>8 DEF BoardIInv

LEMMA KillIInv ==
  ASSUME BoardIInv, Kill
  PROVE  BoardIInv'
<1>1. guard' = [guard EXCEPT !.pc = "killed"]
  BY DEF Kill, Goes
<1>2. "mine" \notin temps' /\ temps' \subseteq {"mine", "left"}
  BY DEF Kill, BoardIInv, BoardTyped, TypeOK
<1>3. UNCHANGED <<board, newline, norm, writes>>
  BY DEF Kill
<1>4. guard' \in GuardType
  BY <1>1 DEF BoardIInv, BoardTyped, GuardType, Steps
<1>5. BoardTyped'
  BY <1>2, <1>3, <1>4, TypedByGuard DEF BoardIInv
<1>6. /\ guard'.pc = "killed" /\ guard'.scan = guard.scan
      /\ guard'.wrote = guard.wrote /\ guard'.late = guard.late
      /\ guard'.op = guard.op /\ guard'.out = guard.out /\ guard'.ended = guard.ended
  BY <1>1 DEF BoardIInv, BoardTyped, GuardType
<1>7. Ends'
  BY <1>2, <1>6 DEF Ends
<1>8. Sound'
  BY <1>6 DEF BoardIInv, Sound, Working, Writing, EndsOnly
<1> QED BY <1>5, <1>7, <1>8 DEF BoardIInv

LEMMA AgainIInv ==
  ASSUME BoardIInv, Again
  PROVE  BoardIInv'
<1>1. guard' = Idle /\ "mine" \notin temps' /\ UNCHANGED <<board, newline, norm, temps, writes>>
  BY DEF Again, BoardIInv, Ends
<1>2. BoardTyped'
  BY <1>1, IdleIsTyped, TypedByGuard DEF BoardIInv, BoardTyped, TypeOK
<1>3. guard'.pc = "idle" /\ guard'.exit = 0 /\ guard'.wrote = FALSE
  BY <1>1 DEF Idle
<1> QED BY <1>1, <1>2, <1>3 DEF BoardIInv, Ends, Sound, Working, Writing

\* Whoever else writes the board marks a run that has scanned it as late.
LEMMA LateIInv ==
  ASSUME BoardIInv, guard' = Late, board' \in Seq(RowType), newline' \in BOOLEAN, UNCHANGED temps,
         writes' \in 0 .. MaxWrites,
         norm' \in [pc : {"idle", "write", "open", "detached", "done", "crashed"}, out : Seq(RowType)],
         norm'.pc \in {"write", "open"} => Len(norm'.out) > 0
  PROVE  BoardIInv'
<1> DEFINE late == guard.late \/ guard.pc \notin {"idle", "done", "killed", "scan"}
<1>1. guard' = [guard EXCEPT !.late = late]
  BY DEF Late, BoardIInv, BoardTyped, GuardType
<1>2. late \in BOOLEAN
  BY DEF BoardIInv, BoardTyped, GuardType
<1>3. late <=> guard.late \/ guard.pc \notin {"idle", "done", "killed", "scan"}
  OBVIOUS
<1> HIDE DEF late
<1>4. guard' \in GuardType
  BY <1>1, <1>2 DEF BoardIInv, BoardTyped, GuardType
<1>5. /\ guard'.pc = guard.pc /\ guard'.scan = guard.scan /\ guard'.op = guard.op
      /\ guard'.exit = guard.exit /\ guard'.wrote = guard.wrote
      /\ guard'.out = guard.out /\ guard'.read = guard.read /\ guard'.ended = guard.ended
  BY <1>1 DEF BoardIInv, BoardTyped, GuardType
<1>6. guard'.late = late
  BY <1>1 DEF BoardIInv, BoardTyped, GuardType
<1>7. BoardTyped'
  <2>1. TypeOK'
    BY <1>4, GuardIsTyped DEF BoardIInv, BoardTyped, TypeOK
  <2> QED BY <1>4, <2>1 DEF BoardTyped
<1>8. Ends'
  BY <1>5 DEF BoardIInv, Ends
<1>9. Sound'
  <2>1. guard.late => guard'.late
    BY <1>3, <1>6
  <2>2. guard.pc \in Working => guard'.late
    BY <1>3, <1>6 DEF Working
  <2> QED BY <1>5, <2>1, <2>2 DEF BoardIInv, Sound, Working, Writing, EndsOnly
<1> QED BY <1>7, <1>8, <1>9 DEF BoardIInv

LEMMA NormReadIInv ==
  ASSUME BoardIInv, NormRead
  PROVE  BoardIInv'
<1> DEFINE out == [i \in Lines(board) |-> NormalizedRow(board[i])]
<1>1. board \in Seq(RowType) /\ UNCHANGED <<board, newline, guard, temps, writes>>
  BY DEF BoardIInv, BoardTyped, TypeOK, NormRead
<1>2. out \in Seq(RowType) /\ (out # board => Len(out) > 0)
  BY <1>1, NormalizedIsABoard
<1>3. \/ norm' = [norm EXCEPT !.pc = "crashed"]
      \/ norm' = [norm EXCEPT !.pc = "done"]
      \/ out # board /\ norm' = [pc |-> "write", out |-> out]
  BY DEF NormRead
<1> HIDE DEF out
<1>4. /\ norm' \in [pc : {"idle", "write", "open", "detached", "done", "crashed"}, out : Seq(RowType)]
      /\ norm'.pc \in {"write", "open"} => Len(norm'.out) > 0
  <2>1. CASE norm' = [norm EXCEPT !.pc = "crashed"]
    BY <2>1 DEF BoardIInv, BoardTyped
  <2>2. CASE norm' = [norm EXCEPT !.pc = "done"]
    BY <2>2 DEF BoardIInv, BoardTyped
  <2>3. CASE out # board /\ norm' = [pc |-> "write", out |-> out]
    BY <1>2, <2>3
  <2> QED BY <1>3, <2>1, <2>2, <2>3
<1>5. BoardTyped'
  BY <1>1, <1>4 DEF BoardIInv, BoardTyped, TypeOK
<1>6. Ends' /\ Sound'
  BY <1>1 DEF BoardIInv, Ends, Sound, EndsOnly
<1> QED BY <1>5, <1>6 DEF BoardIInv

LEMMA NormTruncateIInv ==
  ASSUME BoardIInv, NormTruncate
  PROVE  BoardIInv'
<1>1. /\ norm' \in [pc : {"idle", "write", "open", "detached", "done", "crashed"}, out : Seq(RowType)]
      /\ norm'.pc \in {"write", "open"} => Len(norm'.out) > 0
  BY DEF NormTruncate, BoardIInv, BoardTyped
<1>2. board' \in Seq(RowType)
  BY IdleIsTyped DEF NormTruncate
<1>3. guard' = Late /\ UNCHANGED temps /\ writes' \in 0 .. MaxWrites /\ newline' \in BOOLEAN
  BY DEF NormTruncate, BoardIInv, BoardTyped, TypeOK
<1> QED BY <1>1, <1>2, <1>3, LateIInv

LEMMA NormWriteIInv ==
  ASSUME BoardIInv, NormWrite
  PROVE  BoardIInv'
<1>1. /\ norm' \in [pc : {"idle", "write", "open", "detached", "done", "crashed"}, out : Seq(RowType)]
      /\ norm'.pc \in {"write", "open"} => Len(norm'.out) > 0
  BY DEF NormWrite, BoardIInv, BoardTyped
<1>2. board' \in Seq(RowType)
  <2> DEFINE half == [norm.out[1] EXCEPT !.id = "unparsed"]
  <2>1. norm.out \in Seq(RowType) /\ board \in Seq(RowType)
    BY DEF BoardIInv, BoardTyped, TypeOK
  <2>2. norm.pc = "open" => half \in RowType
    <3> SUFFICES ASSUME norm.pc = "open" PROVE half \in RowType
      OBVIOUS
    <3>1. 1 \in 1 .. Len(norm.out)
      BY <2>1, LenProperties DEF BoardIInv, BoardTyped
    <3>2. norm.out[1] \in RowType
      BY <2>1, <3>1, ElementOfSeq
    <3> QED BY <3>2 DEF RowType, Unusable
  <2> HIDE DEF half
  <2>3. half \in RowType => <<half>> \in Seq(RowType)
    OBVIOUS
  <2> QED BY <2>1, <2>2, <2>3 DEF NormWrite, half
<1>3. guard' = Late /\ UNCHANGED temps /\ writes' \in 0 .. MaxWrites /\ newline' \in BOOLEAN
  BY DEF NormWrite, BoardIInv, BoardTyped, TypeOK
<1> QED BY <1>1, <1>2, <1>3, LateIInv

LEMMA AgentIInv ==
  ASSUME BoardIInv, Agent
  PROVE  BoardIInv'
<1>1. /\ norm' \in [pc : {"idle", "write", "open", "detached", "done", "crashed"}, out : Seq(RowType)]
      /\ norm'.pc \in {"write", "open"} => Len(norm'.out) > 0
  BY DEF Agent, BoardIInv, BoardTyped
<1>2. board' \in Seq(RowType)
  <2>1. PICK row \in Written :
          \/ board' = Append(board, row)
          \/ board' = [board EXCEPT ![Len(board)].id = "unparsed"]
          \/ \E i \in Lines(board) : board' = [board EXCEPT ![i] = row]
    BY DEF Agent
  <2>2. row \in RowType /\ board \in Seq(RowType)
    BY BoardAssumption DEF BoardIInv, BoardTyped, TypeOK
  <2>3. CASE board' = Append(board, row)
    BY <2>2, <2>3, AppendProperties
  <2>4. CASE \E i \in Lines(board) : board' = [board EXCEPT ![i] = row]
    BY <2>2, <2>4, ExceptSeq DEF Lines
  <2>5. CASE board' = [board EXCEPT ![Len(board)].id = "unparsed"]
    <3> DEFINE last == [board[Len(board)] EXCEPT !.id = "unparsed"]
    <3>1. Len(board) \in Nat /\ DOMAIN board = 1 .. Len(board)
      BY <2>2, LenProperties
    <3>2. board' = [board EXCEPT ![Len(board)] = last]
      BY <2>5
    <3>3. CASE Len(board) = 0
      <4>1. Len(board) \notin DOMAIN board
        BY <3>1, <3>3
      <4> HIDE DEF last
      <4>2. board' = board
        BY <2>2, <3>1, <3>2, <4>1, LenProperties
      <4> QED BY <2>2, <4>2
    <3>4. CASE Len(board) # 0
      <4>1. Len(board) \in 1 .. Len(board)
        BY <3>1, <3>4
      <4>2. board[Len(board)] \in RowType
        BY <2>2, <4>1, ElementOfSeq
      <4>3. last \in RowType
        BY <4>2 DEF RowType, Unusable
      <4> HIDE DEF last
      <4> QED BY <2>2, <3>2, <4>1, <4>3, ExceptSeq
    <3> QED BY <3>3, <3>4
  <2> QED BY <2>1, <2>3, <2>4, <2>5
<1>3. guard' = Late /\ UNCHANGED temps /\ writes' \in 0 .. MaxWrites /\ newline' \in BOOLEAN
  <2>1. guard' = Late /\ UNCHANGED temps /\ writes' \in 0 .. MaxWrites
    BY BoardAssumption DEF Agent, BoardIInv, BoardTyped, TypeOK
  <2>2. newline' = TRUE \/ newline' = newline
    BY DEF Agent
  <2>3. newline \in BOOLEAN
    BY DEF BoardIInv, BoardTyped, TypeOK
  <2> QED BY <2>1, <2>2, <2>3
<1> QED BY <1>1, <1>2, <1>3, LateIInv

LEMMA NextIInv ==
  ASSUME BoardIInv, [Next]_vars
  PROVE  BoardIInv'
<1>1. ASSUME NEW op \in {"validate", "compact", "migrate"}, NEW strict \in BOOLEAN,
             Start(op, strict)
      PROVE  BoardIInv'
  BY <1>1, StartIInv
<1>2. CASE Validate     BY <1>2, ValidateIInv
<1>3. CASE Scan         BY <1>3, ScanIInv
<1>4. CASE CompactRead  BY <1>4, CompactReadIInv
<1>5. CASE MigrateRead  BY <1>5, MigrateReadIInv
<1>6. CASE WriteTemp    BY <1>6, WriteTempIInv
<1>7. CASE WriteFails   BY <1>7, WriteFailsIInv
<1>8. CASE Replace      BY <1>8, ReplaceIInv
<1>9. CASE Report       BY <1>9, ReportIInv
<1>10. CASE Kill        BY <1>10, KillIInv
<1>11. CASE Again       BY <1>11, AgainIInv
<1>12. CASE NormRead    BY <1>12, NormReadIInv
<1>13. CASE NormTruncate BY <1>13, NormTruncateIInv
<1>14. CASE NormWrite   BY <1>14, NormWriteIInv
<1>15. CASE Agent       BY <1>15, AgentIInv
<1>16. CASE UNCHANGED vars
  <2>1. UNCHANGED <<board, newline, guard, norm, temps, writes>>
    BY <1>16 DEF vars
  <2>2. BoardTyped'
    BY <2>1 DEF BoardIInv, BoardTyped, TypeOK
  <2>3. Ends'
    BY <2>1 DEF BoardIInv, Ends
  <2>4. Sound'
    BY <2>1 DEF BoardIInv, Sound, EndsOnly
  <2> QED BY <2>2, <2>3, <2>4 DEF BoardIInv
<1>17. CASE Guard
  BY <1>1, <1>2, <1>3, <1>4, <1>5, <1>6, <1>7, <1>8, <1>9, <1>10, <1>11, <1>17 DEF Guard
<1> QED BY <1>12, <1>13, <1>14, <1>15, <1>16, <1>17 DEF Next

LEMMA IInvHolds == Spec => []BoardIInv
<1>1. Init => BoardIInv
  BY InitIInv
<1>2. BoardIInv /\ [Next]_vars => BoardIInv'
  BY NextIInv
<1> QED BY <1>1, <1>2, PTL DEF Spec

----------------------------------------------------------------------------
\* A run of board_id_guard.py either replaces the board or leaves everything as
\* it was (board_id_guard.py run_compact, run_migrate, atomic_write): whatever
\* the board holds and whoever else writes it, a refusal has replaced nothing
\* and only a killed run leaves its temporary file.
THEOREM RunsAreWhole == Spec => []NoHalfRun
<1>1. BoardIInv => NoHalfRun
  BY DEF BoardIInv, Ends, NoHalfRun, RefusalWritesNothing, OnlyAKillLeavesATemp
<1> QED BY <1>1, IInvHolds, PTL

\* What replaces the board keeps it (board_id_guard.py compacted_payload,
\* run_compact, run_migrate): for every board, a compaction keeps the last row of
\* every task in order, a migration changes defective rows alone, and neither
\* takes a row of a valid board: only the newline after its last row is added.
THEOREM ReplacementsKeepTheBoard == Spec => []BoardIsKept
<1>1. BoardIInv => BoardIsKept
  <2> SUFFICES ASSUME BoardIInv PROVE BoardIsKept
    OBVIOUS
  <2>1. CompactKeepsTheLatest
    BY DEF BoardIInv, Sound, Working, Writing, CompactKeepsTheLatest
  <2>2. MigrationOnlyRepairs
    BY DEF BoardIInv, Sound, Working, Writing, MigrationOnlyRepairs, Repaired
  <2>3. ValidBoardIsKept
    BY DEF BoardIInv, Sound, EndsOnly, ValidBoardIsKept
  <2> QED BY <2>1, <2>2, <2>3 DEF BoardIInv, BoardTyped, BoardIsKept
<1> QED BY <1>1, IInvHolds, PTL

----------------------------------------------------------------------------
(* kernel-matrix-teardown.py.                                                  *)

\* What a cell knows while it runs: until a stranger's sleep starts, whatever is
\* new in /proc is the payload of this cell.
Watching ==
    ~foreign =>
        /\ "stranger" \notin others
        /\ run.pc = "wait" => others \subseteq run.before
        /\ run.pc = "kill" => run.payload = "mine" /\ jail = "up"
        /\ run.pc = "watch" => run.payload = "mine" /\ jail \in {"up", "gone"}

\* Between two cells the jail is where the row of the last one says; during
\* one, its backend is at the head of the queue, and the wrapper is alive until
\* it is killed.
Between ==
    /\ run.pc \in {"next", "done"} /\ run.last # "none" /\ ~foreign =>
         jail = IF run.last \in LiveVerdicts THEN "gone" ELSE "none"
    /\ run.pc \in {"wait", "kill", "watch"} => run.left # <<>>
    /\ run.pc \in {"wait", "kill"} => wrapper = "up"

\* A gate run has one cell to measure, and then one row.
GateCell ==
    run.mode = "gate" =>
        /\ run.pc \in {"next", "wait", "kill", "watch"} /\ run.last = "none" =>
             rows = <<>> /\ run.left = <<"unshare">>
        /\ run.pc \in {"wait", "kill", "watch"} => run.last = "none"
        /\ run.pc = "done" => run.last # "none"
        /\ run.pc \in {"next", "done"} /\ run.last # "none" =>
             /\ run.left = <<>> /\ Len(rows) = 1
             /\ rows[1].kernel = ThisKernel /\ rows[1].verdict = run.last

\* The answer that was given is the answer of the rows.
Answered ==
    run.pc = "done" =>
        /\ run.mode = "gate" => run.verdict = GateVerdict(rows)
        /\ run.verdict = "GREEN" => MatrixGreen(rows)

TeardownIInv == TeardownTypeOK /\ Watching /\ Between /\ GateCell /\ Answered

LEMMA ImportIsValid ==
  ASSUME NEW file \in Seq(RawRow)
  PROVE  /\ LoadImport(file) \in Seq(RawRow)
         /\ \A i \in Lines(LoadImport(file)) : ValidateRow(LoadImport(file)[i])
<1> DEFINE keep == {i \in Lines(file) : ValidateRow(file[i])}
           new == Selects(file, keep)
<1>1. keep \in SUBSET Lines(file)
  OBVIOUS
<1>2. LoadImport(file) = new
  BY DEF LoadImport
<1>3. \A i \in keep : ValidateRow(file[i])
  OBVIOUS
<1> HIDE DEF keep
<1>4. /\ new \in Seq(RawRow)
      /\ \E at \in [Lines(new) -> keep] : \A k \in Lines(new) : new[k] = file[at[k]]
  BY <1>1, SelectionKeepsOrder
<1>5. PICK at \in [Lines(new) -> keep] : \A k \in Lines(new) : new[k] = file[at[k]]
  BY <1>4
<1>6. \A k \in Lines(new) : at[k] \in keep
  BY <1>5
<1> QED BY <1>2, <1>3, <1>4, <1>5, <1>6

LEMMA QueueIsTyped ==
  ASSUME NEW file
  PROVE  ToMeasure(file) \in Seq(Backends)
<1> DEFINE queue == <<"bwrap", "unshare">>
           keep == {i \in Lines(queue) : ~HasCell(file, ThisKernel, queue[i])}
<1>1. queue \in Seq(Backends)
  BY DEF Backends
<1>2. keep \in SUBSET Lines(queue)
  OBVIOUS
<1> HIDE DEF queue, keep
<1>3. Selects(queue, keep) \in Seq(Backends)
  BY <1>1, <1>2, SelectionKeepsOrder
<1> QED BY <1>3 DEF ToMeasure, queue, keep

\* The row a cell adds, and the run that goes on.
LEMMA AppendIsTyped ==
  ASSUME NEW old \in Seq(RawRow), NEW row \in RawRow, ValidateRow(row),
         \A i \in 1 .. Len(old) : ValidateRow(old[i])
  PROVE  /\ Append(old, row) \in Seq(RawRow) /\ Len(Append(old, row)) = Len(old) + 1
         /\ \A i \in 1 .. Len(Append(old, row)) : ValidateRow(Append(old, row)[i])
         /\ old = <<>> => Append(old, row)[1] = row
<1>1. Len(old) \in Nat /\ Append(old, row) \in Seq(RawRow) /\ Len(Append(old, row)) = Len(old) + 1
  BY AppendProperties, LenProperties
<1>2. \A i \in 1 .. Len(old) + 1 : Append(old, row)[i] = IF i <= Len(old) THEN old[i] ELSE row
  BY <1>1, AppendProperties
<1>3. ASSUME NEW i \in 1 .. Len(old) + 1 PROVE ValidateRow(Append(old, row)[i])
  <2>1. CASE i <= Len(old)
    <3>1. i \in 1 .. Len(old)
      BY <1>1, <2>1
    <3> QED BY <1>2, <2>1, <3>1
  <2>2. CASE ~(i <= Len(old))
    BY <1>2, <2>2
  <2> QED BY <2>1, <2>2
<1>4. old = <<>> => Append(old, row)[1] = row
  BY <1>2
<1> QED BY <1>1, <1>3, <1>4

LEMMA LeftIsTyped ==
  ASSUME NEW left \in Seq(Backends), left # <<>>
  PROVE  /\ Head(left) \in Backends /\ Tail(left) \in Seq(Backends)
         /\ left = <<"unshare">> => Tail(left) = <<>>
<1>1. Head(left) \in Backends /\ Tail(left) \in Seq(Backends) /\ Len(Tail(left)) = Len(left) - 1
  BY HeadTailProperties
<1>2. left = <<"unshare">> => Len(left) = 1
  OBVIOUS
<1>3. Len(Tail(left)) = 0 => Tail(left) = <<>>
  BY <1>1, EmptySeq
<1> QED BY <1>1, <1>2, <1>3


\* What _measured_row does with a row: in the matrix if it is valid, or the end.
LEMMA MeasuredEither ==
  ASSUME TeardownIInv, run.left # <<>>,
         NEW v \in Verdicts, NEW s \in {"null", "number"}, NEW x \in {"null", "int"}, Measured(v, s, x)
  PROVE  /\ run' \in RunType /\ rows' \in Seq(RawRow)
         /\ \A i \in 1 .. Len(rows') : ValidateRow(rows'[i])
         /\ run'.mode = run.mode /\ run'.verdict = run.verdict
         /\ \/ run'.pc = "crashed"
            \/ /\ run'.pc = "next" /\ run'.last = v /\ run'.left = Tail(run.left)
               /\ rows = <<>> => Len(rows') = 1 /\ rows'[1].kernel = ThisKernel /\ rows'[1].verdict = v
         /\ v \in LiveVerdicts => run'.pc = "next" \/ s # "number" \/ x # "int"
<1> DEFINE row == [kernel |-> ThisKernel, backend |-> Head(run.left), verdict |-> v,
                   survival |-> s, exit |-> x]
<1>1. /\ run \in RunType /\ rows \in Seq(RawRow) /\ run.left \in Seq(Backends)
      /\ \A i \in 1 .. Len(rows) : ValidateRow(rows[i])
  BY DEF TeardownIInv, TeardownTypeOK, RunType
<1>2. Head(run.left) \in Backends /\ Tail(run.left) \in Seq(Backends)
  BY <1>1, LeftIsTyped
<1>3. row \in RawRow /\ row.kernel = ThisKernel /\ row.verdict = v
  BY <1>2, TeardownAssumption DEF RawRow
<1>4. CASE ValidateRow(row)
  <2>1. rows' = Append(rows, row) /\ run' = [run EXCEPT !.pc = "next", !.left = Tail(@), !.last = v]
    BY <1>4 DEF Measured
  <2>2. /\ run' \in RunType /\ run'.pc = "next" /\ run'.last = v /\ run'.left = Tail(run.left)
        /\ run'.mode = run.mode /\ run'.verdict = run.verdict
    BY <1>1, <1>2, <2>1 DEF RunType
  <2> HIDE DEF row
  <2>3. /\ rows' \in Seq(RawRow) /\ Len(rows') = Len(rows) + 1
        /\ \A i \in 1 .. Len(rows') : ValidateRow(rows'[i])
        /\ rows = <<>> => rows'[1] = row
    BY <1>1, <1>3, <1>4, <2>1, AppendIsTyped
  <2>4. rows = <<>> => Len(rows') = 1
    BY <2>3
  <2> QED BY <1>3, <2>2, <2>3, <2>4
<1>5. CASE ~ValidateRow(row)
  <2>1. rows' = rows /\ run' = [run EXCEPT !.pc = "crashed", !.exit = 1]
    BY <1>5 DEF Measured
  <2>2. /\ run' \in RunType /\ run'.pc = "crashed"
        /\ run'.mode = run.mode /\ run'.verdict = run.verdict
    <3>1. 1 \in 0 .. 1
      OBVIOUS
    <3> QED BY <1>1, <2>1, <3>1 DEF RunType
  <2>3. v \in LiveVerdicts => s # "number" \/ x # "int"
    BY <1>2, <1>5 DEF ValidateRow
  <2> QED BY <1>1, <2>1, <2>2, <2>3
<1> QED BY <1>4, <1>5

LEMMA InitTeardown == TeardownInit => TeardownIInv
<1> SUFFICES ASSUME TeardownInit PROVE TeardownIInv
  OBVIOUS
<1>1. NoRun \in RunType
  <2>1. <<>> \in Seq(Backends) /\ 0 \in 0 .. 1
    OBVIOUS
  <2> QED BY <2>1 DEF NoRun, RunType
<1>2. rows \in Seq(RawRow) /\ Len(rows) = 0
  BY DEF TeardownInit
<1>3. TeardownTypeOK
  <2>1. \A i \in 1 .. Len(rows) : ValidateRow(rows[i])
    BY <1>2
  <2>2. others \subseteq Strangers
    BY DEF TeardownInit, Strangers
  <2> QED BY <1>1, <1>2, <2>1, <2>2 DEF TeardownInit, TeardownTypeOK
<1>4. run.pc = "idle" /\ run.mode = "none" /\ others \subseteq {"old"}
  BY DEF TeardownInit, NoRun
<1> QED BY <1>3, <1>4 DEF TeardownIInv, Watching, Between, GateCell, Answered

LEMMA BeginTeardown ==
  ASSUME TeardownIInv, Begin PROVE TeardownIInv'
<1>1. /\ run.pc = "idle" /\ run \in RunType /\ UNCHANGED <<jail, wrapper, others, foreign>>
      /\ jail \in {"none", "starting", "up", "gone", "refused"} /\ wrapper \in {"none", "up", "dead"}
      /\ others \subseteq Strangers /\ foreign \in BOOLEAN /\ (~foreign => "stranger" \notin others)
  BY DEF Begin, TeardownIInv, TeardownTypeOK, Watching
<1>2. /\ run' \in RunType /\ run'.pc = "next" /\ run'.last = "none" /\ rows' \in Seq(RawRow)
      /\ \A i \in 1 .. Len(rows') : ValidateRow(rows'[i])
      /\ run'.mode = "gate" => rows' = <<>> /\ run'.left = <<"unshare">>
  <2>1. CASE run' = [NoRun EXCEPT !.mode = "gate", !.pc = "next", !.left = <<"unshare">>] /\ rows' = <<>>
    <3>1. <<"unshare">> \in Seq(Backends) /\ rows' \in Seq(RawRow) /\ Len(rows') = 0 /\ 0 \in 0 .. 1
      BY <2>1 DEF Backends
    <3>2. \A i \in 1 .. Len(rows') : ValidateRow(rows'[i])
      BY <3>1
    <3>3. /\ run' \in RunType /\ run'.pc = "next" /\ run'.last = "none"
          /\ run'.left = <<"unshare">> /\ run'.mode = "gate"
      BY <2>1, <3>1 DEF NoRun, RunType
    <3> QED BY <2>1, <3>1, <3>2, <3>3
  <2>2. CASE \E file \in Imports :
               /\ rows' = LoadImport(file)
               /\ run' = [NoRun EXCEPT !.mode = "matrix", !.pc = "next", !.left = ToMeasure(rows')]
    <3>1. PICK file \in Imports :
               /\ rows' = LoadImport(file)
               /\ run' = [NoRun EXCEPT !.mode = "matrix", !.pc = "next", !.left = ToMeasure(rows')]
      BY <2>2
    <3>2. file \in Seq(RawRow)
      BY TeardownAssumption
    <3>3. /\ rows' \in Seq(RawRow) /\ \A i \in 1 .. Len(rows') : ValidateRow(rows'[i])
          /\ ToMeasure(rows') \in Seq(Backends) /\ 0 \in 0 .. 1
      BY <3>1, <3>2, ImportIsValid, QueueIsTyped DEF Lines
    <3> QED BY <3>1, <3>3 DEF NoRun, RunType
  <2> QED BY <2>1, <2>2 DEF Begin
<1>3. TeardownTypeOK'
  BY <1>1, <1>2 DEF TeardownTypeOK
<1>4. Watching' /\ Between' /\ GateCell' /\ Answered'
  BY <1>1, <1>2 DEF Watching, Between, GateCell, Answered
<1> QED BY <1>3, <1>4 DEF TeardownIInv


\* What holds while a cell runs, whoever is gone by then.
LEMMA RunningCell ==
  ASSUME TeardownIInv, run.pc \in {"next", "wait", "kill", "watch"}, run.left # <<>>
  PROVE  /\ run.mode = "gate" => run.last = "none" /\ rows = <<>> /\ run.left = <<"unshare">>
         /\ run.left = <<"unshare">> => Tail(run.left) = <<>>
<1>1. run.left \in Seq(Backends)
  BY DEF TeardownIInv, TeardownTypeOK, RunType
<1> QED BY <1>1, LeftIsTyped DEF TeardownIInv, GateCell

\* The end of a cell: the jail is where the row says, or a stranger came.
LEMMA CellEnds ==
  ASSUME TeardownIInv, run.pc \in {"next", "wait", "watch"}, run.left # <<>>,
         NEW v \in Verdicts, NEW s \in {"null", "number"}, NEW x \in {"null", "int"}, Measured(v, s, x),
         jail' \in {"none", "starting", "up", "gone", "refused"}, wrapper' \in {"none", "up", "dead"},
         others' \subseteq Strangers, foreign' \in BOOLEAN, ~foreign' => "stranger" \notin others',
         ~foreign' /\ run'.pc = "next" => jail' = IF v \in LiveVerdicts THEN "gone" ELSE "none"
  PROVE  TeardownIInv'
<1>1. /\ run' \in RunType /\ rows' \in Seq(RawRow)
      /\ \A i \in 1 .. Len(rows') : ValidateRow(rows'[i])
      /\ run'.mode = run.mode
      /\ \/ run'.pc = "crashed"
         \/ /\ run'.pc = "next" /\ run'.last = v /\ run'.left = Tail(run.left)
            /\ rows = <<>> => Len(rows') = 1 /\ rows'[1].kernel = ThisKernel /\ rows'[1].verdict = v
  BY MeasuredEither
<1>2. TeardownTypeOK'
  BY <1>1 DEF TeardownTypeOK
<1>3. run.mode = "gate" => rows = <<>> /\ Tail(run.left) = <<>>
  BY RunningCell
<1>4. v # "none"
  BY DEF Verdicts
<1>5. Watching' /\ Between' /\ Answered'
  BY <1>1 DEF Watching, Between, Answered
<1>6. GateCell'
  BY <1>1, <1>3, <1>4 DEF GateCell
<1> QED BY <1>2, <1>5, <1>6 DEF TeardownIInv

LEMMA LaunchTeardown ==
  ASSUME TeardownIInv, Launch PROVE TeardownIInv'
<1>1. /\ run.pc = "next" /\ run.left # <<>> /\ run \in RunType /\ UNCHANGED foreign
      /\ others \subseteq Strangers /\ foreign \in BOOLEAN /\ (~foreign => "stranger" \notin others)
      /\ others' = others \cup (IF jail = "up" THEN {"stray"} ELSE {})
  BY DEF Launch, TeardownIInv, TeardownTypeOK, Watching
<1>2. others' \subseteq Strangers /\ (~foreign => "stranger" \notin others')
  BY <1>1 DEF Strangers
<1>3. CASE jail' = "starting" /\ wrapper' = "up" /\ UNCHANGED rows
           /\ run' = [run EXCEPT !.pc = "wait", !.before = others']
  <2>1. /\ run' \in RunType /\ run'.pc = "wait" /\ run'.before = others' /\ run'.left = run.left
        /\ run'.mode = run.mode /\ run'.last = run.last
    BY <1>1, <1>2, <1>3 DEF RunType
  <2>2. run.mode = "gate" => run.last = "none" /\ rows = <<>> /\ run.left = <<"unshare">>
    BY <1>1, RunningCell
  <2>3. TeardownTypeOK'
    BY <1>1, <1>2, <1>3, <2>1 DEF TeardownIInv, TeardownTypeOK
  <2>4. Watching' /\ Between' /\ Answered'
    BY <1>1, <1>2, <1>3, <2>1 DEF Watching, Between, Answered
  <2>5. GateCell'
    BY <1>3, <2>1, <2>2 DEF GateCell
  <2> QED BY <2>3, <2>4, <2>5 DEF TeardownIInv
<1>4. CASE jail' = "none" /\ wrapper' = "none" /\ Measured("UNAVAILABLE", "null", "null")
  <2>1. "UNAVAILABLE" \in Verdicts /\ "UNAVAILABLE" \notin LiveVerdicts
    BY DEF Verdicts, LiveVerdicts
  <2> QED BY <1>1, <1>2, <1>4, <2>1, CellEnds
<1> QED BY <1>3, <1>4 DEF Launch

LEMMA FoundTeardown ==
  ASSUME TeardownIInv, Found PROVE TeardownIInv'
<1>1. PICK pid \in Sleepers \ run.before : run' = [run EXCEPT !.pc = "kill", !.payload = pid]
  BY DEF Found
<1>2. /\ run.pc = "wait" /\ run \in RunType /\ others \subseteq Strangers
      /\ UNCHANGED <<rows, jail, wrapper, others, foreign>>
  BY DEF Found, TeardownIInv, TeardownTypeOK
<1>3. pid \in {"mine"} \cup Strangers /\ (pid \notin others => pid = "mine" /\ jail = "up")
  BY <1>2 DEF Sleepers
<1>4. /\ run' \in RunType /\ run'.pc = "kill" /\ run'.payload = pid /\ run'.left = run.left
      /\ run'.mode = run.mode /\ run'.last = run.last
  BY <1>1, <1>2, <1>3 DEF RunType
<1>5. TeardownTypeOK'
  BY <1>2, <1>4 DEF TeardownIInv, TeardownTypeOK
<1>6. Watching'
  BY <1>1, <1>2, <1>3, <1>4 DEF TeardownIInv, Watching
<1>7. Between' /\ Answered' /\ GateCell'
  BY <1>2, <1>4 DEF TeardownIInv, Between, Answered, GateCell
<1> QED BY <1>5, <1>6, <1>7 DEF TeardownIInv

LEMMA WaitExpiresTeardown ==
  ASSUME TeardownIInv, WaitExpires PROVE TeardownIInv'
<1>1. /\ run.pc = "wait" /\ wrapper' = "dead" /\ Measured("UNAVAILABLE", "null", "int")
      /\ UNCHANGED <<jail, others, foreign>> /\ run.left # <<>>
      /\ jail \in {"none", "starting", "up", "gone", "refused"}
      /\ others \subseteq Strangers /\ foreign \in BOOLEAN /\ (~foreign => "stranger" \notin others)
  BY DEF WaitExpires, TeardownIInv, TeardownTypeOK, Watching, Between
<1>2. "UNAVAILABLE" \in Verdicts
  BY DEF Verdicts
\* an UNAVAILABLE row with an exit code is malformed: the assertion fails
<1>3. run'.pc = "crashed"
  BY <1>1 DEF Measured, ValidateRow, LiveVerdicts, TeardownIInv, TeardownTypeOK, RunType
<1> QED BY <1>1, <1>2, <1>3, CellEnds

LEMMA KillWrapperTeardown ==
  ASSUME TeardownIInv, KillWrapper PROVE TeardownIInv'
<1>1. /\ run.pc = "kill" /\ run \in RunType /\ wrapper' = "dead" /\ run' = [run EXCEPT !.pc = "watch"]
      /\ UNCHANGED <<rows, jail, others, foreign>>
  BY DEF KillWrapper, TeardownIInv, TeardownTypeOK
<1>2. /\ run' \in RunType /\ run'.pc = "watch" /\ run'.payload = run.payload /\ run'.left = run.left
      /\ run'.mode = run.mode /\ run'.last = run.last
  BY <1>1 DEF RunType
<1>3. TeardownTypeOK'
  BY <1>1, <1>2 DEF TeardownIInv, TeardownTypeOK
<1>4. Watching' /\ Between' /\ Answered' /\ GateCell'
  BY <1>1, <1>2 DEF TeardownIInv, Watching, Between, Answered, GateCell
<1> QED BY <1>3, <1>4 DEF TeardownIInv

LEMMA DisappearedTeardown ==
  ASSUME TeardownIInv, Disappeared PROVE TeardownIInv'
<1>1. /\ run.pc = "watch" /\ run.payload \notin Sleepers /\ Measured("PASS", "number", "int")
      /\ UNCHANGED <<jail, wrapper, others, foreign>> /\ run.left # <<>>
      /\ jail \in {"none", "starting", "up", "gone", "refused"} /\ wrapper \in {"none", "up", "dead"}
      /\ others \subseteq Strangers /\ foreign \in BOOLEAN /\ (~foreign => "stranger" \notin others)
  BY DEF Disappeared, TeardownIInv, TeardownTypeOK, Watching, Between
<1>2. "PASS" \in Verdicts /\ "PASS" \in LiveVerdicts
  BY DEF Verdicts, LiveVerdicts
<1>3. ~foreign => jail = "gone"
  BY <1>1 DEF TeardownIInv, Watching, Sleepers
<1> QED BY <1>1, <1>2, <1>3, CellEnds

LEMMA BudgetExpiresTeardown ==
  ASSUME TeardownIInv, BudgetExpires PROVE TeardownIInv'
<1>1. /\ run.pc = "watch" /\ Measured("FAIL", "number", "int")
      /\ jail' = (IF run.payload = "mine" THEN "gone" ELSE jail)
      /\ others' = others \ {run.payload} /\ UNCHANGED <<wrapper, foreign>> /\ run.left # <<>>
      /\ jail \in {"none", "starting", "up", "gone", "refused"} /\ wrapper \in {"none", "up", "dead"}
      /\ others \subseteq Strangers /\ foreign \in BOOLEAN /\ (~foreign => "stranger" \notin others)
  BY DEF BudgetExpires, TeardownIInv, TeardownTypeOK, Watching, Between
<1>2. "FAIL" \in Verdicts /\ "FAIL" \in LiveVerdicts
  BY DEF Verdicts, LiveVerdicts
<1>3. ~foreign => jail' = "gone"
  BY <1>1 DEF TeardownIInv, Watching
<1>4. others' \subseteq Strangers /\ (~foreign => "stranger" \notin others')
      /\ jail' \in {"none", "starting", "up", "gone", "refused"}
  BY <1>1
<1> QED BY <1>1, <1>2, <1>3, <1>4, CellEnds

LEMMA FinishTeardown ==
  ASSUME TeardownIInv, Finish PROVE TeardownIInv'
<1>1. /\ run.pc = "next" /\ run.left = <<>> /\ run \in RunType
      /\ UNCHANGED <<rows, jail, wrapper, others, foreign>>
  BY DEF Finish, TeardownIInv, TeardownTypeOK
<1>2. GateVerdict(rows) \in {"PASS", "FAIL", "SKIP"} /\ 0 \in 0 .. 1 /\ 1 \in 0 .. 1
  BY DEF GateVerdict
<1>3. /\ run' \in RunType /\ run'.pc = "done" /\ run'.left = run.left
      /\ run'.mode = run.mode /\ run'.last = run.last
      /\ run.mode = "gate" => run'.verdict = GateVerdict(rows)
      /\ run.mode # "gate" => run'.verdict = IF MatrixGreen(rows) THEN "GREEN" ELSE "NOT GREEN"
  <2>1. CASE run.mode = "gate"
    BY <1>1, <1>2, <2>1 DEF Finish, RunType
  <2>2. CASE run.mode # "gate"
    BY <1>1, <2>2 DEF Finish, RunType
  <2> QED BY <2>1, <2>2
<1>4. TeardownTypeOK'
  BY <1>1, <1>3 DEF TeardownIInv, TeardownTypeOK
<1>5. Watching' /\ Between'
  BY <1>1, <1>3 DEF TeardownIInv, Watching, Between
<1>6. GateCell'
  <2>1. run.mode = "gate" => run.last # "none"
    BY <1>1 DEF TeardownIInv, GateCell
  <2> QED BY <1>1, <1>3, <2>1 DEF TeardownIInv, GateCell
<1>7. Answered'
  BY <1>1, <1>2, <1>3 DEF Answered, GateVerdict, MatrixGreen
<1> QED BY <1>4, <1>5, <1>6, <1>7 DEF TeardownIInv

LEMMA HostTeardown ==
  ASSUME TeardownIInv, Host PROVE TeardownIInv'
<1>1. UNCHANGED <<run, rows>> /\ UNCHANGED wrapper
  BY DEF Host, JailStarts, JailRefuses, JailDies, StrangerSleeps, SleeperEnds
<1>2. /\ jail' \in {"none", "starting", "up", "gone", "refused"}
      /\ others' \subseteq Strangers /\ foreign' \in BOOLEAN
  BY DEF Host, JailStarts, JailRefuses, JailDies, StrangerSleeps, SleeperEnds,
         TeardownIInv, TeardownTypeOK, Strangers
<1>3. TeardownTypeOK'
  BY <1>1, <1>2 DEF TeardownIInv, TeardownTypeOK
\* a jail that moves is none that a row speaks of, and one that is watched dies
<1>4. ~foreign' =>
        /\ ~foreign /\ others' \subseteq others
        /\ \/ jail' = jail
           \/ jail = "starting" /\ jail' \in {"up", "refused"}
           \/ jail = "up" /\ jail' = "gone" /\ wrapper = "dead"
  BY DEF Host, JailStarts, JailRefuses, JailDies, StrangerSleeps, SleeperEnds
<1>5. Watching'
  BY <1>1, <1>4 DEF TeardownIInv, Watching, Between
<1>6. Between' /\ GateCell' /\ Answered'
  BY <1>1, <1>4 DEF TeardownIInv, Between, GateCell, Answered, GateVerdict, MatrixGreen
<1> QED BY <1>3, <1>5, <1>6 DEF TeardownIInv

LEMMA NextTeardown ==
  TeardownIInv /\ [TeardownNext]_teardownVars => TeardownIInv'
<1> SUFFICES ASSUME TeardownIInv, [TeardownNext]_teardownVars PROVE TeardownIInv'
  OBVIOUS
<1>1. CASE Harness
  BY <1>1, BeginTeardown, LaunchTeardown, FoundTeardown, WaitExpiresTeardown, KillWrapperTeardown,
     DisappearedTeardown, BudgetExpiresTeardown, FinishTeardown DEF Harness
<1>2. CASE Host
  BY <1>2, HostTeardown
<1>3. CASE UNCHANGED teardownVars
  <2>1. UNCHANGED <<run, rows, jail, wrapper, others, foreign>>
    BY <1>3 DEF teardownVars
  <2> QED BY <2>1 DEF TeardownIInv, TeardownTypeOK, Watching, Between, GateCell, Answered,
                      GateVerdict, MatrixGreen, CompleteKernels, Failures, Kernels, HasCell, Cell, CellRows
<1> QED BY <1>1, <1>2, <1>3 DEF TeardownNext

LEMMA TeardownIInvHolds == TeardownSpec => []TeardownIInv
<1> QED BY InitTeardown, NextTeardown, PTL DEF TeardownSpec

LEMMA MaxIsLast ==
  ASSUME NEW n \in Nat, NEW keep \in SUBSET (1 .. n), keep # {}
  PROVE  Max(keep) \in keep /\ \A j \in keep : j <= Max(keep)
<1>1. IsFiniteSet(keep) /\ keep \in SUBSET Nat
  <2>1. IsFiniteSet(1 .. n)
    BY FS_Interval
  <2>2. IsFiniteSet(keep)
    BY <2>1, FS_Subset
  <2>3. keep \in SUBSET Nat
    OBVIOUS
  <2> QED BY <2>2, <2>3
<1>2. PICK m \in keep : \A j \in keep : j <= m
  BY <1>1, LastExists
<1>3. \A j \in keep : m >= j
  BY <1>1, <1>2
<1>4. Max(keep) \in keep /\ \A j \in keep : Max(keep) >= j
  BY <1>3 DEF Max
<1> QED BY <1>1, <1>4

\* The last row of a cell is one of its rows.
LEMMA CellIsARow ==
  ASSUME NEW rs \in Seq(RawRow), NEW k, NEW b, HasCell(rs, k, b)
  PROVE  \E i \in Lines(rs) : /\ Cell(rs, k, b) = rs[i]
                              /\ rs[i].kernel = k /\ rs[i].backend = b
<1> DEFINE at == CellRows(rs, k, b)
<1>1. at \in SUBSET (1 .. Len(rs)) /\ at # {} /\ Len(rs) \in Nat
  BY DEF CellRows, HasCell, Lines
<1> HIDE DEF at
<1>2. Max(at) \in at
  BY <1>1, MaxIsLast
<1> QED BY <1>2 DEF at, CellRows, Cell

\* A green matrix has a PASS row of each backend for each of its kernels.
LEMMA GreenIsMeasured ==
  ASSUME NEW rs \in Seq(RawRow), \A i \in 1 .. Len(rs) : ValidateRow(rs[i]), MatrixGreen(rs),
         NEW k \in CompleteKernels(rs), NEW b \in Backends
  PROVE  \E i \in 1 .. Len(rs) :
            rs[i] = [kernel |-> k, backend |-> b, verdict |-> "PASS",
                     survival |-> "number", exit |-> "int"]
<1>1. HasCell(rs, k, b) /\ Cell(rs, k, b).verdict \in LiveVerdicts
  BY DEF CompleteKernels
<1>2. Cell(rs, k, b).verdict # "FAIL"
  <2>1. <<k, b>> \notin Failures(rs)
    BY DEF MatrixGreen
  <2> QED BY <1>1, <2>1 DEF Failures
<1>3. PICK i \in Lines(rs) : Cell(rs, k, b) = rs[i] /\ rs[i].kernel = k /\ rs[i].backend = b
  BY <1>1, CellIsARow
<1>4. rs[i] \in RawRow /\ i \in 1 .. Len(rs)
  BY LinesAreFinite DEF Lines
<1>5. ValidateRow(rs[i]) /\ rs[i].verdict = "PASS"
  BY <1>1, <1>2, <1>3, <1>4 DEF LiveVerdicts
<1>6. rs[i].survival = "number" /\ rs[i].exit = "int"
  BY <1>5 DEF ValidateRow, LiveVerdicts
<1>7. rs[i] = [kernel |-> k, backend |-> b, verdict |-> "PASS", survival |-> "number", exit |-> "int"]
  BY <1>3, <1>4, <1>5, <1>6 DEF RawRow
<1> QED BY <1>4, <1>7

LEMMA MeasuredFromIInv == TeardownIInv => VerdictsAreMeasured
<1> SUFFICES ASSUME TeardownIInv PROVE VerdictsAreMeasured
  OBVIOUS
<1>1. TeardownTypeOK /\ CellEndsClean
  BY DEF TeardownIInv, Between, CellEndsClean
<1>2. GateZeroMeansNoOrphan
  <2> SUFFICES ASSUME run.mode = "gate", run.pc = "done", ~foreign
               PROVE  jail \notin {"starting", "up"} /\ (run.verdict = "PASS" => jail = "gone")
    BY DEF GateZeroMeansNoOrphan
  <2>1. /\ run.last # "none" /\ Len(rows) = 1 /\ rows[1].kernel = ThisKernel
        /\ rows[1].verdict = run.last /\ run.verdict = GateVerdict(rows)
        /\ jail = IF run.last \in LiveVerdicts THEN "gone" ELSE "none"
    BY DEF TeardownIInv, GateCell, Between, Answered
  <2>2. 1 \in {i \in Lines(rows) : rows[i].kernel = ThisKernel}
    BY <2>1 DEF Lines
  <2>3. run.verdict = "PASS" => run.last = "PASS"
    BY <2>1, <2>2 DEF GateVerdict
  <2> QED BY <2>1, <2>3 DEF LiveVerdicts
<1>3. GreenNeedsMeasuredPairs
  <2> SUFFICES ASSUME run.pc = "done", run.verdict = "GREEN"
               PROVE  \E ks \in SUBSET Kernels(rows) :
                        /\ Cardinality(ks) >= MinKernels
                        /\ \A k \in ks, b \in Backends :
                             \E i \in 1 .. Len(rows) :
                                rows[i] = [kernel |-> k, backend |-> b, verdict |-> "PASS",
                                           survival |-> "number", exit |-> "int"]
    BY DEF GreenNeedsMeasuredPairs
  <2>1. MatrixGreen(rows) /\ rows \in Seq(RawRow) /\ \A i \in 1 .. Len(rows) : ValidateRow(rows[i])
    BY DEF TeardownIInv, TeardownTypeOK, Answered
  <2>2. CompleteKernels(rows) \in SUBSET Kernels(rows) /\ Cardinality(CompleteKernels(rows)) >= MinKernels
    BY <2>1 DEF CompleteKernels, MatrixGreen
  <2>3. \A k \in CompleteKernels(rows), b \in Backends :
           \E i \in 1 .. Len(rows) :
              rows[i] = [kernel |-> k, backend |-> b, verdict |-> "PASS",
                         survival |-> "number", exit |-> "int"]
    BY <2>1, GreenIsMeasured
  <2> QED BY <2>2, <2>3
<1> QED BY <1>1, <1>2, <1>3 DEF VerdictsAreMeasured

\* What kernel-matrix-teardown.py reports was measured, whatever rows were
\* imported: a green matrix has a PASS with its numbers for both backends of as
\* many kernels as it needs, and, unless a stranger's `sleep 300` starts during the
\* run, a cell that measured something saw its payload and left none of it, and the
\* gate's zero means no orphan.
THEOREM TeardownIsMeasured == TeardownSpec => []VerdictsAreMeasured
<1> QED BY TeardownIInvHolds, MeasuredFromIInv, PTL

----------------------------------------------------------------------------
(* rule-pack-tool.py, the packs of install.sh and rules-drift-probe.py.        *)

\* Nothing is copied into a directory that the engine does not read.
CopyIsLive == \A i \in Installers : job[i].pc = "copy" => host.live

\* Unless something raced, what is going to be copied was compared with what the
\* other packs hold now.
CopyIsDisjoint ==
    ~raced =>
        \A i \in Installers : job[i].pc = "copy" =>
            \A q \in Packs \ {job[i].pack} : IdsOf(source[job[i].pack]) \cap IdsOf(dir[q]) = {}

\* Unless something was edited, it is what was compared with the builtin rules.
CopyIsNew ==
    changes = 0 =>
        \A i \in Installers : job[i].pc = "copy" =>
            IdsOf(source[job[i].pack]) \cap DOMAIN Builtin = {}

PackIInv == PacksOnlyAdd /\ CopyIsLive /\ CopyIsDisjoint /\ CopyIsNew

Answers == {"none", "ok", "drift", "unknown"}
JobType == [pc : {"idle", "check", "copy"}, pack : Packs, how : {"replace", "file", "remove"}]

LEMMA AbsentIsEmpty ==
  Absent \in Document /\ IdsOf(Absent) = {} /\ \A h : ~(Absent.text = "json" \/ (Absent.text = "yaml" /\ h))
<1>1. <<>> \in Seq(RawRule)
  OBVIOUS
<1> QED BY <1>1 DEF Absent, Document, IdsOf

LEMMA NoJobIsAJob == NoJob \in JobType
<1>1. (CHOOSE p \in Packs : TRUE) \in Packs
  BY PackAssumption
<1> QED BY <1>1 DEF NoJob, JobType

LEMMA PackTypes ==
  ASSUME PackIInv
  PROVE  /\ host \in HostType
         /\ source \in [Packs -> Document] /\ dir \in [Files -> Document] /\ job \in [Installers -> JobType]
         /\ probe \in Answers /\ changes \in 0 .. MaxChanges /\ raced \in BOOLEAN
         /\ ~host.live => \A p \in Packs : ~Present(p)
         /\ Packs \subseteq Files
<1> QED BY DEF PackIInv, PacksOnlyAdd, PackTypeOK, JobType, Answers, Files

LEMMA InitPack == PackInit => PackIInv
<1> SUFFICES ASSUME PackInit PROVE PackIInv
  OBVIOUS
<1>1. PICK doc \in SystemDocs : dir = [f \in Files |-> IF f \in SystemFiles THEN doc ELSE Absent]
  BY DEF PackInit
<1>2. /\ source \in [Packs -> Document] /\ dir \in [Files -> Document]
      /\ \A p \in Packs : dir[p] = Absent
  BY <1>1, PackAssumption, AbsentIsEmpty DEF PackInit, Files
<1>3. \A i \in Installers : job[i].pc = "idle"
  BY DEF PackInit, NoJob
<1>4. job \in [Installers -> JobType]
  BY NoJobIsAJob DEF PackInit
<1>5. PackTypeOK
  <2>1. host \in HostType /\ probe = "none" /\ raced = FALSE /\ changes = 0
    BY DEF PackInit
  <2>2. MaxChanges \in Nat
    BY PackAssumption
  <2>4. changes \in 0 .. MaxChanges /\ probe \in Answers
    BY <2>1, <2>2 DEF Answers
  <2>5. raced \in BOOLEAN
    BY <2>1, Zenon
  <2>3. \A p \in Packs : ~Present(p)
    BY <1>2 DEF Present
  <2> QED BY <1>2, <1>4, <2>1, <2>3, <2>4, <2>5 DEF PackTypeOK, JobType, Answers
<1>6. \A p \in Packs : IdsOf(dir[p]) = {}
  BY <1>2, AbsentIsEmpty
<1>7. PacksNeverShadow /\ PacksLeaveBuiltinsAlone
  BY <1>6 DEF PacksNeverShadow, PacksLeaveBuiltinsAlone
<1> QED BY <1>3, <1>5, <1>7 DEF PackIInv, PacksOnlyAdd, CopyIsLive, CopyIsDisjoint, CopyIsNew

\* A step that touches no file and sends no installer to its copy.
LEMMA QuietStep ==
  ASSUME PackIInv, job' \in [Installers -> JobType], probe' \in Answers,
         UNCHANGED <<host, source, dir, changes, raced>>,
         \A i \in Installers : job'[i].pc = "copy" => job'[i] = job[i]
  PROVE  PackIInv'
<1>1. PackTypeOK'
  BY PackTypes DEF PackTypeOK, JobType, Answers, Present
<1>2. PacksNeverShadow' /\ PacksLeaveBuiltinsAlone'
  BY DEF PackIInv, PacksOnlyAdd, PacksNeverShadow, PacksLeaveBuiltinsAlone
<1>3. CopyIsLive' /\ CopyIsDisjoint' /\ CopyIsNew'
  BY DEF PackIInv, CopyIsLive, CopyIsDisjoint, CopyIsNew
<1> QED BY <1>1, <1>2, <1>3 DEF PackIInv, PacksOnlyAdd

\* A job that ends, or is only being looked at, is a quiet step.
LEMMA JobEnds ==
  ASSUME PackIInv, NEW i \in Installers, NEW j \in JobType, j.pc # "copy",
         job' = [job EXCEPT ![i] = j], UNCHANGED <<host, source, dir, probe, changes, raced>>
  PROVE  PackIInv'
<1>1. job \in [Installers -> JobType] /\ probe \in Answers
  BY PackTypes
<1>2. /\ job' \in [Installers -> JobType]
      /\ \A k \in Installers : job'[k] = IF k = i THEN j ELSE job[k]
  BY <1>1
<1>3. UNCHANGED <<host, source, dir, changes, raced>> /\ probe' \in Answers
  BY <1>1
<1> QED BY <1>2, <1>3, QuietStep

LEMMA AcceptedIsNew ==
  ASSUME NEW p \in Packs, NEW doc, Accepts(p, doc)
  PROVE  /\ IdsOf(doc) \cap DOMAIN Builtin = {}
         /\ \A q \in Packs \ {p} : IdsOf(doc) \cap IdsOf(dir[q]) = {}
<1> QED BY DEF Accepts, InstalledIds

LEMMA ValidatePackIInv ==
  ASSUME PackIInv, NEW i \in Installers, ValidatePack(i) PROVE PackIInv'
<1> DEFINE p == job[i].pack
           doc == source[p]
<1>1. /\ job \in [Installers -> JobType] /\ p \in Packs
      /\ ~Skips(job[i]) /\ UNCHANGED <<host, source, dir, probe, changes, raced>>
      /\ job' = [job EXCEPT ![i] = IF Accepts(p, doc)
                                   THEN [NoJob EXCEPT !.pc = "copy", !.pack = p] ELSE NoJob]
  BY PackTypes DEF ValidatePack, JobType
<1>2. CASE ~Accepts(p, doc)
  <2>1. job' = [job EXCEPT ![i] = NoJob] /\ NoJob \in JobType /\ NoJob.pc # "copy"
    BY <1>1, <1>2, NoJobIsAJob DEF NoJob
  <2> QED BY <1>1, <2>1, JobEnds
<1>3. CASE Accepts(p, doc)
  <2> DEFINE j == [NoJob EXCEPT !.pc = "copy", !.pack = p]
  <2>1. j \in JobType /\ j.pack = p
    BY <1>1, NoJobIsAJob DEF JobType
  <2>2. \A k \in Installers : job'[k] = IF k = i THEN j ELSE job[k]
    BY <1>1, <1>3
  <2>3. job' \in [Installers -> JobType]
    BY <1>1, <1>3, <2>1
  <2>4. host.live
    BY <1>1 DEF Skips
  <2>5. PackTypeOK'
    BY <1>1, <2>3, PackTypes DEF PackTypeOK, JobType, Answers, Present
  <2>6. PacksNeverShadow' /\ PacksLeaveBuiltinsAlone'
    BY <1>1 DEF PackIInv, PacksOnlyAdd, PacksNeverShadow, PacksLeaveBuiltinsAlone
  <2> HIDE DEF j
  <2>7. CopyIsLive'
    BY <1>1, <2>4 DEF CopyIsLive
  <2>8. /\ IdsOf(doc) \cap DOMAIN Builtin = {}
        /\ \A q \in Packs \ {p} : IdsOf(doc) \cap IdsOf(dir[q]) = {}
    BY <1>1, <1>3, AcceptedIsNew
  <2>9. CopyIsDisjoint' /\ CopyIsNew'
    BY <1>1, <2>1, <2>2, <2>8 DEF PackIInv, CopyIsDisjoint, CopyIsNew
  <2> QED BY <2>5, <2>6, <2>7, <2>9 DEF PackIInv, PacksOnlyAdd
<1> QED BY <1>2, <1>3

LEMMA CopyIInv ==
  ASSUME PackIInv, NEW i \in Installers, Copy(i) PROVE PackIInv'
<1> DEFINE p == job[i].pack
<1>1. /\ job[i].pc = "copy" /\ job \in [Installers -> JobType] /\ p \in Packs /\ p \in Files
      /\ source \in [Packs -> Document] /\ dir \in [Files -> Document]
      /\ UNCHANGED <<host, source, probe, changes>>
      /\ dir' = [dir EXCEPT ![p] = source[p]] /\ job' = [job EXCEPT ![i] = NoJob]
      /\ raced' = Races(i) /\ raced \in BOOLEAN
  BY PackTypes DEF Copy, JobType
<1>2. /\ dir' \in [Files -> Document] /\ dir'[p] = source[p]
      /\ \A f \in Files \ {p} : dir'[f] = dir[f]
  BY <1>1
<1>3. /\ job' \in [Installers -> JobType] /\ job'[i].pc = "idle"
      /\ \A k \in Installers \ {i} : job'[k] = job[k]
  BY <1>1, NoJobIsAJob DEF NoJob
<1>4. host.live
  BY <1>1 DEF PackIInv, CopyIsLive
<1>5. raced' \in BOOLEAN /\ (~raced' => ~raced /\ \A k \in Installers : job'[k].pc # "copy")
  BY <1>1, <1>3 DEF Races
<1>6. PackTypeOK'
  BY <1>1, <1>2, <1>3, <1>4, <1>5, PackTypes DEF PackTypeOK, JobType, Answers
<1>7. PacksNeverShadow'
  <2> SUFFICES ASSUME ~raced', NEW a \in Packs, NEW b \in Packs, a # b
               PROVE  IdsOf(dir'[a]) \cap IdsOf(dir'[b]) = {}
    BY DEF PacksNeverShadow, IdsOf
  <2>1. IdsOf(dir[a]) \cap IdsOf(dir[b]) = {}
    BY <1>5 DEF PackIInv, PacksOnlyAdd, PacksNeverShadow
  <2>2. \A q \in Packs \ {p} : IdsOf(source[p]) \cap IdsOf(dir[q]) = {} /\ dir'[q] = dir[q]
    BY <1>1, <1>2, <1>5, PackTypes DEF PackIInv, CopyIsDisjoint
  <2>3. CASE a = p
    BY <1>2, <2>2, <2>3
  <2>4. CASE b = p
    BY <1>2, <2>2, <2>4
  <2>5. CASE a # p /\ b # p
    BY <2>1, <2>2, <2>5
  <2> QED BY <2>3, <2>4, <2>5
<1>8. PacksLeaveBuiltinsAlone'
  <2> SUFFICES ASSUME changes = 0, NEW a \in Packs PROVE IdsOf(dir'[a]) \cap DOMAIN Builtin = {}
    BY <1>1 DEF PacksLeaveBuiltinsAlone, IdsOf
  <2>1. IdsOf(source[p]) \cap DOMAIN Builtin = {} /\ IdsOf(dir[a]) \cap DOMAIN Builtin = {}
    BY <1>1 DEF PackIInv, PacksOnlyAdd, PacksLeaveBuiltinsAlone, CopyIsNew
  <2>2. a # p => dir'[a] = dir[a]
    BY <1>2, PackTypes
  <2> QED BY <1>2, <2>1, <2>2
<1>9. CopyIsLive' /\ CopyIsDisjoint'
  BY <1>1, <1>4, <1>5 DEF CopyIsLive, CopyIsDisjoint
<1>10. CopyIsNew'
  <2> SUFFICES ASSUME changes' = 0, NEW k \in Installers, job'[k].pc = "copy"
               PROVE  IdsOf(source'[job'[k].pack]) \cap DOMAIN Builtin = {}
    BY DEF CopyIsNew, IdsOf
  <2>1. job[k].pc = "copy" /\ job'[k] = job[k]
    BY <1>1, <1>3
  <2> QED BY <1>1, <2>1 DEF PackIInv, CopyIsNew
<1> QED BY <1>6, <1>7, <1>8, <1>9, <1>10 DEF PackIInv, PacksOnlyAdd

LEMMA UnruleIInv ==
  ASSUME PackIInv, NEW i \in Installers, Unrule(i) PROVE PackIInv'
<1> DEFINE p == job[i].pack
<1>1. /\ job[i].pc = "check" /\ job \in [Installers -> JobType] /\ p \in Packs /\ p \in Files
      /\ dir \in [Files -> Document] /\ UNCHANGED <<host, source, probe, changes, raced>>
      /\ dir' = [dir EXCEPT ![p] = Absent] /\ job' = [job EXCEPT ![i] = NoJob]
  BY PackTypes DEF Unrule, JobType
<1>2. /\ dir' \in [Files -> Document] /\ dir'[p] = Absent
      /\ \A f \in Files \ {p} : dir'[f] = dir[f]
  BY <1>1, AbsentIsEmpty
<1>3. /\ job' \in [Installers -> JobType] /\ job'[i].pc = "idle"
      /\ \A k \in Installers \ {i} : job'[k] = job[k]
  BY <1>1, NoJobIsAJob DEF NoJob
<1>4. \A q \in Packs : dir'[q] = dir[q] \/ (dir'[q] = Absent /\ IdsOf(dir'[q]) = {})
  BY <1>2, AbsentIsEmpty, PackTypes
<1>5. PackTypeOK'
  BY <1>1, <1>2, <1>3, <1>4, PackTypes DEF PackTypeOK, JobType, Answers, Present
<1>6. PacksNeverShadow' /\ PacksLeaveBuiltinsAlone'
  BY <1>1, <1>4 DEF PackIInv, PacksOnlyAdd, PacksNeverShadow, PacksLeaveBuiltinsAlone
<1>7. CopyIsLive' /\ CopyIsNew'
  <2>1. \A k \in Installers : job'[k].pc = "copy" => job[k].pc = "copy" /\ job'[k] = job[k]
    BY <1>1, <1>3
  <2>2. CopyIsLive'
    BY <1>1, <2>1 DEF PackIInv, CopyIsLive
  <2>3. CopyIsNew'
    <3> SUFFICES ASSUME changes' = 0, NEW k \in Installers, job'[k].pc = "copy"
                 PROVE  IdsOf(source'[job'[k].pack]) \cap DOMAIN Builtin = {}
      BY DEF CopyIsNew, IdsOf
    <3> QED BY <1>1, <2>1 DEF PackIInv, CopyIsNew
  <2> QED BY <2>2, <2>3
<1>8. CopyIsDisjoint'
  BY <1>1, <1>3, <1>4 DEF PackIInv, CopyIsDisjoint
<1> QED BY <1>5, <1>6, <1>7, <1>8 DEF PackIInv, PacksOnlyAdd

LEMMA EditIInv ==
  ASSUME PackIInv, Edit PROVE PackIInv'
<1>1. /\ changes' = changes + 1 /\ changes < MaxChanges /\ changes \in 0 .. MaxChanges
      /\ UNCHANGED <<host, job, probe>> /\ raced \in BOOLEAN
      /\ raced' = (raced \/ \E k \in Installers : job[k].pc = "copy")
      /\ source \in [Packs -> Document] /\ dir \in [Files -> Document]
  BY PackTypes DEF Edit
<1>2. changes' \in 0 .. MaxChanges /\ changes' # 0
  <2>1. MaxChanges \in Nat
    BY PackAssumption
  <2> QED BY <1>1, <2>1
<1>3. raced' \in BOOLEAN /\ (~raced' => ~raced /\ \A k \in Installers : job[k].pc # "copy")
  BY <1>1
<1>4. source' \in [Packs -> Document] /\ dir' \in [Files -> Document] /\ \A p \in Packs : dir'[p] = dir[p]
  <2>1. PICK doc \in Docs :
          \/ /\ \E p \in Packs : source' = [source EXCEPT ![p] = doc]
             /\ UNCHANGED dir
          \/ /\ \E f \in SystemFiles \cup UserFiles : dir' = [dir EXCEPT ![f] = doc]
             /\ UNCHANGED source
    BY DEF Edit
  <2>2. doc \in Document
    BY PackAssumption
  <2>3. CASE \E p \in Packs : source' = [source EXCEPT ![p] = doc] /\ UNCHANGED dir
    BY <1>1, <2>2, <2>3
  <2>4. CASE \E f \in SystemFiles \cup UserFiles : dir' = [dir EXCEPT ![f] = doc] /\ UNCHANGED source
    <3>1. PICK f \in SystemFiles \cup UserFiles : dir' = [dir EXCEPT ![f] = doc] /\ UNCHANGED source
      BY <2>4
    <3>2. f \notin Packs /\ f \in Files /\ Packs \subseteq Files
      BY PackAssumption DEF Files
    <3> QED BY <1>1, <2>2, <3>1, <3>2
  <2> QED BY <2>1, <2>3, <2>4
<1>5. PackTypeOK'
  BY <1>1, <1>2, <1>3, <1>4, PackTypes DEF PackTypeOK, JobType, Answers, Present
<1>6. PacksNeverShadow' /\ PacksLeaveBuiltinsAlone'
  BY <1>2, <1>3, <1>4 DEF PackIInv, PacksOnlyAdd, PacksNeverShadow, PacksLeaveBuiltinsAlone
<1>7. CopyIsLive' /\ CopyIsDisjoint' /\ CopyIsNew'
  BY <1>1, <1>2, <1>3 DEF PackIInv, CopyIsLive, CopyIsDisjoint, CopyIsNew
<1> QED BY <1>5, <1>6, <1>7 DEF PackIInv, PacksOnlyAdd

LEMMA NextPack == PackIInv /\ [PackNext]_packVars => PackIInv'
<1> SUFFICES ASSUME PackIInv, [PackNext]_packVars PROVE PackIInv'
  OBVIOUS
<1>1. ASSUME NEW i \in Installers, NEW p \in Packs, NEW how \in {"replace", "file", "remove"},
             Request(i, p, how)
      PROVE  PackIInv'
  <2>1. [pc |-> "check", pack |-> p, how |-> how] \in JobType
    BY DEF JobType
  <2> QED BY <1>1, <2>1, JobEnds DEF Request
<1>2. ASSUME NEW i \in Installers, Skip(i) \/ KillInstaller(i) PROVE PackIInv'
  <2>1. NoJob \in JobType /\ NoJob.pc # "copy"
    BY NoJobIsAJob DEF NoJob
  <2> QED BY <1>2, <2>1, JobEnds DEF Skip, KillInstaller
<1>3. CASE Probe
  <2>1. UNCHANGED <<host, source, dir, changes, raced>> /\ job' = job /\ probe' \in Answers
    BY <1>3 DEF Probe, Answers
  <2> QED BY <2>1, PackTypes, QuietStep
<1>4. CASE UNCHANGED packVars
  <2>1. UNCHANGED <<host, source, dir, changes, raced>> /\ job' = job /\ probe' = probe
    BY <1>4 DEF packVars
  <2> QED BY <2>1, PackTypes, QuietStep
<1> QED BY <1>1, <1>2, <1>3, <1>4, ValidatePackIInv, CopyIInv, UnruleIInv, EditIInv DEF PackNext

\* Installing, replacing and removing packs, in any order and side by side, adds
\* rules and stands in for none, for any packs, documents and rule files: for none of
\* another pack unless a file changes between a validation and its copy, for none of
\* the engine as long as nobody edits a file.
THEOREM InstallingOnlyAdds == PackSpec => []PacksOnlyAdd
<1>1. PackIInv => PacksOnlyAdd
  BY DEF PackIInv
<1> QED BY <1>1, InitPack, NextPack, PTL DEF PackSpec

\* The places of an id that the engine loads, when nothing is corrupt, are in the
\* files in which the probe finds it.
LEMMA PlacesAreCarried ==
  ASSUME NEW id, id # "", NEW n \in 1 .. Len(Order), NEW i,
         \A f \in Files : Present(f) => FieldsTyped(dir[f]), Order[n] \in Files
  PROVE  <<n, i>> \in Places(id) <=>
            /\ Parses(dir[Order[n]]) /\ FieldsTyped(dir[Order[n]]) /\ id \in IdsOf(dir[Order[n]])
            /\ i \in {k \in 1 .. Len(dir[Order[n]].rules) : dir[Order[n]].rules[k].id = id}
<1> DEFINE readable == {m \in 1 .. Len(Order) : Parses(dir[Order[m]])}
           At(m) == {k \in 1 .. Len(dir[Order[m]].rules) : dir[Order[m]].rules[k].id = id}
<1>1. Parses(dir[Order[n]]) => Present(Order[n])
  <2>1. ~Parses(Absent)
    BY AbsentIsEmpty DEF Parses
  <2> QED BY <2>1 DEF Present
<1>2. Places(id) = UNION {{m} \X At(m) : m \in readable}
  BY DEF Places
<1>3. i \in At(n) => id \in IdsOf(dir[Order[n]])
  BY DEF IdsOf
<1>4. n \in readable <=> Parses(dir[Order[n]])
  OBVIOUS
<1> HIDE DEF readable, At
<1>5. <<n, i>> \in Places(id) <=> n \in readable /\ i \in At(n)
  <2>1. ASSUME NEW m \in readable, <<n, i>> \in {m} \X At(m) PROVE n = m /\ i \in At(m)
    BY <2>1
  <2>2. n \in readable /\ i \in At(n) => <<n, i>> \in {n} \X At(n)
    OBVIOUS
  <2> QED BY <1>2, <2>1, <2>2
<1>6. <<n, i>> \in Places(id) <=>
         /\ Parses(dir[Order[n]]) /\ FieldsTyped(dir[Order[n]]) /\ id \in IdsOf(dir[Order[n]])
         /\ i \in At(n)
  BY <1>1, <1>3, <1>4, <1>5
<1> QED BY <1>6 DEF At

\* A probe that finds no drift and no corrupt file has seen what the engine has.
LEMMA ProbeSeesTheEngine ==
  ASSUME dir \in [Files -> Document], host.shut = {}, Corrupt = {}, Drift = {}
  PROVE  ~LoadAborts /\ \A id \in DOMAIN Builtin : InForce(id) = Builtin[id]
<1>1. \A f \in Files : Present(f) => Parses(dir[f]) /\ FieldsTyped(dir[f])
  BY DEF Corrupt
<1>2. ~LoadAborts
  BY <1>1 DEF LoadAborts
<1>3. ASSUME NEW id \in DOMAIN Builtin PROVE InForce(id) = ByIdOf(id)
  <2> DEFINE carriers == {n \in 1 .. Len(Order) :
                             /\ Parses(dir[Order[n]]) /\ FieldsTyped(dir[Order[n]])
                             /\ id \in IdsOf(dir[Order[n]])}
             At(n) == {k \in 1 .. Len(dir[Order[n]].rules) : dir[Order[n]].rules[k].id = id}
             places == Places(id)
             IsLast(at) == \A b \in places : b[1] < at[1] \/ (b[1] = at[1] /\ b[2] <= at[2])
  <2>1. /\ id # "" /\ Len(Order) \in Nat
        /\ \A n \in 1 .. Len(Order) : Order[n] \in Files
    BY PackAssumption
  <2>2. \A n \in 1 .. Len(Order) : \A i : <<n, i>> \in places <=> n \in carriers /\ i \in At(n)
    BY <1>1, <2>1, PlacesAreCarried
  <2>3. \A at \in places : at = <<at[1], at[2]>> /\ at[1] \in 1 .. Len(Order)
    BY DEF Places
  <2>4. \A n \in carriers : At(n) # {}
    BY DEF IdsOf
  <2>5. \A n \in 1 .. Len(Order) : Len(dir[Order[n]].rules) \in Nat /\ At(n) \in SUBSET (1 .. Len(dir[Order[n]].rules))
    <3>1. \A n \in 1 .. Len(Order) : dir[Order[n]].rules \in Seq(RawRule)
      BY <2>1 DEF Document
    <3>2. \A n \in 1 .. Len(Order) : Len(dir[Order[n]].rules) \in Nat
      BY <3>1, LenProperties
    <3> QED BY <3>2
  <2>6. InForce(id) = IF places = {} THEN Builtin[id]
                      ELSE LET last == CHOOSE at \in places : IsLast(at)
                           IN dir[Order[last[1]]].rules[last[2]].action
    BY DEF InForce
  <2>7. ByIdOf(id) = IF carriers = {} THEN Builtin[id]
                     ELSE dir[Order[Max(carriers)]].rules[Max(At(Max(carriers)))].action
    BY DEF ByIdOf, LastRule
  <2>8. carriers \in SUBSET (1 .. Len(Order)) /\ \A n \in 1 .. Len(Order) : n \in Int
    OBVIOUS
  <2> HIDE DEF carriers, At, places
  <2>9. CASE carriers = {}
    <3>1. places = {}
      BY <2>2, <2>3, <2>9
    <3> QED BY <2>6, <2>7, <2>9, <3>1
  <2>10. CASE carriers # {}
    <3> DEFINE m == Max(carriers)
               k == Max(At(m))
    <3>1. m \in carriers /\ \A j \in carriers : j <= m
      BY <2>1, <2>8, <2>10, MaxIsLast
    <3>2. k \in At(m) /\ \A j \in At(m) : j <= k
      BY <2>4, <2>5, <2>8, <3>1, MaxIsLast
    <3> HIDE DEF m, k
    <3>3. m \in 1 .. Len(Order) /\ <<m, k>> \in places
      BY <2>2, <2>8, <3>1, <3>2
    <3>4. \A b \in places : b[1] \in carriers /\ b[2] \in At(b[1])
      BY <2>2, <2>3
    <3>5. ASSUME NEW b \in places PROVE b[1] < m \/ (b[1] = m /\ b[2] <= k)
      <4>1. b[1] \in carriers /\ b[2] \in At(b[1]) /\ b[1] <= m
        BY <3>1, <3>4
      <4>2. b[1] = m => b[2] <= k
        BY <3>2, <4>1
      <4>3. b[1] \in Int /\ m \in Int
        BY <2>8, <3>1, <4>1
      <4> QED BY <4>1, <4>2, <4>3
    <3>6. IsLast(<<m, k>>)
      BY <3>5
    <3> DEFINE last == CHOOSE at \in places : IsLast(at)
    <3>7. last \in places /\ IsLast(last)
      BY <3>3, <3>6
    <3> HIDE DEF last
    <3>8. last[1] = m /\ last[2] = k
      <4>1. m < last[1] \/ (m = last[1] /\ k <= last[2])
        BY <3>3, <3>7
      <4>2. last[1] < m \/ (last[1] = m /\ last[2] <= k)
        BY <3>5, <3>7
      <4>3. last[1] \in Int /\ m \in Int
        BY <2>3, <2>8, <3>3, <3>7
      <4>4. last[1] = m
        BY <4>1, <4>2, <4>3
      <4>5. last[2] \in Int /\ k \in Int
        BY <2>5, <3>2, <3>3, <3>4, <3>7, <4>4
      <4> QED BY <4>1, <4>2, <4>3, <4>4, <4>5
    <3>9. InForce(id) = dir[Order[last[1]]].rules[last[2]].action
      BY <2>6, <3>3 DEF last
    <3> QED BY <2>7, <2>10, <3>8, <3>9 DEF m, k
  <2> QED BY <2>9, <2>10
<1>4. \A id \in DOMAIN Builtin : ByIdOf(id) = Builtin[id]
  BY DEF Drift
<1> QED BY <1>2, <1>3, <1>4

\* rules-drift-probe.py --fail-on-drift: status 0 without UNKNOWN means that the
\* engine loads and has its builtin action for every builtin id, whatever the files
\* hold and whatever can be listed.
THEOREM DriftGateIsRight == PackSpec => GateSeesEveryDrift
<1>1. PackIInv /\ [PackNext]_packVars =>
         [Probe /\ ProbeStatus(probe') = 0 /\ probe' # "unknown" =>
            ~LoadAborts /\ \A id \in DOMAIN Builtin : InForce(id) = Builtin[id]]_packVars
  <2> SUFFICES ASSUME PackIInv, Probe, ProbeStatus(probe') = 0, probe' # "unknown"
               PROVE  ~LoadAborts /\ \A id \in DOMAIN Builtin : InForce(id) = Builtin[id]
    OBVIOUS
  <2>1. host.shut = {} /\ Drift = {} /\ Corrupt = {}
    BY DEF Probe, ProbeStatus
  <2> QED BY <2>1, PackTypes, ProbeSeesTheEngine
<1> QED BY <1>1, InitPack, NextPack, PTL DEF PackSpec, GateSeesEveryDrift
=============================================================================

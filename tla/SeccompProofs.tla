--------------------------- MODULE SeccompProofs ---------------------------
(* Proofs about Seccomp: for every deny list whose jumps fit, the program      *)
(* decides exactly the list.                                                   *)
EXTENDS Seccomp, FiniteSetTheorems, TLAPS

----------------------------------------------------------------------------
(* The sorted chain holds the deny list, all of it and nothing else.           *)

LEMMA RankType ==
    ASSUME NEW S \in SUBSET Nat, IsFiniteSet(S), NEW d \in S
    PROVE  Rank(S, d) \in 0..(Cardinality(S) - 1)
  <1> DEFINE Below == {e \in S : e < d}
  <1>1. IsFiniteSet(S \ {d}) /\ Cardinality(S \ {d}) = Cardinality(S) - 1
    BY FS_RemoveElement
  <1>2. Below \in SUBSET (S \ {d})
    OBVIOUS
  <1>3. IsFiniteSet(Below) /\ Cardinality(Below) <= Cardinality(S) - 1
    BY <1>1, <1>2, FS_Subset
  <1>4. Cardinality(Below) \in Nat /\ Cardinality(S) \in Nat
    BY <1>3, FS_CardinalityType
  <1> QED
    BY <1>3, <1>4 DEF Rank

LEMMA RankGrows ==
    ASSUME NEW S \in SUBSET Nat, IsFiniteSet(S), NEW c \in S, NEW d \in S, c < d
    PROVE  Rank(S, c) < Rank(S, d)
  <1> DEFINE Low == {e \in S : e < c}
             High == {e \in S : e < d}
  <1>1. IsFiniteSet(Low) /\ IsFiniteSet(High)
    BY FS_Subset
  <1>2. Low \cup {c} \in SUBSET High /\ c \notin Low
    <2>1. c \in Nat /\ d \in Nat /\ \A e \in S : e \in Nat
      OBVIOUS
    <2>2. \A e \in S : e < c => e < d
      BY <2>1
    <2>3. ~(c < c)
      BY <2>1
    <2> QED
      BY <2>2, <2>3
  <1>3. IsFiniteSet(Low \cup {c}) /\ Cardinality(Low \cup {c}) = Cardinality(Low) + 1
    BY <1>1, <1>2, FS_AddElement
  <1>4. Cardinality(Low) + 1 <= Cardinality(High)
    BY <1>1, <1>2, <1>3, FS_Subset
  <1>5. Cardinality(Low) \in Nat /\ Cardinality(High) \in Nat
    BY <1>1, FS_CardinalityType
  <1> QED
    BY <1>4, <1>5 DEF Rank

LEMMA RankTakesEveryPlace ==
    ASSUME NEW S \in SUBSET Nat, IsFiniteSet(S), NEW i \in 1..Cardinality(S)
    PROVE  \E d \in S : Rank(S, d) = i - 1
  <1> DEFINE T == 0..(Cardinality(S) - 1)
             rank == [d \in S |-> Rank(S, d)]
  <1>1. Cardinality(S) \in Nat
    BY FS_CardinalityType
  <1>2. rank \in [S -> T]
    BY RankType
  <1>3. \A c, d \in S : rank[c] = rank[d] => c = d
    <2> SUFFICES ASSUME NEW c \in S, NEW d \in S, c < d
                 PROVE  rank[c] # rank[d]
      OBVIOUS
    <2>1. Rank(S, c) < Rank(S, d) /\ Rank(S, c) \in Int /\ Rank(S, d) \in Int
      BY RankGrows, RankType
    <2> QED
      BY <2>1
  <1>4. rank \in Injection(S, T)
    BY <1>2, <1>3 DEF Injection, IsInjective
  <1>5. IsFiniteSet(T) /\ Cardinality(T) = Cardinality(S)
    <2>1. 0 \in Int /\ Cardinality(S) - 1 \in Int
      BY <1>1
    <2>2. /\ IsFiniteSet(T)
          /\ Cardinality(T) = IF 0 > Cardinality(S) - 1 THEN 0
                              ELSE (Cardinality(S) - 1) - 0 + 1
      BY <2>1, FS_Interval
    <2> QED
      BY <1>1, <2>2
  <1>6. rank \in Surjection(S, T)
    <2> HIDE DEF rank, T
    <2> QED
      BY <1>4, <1>5, FS_Injection
  <1>7. i - 1 \in T
    BY <1>1
  <1>8. \E d \in S : rank[d] = i - 1
    BY <1>6, <1>7 DEF Surjection
  <1> QED
    BY <1>8

LEMMA ChainIsTheList ==
    ASSUME NEW S \in SUBSET Nat, IsFiniteSet(S)
    PROVE  /\ \A i \in 1..Cardinality(S) : Chain(S)[i] \in S
           /\ \A d \in S : \E i \in 1..Cardinality(S) : Chain(S)[i] = d
  <1>1. ASSUME NEW i \in 1..Cardinality(S)
        PROVE  Chain(S)[i] \in S /\ Rank(S, Chain(S)[i]) = i - 1
    <2>1. Chain(S)[i] = CHOOSE d \in S : Rank(S, d) = i - 1
      BY DEF Chain
    <2>2. \E d \in S : Rank(S, d) = i - 1
      BY RankTakesEveryPlace
    <2> QED
      BY <2>1, <2>2
  <1>2. ASSUME NEW d \in S
        PROVE  \E i \in 1..Cardinality(S) : Chain(S)[i] = d
    <2> DEFINE i == Rank(S, d) + 1
    <2>1. Rank(S, d) \in 0..(Cardinality(S) - 1) /\ Cardinality(S) \in Nat
      BY RankType, FS_CardinalityType
    <2>2. i \in 1..Cardinality(S) /\ i - 1 = Rank(S, d)
      BY <2>1
    <2>3. Chain(S)[i] \in S /\ Rank(S, Chain(S)[i]) = Rank(S, d)
      BY <1>1, <2>2
    <2> DEFINE c == Chain(S)[i]
    <2>4. c \in S /\ Rank(S, c) = Rank(S, d)
      BY <2>3
    <2> HIDE DEF i, c
    <2>5. c \in Nat /\ d \in Nat /\ Rank(S, d) \in Int
      BY <2>1, <2>4
    <2>6. CASE c < d
      <3>1. Rank(S, c) < Rank(S, d)
        BY <2>4, <2>6, RankGrows
      <3> QED
        BY <2>4, <2>5, <3>1
    <2>7. CASE d < c
      <3>1. Rank(S, d) < Rank(S, c)
        BY <2>4, <2>7, RankGrows
      <3> QED
        BY <2>4, <2>5, <3>1
    <2>8. CASE c = d
      BY <2>2, <2>8 DEF c
    <2> QED
      BY <2>5, <2>6, <2>7, <2>8
  <1> QED
    BY <1>1, <1>2

----------------------------------------------------------------------------
(* What the program holds at each place.                                       *)

LEMMA ProgramShape ==
    ASSUME NEW a \in Nat, NEW S \in SUBSET Nat, IsFiniteSet(S), S # {}
    PROVE  LET n == Cardinality(S)
               F == BuildFilter(a, S)
           IN  /\ n \in Nat \ {0}
               /\ DOMAIN F = 0..(n + 5)
               /\ F[0] = Ld("arch") /\ F[1] = Jeq(a, 1, 0)
               /\ F[2] = Ret("kill") /\ F[3] = Ld("nr")
               /\ \A p \in 4..(n + 3) : F[p] = Jeq(Chain(S)[p - 3], (n + 4) - p, 0)
               /\ F[n + 4] = Ret("allow") /\ F[n + 5] = Ret("errno")
  <1> DEFINE n == Cardinality(S)
             F == FilterOf(a, S)
  <1>1. n \in Nat \ {0}
    BY FS_CardinalityType, FS_EmptySet
  <1>2. BuildFilter(a, S) = F
    BY DEF BuildFilter
  <1>3. DenyBlock(Cardinality(S)) = n + 5
    BY <1>1 DEF DenyBlock
  <1>4. DOMAIN F = 0..(n + 5)
    BY <1>3 DEF FilterOf
  <1>5. F[0] = Ld("arch") /\ F[1] = Jeq(a, 1, 0) /\ F[2] = Ret("kill") /\ F[3] = Ld("nr")
    BY <1>1, <1>3 DEF FilterOf
  <1>6. ASSUME NEW p \in 4..(n + 3)
        PROVE  F[p] = Jeq(Chain(S)[p - 3], (n + 4) - p, 0)
    <2>1. F[p] = Scan(S, p)
      BY <1>1, <1>3 DEF FilterOf
    <2>2. (n + 5) - (p + 1) = (n + 4) - p
      BY <1>1
    <2> QED
      BY <2>1, <2>2, <1>3 DEF Scan
  <1>7. F[n + 4] = Ret("allow") /\ F[n + 5] = Ret("errno")
    BY <1>1, <1>3 DEF FilterOf
  <1> HIDE DEF n, F
  <1>8. /\ n \in Nat \ {0}
        /\ DOMAIN F = 0..(n + 5)
        /\ F[0] = Ld("arch") /\ F[1] = Jeq(a, 1, 0)
        /\ F[2] = Ret("kill") /\ F[3] = Ld("nr")
        /\ \A p \in 4..(n + 3) : F[p] = Jeq(Chain(S)[p - 3], (n + 4) - p, 0)
        /\ F[n + 4] = Ret("allow") /\ F[n + 5] = Ret("errno")
    BY <1>1, <1>4, <1>5, <1>6, <1>7
  <1> QED
    BY <1>2, <1>8 DEF n

\* The instruction at a place p, and where the program ends.
ProgramCase(a, S, p) ==
    LET n == Cardinality(S)  F == BuildFilter(a, S)
    IN  \/ p = 0 /\ F[p] = Ld("arch") /\ {1} \subseteq DOMAIN F
        \/ p = 1 /\ F[p] = Jeq(a, 1, 0) /\ {2, 3} \subseteq DOMAIN F
        \/ p = 2 /\ F[p] = Ret("kill")
        \/ p = 3 /\ S = {} /\ F[p] = Ret("allow")
        \/ p = 3 /\ S # {} /\ F[p] = Ld("nr") /\ {4} \subseteq DOMAIN F
        \/ /\ p \in 4..(n + 3) /\ S # {}
           /\ F[p] = Jeq(Chain(S)[p - 3], (n + 4) - p, 0)
           /\ {p + 1, n + 5} \subseteq DOMAIN F
        \/ p = n + 4 /\ S # {} /\ F[p] = Ret("allow")
        \/ p = n + 5 /\ S # {} /\ F[p] = Ret("errno")

LEMMA EveryPlace ==
    ASSUME NEW a \in Nat, NEW S \in SUBSET Nat, IsFiniteSet(S)
    PROVE  /\ Cardinality(S) \in Nat
           /\ 0 \in DOMAIN BuildFilter(a, S)
           /\ DOMAIN BuildFilter(a, S) \subseteq 0..(Cardinality(S) + 5)
           /\ \A p \in DOMAIN BuildFilter(a, S) : ProgramCase(a, S, p)
  <1>1. Cardinality(S) \in Nat
    BY FS_CardinalityType
  <1>2. CASE S = {}
    <2>1. BuildFilter(a, S) = EmptyFilter(a)
      BY <1>2 DEF BuildFilter
    <2>2. /\ DOMAIN EmptyFilter(a) = 0..3
          /\ EmptyFilter(a)[0] = Ld("arch") /\ EmptyFilter(a)[1] = Jeq(a, 1, 0)
          /\ EmptyFilter(a)[2] = Ret("kill") /\ EmptyFilter(a)[3] = Ret("allow")
      BY DEF EmptyFilter
    <2> QED
      BY <1>1, <1>2, <2>1, <2>2 DEF ProgramCase
  <1>3. CASE S # {}
    <2> DEFINE n == Cardinality(S)
               F == BuildFilter(a, S)
    <2>1. /\ n \in Nat \ {0}
          /\ DOMAIN F = 0..(n + 5)
          /\ F[0] = Ld("arch") /\ F[1] = Jeq(a, 1, 0)
          /\ F[2] = Ret("kill") /\ F[3] = Ld("nr")
          /\ \A p \in 4..(n + 3) : F[p] = Jeq(Chain(S)[p - 3], (n + 4) - p, 0)
          /\ F[n + 4] = Ret("allow") /\ F[n + 5] = Ret("errno")
      BY <1>3, ProgramShape
    <2>2. ASSUME NEW p \in DOMAIN F
          PROVE  ProgramCase(a, S, p)
      <3> HIDE DEF n, F
      <3>1. p \in {0, 1, 2, 3} \/ p \in 4..(n + 3) \/ p = n + 4 \/ p = n + 5
        BY <2>1, <2>2
      <3>2. \/ p = 0 /\ F[p] = Ld("arch") /\ {1} \subseteq DOMAIN F
            \/ p = 1 /\ F[p] = Jeq(a, 1, 0) /\ {2, 3} \subseteq DOMAIN F
            \/ p = 2 /\ F[p] = Ret("kill")
            \/ p = 3 /\ S # {} /\ F[p] = Ld("nr") /\ {4} \subseteq DOMAIN F
            \/ /\ p \in 4..(n + 3) /\ S # {}
               /\ F[p] = Jeq(Chain(S)[p - 3], (n + 4) - p, 0)
               /\ {p + 1, n + 5} \subseteq DOMAIN F
            \/ p = n + 4 /\ S # {} /\ F[p] = Ret("allow")
            \/ p = n + 5 /\ S # {} /\ F[p] = Ret("errno")
        BY <1>3, <2>1, <3>1
      <3> QED
        BY <3>2 DEF ProgramCase, n, F
    <2>3. 0 \in DOMAIN F /\ DOMAIN F \subseteq 0..(n + 5)
      <3> HIDE DEF n, F
      <3> QED
        BY <2>1
    <2> QED
      BY <1>1, <2>2, <2>3
  <1> QED
    BY <1>2, <1>3

----------------------------------------------------------------------------
(* The invariant of the loader and of the scan.                                *)

Armed == machine \in Supported /\ Packs(DenySet)

ProgramInv ==
    /\ loader \in {"libc", "latch", "install"} => Armed
    /\ loader \in {"setup", "enabled", "build", "libc", "latch", "install"} =>
          program = NoFilter
    /\ program # NoFilter => (Armed /\ program = BuildFilter(AuditArch[machine], DenySet))
    /\ program = NoFilter => (pc = 0 /\ verdict = "none")
    /\ call \in [arch : Nat, nr : Nat]

\* Where the scan stands says what it has learnt of the call.
ScanInv ==
    program # NoFilter =>
        /\ pc \in DOMAIN program
        /\ pc = 1 => acc = call.arch
        /\ pc = 2 => call.arch # AuditArch[machine]
        /\ pc >= 3 => call.arch = AuditArch[machine]
        /\ pc \in 4..(Cardinality(DenySet) + 4) =>
              /\ acc = call.nr
              /\ \A i \in 1..(pc - 4) : Chain(DenySet)[i] # call.nr
        /\ (DenySet # {} /\ pc = Cardinality(DenySet) + 5) => call.nr \in DenySet
        /\ verdict # "none" => (program[pc].op = "ret" /\ verdict = program[pc].field)

IInv == TypeOK /\ ProgramInv /\ ScanInv

LEMMA DenySetType ==
    ASSUME TypeOK, machine \in Supported
    PROVE  /\ AuditArch[machine] \in Nat
           /\ DenySet \in SUBSET Nat /\ IsFiniteSet(DenySet)
  <1>1. extra \subseteq Nat /\ IsFiniteSet(extra)
    BY InputAssumption DEF TypeOK
  <1>2. AuditArch[machine] \in Nat /\ DenyExtra[machine] \subseteq 0..320
    BY DEF Supported, AuditArch, DenyExtra
  <1>3. IsFiniteSet(0..320)
    <2>1. 0 \in Int /\ 320 \in Int
      OBVIOUS
    <2> QED
      BY <2>1, FS_Interval
  <1>4. IsFiniteSet(DenyExtra[machine])
    BY <1>2, <1>3, FS_Subset
  <1>5. IsFiniteSet(DenySet)
    BY <1>1, <1>4, FS_Union DEF DenySet
  <1>6. DenySet \in SUBSET Nat
    <2>1. \A x \in 0..320 : x \in Nat
      OBVIOUS
    <2> QED
      BY <1>1, <1>2, <2>1 DEF DenySet
  <1> QED
    BY <1>2, <1>5, <1>6

LEMMA AtPlace ==
    ASSUME TypeOK, ProgramInv, program # NoFilter
    PROVE  LET S == DenySet  a == AuditArch[machine]
           IN  /\ program = BuildFilter(a, S)
               /\ a \in Nat /\ S \in SUBSET Nat /\ IsFiniteSet(S)
               /\ Cardinality(S) \in Nat
               /\ 0 \in DOMAIN program
               /\ DOMAIN program \subseteq 0..(Cardinality(S) + 5)
               /\ \A p \in DOMAIN program : ProgramCase(a, S, p)
  <1>1. machine \in Supported /\ program = BuildFilter(AuditArch[machine], DenySet)
    BY DEF ProgramInv, Armed
  <1>2. /\ AuditArch[machine] \in Nat
        /\ DenySet \in SUBSET Nat /\ IsFiniteSet(DenySet)
    BY <1>1, DenySetType
  <1> QED
    BY <1>1, <1>2, EveryPlace

LEMMA InitIInv == Init => IInv
  <1> SUFFICES ASSUME Init
               PROVE  IInv
    OBVIOUS
  <1>1. TypeOK
    BY DEF Init, TypeOK
  <1>2. ProgramInv
    BY DEF Init, ProgramInv, NoCall
  <1>3. ScanInv
    BY DEF Init, ScanInv
  <1> QED
    BY <1>1, <1>2, <1>3 DEF IInv

----------------------------------------------------------------------------
(* The loader's steps leave the interpreter alone; Install starts it.          *)

LEMMA LoaderKeeps == IInv /\ LoaderNext => IInv'
  <1> SUFFICES ASSUME IInv, LoaderNext
               PROVE  IInv'
    OBVIOUS
  <1> USE DEF To, loading, kernel
  <1>1. CASE Install /\ program' # program
    <2>1. loader = "install" /\ loader' = "exec" /\ nnp' = nnp /\ warned' = warned
          /\ program' = BuildFilter(AuditArch[machine], DenySet)
          /\ UNCHANGED <<loading, kernel>>
      BY <1>1 DEF Install, WithoutFilter
    <2>2. Armed /\ program = NoFilter /\ pc = 0 /\ verdict = "none"
      BY <2>1 DEF IInv, ProgramInv
    <2>3. Armed' /\ DenySet' = DenySet
      BY <2>1, <2>2 DEF Armed, DenySet, Packs
    <2>4. TypeOK'
      BY <2>1 DEF IInv, TypeOK
    <2>5. ProgramInv'
      BY <2>1, <2>2, <2>3 DEF IInv, ProgramInv
    <2>6. ScanInv'
      <3>1. /\ 0 \in DOMAIN BuildFilter(AuditArch[machine], DenySet)
            /\ Cardinality(DenySet) \in Nat
        BY <2>2, DenySetType, EveryPlace DEF IInv, Armed
      <3>2. pc' = 0 /\ verdict' = "none" /\ 0 \in DOMAIN program'
        BY <2>1, <2>2, <3>1
      <3>3. Cardinality(DenySet') \in Nat
        BY <2>3, <3>1
      <3> QED
        BY <3>2, <3>3 DEF ScanInv
    <2> QED
      BY <2>4, <2>5, <2>6 DEF IInv
  <1>2. CASE program' = program
    <2>1. UNCHANGED <<loading, kernel>>
      BY DEF LoaderNext, SetupPath, Enabled, Build, LoadLibc, Latch, Install, Exec, WithoutFilter
    <2>2. (Armed => Armed') /\ DenySet' = DenySet /\ machine' = machine
      BY <2>1 DEF Armed, DenySet, Packs
    <2>3. TypeOK'
      BY <2>1, <1>2 DEF IInv, TypeOK, LoaderNext, SetupPath, Enabled, Build, LoadLibc,
            Latch, Install, Exec, WithoutFilter
    <2>4. ProgramInv'
      <3>1. /\ loader' \in {"libc", "latch", "install"} => Armed
            /\ loader' \in {"setup", "enabled", "build", "libc", "latch", "install"} =>
                  program = NoFilter
        <4>1. CASE Build
          <5>1. loader = "build" /\ (loader' = "libc" => machine \in Supported /\ Packs(DenySet))
                /\ loader' \in {"libc", "exec", "raised"}
            BY <4>1 DEF Build, WithoutFilter
          <5>2. program = NoFilter
            BY <5>1 DEF IInv, ProgramInv
          <5> QED
            BY <5>1, <5>2 DEF Armed
        <4>2. CASE SetupPath \/ Enabled \/ LoadLibc \/ Latch \/ Install \/ Exec
          <5>1. loader' \in {"latch", "install"} => loader \in {"libc", "latch"}
            BY <4>2 DEF SetupPath, Enabled, LoadLibc, Latch, Install, Exec, WithoutFilter
          <5>2. loader' # "libc"
            BY <4>2 DEF SetupPath, Enabled, LoadLibc, Latch, Install, Exec, WithoutFilter
          <5>3. loader' \in {"setup", "enabled", "build"} => loader \in {"setup", "enabled"}
            BY <4>2 DEF SetupPath, Enabled, LoadLibc, Latch, Install, Exec, WithoutFilter
          <5> QED
            BY <5>1, <5>2, <5>3 DEF IInv, ProgramInv
        <4> QED
          BY <4>1, <4>2 DEF LoaderNext
      <3>2. loader' \in {"libc", "latch", "install"} => Armed'
        BY <2>2, <3>1, Zenon
      <3>3. program' # NoFilter =>
               (Armed' /\ program' = BuildFilter(AuditArch[machine'], DenySet'))
        BY <1>2, <2>2 DEF IInv, ProgramInv
      <3>4. program' = NoFilter => (pc' = 0 /\ verdict' = "none")
        BY <1>2, <2>1 DEF IInv, ProgramInv
      <3>5. call' \in [arch : Nat, nr : Nat]
        BY <2>1 DEF IInv, ProgramInv
      <3>6. loader' \in {"setup", "enabled", "build", "libc", "latch", "install"} =>
               program' = NoFilter
        BY <1>2, <3>1
      <3> QED
        BY <3>2, <3>3, <3>4, <3>5, <3>6, Zenon DEF ProgramInv
    <2>5. ScanInv'
      BY <1>2, <2>1, <2>2 DEF IInv, ScanInv
    <2> QED
      BY <2>3, <2>4, <2>5 DEF IInv
  <1>3. program' # program => Install
    BY DEF LoaderNext, SetupPath, Enabled, Build, LoadLibc, Latch, Install, Exec, WithoutFilter
  <1> QED
    BY <1>1, <1>2, <1>3

----------------------------------------------------------------------------
(* The kernel's steps: each instruction moves the scan to a place it may be.   *)

LEMMA KernelFrame ==
    ASSUME IInv, KernelNext
    PROVE  /\ program # NoFilter /\ program' = program
           /\ machine' = machine /\ DenySet' = DenySet
           /\ ProgramInv'
  <1>1. UNCHANGED <<loading, nnp, program, warned>>
    BY DEF KernelNext, SystemCall, StepLoad, StepJump, StepReturn, Resume, Kept
  <1>2. program # NoFilter
    <2>1. CASE SystemCall \/ Resume
      BY <2>1 DEF SystemCall, Resume, IInv, ProgramInv
    <2>2. CASE StepLoad \/ StepJump \/ StepReturn
      BY <2>2 DEF StepLoad, StepJump, StepReturn, At, NoFilter
    <2> QED
      BY <2>1, <2>2 DEF KernelNext
  <1>3. machine' = machine /\ DenySet' = DenySet
    BY <1>1 DEF loading, DenySet
  <1>4. Armed'
    BY <1>1, <1>2, <1>3 DEF IInv, ProgramInv, Armed, Packs
  <1>5. loader' = loader \/ loader' \in {"killed", "payload"}
    BY DEF KernelNext, SystemCall, StepLoad, StepJump, StepReturn, Resume, Kept
  <1>6. call' \in [arch : Nat, nr : Nat]
    <2>1. CASE SystemCall
      BY <2>1, InputAssumption DEF SystemCall
    <2>2. CASE Resume
      BY <2>2 DEF Resume, NoCall
    <2>3. CASE StepLoad \/ StepJump \/ StepReturn
      BY <2>3 DEF StepLoad, StepJump, StepReturn, Kept, IInv, ProgramInv
    <2> QED
      BY <2>1, <2>2, <2>3 DEF KernelNext
  <1>7. loader' \notin {"setup", "enabled", "build", "libc", "latch", "install"}
    BY <1>2, <1>5 DEF IInv, ProgramInv
  <1>8. program' # NoFilter /\ program' = BuildFilter(AuditArch[machine'], DenySet')
    BY <1>1, <1>2, <1>3 DEF IInv, ProgramInv
  <1>9. ProgramInv'
    BY <1>4, <1>6, <1>7, <1>8, Zenon DEF ProgramInv
  <1> QED
    BY <1>1, <1>2, <1>3, <1>9

\* A call begins at the first instruction, and ends there.
LEMMA StartKeeps == IInv /\ (SystemCall \/ Resume) => ScanInv'
  <1> SUFFICES ASSUME IInv, SystemCall \/ Resume
               PROVE  ScanInv'
    OBVIOUS
  <1>1. program # NoFilter /\ program' = program /\ DenySet' = DenySet
    BY KernelFrame DEF KernelNext
  <1>2. 0 \in DOMAIN program /\ Cardinality(DenySet) \in Nat
    BY <1>1, AtPlace DEF IInv
  <1>3. pc' = 0 /\ verdict' = "none"
    BY DEF SystemCall, Resume
  <1> QED
    BY <1>1, <1>2, <1>3 DEF ScanInv

LEMMA LoadKeeps == IInv /\ StepLoad => ScanInv' /\ pc' \in Nat /\ acc' \in Nat
  <1> SUFFICES ASSUME IInv, StepLoad
               PROVE  ScanInv' /\ pc' \in Nat /\ acc' \in Nat
    OBVIOUS
  <1> DEFINE S == DenySet
             n == Cardinality(S)
  <1>1. /\ program # NoFilter /\ program' = program /\ S' = S /\ machine' = machine
    BY KernelFrame DEF KernelNext
  <1>2. /\ n \in Nat /\ S \in SUBSET Nat /\ IsFiniteSet(S)
        /\ program = BuildFilter(AuditArch[machine], S)
        /\ DOMAIN program \subseteq 0..(n + 5)
        /\ ProgramCase(AuditArch[machine], S, pc)
    BY <1>1, AtPlace DEF IInv, ScanInv
  <1>3. program[pc].op = "ld" /\ call' = call /\ verdict' = verdict /\ verdict = "none"
    BY DEF StepLoad, At, Running, Kept
  <1>4. \/ pc = 0 /\ program[pc] = Ld("arch") /\ 1 \in DOMAIN program
        \/ pc = 3 /\ S # {} /\ program[pc] = Ld("nr") /\ 4 \in DOMAIN program
    BY <1>2, <1>3 DEF ProgramCase, Ld, Jeq, Ret
  <1>5. call.arch \in Nat /\ call.nr \in Nat
    BY DEF IInv, ProgramInv
  <1>6. CASE pc = 0
    <2>1. pc' = 1 /\ acc' = call.arch
      BY <1>4, <1>6 DEF StepLoad, Ld
    <2> QED
      BY <1>1, <1>2, <1>3, <1>4, <1>5, <1>6, <2>1 DEF ScanInv
  <1>7. CASE pc = 3
    <2>1. pc' = 4 /\ acc' = call.nr
      BY <1>4, <1>7 DEF StepLoad, Ld
    <2>2. call.arch = AuditArch[machine]
      BY <1>1, <1>7 DEF IInv, ScanInv
    <2>3. n > 0
      BY <1>2, <1>4, <1>7, FS_EmptySet
    <2>4. \A i \in 1..(4 - 4) : Chain(S)[i] # call.nr
      OBVIOUS
    <2>5. pc' # n + 5
      BY <1>2, <2>1, <2>3
    <2> QED
      BY <1>1, <1>2, <1>3, <1>4, <1>5, <1>7, <2>1, <2>2, <2>4, <2>5 DEF ScanInv
  <1> QED
    BY <1>4, <1>6, <1>7

LEMMA JumpKeeps == IInv /\ StepJump => ScanInv' /\ pc' \in Nat /\ acc' \in Nat
  <1> SUFFICES ASSUME IInv, StepJump
               PROVE  ScanInv' /\ pc' \in Nat /\ acc' \in Nat
    OBVIOUS
  <1> DEFINE S == DenySet
             n == Cardinality(S)
             a == AuditArch[machine]
  <1>1. program # NoFilter /\ program' = program /\ S' = S /\ machine' = machine
    BY KernelFrame DEF KernelNext
  <1>2. /\ n \in Nat /\ S \in SUBSET Nat /\ IsFiniteSet(S) /\ a \in Nat
        /\ program = BuildFilter(a, S)
        /\ DOMAIN program \subseteq 0..(n + 5)
        /\ ProgramCase(a, S, pc)
    BY <1>1, AtPlace DEF IInv, ScanInv
  <1>3. /\ program[pc].op = "jeq" /\ call' = call /\ verdict' = verdict /\ verdict = "none"
        /\ acc' = acc
    BY DEF StepJump, At, Running, Kept
  <1>4. \/ pc = 1 /\ program[pc] = Jeq(a, 1, 0) /\ {2, 3} \subseteq DOMAIN program
        \/ /\ pc \in 4..(n + 3) /\ S # {}
           /\ program[pc] = Jeq(Chain(S)[pc - 3], (n + 4) - pc, 0)
           /\ {pc + 1, n + 5} \subseteq DOMAIN program
    BY <1>2, <1>3 DEF ProgramCase, Ld, Jeq, Ret
  <1>5. acc \in Nat
    BY DEF IInv, TypeOK
  <1>6. CASE pc = 1
    <2>1. acc = call.arch
      BY <1>1, <1>6 DEF IInv, ScanInv
    <2>2. program[pc].k = a /\ program[pc].jt = 1 /\ program[pc].jf = 0
      BY <1>4, <1>6 DEF Jeq
    <2>3. pc' = IF call.arch = a THEN 3 ELSE 2
      BY <1>6, <2>1, <2>2 DEF StepJump
    <2>4. {2, 3} \subseteq DOMAIN program
      BY <1>4, <1>6
    <2> HIDE DEF S, n, a
    <2>5. pc' \in {2, 3} /\ (pc' = 2 => call.arch # a) /\ (pc' = 3 => call.arch = a)
      BY <2>3
    <2>6. pc' # n + 5 /\ pc' \notin 4..(n + 4)
      BY <1>2, <2>5
    <2> QED
      BY <1>1, <1>3, <1>5, <2>4, <2>5, <2>6 DEF ScanInv, S, n, a
  <1>7. CASE pc \in 4..(n + 3)
    <2>1. /\ acc = call.nr /\ call.arch = a
          /\ \A i \in 1..(pc - 4) : Chain(S)[i] # call.nr
      <3>1. pc \in 4..(n + 4) /\ pc >= 3
        BY <1>2, <1>7
      <3> QED
        BY <1>1, <3>1 DEF IInv, ScanInv
    <2>2. /\ program[pc].k = Chain(S)[pc - 3] /\ program[pc].jt = (n + 4) - pc
          /\ program[pc].jf = 0 /\ {pc + 1, n + 5} \subseteq DOMAIN program
      BY <1>2, <1>4, <1>7 DEF Jeq
    <2>3. pc - 3 \in 1..n /\ pc + 1 + ((n + 4) - pc) = n + 5 /\ pc + 1 + 0 = pc + 1
      BY <1>2, <1>7
    <2>4. CASE call.nr = Chain(S)[pc - 3]
      <3>1. pc' = n + 5
        BY <2>1, <2>2, <2>3, <2>4 DEF StepJump
      <3>2. call.nr \in S
        BY <1>2, <2>3, <2>4, ChainIsTheList
      <3>3. n + 5 \in DOMAIN program
        BY <2>2
      <3> HIDE DEF S, n, a
      <3>4. pc' # 1 /\ pc' # 2 /\ pc' \notin 4..(n + 4) /\ pc' \in Nat
        BY <1>2, <3>1
      <3> QED
        BY <1>1, <1>3, <1>5, <2>1, <3>1, <3>2, <3>3, <3>4 DEF ScanInv, S, n, a
    <2>5. CASE call.nr # Chain(S)[pc - 3]
      <3>1. pc' = pc + 1
        BY <2>1, <2>2, <2>3, <2>5 DEF StepJump
      <3>2. \A i \in 1..((pc + 1) - 4) : i \in 1..(pc - 4) \/ i = pc - 3
        BY <1>2, <1>7
      <3>3. \A i \in 1..(pc' - 4) : Chain(S)[i] # call.nr
        BY <2>1, <2>5, <3>1, <3>2
      <3>4. pc + 1 \in DOMAIN program
        BY <2>2
      <3> HIDE DEF S, n, a
      <3>5. pc' # 1 /\ pc' # 2 /\ pc' # n + 5 /\ pc' \in Nat
        BY <1>2, <1>7, <3>1
      <3> QED
        BY <1>1, <1>3, <1>5, <2>1, <3>1, <3>3, <3>4, <3>5 DEF ScanInv, S, n, a
    <2> QED
      BY <2>4, <2>5
  <1> QED
    BY <1>4, <1>6, <1>7

LEMMA ReturnKeeps == IInv /\ StepReturn => ScanInv' /\ verdict' \in {"kill", "allow", "errno"}
  <1> SUFFICES ASSUME IInv, StepReturn
               PROVE  ScanInv' /\ verdict' \in {"kill", "allow", "errno"}
    OBVIOUS
  <1>1. program # NoFilter /\ program' = program /\ DenySet' = DenySet /\ machine' = machine
    BY KernelFrame DEF KernelNext
  <1>2. ProgramCase(AuditArch[machine], DenySet, pc)
        /\ program = BuildFilter(AuditArch[machine], DenySet)
    BY <1>1, AtPlace DEF IInv, ScanInv
  <1>3. /\ program[pc].op = "ret" /\ call' = call /\ pc' = pc /\ acc' = acc
        /\ verdict' = program[pc].field
    BY DEF StepReturn, At, Kept
  <1>4. program[pc].field \in {"kill", "allow", "errno"}
    BY <1>2, <1>3 DEF ProgramCase, Ld, Jeq, Ret
  <1> QED
    BY <1>1, <1>3, <1>4 DEF IInv, ScanInv

LEMMA KernelKeeps == IInv /\ KernelNext => IInv'
  <1> SUFFICES ASSUME IInv, KernelNext
               PROVE  IInv'
    OBVIOUS
  <1>1. ProgramInv'
    BY KernelFrame
  <1>2. ScanInv'
    BY StartKeeps, LoadKeeps, JumpKeeps, ReturnKeeps DEF KernelNext
  <1>3. TypeOK'
    <2>1. CASE SystemCall \/ Resume
      BY <2>1 DEF SystemCall, Resume, IInv, TypeOK, loading
    <2>2. CASE StepLoad
      BY <2>2, LoadKeeps DEF StepLoad, Kept, IInv, TypeOK, loading
    <2>3. CASE StepJump
      BY <2>3, JumpKeeps DEF StepJump, Kept, IInv, TypeOK, loading
    <2>4. CASE StepReturn
      BY <2>4, ReturnKeeps DEF StepReturn, Kept, IInv, TypeOK, loading
    <2> QED
      BY <2>1, <2>2, <2>3, <2>4 DEF KernelNext
  <1> QED
    BY <1>1, <1>2, <1>3 DEF IInv

LEMMA Invariance == Spec => []IInv
  <1>1. IInv /\ [Next]_vars => IInv'
    <2>1. CASE UNCHANGED vars
      <3> SUFFICES ASSUME IInv
                   PROVE  IInv'
        OBVIOUS
      <3>1. /\ UNCHANGED <<loader, env, machine, extra, nnp, program, warned>>
            /\ UNCHANGED <<call, pc, acc, verdict>>
        BY <2>1 DEF vars, loading, kernel
      <3>2. DenySet' = DenySet /\ (Armed => Armed')
        BY <3>1 DEF DenySet, Armed, Packs
      <3>3. TypeOK'
        BY <3>1 DEF IInv, TypeOK
      <3>4. ProgramInv'
        <4>1. ProgramInv
          BY DEF IInv
        <4> QED
          BY <3>1, <3>2, <4>1, Zenon DEF ProgramInv
      <3>5. ScanInv'
        BY <3>1, <3>2 DEF IInv, ScanInv
      <3> QED
        BY <3>3, <3>4, <3>5 DEF IInv
    <2> QED
      BY <2>1, LoaderKeeps, KernelKeeps DEF Next
  <1> QED
    BY <1>1, InitIInv, PTL DEF Spec

----------------------------------------------------------------------------
(* The results.                                                                *)

\* For every deny list whose jumps fit into an instruction, the installed filter
\* kills a call of another architecture, refuses exactly the numbers of the list,
\* and lets every other number through.
THEOREM FilterIsTheDenyList == Spec => []FilterDecidesDenySet
  <1>1. IInv => FilterDecidesDenySet
    <2> SUFFICES ASSUME IInv, program # NoFilter, verdict # "none"
                 PROVE  verdict = Reference
      BY DEF FilterDecidesDenySet
    <2> DEFINE S == DenySet
               n == Cardinality(S)
               a == AuditArch[machine]
    <2>1. /\ n \in Nat /\ S \in SUBSET Nat /\ IsFiniteSet(S)
          /\ program = BuildFilter(a, S) /\ ProgramCase(a, S, pc)
      BY AtPlace DEF IInv, ScanInv
    <2>2. program[pc].op = "ret" /\ verdict = program[pc].field
      BY DEF IInv, ScanInv
    <2>3. \/ pc = 2 /\ verdict = "kill"
          \/ pc = 3 /\ S = {} /\ verdict = "allow"
          \/ pc = n + 4 /\ S # {} /\ verdict = "allow"
          \/ pc = n + 5 /\ S # {} /\ verdict = "errno"
      BY <2>1, <2>2 DEF ProgramCase, Ld, Jeq, Ret
    <2>4. CASE pc = 2 /\ verdict = "kill"
      BY <2>4 DEF IInv, ScanInv, Reference
    <2>5. CASE pc = 3 /\ S = {} /\ verdict = "allow"
      BY <2>5 DEF IInv, ScanInv, Reference
    <2>6. CASE pc = n + 4 /\ S # {} /\ verdict = "allow"
      <3>1. pc >= 3 /\ pc \in 4..(n + 4)
        BY <2>1, <2>6
      <3>2. call.arch = a /\ \A i \in 1..(pc - 4) : Chain(S)[i] # call.nr
        BY <3>1 DEF IInv, ScanInv
      <3>3. pc - 4 = n
        BY <2>1, <2>6
      <3>4. call.nr \notin S
        BY <2>1, <3>2, <3>3, ChainIsTheList
      <3>5. Reference = "allow"
        BY <3>2, <3>4 DEF Reference
      <3> QED
        BY <2>6, <3>5
    <2>7. CASE pc = n + 5 /\ S # {} /\ verdict = "errno"
      <3>1. pc >= 3
        BY <2>1, <2>7
      <3> QED
        BY <2>7, <3>1 DEF IInv, ScanInv, Reference
    <2> QED
      BY <2>3, <2>4, <2>5, <2>6, <2>7
  <1> QED
    BY <1>1, Invariance, PTL

\* A call the deny list is about fails by every number it is issued by, and nothing
\* else does: the numbers the C library uses instead are in the list.
THEOREM DeniedCallsAlwaysFail == Spec => []DeniedCallsFail
  <1>1. IInv /\ FilterDecidesDenySet => NoRouteAround
    <2> SUFFICES ASSUME FilterDecidesDenySet, machine = "x86_64", program # NoFilter,
                        verdict # "none", call.arch = AuditArch["x86_64"],
                        NEW f \in DOMAIN Routed, call.nr = Routed[f]
                 PROVE  verdict = "errno"
      BY DEF NoRouteAround
    <2>1. Routed[f] \in DenyExtra["x86_64"]
      BY DEF Routed, DenyExtra
    <2>2. call.nr \in DenySet
      BY <2>1 DEF DenySet
    <2> QED BY <2>2 DEF FilterDecidesDenySet, Reference
  <1> QED BY <1>1, Invariance, FilterIsTheDenyList, PTL DEF DeniedCallsFail

\* No jump of an installed filter leaves it or is too long to be encoded.
THEOREM FilterIsWellFormed == Spec => []JumpsStayInside
  <1>1. IInv => JumpsStayInside
    <2> SUFFICES ASSUME IInv, program # NoFilter
                 PROVE  /\ pc \in DOMAIN program
                        /\ \A p \in DOMAIN program : program[p].jt <= MaxJump
      BY DEF JumpsStayInside
    <2> DEFINE S == DenySet
               n == Cardinality(S)
               a == AuditArch[machine]
    <2>1. /\ n \in Nat /\ program = BuildFilter(a, S)
          /\ \A p \in DOMAIN program : ProgramCase(a, S, p)
      BY AtPlace DEF IInv
    <2>2. n <= MaxJump /\ MaxJump \in Nat \ {0}
      BY JumpAssumption DEF IInv, ProgramInv, Armed, Packs
    <2>3. ASSUME NEW p \in DOMAIN program
          PROVE  program[p].jt <= MaxJump
      <3>1. ProgramCase(a, S, p)
        BY <2>1
      <3>2. program[p].jt \in {0, 1} \/ (p \in 4..(n + 3) /\ program[p].jt = (n + 4) - p)
        BY <2>1, <3>1 DEF ProgramCase, Ld, Jeq, Ret
      <3>3. CASE program[p].jt \in {0, 1}
        BY <2>2, <3>3
      <3>4. CASE p \in 4..(n + 3) /\ program[p].jt = (n + 4) - p
        <4> DEFINE j == program[p].jt
        <4>1. n \in Nat /\ p \in 4..(n + 3) /\ j = (n + 4) - p
          BY <2>1, <3>4
        <4> HIDE DEF n, j
        <4>2. j <= n /\ j \in Int
          BY <4>1
        <4>3. j <= MaxJump
          BY <2>2, <4>1, <4>2
        <4> QED
          BY <4>3 DEF j
      <3> QED
        BY <3>2, <3>3, <3>4
    <2> QED
      BY <2>3 DEF IInv, ScanInv
  <1> QED
    BY <1>1, Invariance, PTL

\* The loader and the interpreter keep their types.
THEOREM SeccompTypes == Spec => []TypeOK
  <1>1. IInv => TypeOK
    BY DEF IInv
  <1> QED
    BY <1>1, Invariance, PTL

----------------------------------------------------------------------------
(* Where the program goes without a filter.                                    *)

\* Past the switch only a process that wants the filter goes on, and it comes to
\* the exec with one, or after a line.
Spoken ==
    /\ loader \in {"build", "libc", "latch", "install"} => env = "on"
    /\ loader \in {"exec", "payload"} /\ env # "off" => program # NoFilter \/ warned

LEMMA SpokenStep == ASSUME IInv, Spoken, [Next]_vars PROVE Spoken'
  <1> USE DEF Spoken, To, loading, kernel
  <1>1. CASE Install
    <2>1. loader = "install" /\ UNCHANGED env /\ loader' = "exec"
          /\ \/ warned' = TRUE
             \/ program' = BuildFilter(AuditArch[machine], DenySet)
      BY <1>1 DEF Install, WithoutFilter
    <2>2. 0 \in DOMAIN BuildFilter(AuditArch[machine], DenySet)
      BY <2>1, DenySetType, EveryPlace DEF IInv, ProgramInv, Armed
    <2>3. BuildFilter(AuditArch[machine], DenySet) # NoFilter
      BY <2>2 DEF NoFilter
    <2> QED BY <2>1, <2>3
  <1>2. CASE SetupPath \/ Enabled \/ Build \/ LoadLibc \/ Latch \/ Exec
    BY <1>2 DEF SetupPath, Enabled, Build, LoadLibc, Latch, Exec, WithoutFilter, IInv, TypeOK
  <1>3. CASE KernelNext
    <2>1. program # NoFilter /\ program' = program
      BY <1>3, KernelFrame
    <2>2. loader' = loader \/ loader' \in {"killed", "payload"}
      BY <1>3 DEF KernelNext, SystemCall, StepLoad, StepJump, StepReturn, Resume, Kept
    <2>3. UNCHANGED env
      BY <1>3 DEF KernelNext, SystemCall, StepLoad, StepJump, StepReturn, Resume, Kept
    <2> QED BY <2>1, <2>2, <2>3
  <1>4. CASE UNCHANGED vars
    BY <1>4 DEF vars
  <1> QED BY <1>1, <1>2, <1>3, <1>4 DEF Next, LoaderNext

\* On no way through the loader does a program that was to be filtered start
\* unfiltered without a line: an unknown machine, a list too long to be packed, a
\* refused latch or a refused filter.
THEOREM UnfilteredIsStated == Spec => []MissingFilterIsStated
  <1>1. Init => Spoken
    BY DEF Init, Spoken
  <1>2. Spoken => MissingFilterIsStated
    BY DEF Spoken, MissingFilterIsStated
  <1> QED BY <1>1, <1>2, SpokenStep, Invariance, PTL DEF Spec
=============================================================================

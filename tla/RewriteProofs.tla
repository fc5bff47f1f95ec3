---------------------------- MODULE RewriteProofs ----------------------------
(* Proofs about Rewrite: what the functions over a text compute, one character *)
(* or part after the other, and what the engine makes of a command.            *)
EXTENDS Rewrite, FiniteSetTheorems, SequenceTheorems, WellFoundedInduction, TLAPS

----------------------------------------------------------------------------
(* Induction on a set of numbers.                                              *)

LEMMA SmallestExists ==
  ASSUME NEW S \in SUBSET Nat, S # {}
  PROVE  \E m \in S : \A k \in S : m <= k
<1> PICK n \in S : TRUE
  OBVIOUS
<1> DEFINE Below(m) == 0..m
           T == {Below(m) : m \in {k \in S : k <= n}}
           R == StrictSubsetOrdering(0..n)
<1>1. T \subseteq FiniteSubsetsOf(0..n) /\ T # {}
  <2>1. \A m \in Nat : m <= n => 0..m \subseteq 0..n /\ IsFiniteSet(0..m)
    BY FS_Interval
  <2> QED BY <2>1 DEF FiniteSubsetsOf
<1>2. IsWellFoundedOn(R, FiniteSubsetsOf(0..n))
  BY FS_StrictSubsetOrderingWellFounded
<1>3. PICK B \in T : \A A \in T : <<A, B>> \notin R
  <2> HIDE DEF R, T
  <2> QED BY <1>1, <1>2, WFMin
<1>4. PICK m \in S : m <= n /\ B = 0..m
  BY <1>3
<1>5. ASSUME NEW k \in S, k < m PROVE FALSE
  <2>1. 0..k \in T
    BY <1>4, <1>5
  <2>2. 0..k \subseteq 0..n /\ 0..m \subseteq 0..n /\ 0..k \subseteq 0..m /\ m \notin 0..k /\ m \in 0..m
    BY <1>4, <1>5
  <2>3. <<0..k, 0..m>> \in R
    BY <2>2 DEF StrictSubsetOrdering
  <2> QED BY <1>3, <1>4, <2>1, <2>3
<1> QED BY <1>4, <1>5

LEMMA Upwards ==
  ASSUME NEW n \in Nat, NEW S, 0 \in S, \A i \in 1..n : i - 1 \in S => i \in S
  PROVE  \A i \in 0..n : i \in S
<1> DEFINE Out == {i \in 0..n : i \notin S}
<1>1. Out \in SUBSET Nat
  OBVIOUS
<1>2. ASSUME Out # {} PROVE FALSE
  <2>1. PICK m \in Out : \A k \in Out : m <= k
    <3> HIDE DEF Out
    <3> QED BY <1>1, <1>2, SmallestExists
  <2>2. m \in 1..n /\ m - 1 \notin Out /\ m - 1 \in 0..n
    BY <2>1
  <2> QED BY <2>1, <2>2
<1> QED BY <1>2

LEMMA Downwards ==
  ASSUME NEW lo \in Nat, NEW hi \in Nat, NEW S, hi \in S,
         \A i \in lo .. hi - 1 : (\A j \in i + 1 .. hi : j \in S) => i \in S
  PROVE  \A i \in lo .. hi : i \in S
<1> DEFINE Out == {i \in lo .. hi : i \notin S}
           Far == {hi - i : i \in Out}
<1>1. Far \in SUBSET Nat
  OBVIOUS
<1>2. ASSUME Out # {} PROVE FALSE
  <2>0. Far # {}
    BY <1>2
  <2>1. PICK d \in Far : \A k \in Far : d <= k
    <3> HIDE DEF Far
    <3> QED BY <1>1, <2>0, SmallestExists
  <2>2. PICK i \in Out : d = hi - i
    BY <2>1
  <2>3. \A j \in i + 1 .. hi : j \in S
    <3> SUFFICES ASSUME NEW j \in i + 1 .. hi, j \notin S PROVE FALSE
      OBVIOUS
    <3>1. j \in lo .. hi /\ i \in lo .. hi
      BY <2>2
    <3>2. hi - j \in Far
      BY <3>1
    <3>3. d <= hi - j
      <4> HIDE DEF Far
      <4> QED BY <2>1, <3>2
    <3> QED BY <2>2, <3>1, <3>3
  <2>4. i \in lo .. hi - 1
    BY <2>2
  <2> QED BY <2>2, <2>3, <2>4
<1> QED BY <1>2

----------------------------------------------------------------------------
(* Sequences put together.                                                     *)

LEMMA OneIsSeq ==
  ASSUME NEW S, NEW x \in S
  PROVE  <<x>> \in Seq(S) /\ Len(<<x>>) = 1 /\ <<x>>[1] = x
OBVIOUS

LEMMA TwoIsSeq ==
  ASSUME NEW S, NEW x \in S, NEW y \in S
  PROVE  <<x, y>> \in Seq(S) /\ Len(<<x, y>>) = 2 /\ <<x, y>>[1] = x /\ <<x, y>>[2] = y
OBVIOUS

LEMMA FunctionIsSeq ==
  ASSUME NEW S, NEW n \in Nat, NEW f \in [1 .. n -> S]
  PROVE  f \in Seq(S) /\ Len(f) = n
BY SeqDef

LEMMA EmptyIffNone ==
  ASSUME NEW S, NEW s \in Seq(S)
  PROVE  Len(s) \in Nat /\ DOMAIN s = 1 .. Len(s) /\ (s = <<>> <=> Len(s) = 0)
BY EmptySeq, LenProperties

LEMMA AppendFacts ==
  ASSUME NEW S, NEW s \in Seq(S), NEW x \in S
  PROVE  /\ Append(s, x) \in Seq(S) /\ Append(s, x) # <<>>
         /\ Len(s) \in Nat /\ Len(Append(s, x)) = Len(s) + 1
         /\ \A k \in 1 .. Len(s) : Append(s, x)[k] = s[k]
         /\ Append(s, x)[Len(s) + 1] = x
BY AppendProperties, LenProperties

\* The first i elements are the first i - 1 and that one.
LEMMA PrefixGrows ==
  ASSUME NEW S, NEW s \in Seq(S), NEW i \in 1 .. Len(s)
  PROVE  /\ SubSeq(s, 1, i - 1) \in Seq(S) /\ Len(SubSeq(s, 1, i - 1)) = i - 1
         /\ SubSeq(s, 1, i) \in Seq(S) /\ Len(SubSeq(s, 1, i)) = i
         /\ s[i] \in S
         /\ \A j \in 1 .. i : SubSeq(s, 1, i)[j] = s[j]
         /\ SubSeq(s, 1, i) = Append(SubSeq(s, 1, i - 1), s[i])
<1>1. s[i] \in S /\ i - 1 \in Int /\ Len(s) \in Nat
  BY ElementOfSeq
<1>2. SubSeq(s, 1, i - 1) \in Seq(S) /\ Len(SubSeq(s, 1, i - 1)) = i - 1
  BY <1>1
<1>3. SubSeq(s, 1, i) \in Seq(S) /\ Len(SubSeq(s, 1, i)) = i /\ \A j \in 1 .. i : SubSeq(s, 1, i)[j] = s[j]
  BY <1>1
<1>4. SubSeq(s, 1, i) = SubSeq(s, 1, i - 1) \o <<s[i]>>
  BY <1>1, SubSeqRecursiveSecond
<1> QED BY <1>1, <1>2, <1>3, <1>4, AppendIsConcat

LEMMA ConcatAppend ==
  ASSUME NEW S, NEW s \in Seq(S), NEW t \in Seq(S), NEW x \in S
  PROVE  s \o Append(t, x) = Append(s \o t, x)
<1>1. <<x>> \in Seq(S) /\ Append(t, x) = t \o <<x>>
  BY OneIsSeq, AppendIsConcat
<1>2. s \o t \in Seq(S) /\ Append(s \o t, x) = (s \o t) \o <<x>>
  BY ConcatProperties, AppendIsConcat
<1> QED BY <1>1, <1>2, ConcatAssociative

LEMMA Regroup ==
  ASSUME NEW S, NEW s \in Seq(S), NEW t \in Seq(S), NEW u \in Seq(S)
  PROVE  s \o (t \o u) = (s \o t) \o u
BY ConcatAssociative

LEMMA RegroupChars ==
  \A s \in Seq(Chars), t \in Seq(Chars), u \in Seq(Chars) : (s \o t) \o u = s \o (t \o u)
<1> TAKE s \in Seq(Chars), t \in Seq(Chars), u \in Seq(Chars)
<1> QED BY Regroup

LEMMA IsAppend ==
  ASSUME NEW S, NEW s \in Seq(S), NEW y \in S,
         NEW a \in Seq(S), Len(a) = Len(s) + 1,
         \A k \in 1 .. Len(s) : a[k] = s[k], a[Len(s) + 1] = y
  PROVE  a = Append(s, y)
<1> DEFINE b == Append(s, y)
<1>1. /\ b \in Seq(S) /\ Len(b) = Len(s) + 1 /\ Len(s) \in Nat
      /\ \A k \in 1 .. Len(s) : b[k] = s[k]
      /\ b[Len(s) + 1] = y
  BY AppendFacts
<1> HIDE DEF b
<1>2. a = b
  BY <1>1, SeqEqual
<1> QED BY <1>2 DEF b

LEMMA FlattenEmpty == FlattenSeq(<<>>) = <<>>
BY DEF FlattenSeq

\* Putting pieces together goes from one to the next.
LEMMA FlattenScan ==
  ASSUME NEW S, NEW ss \in Seq(Seq(S)), ss # <<>>
  PROVE  \E f : /\ \A i \in 1 .. Len(ss) : f[i] = IF i = 1 THEN ss[i] ELSE f[i - 1] \o ss[i]
                /\ FlattenSeq(ss) = f[Len(ss)]
<1> DEFINE Flat(m, f) == f = [i \in 1 .. m |-> IF i = 1 THEN ss[i] ELSE f[i - 1] \o ss[i]]
           Good == {m \in 0 .. Len(ss) : \E f : Flat(m, f)}
<1>0. Len(ss) \in Nat
  OBVIOUS
<1>1. 0 \in Good
  <2>1. 1 .. 0 = {}
    OBVIOUS
  <2>2. Flat(0, [i \in 1 .. 0 |-> <<>>])
    BY <2>1
  <2> HIDE DEF Flat
  <2> QED BY <1>0, <2>2
<1>2. ASSUME NEW m \in 1 .. Len(ss), m - 1 \in Good PROVE m \in Good
  <2>1. PICK g : Flat(m - 1, g)
    BY <1>2
  <2> DEFINE f == [i \in 1 .. m |-> IF i = m THEN (IF i = 1 THEN ss[i] ELSE g[i - 1] \o ss[i]) ELSE g[i]]
  <2>2. \A i \in 1 .. m - 1 : g[i] = IF i = 1 THEN ss[i] ELSE g[i - 1] \o ss[i]
    BY <2>1
  <2>3. ASSUME NEW i \in 1 .. m
        PROVE  f[i] = IF i = 1 THEN ss[i] ELSE f[i - 1] \o ss[i]
    <3>1. i # 1 => f[i - 1] = g[i - 1]
      OBVIOUS
    <3>2. i # m => f[i] = g[i] /\ i \in 1 .. m - 1
      OBVIOUS
    <3>3. i = m => f[i] = IF i = 1 THEN ss[i] ELSE g[i - 1] \o ss[i]
      OBVIOUS
    <3> HIDE DEF f
    <3> QED BY <2>2, <3>1, <3>2, <3>3
  <2>4. Flat(m, f)
    <3>1. f = [i \in 1 .. m |-> f[i]]
      OBVIOUS
    <3> HIDE DEF f
    <3> QED BY <2>3, <3>1
  <2> HIDE DEF Flat, f
  <2> QED BY <1>0, <2>4
<1>3. \E f : Flat(Len(ss), f)
  <2>1. Len(ss) \in Good
    <3> HIDE DEF Good
    <3>1. \A i \in 0 .. Len(ss) : i \in Good
      BY <1>0, <1>1, <1>2, Upwards
    <3> QED BY <1>0, <3>1
  <2> QED BY <2>1
<1> DEFINE c == CHOOSE f : Flat(Len(ss), f)
<1>4. Flat(Len(ss), c)
  BY <1>3
<1>5. FlattenSeq(ss) = c[Len(ss)]
  BY DEF FlattenSeq
<1> HIDE DEF c
<1> QED BY <1>4, <1>5

LEMMA FlattenIsSeq ==
  ASSUME NEW S, NEW ss \in Seq(Seq(S))
  PROVE  FlattenSeq(ss) \in Seq(S)
<1>1. CASE ss = <<>>
  BY <1>1, FlattenEmpty, EmptySeq
<1>2. CASE ss # <<>>
  <2>0. Len(ss) \in Nat /\ Len(ss) >= 1
    BY <1>2
  <2>1. PICK f : /\ \A i \in 1 .. Len(ss) : f[i] = IF i = 1 THEN ss[i] ELSE f[i - 1] \o ss[i]
                 /\ FlattenSeq(ss) = f[Len(ss)]
    BY <1>2, FlattenScan
  <2> DEFINE Good == {0} \cup {i \in 1 .. Len(ss) : f[i] \in Seq(S)}
  <2>2. ASSUME NEW i \in 1 .. Len(ss), i - 1 \in Good PROVE i \in Good
    <3>1. ss[i] \in Seq(S)
      OBVIOUS
    <3>2. CASE i = 1
      BY <2>1, <3>1, <3>2
    <3>3. CASE i # 1
      <4>1. f[i - 1] \in Seq(S)
        BY <2>2, <3>3
      <4>2. f[i] = f[i - 1] \o ss[i]
        BY <2>1, <3>3
      <4>3. f[i - 1] \o ss[i] \in Seq(S)
        BY <3>1, <4>1, ConcatProperties
      <4> QED BY <4>2, <4>3
    <3> QED BY <3>2, <3>3
  <2>3. \A i \in 0 .. Len(ss) : i \in Good
    <3>1. 0 \in Good
      OBVIOUS
    <3> HIDE DEF Good
    <3> QED BY <2>0, <2>2, <3>1, Upwards
  <2> QED BY <2>0, <2>1, <2>3
<1> QED BY <1>1, <1>2

LEMMA FlattenAppend ==
  ASSUME NEW S, NEW ss \in Seq(Seq(S)), NEW t \in Seq(S)
  PROVE  FlattenSeq(Append(ss, t)) = FlattenSeq(ss) \o t
<1> DEFINE tt == Append(ss, t)
<1>0. /\ tt \in Seq(Seq(S)) /\ tt # <<>> /\ Len(tt) = Len(ss) + 1 /\ Len(ss) \in Nat
      /\ \A i \in 1 .. Len(ss) : tt[i] = ss[i]
      /\ tt[Len(ss) + 1] = t
  BY AppendProperties, Len(ss) \in Nat
<1> HIDE DEF tt
<1>1. PICK g : /\ \A i \in 1 .. Len(tt) : g[i] = IF i = 1 THEN tt[i] ELSE g[i - 1] \o tt[i]
               /\ FlattenSeq(tt) = g[Len(tt)]
  BY <1>0, FlattenScan
<1>2. CASE ss = <<>>
  <2>1. Len(tt) = 1 /\ g[1] = t
    BY <1>0, <1>1, <1>2
  <2>2. FlattenSeq(tt) = t
    BY <1>1, <2>1
  <2> QED BY <1>2, <2>2, FlattenEmpty DEF tt
<1>3. CASE ss # <<>>
  <2>0. Len(ss) >= 1
    BY <1>3
  <2>1. PICK f : /\ \A i \in 1 .. Len(ss) : f[i] = IF i = 1 THEN ss[i] ELSE f[i - 1] \o ss[i]
                 /\ FlattenSeq(ss) = f[Len(ss)]
    BY <1>3, FlattenScan
  <2> DEFINE Same == {0} \cup {i \in 1 .. Len(ss) : f[i] = g[i]}
  <2>2. ASSUME NEW i \in 1 .. Len(ss), i - 1 \in Same PROVE i \in Same
    <3>1. tt[i] = ss[i] /\ i \in 1 .. Len(tt)
      BY <1>0
    <3>2. CASE i = 1
      BY <1>1, <2>1, <3>1, <3>2
    <3>3. CASE i # 1
      <4>1. f[i - 1] = g[i - 1]
        BY <2>2, <3>3
      <4> QED BY <1>1, <2>1, <3>1, <3>3, <4>1
    <3> QED BY <3>2, <3>3
  <2>3. \A i \in 0 .. Len(ss) : i \in Same
    <3>1. 0 \in Same
      OBVIOUS
    <3> HIDE DEF Same
    <3> QED BY <1>0, <2>2, <3>1, Upwards
  <2>4. f[Len(ss)] = g[Len(ss)]
    BY <1>0, <2>0, <2>3
  <2>5. g[Len(tt)] = g[Len(ss)] \o t
    <3>1. Len(tt) \in 1 .. Len(tt) /\ Len(tt) # 1 /\ Len(tt) - 1 = Len(ss) /\ tt[Len(tt)] = t
      BY <1>0, <2>0
    <3> QED BY <1>1, <3>1
  <2> QED BY <1>1, <2>1, <2>4, <2>5 DEF tt
<1> QED BY <1>2, <1>3

\* The pieces up to one are those before it and that one.
LEMMA FlattenUpto ==
  ASSUME NEW S, NEW ss \in Seq(Seq(S)), NEW k \in 1 .. Len(ss)
  PROVE  FlattenSeq(SubSeq(ss, 1, k)) = FlattenSeq(SubSeq(ss, 1, k - 1)) \o ss[k]
<1>1. SubSeq(ss, 1, k) = SubSeq(ss, 1, k - 1) \o <<ss[k]>>
  BY SubSeqRecursiveSecond
<1>2. SubSeq(ss, 1, k - 1) \in Seq(Seq(S)) /\ ss[k] \in Seq(S)
  OBVIOUS
<1>3. SubSeq(ss, 1, k) = Append(SubSeq(ss, 1, k - 1), ss[k])
  BY <1>1, <1>2, AppendIsConcat
<1> QED BY <1>2, <1>3, FlattenAppend

\* What Join puts together: every word but the first has a blank before it.
Spaced(words) == [k \in DOMAIN words |-> IF k = 1 THEN words[k] ELSE <<"_">> \o words[k]]

LEMMA BlankIsSeq == <<"_">> \in Seq(Chars)
<1>1. "_" \in Chars
  BY CharAssumption
<1> QED BY <1>1, OneIsSeq, Zenon

LEMMA SpacedIsSeq ==
  ASSUME NEW words \in Seq(Seq(Chars))
  PROVE  /\ Spaced(words) \in Seq(Seq(Chars)) /\ Len(Spaced(words)) = Len(words)
         /\ \A k \in 1 .. Len(words) :
              Spaced(words)[k] = IF k = 1 THEN words[k] ELSE <<"_">> \o words[k]
<1>0. Len(words) \in Nat /\ DOMAIN words = 1 .. Len(words)
  BY LenProperties
<1>1. \A k \in 1 .. Len(words) : words[k] \in Seq(Chars) /\ <<"_">> \o words[k] \in Seq(Chars)
  <2> TAKE k \in 1 .. Len(words)
  <2>1. words[k] \in Seq(Chars) /\ <<"_">> \in Seq(Chars)
    BY BlankIsSeq, ElementOfSeq
  <2> QED BY <2>1, ConcatProperties
<1>2. Spaced(words) \in [1 .. Len(words) -> Seq(Chars)]
  BY <1>0, <1>1 DEF Spaced
<1>3. Spaced(words) \in Seq(Seq(Chars)) /\ Len(Spaced(words)) = Len(words)
  BY <1>0, <1>2, FunctionIsSeq
<1> QED BY <1>0, <1>3 DEF Spaced

LEMMA JoinIsSeq ==
  ASSUME NEW words \in Seq(Seq(Chars))
  PROVE  Join(words) \in Seq(Chars)
<1>1. Join(words) = FlattenSeq(Spaced(words))
  BY DEF Join, Spaced
<1> QED BY <1>1, SpacedIsSeq, FlattenIsSeq

LEMMA JoinEmpty == Join(<<>>) = <<>>
<1>1. Spaced(<<>>) = <<>>
  BY DEF Spaced
<1>2. Join(<<>>) = FlattenSeq(Spaced(<<>>))
  BY DEF Join, Spaced
<1> QED BY <1>1, <1>2, FlattenEmpty

LEMMA JoinAppend ==
  ASSUME NEW words \in Seq(Seq(Chars)), NEW w \in Seq(Chars)
  PROVE  Join(Append(words, w)) = IF words = <<>> THEN w ELSE Join(words) \o (<<"_">> \o w)
<1> DEFINE piece == IF words = <<>> THEN w ELSE <<"_">> \o w
           more == Append(words, w)
<1>0. /\ more \in Seq(Seq(Chars)) /\ Len(more) = Len(words) + 1 /\ Len(words) \in Nat
      /\ \A k \in 1 .. Len(words) : more[k] = words[k]
      /\ more[Len(words) + 1] = w
  BY AppendFacts
<1>1. piece \in Seq(Chars)
  <2>1. <<"_">> \in Seq(Chars)
    BY BlankIsSeq
  <2>2. <<"_">> \o w \in Seq(Chars)
    BY <2>1, ConcatProperties
  <2> QED BY <2>2
<1> DEFINE short == Append(Spaced(words), piece)
<1>2. /\ short \in Seq(Seq(Chars)) /\ Len(short) = Len(words) + 1
      /\ \A k \in 1 .. Len(words) : short[k] = Spaced(words)[k]
      /\ short[Len(words) + 1] = piece
  <2>1. Spaced(words) \in Seq(Seq(Chars)) /\ Len(Spaced(words)) = Len(words)
    BY SpacedIsSeq
  <2> HIDE DEF piece
  <2> QED BY <1>1, <2>1, AppendFacts
<1>3. words = <<>> <=> Len(words) = 0
  BY EmptyIffNone
<1>4. Spaced(more) = short
  <2>1. Spaced(more) \in Seq(Seq(Chars)) /\ Len(Spaced(more)) = Len(short)
    BY <1>0, <1>2, SpacedIsSeq
  <2>2. ASSUME NEW k \in 1 .. Len(Spaced(more)) PROVE Spaced(more)[k] = short[k]
    <3>0. k \in 1 .. Len(words) + 1 /\ k \in 1 .. Len(more)
      BY <1>0, <1>2, <2>1
    <3>1. Spaced(more)[k] = IF k = 1 THEN more[k] ELSE <<"_">> \o more[k]
      BY <1>0, <3>0, SpacedIsSeq
    <3>2. CASE k = Len(words) + 1
      <4>1. k = 1 <=> Len(words) = 0
        BY <1>0, <3>2
      <4> QED BY <1>0, <1>2, <1>3, <3>1, <3>2, <4>1
    <3>3. CASE k # Len(words) + 1
      <4>1. k \in 1 .. Len(words)
        <5> HIDE DEF more, short
        <5> QED BY <1>0, <3>0, <3>3
      <4>2. Spaced(words)[k] = IF k = 1 THEN words[k] ELSE <<"_">> \o words[k]
        BY <4>1, SpacedIsSeq
      <4> QED BY <1>0, <1>2, <3>1, <4>1, <4>2
    <3> QED BY <3>2, <3>3
  <2> HIDE DEF short
  <2> QED BY <1>2, <2>1, <2>2, SeqEqual
<1>5. Join(more) = FlattenSeq(short) /\ Join(words) = FlattenSeq(Spaced(words))
  BY <1>4 DEF Join, Spaced
<1>6. FlattenSeq(short) = FlattenSeq(Spaced(words)) \o piece
  <2>1. Spaced(words) \in Seq(Seq(Chars))
    BY SpacedIsSeq
  <2> HIDE DEF piece
  <2> QED BY <1>1, <2>1, FlattenAppend
<1>7. CASE words = <<>>
  <2>1. FlattenSeq(Spaced(words)) = <<>>
    BY <1>5, <1>7, JoinEmpty
  <2>2. <<>> \o w = w
    BY ConcatEmptySeq
  <2> QED BY <1>5, <1>6, <1>7, <2>1, <2>2
<1>8. CASE words # <<>>
  BY <1>5, <1>6, <1>8
<1> QED BY <1>7, <1>8

----------------------------------------------------------------------------
(* The words of a text.                                                        *)

\* A text is split from one character to the next.
LEMMA SplitScan ==
  ASSUME NEW c \in Seq(Chars)
  PROVE  \E f : /\ \A i \in 0 .. Len(c) :
                     f[i] = IF i = 0 THEN <<>> ELSE SplitChar(f[i - 1], c, i)
                /\ Split(c) = f[Len(c)]
<1> DEFINE Scan(m, f) == f = [i \in 0 .. m |-> IF i = 0 THEN <<>> ELSE SplitChar(f[i - 1], c, i)]
           Good == {m \in 0 .. Len(c) : \E f : Scan(m, f)}
<1>0. Len(c) \in Nat
  OBVIOUS
<1>1. 0 \in Good
  <2>1. Scan(0, [i \in 0 .. 0 |-> <<>>])
    OBVIOUS
  <2> HIDE DEF Scan
  <2> QED BY <1>0, <2>1
<1>2. ASSUME NEW m \in 1 .. Len(c), m - 1 \in Good PROVE m \in Good
  <2>1. PICK g : Scan(m - 1, g)
    BY <1>2
  <2> DEFINE f == [i \in 0 .. m |-> IF i = m THEN SplitChar(g[m - 1], c, m) ELSE g[i]]
  <2>2. \A i \in 0 .. m - 1 : g[i] = IF i = 0 THEN <<>> ELSE SplitChar(g[i - 1], c, i)
    BY <2>1
  <2>3. ASSUME NEW i \in 0 .. m
        PROVE  f[i] = IF i = 0 THEN <<>> ELSE SplitChar(f[i - 1], c, i)
    <3>1. i # 0 => f[i - 1] = g[i - 1]
      OBVIOUS
    <3>2. i # m => f[i] = g[i] /\ i \in 0 .. m - 1
      OBVIOUS
    <3>3. i = m => f[i] = SplitChar(g[m - 1], c, m) /\ i # 0
      OBVIOUS
    <3> HIDE DEF f
    <3> QED BY <2>2, <3>1, <3>2, <3>3
  <2>4. Scan(m, f)
    <3>1. f = [i \in 0 .. m |-> f[i]]
      OBVIOUS
    <3> HIDE DEF f
    <3> QED BY <2>3, <3>1
  <2> HIDE DEF Scan, f
  <2> QED BY <1>0, <2>4
<1>3. \E f : Scan(Len(c), f)
  <2>1. Len(c) \in Good
    <3> HIDE DEF Good
    <3>1. \A i \in 0 .. Len(c) : i \in Good
      BY <1>0, <1>1, <1>2, Upwards
    <3> QED BY <1>0, <3>1
  <2> QED BY <2>1
<1> DEFINE chosen == CHOOSE f : Scan(Len(c), f)
<1>4. Scan(Len(c), chosen)
  BY <1>3
<1>5. Split(c) = chosen[Len(c)]
  BY DEF Split
<1> HIDE DEF chosen
<1> QED BY <1>4, <1>5

LEMMA SplitCharIsSeq ==
  ASSUME NEW c \in Seq(Chars), NEW i \in 1 .. Len(c), NEW words \in Seq(Seq(Chars))
  PROVE  /\ SplitChar(words, c, i) \in Seq(Seq(Chars))
         /\ words # <<>> => SplitChar(words, c, i) # <<>>
<1>0. c[i] \in Chars /\ <<c[i]>> \in Seq(Chars)
  BY ElementOfSeq, OneIsSeq
<1>1. Append(words, <<c[i]>>) \in Seq(Seq(Chars)) /\ Append(words, <<c[i]>>) # <<>>
  <2> DEFINE Texts == Seq(Chars)
             word == <<c[i]>>
  <2>1. word \in Texts /\ words \in Seq(Texts)
    BY <1>0
  <2> HIDE DEF Texts, word
  <2>2. Append(words, word) \in Seq(Texts) /\ Append(words, word) # <<>>
    BY <2>1, AppendFacts
  <2> QED BY <2>2 DEF Texts, word
<1> DEFINE longer == [words EXCEPT ![Len(words)] = Append(@, c[i])]
<1>2. longer \in Seq(Seq(Chars)) /\ (words # <<>> => longer # <<>>)
  <2>0. Len(words) \in Nat /\ DOMAIN words = 1 .. Len(words) /\ (words = <<>> <=> Len(words) = 0)
    BY EmptyIffNone
  <2>1. CASE words = <<>>
    <3>1. 1 .. 0 = {}
      OBVIOUS
    <3>2. longer = words
      BY <2>0, <2>1, <3>1
    <3> QED BY <2>1, <3>2
  <2>2. CASE words # <<>>
    <3>1. Len(words) \in 1 .. Len(words)
      BY <2>0, <2>2
    <3>2. words[Len(words)] \in Seq(Chars)
      BY <3>1, ElementOfSeq
    <3>3. Append(words[Len(words)], c[i]) \in Seq(Chars)
      BY <1>0, <3>2, AppendFacts
    <3>4. longer \in Seq(Seq(Chars)) /\ Len(longer) = Len(words)
      BY <3>1, <3>3, ExceptSeq
    <3> HIDE DEF longer
    <3>5. longer # <<>>
      BY <2>0, <2>2, <3>4, EmptyIffNone
    <3> QED BY <3>4, <3>5
  <2> QED BY <2>1, <2>2
<1> HIDE DEF longer
<1>3. SplitChar(words, c, i) \in {words, Append(words, <<c[i]>>), longer}
  BY DEF SplitChar, longer
<1> QED BY <1>1, <1>2, <1>3

LEMMA SplitIsSeq ==
  ASSUME NEW c \in Seq(Chars)
  PROVE  /\ Split(c) \in Seq(Seq(Chars))
         /\ Split(c) = <<>> => \A i \in 1 .. Len(c) : c[i] \in Space
<1>0. Len(c) \in Nat
  OBVIOUS
<1>1. PICK f : /\ \A i \in 0 .. Len(c) :
                     f[i] = IF i = 0 THEN <<>> ELSE SplitChar(f[i - 1], c, i)
               /\ Split(c) = f[Len(c)]
  BY SplitScan
<1> DEFINE Good == {i \in 0 .. Len(c) : /\ f[i] \in Seq(Seq(Chars))
                                        /\ f[i] = <<>> => \A j \in 1 .. i : c[j] \in Space}
<1>2. 0 \in Good
  <2>1. f[0] = <<>>
    BY <1>0, <1>1
  <2>2. <<>> \in Seq(Seq(Chars))
    BY EmptySeq
  <2>3. \A j \in 1 .. 0 : c[j] \in Space
    OBVIOUS
  <2>4. f[0] \in Seq(Seq(Chars)) /\ 0 \in 0 .. Len(c)
    BY <1>0, <2>1, <2>2
  <2> QED BY <2>3, <2>4
<1>3. ASSUME NEW i \in 1 .. Len(c), i - 1 \in Good PROVE i \in Good
  <2>1. f[i] = SplitChar(f[i - 1], c, i)
    BY <1>0, <1>1
  <2>2. f[i - 1] \in Seq(Seq(Chars))
    BY <1>3
  <2>3. f[i] \in Seq(Seq(Chars)) /\ (f[i - 1] # <<>> => f[i] # <<>>)
    BY <2>1, <2>2, SplitCharIsSeq
  <2>4. ASSUME f[i] = <<>> PROVE \A j \in 1 .. i : c[j] \in Space
    <3>1. f[i - 1] = <<>>
      BY <2>3, <2>4
    <3>2. \A j \in 1 .. i - 1 : c[j] \in Space
      BY <1>3, <3>1
    <3>3. c[i] \in Space
      <4>1. SUFFICES ASSUME c[i] \notin Space PROVE FALSE
        OBVIOUS
      <4>2. i = 1 \/ c[i - 1] \in Space
        BY <3>2
      <4>3. f[i] = Append(f[i - 1], <<c[i]>>)
        BY <2>1, <4>1, <4>2 DEF SplitChar
      <4>4. <<c[i]>> \in Seq(Chars)
        BY ElementOfSeq, OneIsSeq
      <4> QED BY <2>2, <2>4, <4>3, <4>4, AppendFacts
    <3> QED BY <3>2, <3>3
  <2> QED BY <2>3, <2>4
<1>4. \A i \in 0 .. Len(c) : i \in Good
  <2> HIDE DEF Good
  <2> QED BY <1>0, <1>2, <1>3, Upwards
<1> QED BY <1>0, <1>1, <1>4

LEMMA SplitEmpty == Split(<<>>) = <<>>
<1>1. <<>> \in Seq(Chars) /\ Len(<<>>) = 0
  BY EmptySeq
<1>2. PICK f : /\ \A i \in 0 .. 0 : f[i] = IF i = 0 THEN <<>> ELSE SplitChar(f[i - 1], <<>>, i)
               /\ Split(<<>>) = f[0]
  BY <1>1, SplitScan
<1> QED BY <1>2

LEMMA SplitAppend ==
  ASSUME NEW c \in Seq(Chars), NEW x \in Chars
  PROVE  Split(Append(c, x)) = SplitChar(Split(c), Append(c, x), Len(c) + 1)
<1> DEFINE d == Append(c, x)
<1>0. /\ d \in Seq(Chars) /\ Len(c) \in Nat /\ Len(d) = Len(c) + 1
      /\ \A k \in 1 .. Len(c) : d[k] = c[k]
  BY AppendFacts
<1> HIDE DEF d
<1>1. PICK f : /\ \A i \in 0 .. Len(c) :
                     f[i] = IF i = 0 THEN <<>> ELSE SplitChar(f[i - 1], c, i)
               /\ Split(c) = f[Len(c)]
  BY SplitScan
<1>2. PICK g : /\ \A i \in 0 .. Len(d) :
                     g[i] = IF i = 0 THEN <<>> ELSE SplitChar(g[i - 1], d, i)
               /\ Split(d) = g[Len(d)]
  BY <1>0, SplitScan
<1> DEFINE Same == {i \in 0 .. Len(c) : f[i] = g[i]}
<1>3. 0 \in Same
  BY <1>0, <1>1, <1>2
<1>4. ASSUME NEW i \in 1 .. Len(c), i - 1 \in Same PROVE i \in Same
  <2>1. d[i] = c[i] /\ (i # 1 => d[i - 1] = c[i - 1])
    BY <1>0
  <2>2. f[i] = SplitChar(f[i - 1], c, i) /\ g[i] = SplitChar(g[i - 1], d, i) /\ f[i - 1] = g[i - 1]
    BY <1>0, <1>1, <1>2, <1>4
  <2> QED BY <2>1, <2>2 DEF SplitChar
<1>5. \A i \in 0 .. Len(c) : i \in Same
  <2> HIDE DEF Same
  <2> QED BY <1>0, <1>3, <1>4, Upwards
<1>6. f[Len(c)] = g[Len(c)]
  BY <1>0, <1>5
<1>7. g[Len(d)] = SplitChar(g[Len(c)], d, Len(d))
  <2>1. Len(d) \in 0 .. Len(d) /\ Len(d) # 0 /\ Len(d) - 1 = Len(c)
    BY <1>0
  <2> QED BY <1>2, <2>1
<1> QED BY <1>0, <1>1, <1>2, <1>6, <1>7 DEF d

LEMMA SplitBlank ==
  ASSUME NEW c \in Seq(Chars), NEW x \in Chars, x \in Space
  PROVE  Split(Append(c, x)) = Split(c)
<1>1. Append(c, x)[Len(c) + 1] = x
  BY AppendFacts
<1> QED BY <1>1, SplitAppend DEF SplitChar

\* A word after a blank, or at the start, is a word of its own.
LEMMA SplitWord ==
  ASSUME NEW c \in Seq(Chars), c = <<>> \/ c[Len(c)] \in Space,
         NEW w \in Seq(Chars), w # <<>>, \A i \in 1 .. Len(w) : w[i] \notin Space
  PROVE  Split(c \o w) = Append(Split(c), w)
<1>0. Len(w) \in Nat /\ Len(w) >= 1 /\ Len(c) \in Nat /\ (c = <<>> <=> Len(c) = 0)
  BY EmptyIffNone
<1> DEFINE upto(i) == SubSeq(w, 1, i)
           Good == {0} \cup {i \in 1 .. Len(w) : Split(c \o upto(i)) = Append(Split(c), upto(i))}
<1>1. ASSUME NEW i \in 1 .. Len(w), i - 1 \in Good PROVE i \in Good
  <2> DEFINE d == c \o upto(i - 1)
             e == Append(d, w[i])
  <2>1. /\ upto(i - 1) \in Seq(Chars) /\ Len(upto(i - 1)) = i - 1
        /\ w[i] \in Chars /\ upto(i) = Append(upto(i - 1), w[i]) /\ upto(i) \in Seq(Chars)
    BY PrefixGrows
  <2>2. /\ d \in Seq(Chars) /\ Len(d) = Len(c) + (i - 1)
        /\ \A j \in 1 .. Len(c) + (i - 1) : d[j] = IF j <= Len(c) THEN c[j] ELSE upto(i - 1)[j - Len(c)]
    BY <2>1, ConcatProperties
  <2>3. c \o upto(i) = e
    BY <2>1, ConcatAppend
  <2> HIDE DEF d
  <2>4. Split(e) = SplitChar(Split(d), e, Len(d) + 1)
    BY <2>1, <2>2, SplitAppend
  <2>5. e[Len(d) + 1] = w[i] /\ (\A j \in 1 .. Len(d) : e[j] = d[j])
    BY <2>1, <2>2, AppendFacts
  <2>6. e[Len(d) + 1] \notin Space
    BY <2>5
  <2>7. CASE i = 1
    <3>1. upto(i - 1) = <<>>
      BY <2>1, <2>7, EmptyIffNone
    <3>2. d = c
      BY <2>7, <3>1, ConcatEmptySeq DEF d
    <3>3. Len(d) + 1 = 1 \/ e[Len(d)] \in Space
      BY <1>0, <2>5, <3>2
    <3>4. Split(e) = Append(Split(c), <<w[i]>>)
      BY <1>0, <2>4, <2>5, <2>6, <3>2, <3>3 DEF SplitChar
    <3>5. upto(i) = <<w[i]>>
      <4>1. Append(<<>>, w[i]) = <<w[i]>>
        BY <2>1
      <4> HIDE DEF upto
      <4> QED BY <2>1, <3>1, <4>1
    <3> HIDE DEF e, upto
    <3> QED BY <2>3, <2>7, <3>4, <3>5
  <2>8. CASE i # 1
    <3>1. Split(d) = Append(Split(c), upto(i - 1))
      BY <1>1, <2>8 DEF d
    <3>2. e[Len(d)] = w[i - 1] /\ Len(d) # 0 /\ i - 1 \in 1 .. Len(w)
      <4>1. i - 1 \in 1 .. Len(w) /\ Len(d) \in 1 .. Len(d) /\ Len(d) - Len(c) = i - 1
        BY <1>0, <2>2, <2>8
      <4>2. upto(i - 1)[i - 1] = w[i - 1]
        BY <4>1, PrefixGrows
      <4>3. d[Len(d)] = upto(i - 1)[i - 1]
        BY <1>0, <2>2, <4>1
      <4> QED BY <2>5, <4>1, <4>2, <4>3
    <3>3. ~(Len(d) + 1 = 1 \/ e[Len(d)] \in Space)
      BY <1>0, <2>2, <3>2
    <3> DEFINE words == Split(d)
    <3>4. Split(e) = [words EXCEPT ![Len(words)] = Append(words[Len(words)], w[i])]
      <4>1. (Len(d) + 1) - 1 = Len(d)
        BY <1>0, <2>2
      <4> HIDE DEF e, words
      <4>2. SplitChar(words, e, Len(d) + 1) =
              IF e[Len(d) + 1] \in Space THEN words
              ELSE IF Len(d) + 1 = 1 \/ e[Len(d)] \in Space THEN Append(words, <<e[Len(d) + 1]>>)
              ELSE [words EXCEPT ![Len(words)] = Append(words[Len(words)], e[Len(d) + 1])]
        BY <4>1 DEF SplitChar
      <4>3. Split(e) = SplitChar(words, e, Len(d) + 1)
        BY <2>4 DEF words
      <4> QED BY <2>5, <2>6, <3>3, <4>2, <4>3
    <3>5. Split(c) \in Seq(Seq(Chars))
      BY SplitIsSeq
    <3>6. words[Len(words)] = upto(i - 1)
      <4> HIDE DEF upto
      <4> QED BY <2>1, <3>1, <3>5, AppendFacts
    <3>7. Split(e) = [words EXCEPT ![Len(words)] = upto(i)]
      <4> HIDE DEF words, upto, e
      <4> QED BY <2>1, <3>4, <3>6
    <3>8. Split(e) = Append(Split(c), upto(i))
      <4>1. words = Append(Split(c), upto(i - 1))
        BY <3>1
      <4> HIDE DEF upto, e, words
      <4>2. /\ words \in Seq(Seq(Chars)) /\ Len(words) = Len(Split(c)) + 1
            /\ \A k \in 1 .. Len(Split(c)) : words[k] = Split(c)[k]
        BY <2>1, <3>5, <4>1, AppendFacts
      <4> DEFINE last == Len(words)
                 changed == [words EXCEPT ![last] = upto(i)]
      <4>3. last \in 1 .. Len(words) /\ last = Len(Split(c)) + 1 /\ Len(Split(c)) \in Nat
        BY <3>5, <4>2
      <4> HIDE DEF last
      <4>4. /\ changed \in Seq(Seq(Chars)) /\ Len(changed) = Len(words)
            /\ \A j \in 1 .. Len(words) : changed[j] = IF j = last THEN upto(i) ELSE words[j]
        BY <2>1, <4>2, <4>3, ExceptSeq
      <4> HIDE DEF changed
      <4>7. Len(changed) = Len(Split(c)) + 1 /\ changed[Len(Split(c)) + 1] = upto(i)
        BY <4>2, <4>3, <4>4
      <4>8. ASSUME NEW k \in 1 .. Len(Split(c)) PROVE changed[k] = Split(c)[k]
        <5>1. k \in 1 .. Len(words) /\ k # last
          BY <4>2, <4>3
        <5> QED BY <4>2, <4>4, <5>1
      <4>5. /\ Len(changed) = Len(Split(c)) + 1 /\ changed[Len(Split(c)) + 1] = upto(i)
            /\ \A k \in 1 .. Len(Split(c)) : changed[k] = Split(c)[k]
        BY <4>7, <4>8
      <4>6. changed = Append(Split(c), upto(i))
        BY <2>1, <3>5, <4>4, <4>5, IsAppend
      <4> QED BY <3>7, <4>6 DEF changed, last
    <3> HIDE DEF e, upto
    <3> QED BY <2>3, <3>8
  <2> QED BY <2>7, <2>8
<1>2. \A i \in 0 .. Len(w) : i \in Good
  <2>1. 0 \in Good
    OBVIOUS
  <2> HIDE DEF Good
  <2> QED BY <1>0, <1>1, <2>1, Upwards
<1>3. Len(w) \in Good /\ Len(w) # 0
  <2> HIDE DEF Good
  <2> QED BY <1>0, <1>2
<1>4. upto(Len(w)) = w
  BY SubSeqFull
<1> HIDE DEF upto
<1> QED BY <1>3, <1>4

----------------------------------------------------------------------------
(* The parts of a text, and the groups of them between operators.              *)

\* The places of a part: it is not empty and inside the text.
PartOf(c) == {p \in [from : Nat, to : Nat] : 1 <= p.from /\ p.from < p.to /\ p.to <= Len(c) + 1}

\* The end of a quoted string is looked for from left to right.
LEMMA QuoteScan ==
  ASSUME NEW c \in Seq(Chars), NEW i \in 1 .. Len(c)
  PROVE  \E f : /\ \A j \in i + 1 .. Len(c) + 2 :
                     f[j] = IF j > Len(c) THEN Len(c) + 1
                            ELSE IF c[j] = c[i] THEN j + 1
                            ELSE IF c[j] = "\\" THEN f[j + 2] ELSE f[j + 1]
                /\ QuoteEnd(c, i) = f[i + 1]
<1> DEFINE end == Len(c) + 2
           Step(j, two, one) == IF j > Len(c) THEN Len(c) + 1
                                ELSE IF c[j] = c[i] THEN j + 1
                                ELSE IF c[j] = "\\" THEN two ELSE one
           Scan(m, f) == f = [j \in end - m .. end |-> Step(j, f[j + 2], f[j + 1])]
           Good == {m \in 0 .. Len(c) + 1 - i : \E f : Scan(m, f)}
<1>0. Len(c) \in Nat /\ i \in Nat /\ Len(c) + 1 - i \in Nat /\ end \in Nat
  OBVIOUS
<1>e. \A j, a, b, x, y : j > Len(c) => Step(j, a, b) = Step(j, x, y)
  OBVIOUS
<1> HIDE DEF Step
<1>1. 0 \in Good
  <2> DEFINE f == [j \in end - 0 .. end |-> Step(end, 0, 0)]
  <2>1. \A j \in end - 0 .. end : j = end /\ j > Len(c)
    BY <1>0
  <2>2. ASSUME NEW j \in end - 0 .. end PROVE Step(end, 0, 0) = Step(j, f[j + 2], f[j + 1])
    <3> HIDE DEF f
    <3> QED BY <1>e, <2>1
  <2>3. Scan(0, f)
    <3> DEFINE A(j) == Step(j, f[j + 2], f[j + 1])
    <3>1. \A j \in end - 0 .. end : Step(end, 0, 0) = A(j)
      BY <2>2
    <3> HIDE DEF A
    <3>2. f = [j \in end - 0 .. end |-> A(j)]
      BY <3>1
    <3> QED BY <3>2 DEF A
  <2> HIDE DEF Scan
  <2> QED BY <1>0, <2>3
<1>2. ASSUME NEW m \in 1 .. Len(c) + 1 - i, m - 1 \in Good PROVE m \in Good
  <2>1. PICK g : Scan(m - 1, g)
    BY <1>2
  <2> DEFINE here == end - m
             f == [j \in here .. end |-> IF j = here THEN Step(here, g[here + 2], g[here + 1]) ELSE g[j]]
  <2>0. m \in Nat /\ m >= 1 /\ here \in Nat /\ here < end /\ end - (m - 1) = here + 1
    BY <1>0
  <2>2. \A j \in here + 1 .. end : g[j] = Step(j, g[j + 2], g[j + 1])
    BY <2>0, <2>1
  <2>3. ASSUME NEW j \in here .. end PROVE f[j] = Step(j, f[j + 2], f[j + 1])
    <3>0. j \in Nat /\ j >= here /\ j <= end
      BY <1>0, <2>0
    <3>1. CASE j > Len(c)
      <4>1. j # here => f[j] = g[j] /\ j \in here + 1 .. end
        BY <1>0, <2>0
      <4>2. j = here => f[j] = Step(here, g[here + 2], g[here + 1])
        BY <2>0
      <4> HIDE DEF f, here, end
      <4> QED BY <1>e, <2>2, <3>1, <4>1, <4>2
    <3>2. CASE j <= Len(c)
      <4>1. j + 2 \in here + 1 .. end /\ j + 1 \in here + 1 .. end
        BY <1>0, <2>0, <3>0, <3>2
      <4>2. f[j + 2] = g[j + 2] /\ f[j + 1] = g[j + 1]
        BY <2>0, <4>1
      <4>3. j # here => f[j] = g[j] /\ j \in here + 1 .. end
        BY <1>0, <2>0
      <4>4. j = here => f[j] = Step(here, g[here + 2], g[here + 1])
        BY <2>0
      <4> HIDE DEF f, here, end
      <4> QED BY <2>2, <4>2, <4>3, <4>4
    <3> QED BY <1>0, <3>0, <3>1, <3>2
  <2>4. Scan(m, f)
    <3> DEFINE A(j) == Step(j, f[j + 2], f[j + 1])
    <3>1. f = [j \in here .. end |-> f[j]]
      OBVIOUS
    <3>2. \A j \in here .. end : f[j] = A(j)
      BY <2>3
    <3> HIDE DEF f, A
    <3>3. f = [j \in here .. end |-> A(j)]
      BY <3>1, <3>2
    <3> QED BY <3>3 DEF A
  <2> HIDE DEF Scan, f
  <2> QED BY <1>0, <2>4
<1>3. \E f : Scan(Len(c) + 1 - i, f)
  <2>1. Len(c) + 1 - i \in Good
    <3> HIDE DEF Good
    <3>1. \A m \in 0 .. Len(c) + 1 - i : m \in Good
      BY <1>0, <1>1, <1>2, Upwards
    <3> QED BY <1>0, <3>1
  <2> QED BY <2>1
<1> DEFINE chosen == CHOOSE f : f = [j \in i + 1 .. Len(c) + 2 |-> Step(j, f[j + 2], f[j + 1])]
<1>4. end - (Len(c) + 1 - i) = i + 1
  BY <1>0
<1>5. chosen = [j \in i + 1 .. Len(c) + 2 |-> Step(j, chosen[j + 2], chosen[j + 1])]
  BY <1>3, <1>4
<1>6. QuoteEnd(c, i) = chosen[i + 1]
  BY DEF QuoteEnd, Step
<1> HIDE DEF chosen
<1>7. \A j \in i + 1 .. Len(c) + 2 : chosen[j] = Step(j, chosen[j + 2], chosen[j + 1])
  BY <1>5
<1> QED BY <1>6, <1>7 DEF Step

LEMMA QuoteEndAhead ==
  ASSUME NEW c \in Seq(Chars), NEW i \in 1 .. Len(c)
  PROVE  QuoteEnd(c, i) \in i + 1 .. Len(c) + 1
<1>0. Len(c) \in Nat /\ i \in Nat /\ i + 1 \in Nat /\ Len(c) + 2 \in Nat
  OBVIOUS
<1>1. PICK f : /\ \A j \in i + 1 .. Len(c) + 2 :
                     f[j] = IF j > Len(c) THEN Len(c) + 1
                            ELSE IF c[j] = c[i] THEN j + 1
                            ELSE IF c[j] = "\\" THEN f[j + 2] ELSE f[j + 1]
               /\ QuoteEnd(c, i) = f[i + 1]
  BY QuoteScan
<1> DEFINE Good == {j \in i + 1 .. Len(c) + 2 : f[j] \in i + 1 .. Len(c) + 1}
<1>2. Len(c) + 2 \in Good
  <2>1. f[Len(c) + 2] = Len(c) + 1
    BY <1>0, <1>1
  <2> QED BY <1>0, <2>1
<1>3. ASSUME NEW j \in i + 1 .. (Len(c) + 2) - 1, \A k \in j + 1 .. Len(c) + 2 : k \in Good
      PROVE  j \in Good
  <2>1. CASE j > Len(c)
    <3>1. f[j] = Len(c) + 1
      BY <1>0, <1>1, <2>1
    <3> QED BY <1>0, <3>1
  <2>2. CASE j <= Len(c)
    <3>1. j + 1 \in j + 1 .. Len(c) + 2 /\ j + 2 \in j + 1 .. Len(c) + 2
      BY <1>0, <2>2
    <3>2. f[j + 1] \in i + 1 .. Len(c) + 1 /\ f[j + 2] \in i + 1 .. Len(c) + 1
      BY <1>3, <3>1
    <3>3. f[j] \in {j + 1, f[j + 1], f[j + 2]}
      BY <1>0, <1>1, <2>2
    <3> QED BY <1>0, <2>2, <3>2, <3>3
  <2> QED BY <1>0, <2>1, <2>2
<1>4. \A j \in i + 1 .. Len(c) + 2 : j \in Good
  <2> HIDE DEF Good
  <2> QED BY <1>0, <1>2, <1>3, Downwards
<1>5. i + 1 \in i + 1 .. Len(c) + 2
  BY <1>0
<1> QED BY <1>1, <1>4, <1>5

LEMMA LeastIs ==
  ASSUME NEW S \in SUBSET Nat, S # {}
  PROVE  Min(S) \in S /\ \A k \in S : Min(S) <= k
BY SmallestExists DEF Min

LEMMA PartEndAhead ==
  ASSUME NEW c \in Seq(Chars), NEW i \in 1 .. Len(c)
  PROVE  PartEnd(c, i) \in i + 1 .. Len(c) + 1
<1>0. Len(c) \in Nat /\ i \in Nat
  OBVIOUS
<1>1. TwoAt(c, i) => i + 2 \in i + 1 .. Len(c) + 1
  BY <1>0 DEF TwoAt
<1>2. i + 1 \in i + 1 .. Len(c) + 1
  BY <1>0
<1>3. WordEnd(c, i) \in i + 1 .. Len(c) + 1
  <2> DEFINE stops(j) == c[j] \in Single \cup Quotes \cup {"_"} \/ TwoAt(c, j)
             ends == {j \in i + 1 .. Len(c) : stops(j)} \cup {Len(c) + 1}
  <2>1. WordEnd(c, i) = Min(ends)
    BY DEF WordEnd
  <2>2. ends \subseteq i + 1 .. Len(c) + 1 /\ ends \in SUBSET Nat /\ ends # {}
    <3> HIDE DEF stops
    <3> QED BY <1>0
  <2> HIDE DEF ends
  <2> QED BY <2>1, <2>2, LeastIs
<1> QED BY <1>1, <1>2, <1>3, QuoteEndAhead DEF PartEnd

\* A text is taken apart from one part to the next.
LEMMA PartScan ==
  ASSUME NEW c \in Seq(Chars)
  PROVE  \E f : /\ \A i \in 1 .. Len(c) + 1 :
                     f[i] = IF i > Len(c) THEN <<>>
                            ELSE IF c[i] = "_" THEN f[i + 1]
                            ELSE <<[from |-> i, to |-> PartEnd(c, i)]>> \o f[PartEnd(c, i)]
                /\ SplitParts(c) = f[1]
<1> DEFINE end == Len(c) + 1
           Step(i, one, rest) == IF i > Len(c) THEN <<>>
                                 ELSE IF c[i] = "_" THEN one
                                 ELSE <<[from |-> i, to |-> PartEnd(c, i)]>> \o rest
           Scan(m, f) == f = [i \in end - m .. end |-> Step(i, f[i + 1], f[PartEnd(c, i)])]
           Good == {m \in 0 .. Len(c) : \E f : Scan(m, f)}
<1>0. Len(c) \in Nat /\ end \in Nat
  OBVIOUS
<1>e. \A i, a, b, x, y : i > Len(c) => Step(i, a, b) = Step(i, x, y)
  OBVIOUS
<1> HIDE DEF Step
<1>1. 0 \in Good
  <2> DEFINE f == [i \in end - 0 .. end |-> Step(end, 0, 0)]
  <2>1. \A i \in end - 0 .. end : i = end /\ i > Len(c)
    BY <1>0
  <2>2. ASSUME NEW i \in end - 0 .. end PROVE Step(end, 0, 0) = Step(i, f[i + 1], f[PartEnd(c, i)])
    <3> HIDE DEF f
    <3> QED BY <1>e, <2>1
  <2>3. Scan(0, f)
    <3> DEFINE A(i) == Step(i, f[i + 1], f[PartEnd(c, i)])
    <3>1. \A i \in end - 0 .. end : Step(end, 0, 0) = A(i)
      BY <2>2
    <3> HIDE DEF A
    <3>2. f = [i \in end - 0 .. end |-> A(i)]
      BY <3>1
    <3> QED BY <3>2 DEF A
  <2> HIDE DEF Scan
  <2> QED BY <1>0, <2>3
<1>2. ASSUME NEW m \in 1 .. Len(c), m - 1 \in Good PROVE m \in Good
  <2>1. PICK g : Scan(m - 1, g)
    BY <1>2
  <2> DEFINE here == end - m
             f == [i \in here .. end |-> IF i = here THEN Step(here, g[here + 1], g[PartEnd(c, here)]) ELSE g[i]]
  <2>0. m \in Nat /\ m >= 1 /\ here \in Nat /\ here >= 1 /\ here < end /\ end - (m - 1) = here + 1
    BY <1>0
  <2>2. \A i \in here + 1 .. end : g[i] = Step(i, g[i + 1], g[PartEnd(c, i)])
    BY <2>0, <2>1
  <2>3. ASSUME NEW i \in here .. end PROVE f[i] = Step(i, f[i + 1], f[PartEnd(c, i)])
    <3>0. i \in Nat /\ i >= here /\ i <= end
      BY <1>0, <2>0
    <3>1. i # here => f[i] = g[i] /\ i \in here + 1 .. end
      BY <1>0, <2>0
    <3>2. i = here => f[i] = Step(here, g[here + 1], g[PartEnd(c, here)])
      BY <2>0
    <3>3. CASE i > Len(c)
      <4> HIDE DEF f, here, end
      <4> QED BY <1>e, <2>2, <3>3, <3>1, <3>2
    <3>4. CASE i <= Len(c)
      <4>0. PartEnd(c, i) \in i + 1 .. Len(c) + 1
        BY <1>0, <2>0, <3>0, <3>4, PartEndAhead
      <4>1. PartEnd(c, i) \in here + 1 .. end /\ i + 1 \in here + 1 .. end
        BY <1>0, <2>0, <3>0, <3>4, <4>0
      <4>2. \A k \in here + 1 .. end : f[k] = g[k]
        BY <2>0
      <4> HIDE DEF f, here, end
      <4> QED BY <2>2, <3>1, <3>2, <4>1, <4>2
    <3> QED BY <1>0, <3>0, <3>3, <3>4
  <2>4. Scan(m, f)
    <3> DEFINE A(i) == Step(i, f[i + 1], f[PartEnd(c, i)])
    <3>1. f = [i \in here .. end |-> f[i]]
      OBVIOUS
    <3>2. \A i \in here .. end : f[i] = A(i)
      BY <2>3
    <3> HIDE DEF f, A
    <3>3. f = [i \in here .. end |-> A(i)]
      BY <3>1, <3>2
    <3> QED BY <3>3 DEF A
  <2> HIDE DEF Scan, f
  <2> QED BY <1>0, <2>4
<1>3. \E f : Scan(Len(c), f)
  <2>1. Len(c) \in Good
    <3> HIDE DEF Good
    <3>1. \A m \in 0 .. Len(c) : m \in Good
      BY <1>0, <1>1, <1>2, Upwards
    <3> QED BY <1>0, <3>1
  <2> QED BY <2>1
<1> DEFINE chosen == CHOOSE f : f = [i \in 1 .. Len(c) + 1 |-> Step(i, f[i + 1], f[PartEnd(c, i)])]
<1>4. end - Len(c) = 1
  BY <1>0
<1>5. chosen = [i \in 1 .. Len(c) + 1 |-> Step(i, chosen[i + 1], chosen[PartEnd(c, i)])]
  BY <1>3, <1>4
<1>6. SplitParts(c) = chosen[1]
  BY DEF SplitParts, Step
<1> HIDE DEF chosen
<1>7. \A i \in 1 .. Len(c) + 1 : chosen[i] = Step(i, chosen[i + 1], chosen[PartEnd(c, i)])
  BY <1>5
<1> QED BY <1>6, <1>7 DEF Step

LEMMA PartsAreParts ==
  ASSUME NEW c \in Seq(Chars)
  PROVE  SplitParts(c) \in Seq(PartOf(c))
<1>0. Len(c) \in Nat /\ Len(c) + 1 \in Nat
  OBVIOUS
<1>1. PICK f : /\ \A i \in 1 .. Len(c) + 1 :
                     f[i] = IF i > Len(c) THEN <<>>
                            ELSE IF c[i] = "_" THEN f[i + 1]
                            ELSE <<[from |-> i, to |-> PartEnd(c, i)]>> \o f[PartEnd(c, i)]
               /\ SplitParts(c) = f[1]
  BY PartScan
<1> DEFINE Good == {i \in 1 .. Len(c) + 1 : f[i] \in Seq(PartOf(c))}
<1>2. Len(c) + 1 \in Good
  <2>1. Len(c) + 1 \in 1 .. Len(c) + 1 /\ Len(c) + 1 > Len(c)
    BY <1>0
  <2>2. f[Len(c) + 1] = <<>>
    BY <1>1, <2>1, Zenon
  <2>3. f[Len(c) + 1] \in Seq(PartOf(c))
    BY <2>2, EmptySeq
  <2> QED BY <2>1, <2>3
<1>3. ASSUME NEW i \in 1 .. (Len(c) + 1) - 1, \A k \in i + 1 .. Len(c) + 1 : k \in Good
      PROVE  i \in Good
  <2>1. i \in 1 .. Len(c) /\ i + 1 \in i + 1 .. Len(c) + 1
    BY <1>0
  <2>2. PartEnd(c, i) \in i + 1 .. Len(c) + 1
    BY <2>1, PartEndAhead
  <2>3. f[i + 1] \in Seq(PartOf(c)) /\ f[PartEnd(c, i)] \in Seq(PartOf(c))
    BY <1>3, <2>1, <2>2
  <2> DEFINE p == [from |-> i, to |-> PartEnd(c, i)]
  <2>4. p \in PartOf(c)
    BY <1>0, <2>1, <2>2 DEF PartOf
  <2> HIDE DEF p
  <2>5. <<p>> \o f[PartEnd(c, i)] \in Seq(PartOf(c))
    BY <2>3, <2>4, OneIsSeq, ConcatProperties
  <2>6. f[i] \in {f[i + 1], <<p>> \o f[PartEnd(c, i)]}
    <3>1. i \in 1 .. Len(c) + 1 /\ ~(i > Len(c))
      BY <1>0, <2>1
    <3> QED BY <1>1, <3>1, Zenon DEF p
  <2>7. f[i] \in Seq(PartOf(c))
    BY <2>3, <2>5, <2>6
  <2>8. i \in 1 .. Len(c) + 1
    BY <1>0, <2>1
  <2> QED BY <2>7, <2>8
<1>4. \A i \in 1 .. Len(c) + 1 : i \in Good
  <2> HIDE DEF Good
  <2> QED BY <1>0, <1>2, <1>3, Downwards
<1>5. f[1] \in Seq(PartOf(c))
  <2>1. 1 \in 1 .. Len(c) + 1
    BY <1>0
  <2> QED BY <1>4, <2>1
<1> QED BY <1>1, <1>5

LEMMA GroupScan ==
  ASSUME NEW c, Len(SplitParts(c)) \in Nat
  PROVE  \E f : /\ \A k \in 0 .. Len(SplitParts(c)) :
                     f[k] = IF k = 0 THEN [done |-> <<>>, open |-> TRUE]
                            ELSE GroupPart(f[k - 1], c, SplitParts(c)[k])
                /\ Groups(c) = f[Len(SplitParts(c))].done
<1> DEFINE n == Len(SplitParts(c))
           base == [done |-> <<>>, open |-> TRUE]
           Scan(m, f) == f = [i \in 0 .. m |-> IF i = 0 THEN base ELSE GroupPart(f[i - 1], c, SplitParts(c)[i])]
           Good == {m \in 0 .. n : \E f : Scan(m, f)}
<1>0. n \in Nat
  OBVIOUS
<1> HIDE DEF n, base
<1>1. 0 \in Good
  <2>1. Scan(0, [i \in 0 .. 0 |-> base])
    OBVIOUS
  <2> HIDE DEF Scan
  <2> QED BY <1>0, <2>1
<1>2. ASSUME NEW m \in 1 .. n, m - 1 \in Good PROVE m \in Good
  <2>1. PICK g : Scan(m - 1, g)
    BY <1>2
  <2> DEFINE f == [i \in 0 .. m |-> IF i = m THEN GroupPart(g[m - 1], c, SplitParts(c)[m]) ELSE g[i]]
  <2>2. \A i \in 0 .. m - 1 : g[i] = IF i = 0 THEN base ELSE GroupPart(g[i - 1], c, SplitParts(c)[i])
    BY <2>1
  <2>3. ASSUME NEW i \in 0 .. m
        PROVE  f[i] = IF i = 0 THEN base ELSE GroupPart(f[i - 1], c, SplitParts(c)[i])
    <3>1. i # 0 => f[i - 1] = g[i - 1]
      OBVIOUS
    <3>2. i # m => f[i] = g[i] /\ i \in 0 .. m - 1
      OBVIOUS
    <3>3. i = m => f[i] = GroupPart(g[m - 1], c, SplitParts(c)[m]) /\ i # 0
      OBVIOUS
    <3> HIDE DEF f
    <3> QED BY <2>2, <3>1, <3>2, <3>3
  <2>4. Scan(m, f)
    <3>1. f = [i \in 0 .. m |-> f[i]]
      OBVIOUS
    <3> HIDE DEF f
    <3> QED BY <2>3, <3>1
  <2> HIDE DEF Scan, f
  <2> QED BY <1>0, <2>4
<1>3. \E f : Scan(n, f)
  <2>1. n \in Good
    <3> HIDE DEF Good
    <3>1. \A i \in 0 .. n : i \in Good
      BY <1>0, <1>1, <1>2, Upwards
    <3> QED BY <1>0, <3>1
  <2> QED BY <2>1
<1> DEFINE chosen == CHOOSE f : Scan(n, f)
<1>4. Scan(n, chosen)
  BY <1>3
<1>5. Groups(c) = chosen[n].done
  BY DEF Groups, n, base
<1> HIDE DEF chosen
<1>6. \A k \in 0 .. n : chosen[k] = IF k = 0 THEN base ELSE GroupPart(chosen[k - 1], c, SplitParts(c)[k])
  BY <1>4
<1> QED BY <1>5, <1>6 DEF n, base

\* Every group has parts, all of them of the text.
GroupOf(c) == Seq(PartOf(c)) \ {<<>>}

LEMMA GroupPartIsTyped ==
  ASSUME NEW c, NEW gs, NEW p \in PartOf(c),
         gs.done \in Seq(GroupOf(c)), ~gs.open => gs.done # <<>>
  PROVE  /\ GroupPart(gs, c, p).done \in Seq(GroupOf(c))
         /\ ~GroupPart(gs, c, p).open => GroupPart(gs, c, p).done # <<>>
<1>0. <<p>> \in GroupOf(c)
  BY OneIsSeq, EmptyIffNone DEF GroupOf
<1>1. CASE IsOperator(Text(c, p))
  BY <1>1 DEF GroupPart
<1>2. CASE ~IsOperator(Text(c, p)) /\ gs.open
  <2>1. Append(gs.done, <<p>>) \in Seq(GroupOf(c)) /\ Append(gs.done, <<p>>) # <<>>
    BY <1>0, AppendFacts
  <2>2. GroupPart(gs, c, p) = [done |-> Append(gs.done, <<p>>), open |-> FALSE]
    BY <1>2 DEF GroupPart
  <2> QED BY <2>1, <2>2
<1>3. CASE ~IsOperator(Text(c, p)) /\ ~gs.open
  <2> DEFINE last == Len(gs.done)
             more == [gs.done EXCEPT ![last] = Append(gs.done[last], p)]
  <2>1. last \in 1 .. Len(gs.done)
    BY <1>3, EmptyIffNone
  <2>2. gs.done[last] \in GroupOf(c)
    BY <2>1, ElementOfSeq
  <2>3. Append(gs.done[last], p) \in GroupOf(c)
    <3> DEFINE group == gs.done[last]
    <3>1. group \in Seq(PartOf(c))
      BY <2>2 DEF GroupOf
    <3> HIDE DEF group
    <3>2. Append(group, p) \in Seq(PartOf(c)) /\ Append(group, p) # <<>>
      BY <3>1, AppendFacts
    <3> QED BY <3>2 DEF GroupOf, group
  <2>4. more \in Seq(GroupOf(c)) /\ Len(more) = Len(gs.done)
    BY <2>1, <2>3, ExceptSeq
  <2>5. GroupPart(gs, c, p) = [gs EXCEPT !.done[Len(gs.done)] = Append(@, p)]
    BY <1>3 DEF GroupPart
  <2> QED BY <1>3, <2>1, <2>4, <2>5, EmptyIffNone
<1> QED BY <1>1, <1>2, <1>3

LEMMA GroupsAreGroups ==
  ASSUME NEW c \in Seq(Chars)
  PROVE  Groups(c) \in Seq(GroupOf(c))
<1>0. SplitParts(c) \in Seq(PartOf(c)) /\ Len(SplitParts(c)) \in Nat
  BY PartsAreParts, LenProperties
<1>1. PICK f : /\ \A k \in 0 .. Len(SplitParts(c)) :
                     f[k] = IF k = 0 THEN [done |-> <<>>, open |-> TRUE]
                            ELSE GroupPart(f[k - 1], c, SplitParts(c)[k])
               /\ Groups(c) = f[Len(SplitParts(c))].done
  BY <1>0, GroupScan
<1> DEFINE Good == {k \in 0 .. Len(SplitParts(c)) :
                      f[k].done \in Seq(GroupOf(c)) /\ (~f[k].open => f[k].done # <<>>)}
<1>2. 0 \in Good
  <2>1. f[0] = [done |-> <<>>, open |-> TRUE]
    BY <1>0, <1>1
  <2>2. f[0].done = <<>> /\ f[0].open
    BY <2>1
  <2>3. f[0].done \in Seq(GroupOf(c))
    BY <2>2, EmptySeq
  <2>4. 0 \in 0 .. Len(SplitParts(c))
    BY <1>0
  <2> QED BY <2>2, <2>3, <2>4
<1>3. ASSUME NEW k \in 1 .. Len(SplitParts(c)), k - 1 \in Good PROVE k \in Good
  <2>1. f[k] = GroupPart(f[k - 1], c, SplitParts(c)[k])
    BY <1>0, <1>1
  <2>2. SplitParts(c)[k] \in PartOf(c)
    BY <1>0, ElementOfSeq
  <2>3. f[k - 1].done \in Seq(GroupOf(c)) /\ (~f[k - 1].open => f[k - 1].done # <<>>)
    BY <1>3
  <2> QED BY <2>1, <2>2, <2>3, GroupPartIsTyped
<1>4. \A k \in 0 .. Len(SplitParts(c)) : k \in Good
  <2> HIDE DEF Good
  <2> QED BY <1>0, <1>2, <1>3, Upwards
<1> QED BY <1>0, <1>1, <1>4

\* The parts of a text stand one after the other.
InOrder(parts) == \A i \in 1 .. Len(parts) - 1 : parts[i].to <= parts[i + 1].from

LEMMA PartsInOrder ==
  ASSUME NEW c \in Seq(Chars)
  PROVE  InOrder(SplitParts(c))
<1>0. Len(c) \in Nat /\ Len(c) + 1 \in Nat
  OBVIOUS
<1>1. PICK f : /\ \A i \in 1 .. Len(c) + 1 :
                     f[i] = IF i > Len(c) THEN <<>>
                            ELSE IF c[i] = "_" THEN f[i + 1]
                            ELSE <<[from |-> i, to |-> PartEnd(c, i)]>> \o f[PartEnd(c, i)]
               /\ SplitParts(c) = f[1]
  BY PartScan
<1> DEFINE After(i, parts) == parts \in Seq(PartOf(c)) /\ InOrder(parts) /\ (parts # <<>> => i <= parts[1].from)
           Good == {i \in 1 .. Len(c) + 1 : After(i, f[i])}
<1>2. Len(c) + 1 \in Good
  <2>1. Len(c) + 1 \in 1 .. Len(c) + 1 /\ Len(c) + 1 > Len(c)
    BY <1>0
  <2> DEFINE none == <<>>
  <2>2. f[Len(c) + 1] = none
    BY <1>1, <2>1, Zenon
  <2>3. none \in Seq(PartOf(c)) /\ Len(none) = 0 /\ none = <<>>
    BY EmptySeq
  <2> HIDE DEF none
  <2>4. After(Len(c) + 1, none)
    BY <2>3 DEF InOrder
  <2> HIDE DEF After
  <2> QED BY <2>1, <2>2, <2>4
<1>3. ASSUME NEW i \in 1 .. (Len(c) + 1) - 1, \A k \in i + 1 .. Len(c) + 1 : k \in Good
      PROVE  i \in Good
  <2>1. i \in 1 .. Len(c) /\ i + 1 \in i + 1 .. Len(c) + 1
    BY <1>0
  <2>2. PartEnd(c, i) \in i + 1 .. Len(c) + 1
    BY <2>1, PartEndAhead
  <2>3. After(i + 1, f[i + 1]) /\ After(PartEnd(c, i), f[PartEnd(c, i)])
    BY <1>3, <2>1, <2>2
  <2> DEFINE p == [from |-> i, to |-> PartEnd(c, i)]
             rest == f[PartEnd(c, i)]
             all == <<p>> \o rest
  <2>4. p \in PartOf(c) /\ p.from = i /\ p.to = PartEnd(c, i)
    BY <1>0, <2>1, <2>2 DEF PartOf
  <2>5. f[i] \in {f[i + 1], all}
    <3>1. i \in 1 .. Len(c) + 1 /\ ~(i > Len(c))
      BY <1>0, <2>1
    <3> QED BY <1>1, <3>1, Zenon DEF p
  <2>6. After(i, f[i + 1])
    <3> DEFINE next == f[i + 1]
    <3>1. next \in Seq(PartOf(c)) /\ InOrder(next) /\ (next # <<>> => i + 1 <= next[1].from)
      BY <2>3
    <3> HIDE DEF next
    <3>2. ASSUME next # <<>> PROVE i <= next[1].from
      <4>1. 1 \in 1 .. Len(next)
        BY <3>1, <3>2, EmptyIffNone
      <4>2. next[1] \in PartOf(c)
        BY <3>1, <4>1, ElementOfSeq
      <4> QED BY <3>1, <3>2, <4>2 DEF PartOf
    <3> QED BY <3>1, <3>2 DEF next
  <2> HIDE DEF p
  <2>7. After(i, all)
    <3>1. rest \in Seq(PartOf(c)) /\ Len(rest) \in Nat /\ (rest = <<>> <=> Len(rest) = 0)
      BY <2>3, EmptyIffNone
    <3> HIDE DEF rest
    <3>2. <<p>> \in Seq(PartOf(c)) /\ Len(<<p>>) = 1 /\ <<p>>[1] = p
      BY <2>4, OneIsSeq
    <3> DEFINE one == <<p>>
    <3> HIDE DEF one
    <3>3. /\ all \in Seq(PartOf(c)) /\ Len(all) = Len(rest) + 1 /\ all[1] = p
          /\ \A j \in 2 .. Len(all) : all[j] = rest[j - 1]
      <4>1. one \in Seq(PartOf(c)) /\ Len(one) = 1 /\ one[1] = p /\ all = one \o rest
        BY <3>2 DEF one
      <4>2. /\ one \o rest \in Seq(PartOf(c)) /\ Len(one \o rest) = 1 + Len(rest)
            /\ \A j \in 1 .. 1 + Len(rest) : (one \o rest)[j] = IF j <= 1 THEN one[j] ELSE rest[j - 1]
        BY <3>1, <4>1, ConcatProperties
      <4> HIDE DEF all
      <4> QED BY <3>1, <4>1, <4>2
    <3> HIDE DEF all
    <3>4. ASSUME NEW j \in 1 .. Len(all) - 1 PROVE all[j].to <= all[j + 1].from
      <4>1. CASE j = 1
        <5>1. rest # <<>> /\ all[2] = rest[1] /\ PartEnd(c, i) <= rest[1].from
          BY <2>3, <3>1, <3>3, <4>1 DEF rest
        <5> QED BY <2>4, <3>3, <4>1, <5>1
      <4>2. CASE j # 1
        <5>1. all[j] = rest[j - 1] /\ all[j + 1] = rest[j] /\ j - 1 \in 1 .. Len(rest) - 1
          BY <3>1, <3>3, <4>2
        <5>2. InOrder(rest)
          BY <2>3 DEF rest
        <5> QED BY <5>1, <5>2 DEF InOrder
      <4> QED BY <4>1, <4>2
    <3> QED BY <2>1, <2>4, <3>3, <3>4 DEF InOrder
  <2> HIDE DEF After, all
  <2>8. After(i, f[i])
    BY <2>5, <2>6, <2>7
  <2>9. i \in 1 .. Len(c) + 1
    BY <1>0, <2>1
  <2> QED BY <2>8, <2>9
<1>4. \A i \in 1 .. Len(c) + 1 : i \in Good
  <2> HIDE DEF Good
  <2> QED BY <1>0, <1>2, <1>3, Downwards
<1>5. InOrder(f[1])
  <2>1. 1 \in 1 .. Len(c) + 1
    BY <1>0
  <2> QED BY <1>4, <2>1
<1> QED BY <1>1, <1>5

\* Groups, each with no part before the one ahead of it, that are past by a place.
Ordered(gs) ==
    /\ \A k \in 1 .. Len(gs) : Start(gs[k]) <= End(gs[k])
    /\ \A k \in 2 .. Len(gs) : End(gs[k - 1]) < Start(gs[k])
PastBy(gs, place) == gs # <<>> => End(gs[Len(gs)]) < place

LEMMA GroupPartKeepsOrder ==
  ASSUME NEW c, NEW gs, NEW p \in PartOf(c), NEW place \in Nat,
         gs.done \in Seq(GroupOf(c)), ~gs.open => gs.done # <<>>,
         Ordered(gs.done), PastBy(gs.done, place), place <= p.from
  PROVE  Ordered(GroupPart(gs, c, p).done) /\ PastBy(GroupPart(gs, c, p).done, p.to)
<1> DEFINE done == gs.done
           n == Len(done)
<1>0. /\ p.from \in Nat /\ p.to \in Nat /\ p.from < p.to
      /\ n \in Nat /\ DOMAIN done = 1 .. n /\ (done = <<>> <=> n = 0)
  BY EmptyIffNone DEF PartOf
<1>a. \A k \in 1 .. n : done[k] \in Seq(PartOf(c)) /\ Start(done[k]) \in Nat /\ End(done[k]) \in Int
  <2> TAKE k \in 1 .. n
  <2> DEFINE g == done[k]
  <2>1. g \in GroupOf(c)
    BY <1>0, ElementOfSeq
  <2> HIDE DEF g
  <2>2. g \in Seq(PartOf(c)) /\ g # <<>>
    BY <2>1 DEF GroupOf
  <2>3. Len(g) \in 1 .. Len(g) /\ 1 \in 1 .. Len(g)
    BY <2>2, EmptyIffNone
  <2>4. g[1] \in PartOf(c) /\ g[Len(g)] \in PartOf(c)
    BY <2>2, <2>3, ElementOfSeq
  <2>5. Start(g) \in Nat /\ End(g) \in Int
    BY <2>4 DEF Start, End, PartOf
  <2> QED BY <2>2, <2>5 DEF g
<1>b. Ordered(done) /\ PastBy(done, place)
  OBVIOUS
<1>1. CASE IsOperator(Text(c, p))
  <2>1. GroupPart(gs, c, p).done = done
    BY <1>1 DEF GroupPart
  <2> HIDE DEF done
  <2>2. PastBy(done, p.to)
    <3>1. done # <<>> => n \in 1 .. n
      BY <1>0
    <3> QED BY <1>0, <1>a, <1>b, <3>1 DEF PastBy
  <2> QED BY <1>b, <2>1, <2>2
<1>2. CASE ~IsOperator(Text(c, p)) /\ gs.open
  <2> DEFINE one == <<p>>
             more == Append(done, one)
  <2>1. GroupPart(gs, c, p).done = more
    BY <1>2 DEF GroupPart
  <2>2. one \in GroupOf(c) /\ Start(one) = p.from /\ End(one) = p.to - 1
    BY OneIsSeq, EmptyIffNone DEF GroupOf, Start, End
  <2> HIDE DEF one, done
  <2>3. /\ Len(more) = n + 1 /\ more # <<>> /\ (\A k \in 1 .. n : more[k] = done[k]) /\ more[n + 1] = one
    <3>1. done \in Seq(GroupOf(c))
      BY DEF done
    <3> QED BY <2>2, <3>1, AppendFacts
  <2> HIDE DEF more
  <2>4. n # 0 => End(done[n]) < place
    BY <1>0, <1>b DEF PastBy
  <2>5. \A k \in 1 .. n + 1 : Start(more[k]) <= End(more[k])
    <3> TAKE k \in 1 .. n + 1
    <3>1. CASE k = n + 1
      BY <1>0, <2>2, <2>3, <3>1
    <3>2. CASE k # n + 1
      BY <1>0, <1>b, <2>3, <3>2 DEF Ordered
    <3> QED BY <3>1, <3>2
  <2>6. \A k \in 2 .. n + 1 : End(more[k - 1]) < Start(more[k])
    <3> TAKE k \in 2 .. n + 1
    <3>1. CASE k = n + 1
      <4>1. n \in 1 .. n /\ more[k] = one /\ more[k - 1] = done[n]
        BY <1>0, <2>3, <3>1
      <4> QED BY <1>0, <1>a, <2>2, <2>4, <4>1
    <3>2. CASE k # n + 1
      <4>1. more[k] = done[k] /\ more[k - 1] = done[k - 1] /\ k \in 2 .. n
        BY <1>0, <2>3, <3>2
      <4> QED BY <1>b, <4>1 DEF Ordered
    <3> QED BY <3>1, <3>2
  <2>7. PastBy(more, p.to)
    BY <1>0, <2>2, <2>3 DEF PastBy
  <2> QED BY <2>1, <2>3, <2>5, <2>6, <2>7 DEF Ordered
<1>3. CASE ~IsOperator(Text(c, p)) /\ ~gs.open
  <2> DEFINE group == done[n]
             longer == Append(group, p)
             more == [done EXCEPT ![n] = longer]
  <2>0. n \in 1 .. n
    BY <1>0, <1>3
  <2>1. GroupPart(gs, c, p).done = more
    <3>1. GroupPart(gs, c, p) = [gs EXCEPT !.done[Len(gs.done)] = Append(@, p)]
      BY <1>3 DEF GroupPart
    <3>2. GroupPart(gs, c, p).done = [gs.done EXCEPT ![Len(gs.done)] = Append(@, p)]
      BY <3>1
    <3> QED BY <3>2
  <2>2. group \in Seq(PartOf(c)) /\ group # <<>>
    BY <1>0, <2>0, ElementOfSeq DEF GroupOf
  <2>3. Start(longer) = Start(group) /\ End(longer) = p.to - 1
    <3> HIDE DEF group
    <3>1. /\ Len(longer) = Len(group) + 1 /\ Len(group) \in Nat
          /\ \A k \in 1 .. Len(group) : longer[k] = group[k]
          /\ longer[Len(group) + 1] = p
      BY <2>2, AppendFacts
    <3>2. 1 \in 1 .. Len(group)
      BY <2>2, EmptyIffNone
    <3> HIDE DEF longer
    <3> QED BY <3>1, <3>2 DEF Start, End
  <2>4. Start(group) <= End(group) /\ End(group) < place /\ Start(group) \in Nat /\ End(group) \in Int
    BY <1>0, <1>a, <1>b, <2>0 DEF Ordered, PastBy
  <2> HIDE DEF longer
  <2>5. Len(more) = n /\ more[n] = longer /\ \A k \in 1 .. n : k # n => more[k] = done[k]
    BY <1>0, <2>0
  <2> HIDE DEF more, group, done
  <2>9. Start(longer) <= End(longer) /\ End(longer) < p.to
    BY <1>0, <2>3, <2>4
  <2> HIDE DEF n
  <2>6. \A k \in 1 .. n : Start(more[k]) <= End(more[k])
    <3> TAKE k \in 1 .. n
    <3>1. CASE k = n
      BY <2>5, <2>9, <3>1
    <3>2. CASE k # n
      BY <1>b, <2>5, <3>2 DEF Ordered, n
    <3> QED BY <3>1, <3>2
  <2>7. \A k \in 2 .. n : End(more[k - 1]) < Start(more[k])
    <3> TAKE k \in 2 .. n
    <3>0. k - 1 \in 1 .. n /\ k - 1 # n /\ k \in 1 .. n
      BY <1>0
    <3>3. End(done[k - 1]) < Start(done[k])
      BY <1>b DEF Ordered, n
    <3>1. more[k - 1] = done[k - 1] /\ End(done[k - 1]) < Start(done[k])
      BY <2>5, <3>0, <3>3
    <3>2. Start(more[k]) = Start(done[k])
      BY <2>3, <2>5, <3>0 DEF group
    <3> QED BY <3>1, <3>2
  <2>8. PastBy(more, p.to)
    BY <2>5, <2>9 DEF PastBy
  <2> QED BY <2>1, <2>5, <2>6, <2>7, <2>8 DEF Ordered
<1> QED BY <1>1, <1>2, <1>3

\* The groups of a text stand one after the other.
LEMMA GroupsInOrder ==
  ASSUME NEW c \in Seq(Chars)
  PROVE  Ordered(Groups(c))
<1> DEFINE parts == SplitParts(c)
           n == Len(parts)
<1>0. parts \in Seq(PartOf(c)) /\ n \in Nat /\ InOrder(parts)
  BY PartsAreParts, PartsInOrder, LenProperties
<1>1. PICK f : /\ \A k \in 0 .. n :
                     f[k] = IF k = 0 THEN [done |-> <<>>, open |-> TRUE]
                            ELSE GroupPart(f[k - 1], c, parts[k])
               /\ Groups(c) = f[n].done
  BY <1>0, GroupScan
<1> HIDE DEF parts
<1> DEFINE edge(k) == IF k = 0 THEN 1 ELSE parts[k].to
           Holds(k) == /\ f[k].done \in Seq(GroupOf(c)) /\ (~f[k].open => f[k].done # <<>>)
                       /\ Ordered(f[k].done) /\ PastBy(f[k].done, edge(k))
           Good == {k \in 0 .. n : Holds(k)}
<1>2. 0 \in Good
  <2>1. f[0] = [done |-> <<>>, open |-> TRUE]
    BY <1>0, <1>1
  <2> DEFINE none == <<>>
  <2>2. f[0].done = none /\ f[0].open
    BY <2>1
  <2>3. none \in Seq(GroupOf(c)) /\ Len(none) = 0
    BY EmptySeq
  <2>4. Ordered(none) /\ PastBy(none, edge(0))
    BY <2>3 DEF Ordered, PastBy
  <2> HIDE DEF none, edge
  <2>5. 0 \in 0 .. n
    BY <1>0
  <2> QED BY <2>2, <2>3, <2>4, <2>5
<1>3. ASSUME NEW k \in 1 .. n, k - 1 \in Good PROVE k \in Good
  <2>1. f[k] = GroupPart(f[k - 1], c, parts[k]) /\ k \in 0 .. n
    BY <1>0, <1>1
  <2>2. parts[k] \in PartOf(c)
    BY <1>0, ElementOfSeq
  <2>3. Holds(k - 1)
    BY <1>3
  <2>4. edge(k - 1) \in Nat /\ edge(k - 1) <= parts[k].from
    <3>1. CASE k = 1
      BY <2>2, <3>1 DEF PartOf
    <3>2. CASE k # 1
      <4>1. k - 1 \in 1 .. n - 1 /\ k - 1 \in 1 .. n /\ k - 1 # 0
        BY <1>0, <3>2
      <4>2. parts[k - 1] \in PartOf(c)
        BY <1>0, <4>1, ElementOfSeq
      <4>3. parts[k - 1].to <= parts[(k - 1) + 1].from
        BY <1>0, <4>1 DEF InOrder
      <4> QED BY <4>1, <4>2, <4>3 DEF PartOf
    <3> QED BY <3>1, <3>2
  <2>5. edge(k) = parts[k].to
    BY <1>0
  <2> HIDE DEF edge
  <2>6. Ordered(f[k].done) /\ PastBy(f[k].done, edge(k))
    BY <2>1, <2>2, <2>3, <2>4, <2>5, GroupPartKeepsOrder
  <2>7. f[k].done \in Seq(GroupOf(c)) /\ (~f[k].open => f[k].done # <<>>)
    BY <2>1, <2>2, <2>3, GroupPartIsTyped
  <2> QED BY <2>1, <2>6, <2>7
<1>4. Ordered(f[n].done)
  <2>1. \A k \in 0 .. n : k \in Good
    <3> HIDE DEF Good
    <3> QED BY <1>0, <1>2, <1>3, Upwards
  <2>2. n \in 0 .. n
    BY <1>0
  <2> QED BY <2>1, <2>2
<1> QED BY <1>1, <1>4

----------------------------------------------------------------------------
(* Segments are texts.                                                         *)

LEMMA GreatestIs ==
  ASSUME NEW n \in Nat, NEW S \in SUBSET (1 .. n), S # {}
  PROVE  Max(S) \in S /\ \A k \in S : k <= Max(S)
<1> DEFINE Far == {n - i : i \in S}
<1>0. \A i \in S : n - i \in Nat
  <2> TAKE i \in S
  <2>1. i \in 1 .. n
    OBVIOUS
  <2> QED BY <2>1
<1>1. Far \in SUBSET Nat /\ Far # {}
  BY <1>0
<1>2. PICK d \in Far : \A k \in Far : d <= k
  <2> HIDE DEF Far
  <2> QED BY <1>1, SmallestExists
<1>3. PICK m \in S : d = n - m
  BY <1>2
<1>4. \A k \in S : k <= m
  <2> TAKE k \in S
  <2>1. n - k \in Far
    OBVIOUS
  <2>2. d <= n - k
    <3> HIDE DEF Far
    <3> QED BY <1>2, <2>1
  <2> QED BY <1>3, <2>2
<1>5. \E x \in S : \A y \in S : x >= y
  BY <1>4
<1>6. Max(S) \in S /\ \A y \in S : Max(S) >= y
  <2> DEFINE P(x) == \A y \in S : x >= y
  <2>1. Max(S) = CHOOSE x \in S : P(x)
    BY DEF Max
  <2> HIDE DEF P
  <2>2. \E x \in S : P(x)
    BY <1>5 DEF P
  <2>3. Max(S) \in S /\ P(Max(S))
    BY <2>1, <2>2
  <2> QED BY <2>3 DEF P
<1> QED BY <1>6

LEMMA CutIsSeq ==
  ASSUME NEW S, NEW c \in Seq(S), NEW a \in Int, NEW b \in Int, 1 <= a, b <= Len(c)
  PROVE  SubSeq(c, a, b) \in Seq(S)
<1>1. \A i \in a .. b : c[i] \in S
  OBVIOUS
<1> QED BY <1>1, SubSeqProperties

\* What is cut out of a text, place by place.
LEMMA CutAt ==
  ASSUME NEW c \in Seq(Chars), NEW a \in Nat, NEW b \in Nat, NEW size \in Nat,
         1 <= a, b <= Len(c), b + 1 = a + size
  PROVE  /\ SubSeq(c, a, b) \in Seq(Chars) /\ Len(SubSeq(c, a, b)) = size
         /\ \A j \in 1 .. size : SubSeq(c, a, b)[j] = c[a + j - 1]
<1>0. Len(c) \in Nat
  BY EmptyIffNone
<1>1. \A i \in a .. b : c[i] \in Chars
  <2> TAKE i \in a .. b
  <2>1. i \in 1 .. Len(c)
    BY <1>0
  <2> QED BY <2>1, ElementOfSeq
<1>2. /\ SubSeq(c, a, b) \in Seq(Chars)
      /\ Len(SubSeq(c, a, b)) = IF a <= b THEN b - a + 1 ELSE 0
      /\ \A j \in 1 .. b - a + 1 : SubSeq(c, a, b)[j] = c[a + j - 1]
  <2>1. a \in Int /\ b \in Int
    OBVIOUS
  <2> QED BY ONLY <1>1, <2>1, SubSeqProperties
<1>3. b - a + 1 = size /\ (IF a <= b THEN b - a + 1 ELSE 0) = size
  OBVIOUS
<1> QED BY <1>2, <1>3

LEMMA StripIsSeq ==
  ASSUME NEW c \in Seq(Chars)
  PROVE  /\ Strip(c) \in Seq(Chars)
         /\ (\A i \in 1 .. Len(c) : c[i] \in Space) => Strip(c) = <<>>
         /\ (c # <<>> /\ c[1] \notin Space /\ c[Len(c)] \notin Space) => Strip(c) = c
<1>0. Len(c) \in Nat /\ DOMAIN c = 1 .. Len(c) /\ (c = <<>> <=> Len(c) = 0)
  BY EmptyIffNone
<1> DEFINE kept == {i \in DOMAIN c : c[i] \notin Space}
<1>1. Strip(c) = IF kept = {} THEN <<>> ELSE SubSeq(c, Min(kept), Max(kept))
  BY DEF Strip
<1>2. kept \in SUBSET (1 .. Len(c)) /\ kept \in SUBSET Nat
  BY <1>0
<1>3. ASSUME kept # {} 
      PROVE  /\ Min(kept) \in kept /\ (\A k \in kept : Min(kept) <= k)
             /\ Max(kept) \in kept /\ (\A k \in kept : k <= Max(kept))
  <2> HIDE DEF kept
  <2> QED BY <1>0, <1>2, <1>3, LeastIs, GreatestIs
<1>4. Strip(c) \in Seq(Chars)
  <2>1. CASE kept = {}
    BY <1>1, <2>1, EmptySeq
  <2>2. CASE kept # {}
    <3>1. Min(kept) \in 1 .. Len(c) /\ Max(kept) \in 1 .. Len(c)
      BY <1>2, <1>3, <2>2
    <3>2. SubSeq(c, Min(kept), Max(kept)) \in Seq(Chars)
      <4> HIDE DEF kept
      <4> QED BY <1>0, <3>1, CutIsSeq
    <3> HIDE DEF kept
    <3> QED BY <1>1, <2>2, <3>2
  <2> QED BY <2>1, <2>2
<1>5. ASSUME \A i \in 1 .. Len(c) : c[i] \in Space PROVE Strip(c) = <<>>
  <2>1. kept = {}
    BY <1>0, <1>5
  <2> QED BY <1>1, <2>1
<1>6. ASSUME c # <<>>, c[1] \notin Space, c[Len(c)] \notin Space PROVE Strip(c) = c
  <2>1. 1 \in kept /\ Len(c) \in kept
    BY <1>0, <1>6
  <2>2. Min(kept) = 1 /\ Max(kept) = Len(c)
    <3>1. kept # {}
      BY <2>1
    <3>2. Min(kept) <= 1 /\ Len(c) <= Max(kept) /\ Min(kept) \in 1 .. Len(c) /\ Max(kept) \in 1 .. Len(c)
      <4> HIDE DEF kept
      <4> QED BY <1>2, <1>3, <2>1, <3>1
    <3> QED BY <1>0, <3>2
  <2>3. Strip(c) = SubSeq(c, 1, Len(c))
    BY <1>1, <2>1, <2>2
  <2> QED BY <2>3, SubSeqFull
<1> QED BY <1>4, <1>5, <1>6

LEMMA SegmentsAreSeqs ==
  ASSUME NEW c \in Seq(Chars)
  PROVE  SegmentTexts(c) \in Seq(Seq(Chars)) /\ Len(SegmentTexts(c)) = Len(Groups(c))
<1> DEFINE gs == Groups(c)
           texts(k) == [p \in DOMAIN gs[k] |-> Text(c, gs[k][p])]
<1>1. gs \in Seq(GroupOf(c)) /\ Len(gs) \in Nat /\ DOMAIN gs = 1 .. Len(gs)
  BY GroupsAreGroups, EmptyIffNone
<1>2. ASSUME NEW k \in 1 .. Len(gs) PROVE Join(texts(k)) \in Seq(Chars)
  <2>1. gs[k] \in Seq(PartOf(c))
    BY <1>1, ElementOfSeq DEF GroupOf
  <2>2. Len(gs[k]) \in Nat /\ DOMAIN gs[k] = 1 .. Len(gs[k])
    BY <2>1, EmptyIffNone
  <2>3. ASSUME NEW p \in DOMAIN gs[k] PROVE Text(c, gs[k][p]) \in Seq(Chars)
    <3>1. gs[k][p] \in PartOf(c)
      <4> HIDE DEF gs
      <4> QED BY <2>1, <2>2, ElementOfSeq
    <3> DEFINE q == gs[k][p]
    <3>2. q.from \in Int /\ q.to - 1 \in Int /\ 1 <= q.from /\ q.to - 1 <= Len(c)
      <4>1. Len(c) \in Nat
        OBVIOUS
      <4> HIDE DEF gs
      <4> QED BY <3>1, <4>1 DEF PartOf
    <3> HIDE DEF q
    <3>3. SubSeq(c, q.from, q.to - 1) \in Seq(Chars)
      BY <3>2, CutIsSeq
    <3> QED BY <3>3 DEF q, Text
  <2>4. texts(k) \in [1 .. Len(gs[k]) -> Seq(Chars)]
    BY <2>2, <2>3
  <2> HIDE DEF gs, texts
  <2>5. texts(k) \in Seq(Seq(Chars))
    BY <2>2, <2>4, FunctionIsSeq
  <2> QED BY <2>5, JoinIsSeq
<1>3. SegmentTexts(c) = [k \in 1 .. Len(gs) |-> Join(texts(k))]
  BY <1>1 DEF SegmentTexts
<1> HIDE DEF gs, texts
<1>4. SegmentTexts(c) \in [1 .. Len(gs) -> Seq(Chars)]
  BY <1>2, <1>3
<1> QED BY <1>1, <1>4, FunctionIsSeq DEF gs

LEMMA ParsedAreSeqs ==
  ASSUME NEW c \in Seq(Chars)
  PROVE  ParseCommand(c) \in Seq(Seq(Chars))
BY StripIsSeq, SegmentsAreSeqs DEF ParseCommand

LEMMA NormalizedIsSeq ==
  ASSUME NEW c \in Seq(Chars)
  PROVE  NormalizeQuoted(c) \in Seq(Chars)
<1> DEFINE words == Split(c)
           quoted(w) == Len(w) > 1 /\ w[1] \in Quotes /\ w[Len(w)] \in Quotes
           bare(w) == IF quoted(w) THEN SubSeq(w, 2, Len(w) - 1) ELSE w
           bares == [k \in DOMAIN words |-> bare(words[k])]
<1>1. words \in Seq(Seq(Chars)) /\ Len(words) \in Nat /\ DOMAIN words = 1 .. Len(words)
  BY SplitIsSeq, EmptyIffNone
<1>2. ASSUME NEW k \in 1 .. Len(words) PROVE bare(words[k]) \in Seq(Chars)
  <2>1. words[k] \in Seq(Chars)
    <3> HIDE DEF words
    <3> QED BY <1>1, ElementOfSeq
  <2> DEFINE w == words[k]
  <2>2. Len(w) \in Nat /\ w \in Seq(Chars)
    BY <2>1
  <2> HIDE DEF w
  <2>3. SubSeq(w, 2, Len(w) - 1) \in Seq(Chars)
    BY <2>2, CutIsSeq
  <2>4. bare(w) \in Seq(Chars)
    <3> HIDE DEF quoted
    <3> QED BY <2>2, <2>3
  <2> QED BY <2>4 DEF w
<1>3. NormalizeQuoted(c) = Join(bares)
  BY DEF NormalizeQuoted
<1>4. bares \in [1 .. Len(words) -> Seq(Chars)]
  <2> HIDE DEF bare, words
  <2> QED BY <1>1, <1>2
<1> HIDE DEF bares, words
<1> QED BY <1>1, <1>3, <1>4, FunctionIsSeq, JoinIsSeq

----------------------------------------------------------------------------
(* Answers.                                                                    *)

\* Definitions are answered from the inside out.
LEMMA AnswersScan ==
  ASSUME NEW raw
  PROVE  \E f : /\ \A n \in 0 .. Len(Nested) :
                     f[n] = [d \in UNION {Nested[m] : m \in 1 .. n} |-> Answer(raw, d, f[n - 1])]
                /\ \A def : MatchSegment(raw, def) = f[Len(Nested)][def]
<1> DEFINE Known(n) == UNION {Nested[m] : m \in 1 .. n}
           Level(n, below) == [d \in Known(n) |-> Answer(raw, d, below)]
           Scan(m, f) == f = [n \in 0 .. m |-> Level(n, f[n - 1])]
           Good == {m \in 0 .. Len(Nested) : \E f : Scan(m, f)}
<1>0. Len(Nested) \in Nat
  BY NestedAssumption
<1>e. \A x, y : Level(0, x) = Level(0, y)
  <2>1. Known(0) = {}
    OBVIOUS
  <2> HIDE DEF Known
  <2> QED BY <2>1
<1> HIDE DEF Level
<1>1. 0 \in Good
  <2> DEFINE f == [n \in 0 .. 0 |-> Level(0, 0)]
  <2>1. \A n \in 0 .. 0 : n = 0
    OBVIOUS
  <2> DEFINE A(n) == Level(n, f[n - 1])
  <2>2. \A n \in 0 .. 0 : Level(0, 0) = A(n)
    <3> HIDE DEF f
    <3> QED BY <1>e, <2>1
  <2>3. f = [n \in 0 .. 0 |-> A(n)]
    <3> HIDE DEF A
    <3> QED BY <2>2
  <2>4. Scan(0, f)
    BY <2>3
  <2> HIDE DEF Scan, f
  <2> QED BY <1>0, <2>4
<1>2. ASSUME NEW m \in 1 .. Len(Nested), m - 1 \in Good PROVE m \in Good
  <2>1. PICK g : Scan(m - 1, g)
    BY <1>2
  <2> DEFINE f == [n \in 0 .. m |-> IF n = m THEN Level(m, g[m - 1]) ELSE g[n]]
  <2>2. \A n \in 0 .. m - 1 : g[n] = Level(n, g[n - 1])
    BY <2>1
  <2>3. ASSUME NEW n \in 0 .. m PROVE f[n] = Level(n, f[n - 1])
    <3>1. n # 0 => f[n - 1] = g[n - 1]
      OBVIOUS
    <3>2. n # m => f[n] = g[n] /\ n \in 0 .. m - 1
      OBVIOUS
    <3>3. n = m => f[n] = Level(m, g[m - 1]) /\ n # 0
      OBVIOUS
    <3> HIDE DEF f
    <3> QED BY <1>e, <2>2, <3>1, <3>2, <3>3
  <2>4. Scan(m, f)
    <3>1. f = [n \in 0 .. m |-> f[n]]
      OBVIOUS
    <3> DEFINE A(n) == Level(n, f[n - 1])
    <3>2. \A n \in 0 .. m : f[n] = A(n)
      BY <2>3
    <3> HIDE DEF f, A
    <3>3. f = [n \in 0 .. m |-> A(n)]
      BY <3>1, <3>2
    <3> QED BY <3>3 DEF A
  <2> HIDE DEF Scan, f
  <2> QED BY <1>0, <2>4
<1>3. \E f : Scan(Len(Nested), f)
  <2>1. Len(Nested) \in Good
    <3> HIDE DEF Good
    <3>1. \A n \in 0 .. Len(Nested) : n \in Good
      BY <1>0, <1>1, <1>2, Upwards
    <3> QED BY <1>0, <3>1
  <2> QED BY <2>1
<1> DEFINE chosen == CHOOSE f : Scan(Len(Nested), f)
<1>4. Scan(Len(Nested), chosen)
  BY <1>3
<1>5. \A def : MatchSegment(raw, def) = chosen[Len(Nested)][def]
  BY DEF MatchSegment, Level
<1> HIDE DEF chosen
<1>6. \A n \in 0 .. Len(Nested) : chosen[n] = Level(n, chosen[n - 1])
  BY <1>4
<1> QED BY <1>5, <1>6 DEF Level

LEMMA AnswerExists ==
  ASSUME NEW raw, NEW def \in Definitions
  PROVE  \E answers : MatchSegment(raw, def) = Answer(raw, def, answers)
<1>1. PICK f : /\ \A n \in 0 .. Len(Nested) :
                     f[n] = [d \in UNION {Nested[m] : m \in 1 .. n} |-> Answer(raw, d, f[n - 1])]
               /\ \A d : MatchSegment(raw, d) = f[Len(Nested)][d]
  BY AnswersScan
<1>2. Len(Nested) \in 0 .. Len(Nested) /\ def \in UNION {Nested[m] : m \in 1 .. Len(Nested)}
  BY NestedAssumption DEF Definitions
<1> DEFINE below == f[Len(Nested) - 1]
<1>3. f[Len(Nested)] = [d \in UNION {Nested[m] : m \in 1 .. Len(Nested)} |-> Answer(raw, d, below)]
  BY <1>1, <1>2
<1>4. MatchSegment(raw, def) = f[Len(Nested)][def]
  BY <1>1
<1> HIDE DEF below
<1>5. MatchSegment(raw, def) = Answer(raw, def, below)
  BY <1>2, <1>3, <1>4
<1> QED BY <1>5

LEMMA AnswerIsAnswer ==
  ASSUME NEW raw, NEW def, NEW answers
  PROVE  Answer(raw, def, answers) \in {"yes", "no", "raise"}
<1> DEFINE Three == {"yes", "no", "raise"}
<1>1. \A b : Say(b) \in Three
  BY DEF Say
<1>2. \A regex, texts : Search(regex, texts) \in Three
  BY DEF Say, Search
<1>3. "yes" \in Three /\ "no" \in Three /\ "raise" \in Three
  OBVIOUS
<1> HIDE DEF Three
<1>4. MatchPattern(raw, def) \in Three
  BY <1>2, <1>3 DEF MatchPattern
<1>5. MatchCommand(raw, def) \in Three
  BY <1>1, <1>3 DEF MatchCommand
<1>6. MatchPipeline(raw, def) \in Three
  BY <1>2, <1>3 DEF MatchPipeline
<1>7. MatchSubcommand(raw, def) \in Three
  BY <1>1, <1>3 DEF MatchSubcommand
<1>8. MatchPath(raw, def) \in Three
  BY <1>1, <1>2 DEF MatchPath
<1>9. MatchComposite(raw, def, answers) \in Three
  BY <1>1, <1>3 DEF MatchComposite
<1>10. MatchSyscall(raw, def) \in Three
  BY <1>1 DEF MatchSyscall
<1>11. MatchNetwork(raw, def) \in Three
  BY <1>2 DEF MatchNetwork
<1>12. MatchHeredoc(raw, def) \in Three
  BY <1>3 DEF MatchHeredoc
<1>13. Answer(raw, def, answers) \in Three
  BY <1>3, <1>4, <1>5, <1>6, <1>7, <1>8, <1>9, <1>10, <1>11, <1>12 DEF Answer
<1> QED BY <1>13 DEF Three

LEMMA SegmentIsAnswered ==
  ASSUME NEW raw, NEW def \in Definitions
  PROVE  MatchSegment(raw, def) \in {"yes", "no", "raise"}
BY AnswerExists, AnswerIsAnswer

\* The definitions in a definition's conditions.
InnerRules(d) == {c \in Inner(d) : c.type \notin {"text", "other"}}

\* Parts are gathered from the inside out.
LEMMA PartsScan ==
  \E f : /\ \A n \in 0 .. Len(Nested) :
              f[n] = [d \in UNION {Nested[m] : m \in 1 .. n} |-> {d} \cup UNION {f[n - 1][c] : c \in InnerRules(d)}]
         /\ \A def : Parts(def) = f[Len(Nested)][def]
<1> DEFINE Known(n) == UNION {Nested[m] : m \in 1 .. n}
           Level(n, below) == [d \in Known(n) |-> {d} \cup UNION {below[c] : c \in InnerRules(d)}]
           Scan(m, f) == f = [n \in 0 .. m |-> Level(n, f[n - 1])]
           Good == {m \in 0 .. Len(Nested) : \E f : Scan(m, f)}
<1>0. Len(Nested) \in Nat
  BY NestedAssumption
<1>e. \A x, y : Level(0, x) = Level(0, y)
  <2>1. Known(0) = {}
    OBVIOUS
  <2> HIDE DEF Known
  <2> QED BY <2>1
<1> HIDE DEF Level
<1>1. 0 \in Good
  <2> DEFINE f == [n \in 0 .. 0 |-> Level(0, 0)]
  <2>1. \A n \in 0 .. 0 : n = 0
    OBVIOUS
  <2> DEFINE A(n) == Level(n, f[n - 1])
  <2>2. \A n \in 0 .. 0 : Level(0, 0) = A(n)
    <3> HIDE DEF f
    <3> QED BY <1>e, <2>1
  <2>3. f = [n \in 0 .. 0 |-> A(n)]
    <3> HIDE DEF A
    <3> QED BY <2>2
  <2>4. Scan(0, f)
    BY <2>3
  <2> HIDE DEF Scan, f
  <2> QED BY <1>0, <2>4
<1>2. ASSUME NEW m \in 1 .. Len(Nested), m - 1 \in Good PROVE m \in Good
  <2>1. PICK g : Scan(m - 1, g)
    BY <1>2
  <2> DEFINE f == [n \in 0 .. m |-> IF n = m THEN Level(m, g[m - 1]) ELSE g[n]]
  <2>2. \A n \in 0 .. m - 1 : g[n] = Level(n, g[n - 1])
    BY <2>1
  <2>3. ASSUME NEW n \in 0 .. m PROVE f[n] = Level(n, f[n - 1])
    <3>1. n # 0 => f[n - 1] = g[n - 1]
      OBVIOUS
    <3>2. n # m => f[n] = g[n] /\ n \in 0 .. m - 1
      OBVIOUS
    <3>3. n = m => f[n] = Level(m, g[m - 1]) /\ n # 0
      OBVIOUS
    <3> HIDE DEF f
    <3> QED BY <1>e, <2>2, <3>1, <3>2, <3>3
  <2>4. Scan(m, f)
    <3>1. f = [n \in 0 .. m |-> f[n]]
      OBVIOUS
    <3> DEFINE A(n) == Level(n, f[n - 1])
    <3>2. \A n \in 0 .. m : f[n] = A(n)
      BY <2>3
    <3> HIDE DEF f, A
    <3>3. f = [n \in 0 .. m |-> A(n)]
      BY <3>1, <3>2
    <3> QED BY <3>3 DEF A
  <2> HIDE DEF Scan, f
  <2> QED BY <1>0, <2>4
<1>3. \E f : Scan(Len(Nested), f)
  <2>1. Len(Nested) \in Good
    <3> HIDE DEF Good
    <3>1. \A n \in 0 .. Len(Nested) : n \in Good
      BY <1>0, <1>1, <1>2, Upwards
    <3> QED BY <1>0, <3>1
  <2> QED BY <2>1
<1> DEFINE chosen == CHOOSE f : Scan(Len(Nested), f)
<1>4. Scan(Len(Nested), chosen)
  BY <1>3
<1>5. \A def : Parts(def) = chosen[Len(Nested)][def]
  BY DEF Parts, InnerRules, Level
<1> HIDE DEF chosen
<1>6. \A n \in 0 .. Len(Nested) : chosen[n] = Level(n, chosen[n - 1])
  BY <1>4
<1> QED BY <1>5, <1>6 DEF Level

\* One definition raises for a cause of its own or for one in its conditions.
LEMMA AnswerCanRaise ==
  ASSUME NEW raw \in Seq(Chars), NEW d, NEW answers, NEW checked \in BOOLEAN,
         checked => Validates(d), d.negation # <<>> => 1 \in DOMAIN d.negation,
         Answer(raw, d, answers) = "raise"
  PROVE  CanRaise(raw, d, checked) \/ \E c \in InnerRules(d) : answers[c] = "raise"
<1>0. checked /\ d.type \in Checked => d.field # Bad
  BY DEF Validates
<1>1. \A b : Say(b) # "raise"
  BY DEF Say
<1>2. \A regex, texts : Search(regex, texts) = "raise" => regex \in {Bad, Huge}
  BY <1>1 DEF Search
<1>3. Address \notin {Bad, Huge}
  BY DEF Address, Bad, Huge
<1>4. ASSUME d.type \in RegexTypes PROVE d.field \in {Bad, Huge}
  <2>1. MatchPattern(raw, d) = "raise" => d.field \in {Bad, Huge}
    BY <1>2 DEF MatchPattern
  <2>2. MatchPipeline(raw, d) = "raise" => d.field \in {Bad, Huge}
    BY <1>2 DEF MatchPipeline
  <2>3. MatchPath(raw, d) = "raise" => d.field \in {Bad, Huge}
    BY <1>1, <1>2 DEF MatchPath
  <2>4. MatchHeredoc(raw, d) = "raise" => d.field \in {Bad, Huge}
    BY DEF MatchHeredoc
  <2>5. MatchNetwork(raw, d) = "raise" => d.field \in {Bad, Huge}
    BY <1>2, <1>3 DEF MatchNetwork
  <2> QED BY <1>4, <2>1, <2>2, <2>3, <2>4, <2>5 DEF RegexTypes, Answer
<1>5. ASSUME d.type = "command" PROVE Strip(NormalizeQuoted(raw)) = <<>> \/ d.field = Bad
  <2>1. MatchCommand(raw, d) = "raise"
    BY <1>5 DEF Answer
  <2>2. Split(NormalizeQuoted(raw)) = <<>> \/ d.field = Bad
    BY <1>1, <2>1 DEF MatchCommand
  <2>3. NormalizeQuoted(raw) \in Seq(Chars)
    BY NormalizedIsSeq
  <2> QED BY <2>2, <2>3, SplitIsSeq, StripIsSeq
<1>6. ASSUME d.type = "subcommand" PROVE d.parent = Bad \/ d.field = Bad
  <2>1. MatchSubcommand(raw, d) = "raise"
    BY <1>6 DEF Answer
  <2> QED BY <1>1, <2>1 DEF MatchSubcommand
<1>7. ASSUME d.type = "composite" PROVE \E c \in InnerRules(d) : answers[c] = "raise"
  <2>1. MatchComposite(raw, d, answers) = "raise"
    BY <1>7 DEF Answer
  <2>2. \A c : MatchSimple(raw, c, answers) = "raise" =>
                 answers[c] = "raise" /\ c.type \notin {"text", "other"}
    BY <1>1 DEF MatchSimple
  <2> DEFINE asked == [k \in DOMAIN d.conditions |-> MatchSimple(raw, d.conditions[k], answers)]
  <2>3. \/ d.negation # <<>> /\ MatchSimple(raw, d.negation[1], answers) = "raise"
        \/ "raise" \in Elems(asked)
    BY <1>1, <2>1 DEF MatchComposite
  <2>4. CASE d.negation # <<>> /\ MatchSimple(raw, d.negation[1], answers) = "raise"
    <3>1. d.negation[1] \in Inner(d)
      BY <2>4 DEF Inner, Elems
    <3> QED BY <2>2, <2>4, <3>1 DEF InnerRules
  <2>5. CASE "raise" \in Elems(asked)
    <3>1. PICK k \in DOMAIN d.conditions : MatchSimple(raw, d.conditions[k], answers) = "raise"
      BY <2>5 DEF Elems
    <3>2. d.conditions[k] \in Inner(d)
      BY DEF Inner, Elems
    <3> QED BY <2>2, <3>1, <3>2 DEF InnerRules
  <2> QED BY <2>3, <2>4, <2>5
<1>8. MatchSyscall(raw, d) # "raise"
  BY <1>1 DEF MatchSyscall
<1>9. d.type \in RegexTypes \cup {"command", "subcommand", "composite"}
  BY <1>8 DEF Answer, RegexTypes
<1> QED BY <1>0, <1>4, <1>5, <1>6, <1>7, <1>9 DEF CanRaise, RegexTypes

\* A rule raises for a cause in one of the definitions it is made of.
LEMMA RaiseHasACause ==
  ASSUME NEW raw \in Seq(Chars), NEW top \in Definitions,
         Validates(top), MatchSegment(raw, top) = "raise"
  PROVE  \E p \in Parts(top) : CanRaise(raw, p, p = top)
<1> DEFINE Known(n) == UNION {Nested[m] : m \in 1 .. n}
           depth == Len(Nested)
<1>1. PICK f : /\ \A n \in 0 .. depth : f[n] = [d \in Known(n) |-> Answer(raw, d, f[n - 1])]
               /\ \A d : MatchSegment(raw, d) = f[depth][d]
  BY AnswersScan
<1>2. PICK g : /\ \A n \in 0 .. depth :
                     g[n] = [d \in Known(n) |-> {d} \cup UNION {g[n - 1][c] : c \in InnerRules(d)}]
               /\ \A d : Parts(d) = g[depth][d]
  BY PartsScan
<1>3. depth \in Nat
  BY NestedAssumption
<1>4. ASSUME NEW n \in 1 .. depth, NEW d \in Known(n)
      PROVE  /\ d.negation # <<>> => 1 \in DOMAIN d.negation
             /\ \A c \in InnerRules(d) : c \in Known(n - 1)
  <2>1. PICK m \in 1 .. n : d \in Nested[m]
    BY <1>4
  <2>2. /\ d.negation # <<>> => 1 \in DOMAIN d.negation
        /\ \A c \in Inner(d) : c.type \in {"text", "other"} \/ \E k \in 1 .. m - 1 : c \in Nested[k]
    <3>1. m \in DOMAIN Nested
      BY <1>3, NestedAssumption
    <3> QED BY <2>1, <3>1, NestedAssumption
  <2>3. ASSUME NEW c \in InnerRules(d) PROVE c \in Known(n - 1)
    <3>1. PICK k \in 1 .. m - 1 : c \in Nested[k]
      BY <2>2 DEF InnerRules
    <3>2. k \in 1 .. n - 1
      BY <1>3
    <3> QED BY <3>1, <3>2
  <2> QED BY <2>2, <2>3
<1> HIDE DEF Known, depth
<1> DEFINE Caused(n) == \A d \in Known(n) :
                          f[n][d] = "raise" => \E p \in g[n][d] : CanRaise(raw, p, p = top)
           Good == {n \in 0 .. depth : Caused(n)}
<1>5. 0 \in Good
  <2>1. Known(0) = {}
    BY DEF Known
  <2> QED BY <1>3, <2>1
<1>6. ASSUME NEW n \in 1 .. depth, n - 1 \in Good PROVE n \in Good
  <2>1. ASSUME NEW d \in Known(n), f[n][d] = "raise"
        PROVE  \E p \in g[n][d] : CanRaise(raw, p, p = top)
    <3>1. n \in 0 .. depth /\ Caused(n - 1)
      BY <1>3, <1>6
    <3>2. Answer(raw, d, f[n - 1]) = "raise"
      BY <1>1, <2>1, <3>1
    <3>3. g[n][d] = {d} \cup UNION {g[n - 1][c] : c \in InnerRules(d)}
      BY <1>2, <3>1
    <3> DEFINE checked == d = top
               answers == f[n - 1]
    <3>4. checked \in BOOLEAN /\ (checked => Validates(d)) /\ Answer(raw, d, answers) = "raise"
      BY <3>2
    <3>5. d.negation # <<>> => 1 \in DOMAIN d.negation
      BY <1>4
    <3> HIDE DEF checked, answers
    <3>6. CanRaise(raw, d, checked) \/ \E c \in InnerRules(d) : answers[c] = "raise"
      BY <3>4, <3>5, AnswerCanRaise
    <3>7. CASE CanRaise(raw, d, checked)
      BY <3>3, <3>7 DEF checked
    <3>8. CASE \E c \in InnerRules(d) : answers[c] = "raise"
      <4>1. PICK c \in InnerRules(d) : answers[c] = "raise"
        BY <3>8
      <4>2. c \in Known(n - 1) /\ f[n - 1][c] = "raise"
        BY <1>4, <4>1 DEF answers
      <4>3. PICK p \in g[n - 1][c] : CanRaise(raw, p, p = top)
        BY <3>1, <4>2
      <4>4. p \in g[n][d]
        BY <3>3, <4>1, <4>3
      <4> QED BY <4>3, <4>4
    <3> QED BY <3>6, <3>7, <3>8
  <2>2. n \in 0 .. depth
    BY <1>3
  <2> QED BY <2>1, <2>2
<1>7. Caused(depth)
  <2>1. \A n \in 0 .. depth : n \in Good
    <3> HIDE DEF Good
    <3> QED BY <1>3, <1>5, <1>6, Upwards
  <2>2. depth \in 0 .. depth
    BY <1>3
  <2> HIDE DEF Caused
  <2> QED BY <2>1, <2>2
<1>8. top \in Known(depth)
  BY NestedAssumption DEF Definitions, Known, depth
<1>9. f[depth][top] = "raise" /\ Parts(top) = g[depth][top]
  BY <1>1, <1>2
<1> QED BY <1>7, <1>8, <1>9

----------------------------------------------------------------------------
(* What a shell reads.                                                         *)

LEMMA ReadScan ==
  ASSUME NEW c \in Seq(Chars)
  PROVE  \E f : /\ \A i \in 0 .. Len(c) :
                     f[i] = IF i = 0 THEN Fresh ELSE ReadChar(f[i - 1], c[i])
                /\ ReadAll(c) = f[Len(c)]
<1> DEFINE base == Fresh
           Step(s, x) == ReadChar(s, x)
           Scan(m, f) == f = [i \in 0 .. m |-> IF i = 0 THEN base ELSE Step(f[i - 1], c[i])]
           Good == {m \in 0 .. Len(c) : \E f : Scan(m, f)}
<1>0. Len(c) \in Nat
  OBVIOUS
<1> DEFINE chosen == CHOOSE f : Scan(Len(c), f)
<1>5. ReadAll(c) = chosen[Len(c)]
  BY DEF ReadAll
<1> HIDE DEF base, Step, chosen
<1>1. 0 \in Good
  <2>1. Scan(0, [i \in 0 .. 0 |-> base])
    OBVIOUS
  <2> HIDE DEF Scan
  <2> QED BY <1>0, <2>1
<1>2. ASSUME NEW m \in 1 .. Len(c), m - 1 \in Good PROVE m \in Good
  <2>1. PICK g : Scan(m - 1, g)
    BY <1>2
  <2> DEFINE f == [i \in 0 .. m |-> IF i = m THEN Step(g[m - 1], c[m]) ELSE g[i]]
  <2>2. \A i \in 0 .. m - 1 : g[i] = IF i = 0 THEN base ELSE Step(g[i - 1], c[i])
    BY <2>1
  <2>3. ASSUME NEW i \in 0 .. m
        PROVE  f[i] = IF i = 0 THEN base ELSE Step(f[i - 1], c[i])
    <3>1. i # 0 => f[i - 1] = g[i - 1]
      OBVIOUS
    <3>2. i # m => f[i] = g[i] /\ i \in 0 .. m - 1
      OBVIOUS
    <3>3. i = m => f[i] = Step(g[m - 1], c[m]) /\ i # 0
      OBVIOUS
    <3> HIDE DEF f
    <3> QED BY <2>2, <3>1, <3>2, <3>3
  <2>4. Scan(m, f)
    <3>1. f = [i \in 0 .. m |-> f[i]]
      OBVIOUS
    <3> HIDE DEF f
    <3> QED BY <2>3, <3>1
  <2> HIDE DEF Scan, f
  <2> QED BY <1>0, <2>4
<1>3. \E f : Scan(Len(c), f)
  <2>1. Len(c) \in Good
    <3> HIDE DEF Good
    <3>1. \A i \in 0 .. Len(c) : i \in Good
      BY <1>0, <1>1, <1>2, Upwards
    <3> QED BY <1>0, <3>1
  <2> QED BY <2>1
<1>4. Scan(Len(c), chosen)
  BY <1>3 DEF chosen
<1>6. \A i \in 0 .. Len(c) : chosen[i] = IF i = 0 THEN base ELSE Step(chosen[i - 1], c[i])
  BY <1>4
<1> QED BY <1>5, <1>6 DEF base, Step

LEMMA ReadEmpty == ReadAll(<<>>) = Fresh
<1>1. <<>> \in Seq(Chars) /\ Len(<<>>) = 0
  BY EmptySeq
<1>2. PICK f : /\ \A i \in 0 .. 0 : f[i] = IF i = 0 THEN Fresh ELSE ReadChar(f[i - 1], <<>>[i])
               /\ ReadAll(<<>>) = f[0]
  BY <1>1, ReadScan
<1> QED BY <1>2

\* A shell reads on from what it has read.
LEMMA ReadAppend ==
  ASSUME NEW c \in Seq(Chars), NEW x \in Chars
  PROVE  ReadAll(Append(c, x)) = ReadChar(ReadAll(c), x)
<1> DEFINE d == Append(c, x)
<1>0. /\ d \in Seq(Chars) /\ Len(c) \in Nat /\ Len(d) = Len(c) + 1
      /\ (\A k \in 1 .. Len(c) : d[k] = c[k]) /\ d[Len(c) + 1] = x
  BY AppendFacts
<1> HIDE DEF d
<1>1. PICK f : /\ \A i \in 0 .. Len(c) :
                     f[i] = IF i = 0 THEN Fresh ELSE ReadChar(f[i - 1], c[i])
               /\ ReadAll(c) = f[Len(c)]
  BY ReadScan
<1>2. PICK g : /\ \A i \in 0 .. Len(d) :
                     g[i] = IF i = 0 THEN Fresh ELSE ReadChar(g[i - 1], d[i])
               /\ ReadAll(d) = g[Len(d)]
  BY <1>0, ReadScan
<1> DEFINE Same == {i \in 0 .. Len(c) : f[i] = g[i]}
<1>3. 0 \in Same
  BY <1>0, <1>1, <1>2
<1>4. ASSUME NEW i \in 1 .. Len(c), i - 1 \in Same PROVE i \in Same
  <2>1. d[i] = c[i]
    BY <1>0
  <2>2. f[i] = ReadChar(f[i - 1], c[i]) /\ g[i] = ReadChar(g[i - 1], d[i]) /\ f[i - 1] = g[i - 1]
    BY <1>0, <1>1, <1>2, <1>4
  <2> QED BY <2>1, <2>2
<1>5. \A i \in 0 .. Len(c) : i \in Same
  <2> HIDE DEF Same
  <2> QED BY <1>0, <1>3, <1>4, Upwards
<1>6. f[Len(c)] = g[Len(c)]
  BY <1>0, <1>5
<1>7. g[Len(d)] = ReadChar(g[Len(c)], d[Len(d)])
  <2>1. Len(d) \in 0 .. Len(d) /\ Len(d) # 0 /\ Len(d) - 1 = Len(c)
    BY <1>0
  <2> QED BY <1>2, <2>1
<1> QED BY <1>0, <1>1, <1>2, <1>6, <1>7 DEF d

\* What a reader is: what it reads is of the text, and out of a word it has nothing of one.
Item == [op : Seq(Chars), words : Seq(Seq(Chars))]
Modes == {"plain", "single", "double", "escape", "descape"}
Reader ==
    {s \in [items : Seq(Item), word : Seq(Chars), inWord : BOOLEAN, quoted : BOOLEAN, mode : Modes] :
        ~s.inWord => s.word = <<>> /\ ~s.quoted}

\* In the quotes of the sandbox's argument, with so much of it read.
Sandbox(words) == [op |-> <<>>, words |-> words]
Opened(items) == Append(items, Sandbox(<<<<"u">>>>))
Argument(items, word, mode) ==
    [items |-> items, word |-> word,
     inWord |-> TRUE, quoted |-> TRUE, mode |-> mode]
Inside(items, word) == Argument(items, word, "single")

\* Between runs, a shell reads the sandbox's name and is in its argument.
LEMMA WrapOpens ==
  ASSUME NEW q \in Seq(Chars), ReadAll(q) \in Reader, BetweenRuns(ReadAll(q))
  PROVE  LET lead == Append(Append(Append(q, "u"), "_"), "'")
         IN  lead \in Seq(Chars) /\ ReadAll(lead) = Inside(Opened(ReadAll(q).items), <<>>)
<1> DEFINE s0 == ReadAll(q)
           c1 == Append(q, "u")
           c2 == Append(c1, "_")
           c3 == Append(c2, "'")
           s1 == [s0 EXCEPT !.word = <<"u">>, !.inWord = TRUE]
           s2 == [items |-> Opened(s0.items), word |-> <<>>, inWord |-> FALSE, quoted |-> FALSE, mode |-> "plain"]
<1>0. "u" \in Chars /\ "_" \in Chars /\ "'" \in Chars
  BY CharAssumption
<1>1. /\ s0 \in [items : Seq(Item), word : Seq(Chars), inWord : BOOLEAN, quoted : BOOLEAN, mode : Modes]
      /\ s0.word = <<>> /\ s0.mode = "plain" /\ ~s0.inWord
      /\ s0.items # <<>> => s0.items[Len(s0.items)].op # <<>>
  BY DEF Reader, BetweenRuns
<1>2. c1 \in Seq(Chars)
  BY <1>0, AppendFacts
<1>3. c2 \in Seq(Chars)
  BY <1>0, <1>2, AppendFacts
<1>4. c3 \in Seq(Chars)
  BY <1>0, <1>3, AppendFacts
<1>5. ReadAll(c1) = s1
  <2>1. ReadAll(c1) = ReadChar(s0, "u")
    BY <1>0, ReadAppend
  <2> HIDE DEF s0
  <2>2. ReadChar(s0, "u") = Put(s0, "u")
    BY <1>1 DEF ReadChar, ReadPlain, OperatorChars, Single
  <2>3. Append(s0.word, "u") = <<"u">>
    BY <1>1
  <2>4. Put(s0, "u") = s1
    BY <2>3 DEF Put
  <2> QED BY <2>1, <2>2, <2>4
<1> HIDE DEF s0
<1>s. /\ s1.mode = "plain" /\ s1.inWord /\ s1.items = s0.items /\ s1.word = <<"u">>
      /\ s1 \in [items : Seq(Item), word : Seq(Chars), inWord : BOOLEAN, quoted : BOOLEAN, mode : Modes]
  <2>1. <<"u">> \in Seq(Chars)
    BY <1>0, OneIsSeq
  <2> QED BY <1>1, <2>1
<1> HIDE DEF s1
<1>6. ReadAll(c2) = s2
  <2>1. ReadAll(c2) = ReadChar(s1, "_")
    BY <1>0, <1>2, <1>5, ReadAppend
  <2>2. ReadChar(s1, "_") = EndWord(s1)
    BY <1>s DEF ReadChar, ReadPlain, OperatorChars, Single
  <2>3. AddWord(s0.items, <<"u">>) = Opened(s0.items)
    BY <1>1 DEF AddWord, Opened, Sandbox
  <2>4. EndWord(s1) = [s1 EXCEPT !.items = Opened(s0.items), !.word = <<>>, !.inWord = FALSE, !.quoted = FALSE]
    <3>1. EndWord(s1) = [s1 EXCEPT !.items = AddWord(s1.items, s1.word), !.word = <<>>,
                                   !.inWord = FALSE, !.quoted = FALSE]
      BY <1>s DEF EndWord
    <3> QED BY <1>s, <2>3, <3>1
  <2>5. EndWord(s1) = s2
    <3> DEFINE t == EndWord(s1)
               items == Opened(s0.items)
    <3>1. t = [s1 EXCEPT !.items = items, !.word = <<>>, !.inWord = FALSE, !.quoted = FALSE]
      BY <2>4
    <3> HIDE DEF t, items
    <3>2. t = [items |-> items, word |-> <<>>, inWord |-> FALSE, quoted |-> FALSE, mode |-> "plain"]
      BY <1>s, <3>1
    <3> QED BY <3>2 DEF t, items
  <2> QED BY <2>1, <2>2, <2>5
<1>7. ReadAll(c3) = Inside(Opened(s0.items), <<>>)
  <2>1. ReadAll(c3) = ReadChar(s2, "'")
    BY <1>0, <1>3, <1>6, ReadAppend
  <2> DEFINE items == Opened(s0.items)
  <2> HIDE DEF items
  <2>2. s2 = [items |-> items, word |-> <<>>, inWord |-> FALSE, quoted |-> FALSE, mode |-> "plain"]
    BY DEF items
  <2> HIDE DEF s2
  <2>3. ReadChar(s2, "'") = Quote(s2, "single")
    BY <2>2 DEF ReadChar, ReadPlain, OperatorChars, Single
  <2>4. Quote(s2, "single") = Inside(items, <<>>)
    <3>1. Quote(s2, "single") = [s2 EXCEPT !.mode = "single", !.inWord = TRUE, !.quoted = TRUE]
      BY DEF Quote
    <3> QED BY <2>2, <3>1 DEF Inside, Argument
  <2> QED BY <2>1, <2>3, <2>4 DEF items
<1> QED BY <1>4, <1>7 DEF s0

\* Inside the quotes every character is read as itself, but the closing quote.
LEMMA ReadInside ==
  ASSUME NEW items, NEW word, NEW x, x # "'"
  PROVE  ReadChar(Inside(items, word), x) = Inside(items, Append(word, x))
<1>1. ReadChar(Inside(items, word), x) = Put(Inside(items, word), x)
  <2>1. Inside(items, word).mode = "single"
    BY DEF Inside, Argument
  <2> QED BY <2>1 DEF ReadChar, ReadSingle
<1>2. Put(Inside(items, word), x) = [Inside(items, word) EXCEPT !.word = Append(word, x), !.inWord = TRUE]
  BY DEF Put, Inside, Argument
<1> QED BY <1>1, <1>2 DEF Inside, Argument

LEMMA ModeArgument ==
  ASSUME NEW items, NEW word
  PROVE  /\ [Argument(items, word, "single") EXCEPT !.mode = "plain"] = Argument(items, word, "plain")
         /\ [Argument(items, word, "plain") EXCEPT !.mode = "escape"] = Argument(items, word, "escape")
<1>1. ASSUME NEW v, v = [Argument(items, word, "single") EXCEPT !.mode = "plain"]
      PROVE  v = Argument(items, word, "plain")
  BY <1>1 DEF Argument
<1>2. ASSUME NEW v, v = [Argument(items, word, "plain") EXCEPT !.mode = "escape"]
      PROVE  v = Argument(items, word, "escape")
  BY <1>2 DEF Argument
<1> QED BY <1>1, <1>2

LEMMA ReadClosing ==
  ASSUME NEW items, NEW word
  PROVE  ReadChar(Inside(items, word), "'") = Argument(items, word, "plain")
<1>1. Inside(items, word).mode = "single"
  BY DEF Inside, Argument
<1>2. ReadChar(Inside(items, word), "'") = [Inside(items, word) EXCEPT !.mode = "plain"]
  BY <1>1 DEF ReadChar, ReadSingle, InMode
<1> QED BY <1>2, ModeArgument DEF Inside

LEMMA QuoteArgument ==
  ASSUME NEW items, NEW word, NEW from, NEW mode
  PROVE  Quote(Argument(items, word, from), mode) = Argument(items, word, mode)
<1>1. Quote(Argument(items, word, from), mode)
        = [Argument(items, word, from) EXCEPT !.mode = mode, !.inWord = TRUE, !.quoted = TRUE]
  BY DEF Quote
<1> QED BY <1>1 DEF Argument

\* A quote is closed, escaped and opened again.
LEMMA ReadQuote ==
  ASSUME NEW items, NEW word
  PROVE  ReadChar(ReadChar(ReadChar(ReadChar(Inside(items, word), "'"), "\\"), "'"), "'")
           = Inside(items, Append(word, "'"))
<1>1. ReadChar(Inside(items, word), "'") = Argument(items, word, "plain")
  BY ReadClosing
<1>2. ReadChar(Argument(items, word, "plain"), "\\") = Argument(items, word, "escape")
  <2>1. Argument(items, word, "plain").mode = "plain"
    BY DEF Inside, Argument
  <2>2. ReadChar(Argument(items, word, "plain"), "\\") = [Argument(items, word, "plain") EXCEPT !.mode = "escape"]
    <3> QED BY <2>1 DEF ReadChar, ReadPlain, InMode, OperatorChars, Single
  <2>3. [Argument(items, word, "plain") EXCEPT !.mode = "escape"] = Argument(items, word, "escape")
    BY ModeArgument
  <2> QED BY <2>2, <2>3
<1>3. ReadChar(Argument(items, word, "escape"), "'") = Argument(items, Append(word, "'"), "plain")
  <2>1. Argument(items, word, "escape").mode = "escape"
    BY DEF Inside, Argument
  <2>2. ReadChar(Argument(items, word, "escape"), "'") = Quote(Put(Argument(items, word, "escape"), "'"), "plain")
    <3> QED BY <2>1 DEF ReadChar, ReadEscape
  <2>3. Quote(Put(Argument(items, word, "escape"), "'"), "plain") = Argument(items, Append(word, "'"), "plain")
    <3>1. Put(Argument(items, word, "escape"), "'")
             = [Argument(items, word, "escape") EXCEPT !.word = Append(word, "'"), !.inWord = TRUE]
      BY DEF Put, Argument
    <3>2. Put(Argument(items, word, "escape"), "'") = Argument(items, Append(word, "'"), "escape")
      BY <3>1 DEF Argument
    <3> QED BY <3>2, QuoteArgument
  <2> QED BY <2>2, <2>3
<1>4. ReadChar(Argument(items, Append(word, "'"), "plain"), "'") = Inside(items, Append(word, "'"))
  <2> DEFINE w == Append(word, "'")
  <2> HIDE DEF w
  <2>1. Argument(items, w, "plain").mode = "plain"
    BY DEF Inside, Argument
  <2>2. ReadChar(Argument(items, w, "plain"), "'") = Quote(Argument(items, w, "plain"), "single")
    <3> QED BY <2>1 DEF ReadChar, ReadPlain, OperatorChars, Single
  <2>3. Quote(Argument(items, w, "plain"), "single") = Inside(items, w)
    BY QuoteArgument DEF Inside
  <2> QED BY <2>2, <2>3 DEF w
<1> QED BY <1>1, <1>2, <1>3, <1>4

\* What a text is written as between quotes.
Escaped(text) ==
    [i \in DOMAIN text |-> IF text[i] = "'" THEN <<"'", "\\", "'", "'">> ELSE <<text[i]>>]

LEMMA EscapedIsSeq ==
  ASSUME NEW text \in Seq(Chars)
  PROVE  /\ Escaped(text) \in Seq(Seq(Chars)) /\ Len(Escaped(text)) = Len(text)
         /\ \A i \in 1 .. Len(text) : text[i] \in Chars
         /\ \A i \in 1 .. Len(text) :
              Escaped(text)[i] = IF text[i] = "'" THEN <<"'", "\\", "'", "'">> ELSE <<text[i]>>
<1>0. Len(text) \in Nat /\ DOMAIN text = 1 .. Len(text)
  BY EmptyIffNone
<1>1. "'" \in Chars /\ "\\" \in Chars
  BY CharAssumption
<1>2. <<"'", "\\", "'", "'">> \in Seq(Chars)
  BY <1>1
<1>3. \A i \in 1 .. Len(text) : text[i] \in Chars /\ <<text[i]>> \in Seq(Chars)
  BY ElementOfSeq, OneIsSeq
<1>4. Escaped(text) \in [1 .. Len(text) -> Seq(Chars)]
  <2> DEFINE four == <<"'", "\\", "'", "'">>
  <2>1. Escaped(text) = [i \in 1 .. Len(text) |-> IF text[i] = "'" THEN four ELSE <<text[i]>>]
    BY <1>0 DEF Escaped
  <2> HIDE DEF four
  <2>2. four \in Seq(Chars)
    BY <1>2 DEF four
  <2> QED BY <1>3, <2>1, <2>2
<1>5. Escaped(text) \in Seq(Seq(Chars)) /\ Len(Escaped(text)) = Len(text)
  BY <1>0, <1>4, FunctionIsSeq
<1> QED BY <1>0, <1>3, <1>5 DEF Escaped

LEMMA EscapeIsSeq ==
  ASSUME NEW text \in Seq(Chars)
  PROVE  /\ Escape(text) = <<"'">> \o FlattenSeq(Escaped(text)) \o <<"'">>
         /\ Escape(text) \in Seq(Chars) /\ WrapOf(text) \in Seq(Chars)
<1>1. Escape(text) = <<"'">> \o FlattenSeq(Escaped(text)) \o <<"'">>
  BY DEF Escape, Escaped
<1>2. FlattenSeq(Escaped(text)) \in Seq(Chars)
  BY EscapedIsSeq, FlattenIsSeq
<1>3. "'" \in Chars /\ "u" \in Chars /\ "_" \in Chars
  BY CharAssumption
<1>4. <<"'">> \in Seq(Chars) /\ <<"u", "_">> \in Seq(Chars)
  BY <1>3, OneIsSeq, TwoIsSeq
<1>5. Escape(text) \in Seq(Chars)
  <2>1. <<"'">> \o FlattenSeq(Escaped(text)) \in Seq(Chars)
    BY <1>2, <1>4, ConcatProperties
  <2> QED BY <1>1, <1>4, <2>1, ConcatProperties
<1>6. WrapOf(text) \in Seq(Chars)
  BY <1>4, <1>5, ConcatProperties DEF WrapOf, Prefix
<1> QED BY <1>1, <1>5, <1>6

LEMMA TwoAppend ==
  ASSUME NEW x, NEW y
  PROVE  Append(<<x>>, y) = <<x, y>>
<1> DEFINE S == {x, y}
<1>1. x \in S /\ y \in S
  OBVIOUS
<1> HIDE DEF S
<1>2. <<x>> \in Seq(S) /\ Len(<<x>>) = 1 /\ <<x>>[1] = x
  BY <1>1, OneIsSeq
<1>3. <<x, y>> \in Seq(S) /\ Len(<<x, y>>) = 2 /\ <<x, y>>[1] = x /\ <<x, y>>[2] = y
  BY <1>1, TwoIsSeq
<1> DEFINE s == <<x>>
           t == <<x, y>>
<1> HIDE DEF s, t
<1>4. /\ s \in Seq(S) /\ Len(s) = 1 /\ s[1] = x
      /\ t \in Seq(S) /\ Len(t) = Len(s) + 1 /\ t[1] = x /\ t[Len(s) + 1] = y
  BY <1>2, <1>3 DEF s, t
<1>5. \A k \in 1 .. Len(s) : t[k] = s[k]
  BY <1>4
<1>6. t = Append(s, y)
  BY <1>1, <1>4, <1>5, IsAppend
<1> QED BY <1>6 DEF s, t

LEMMA FourMore ==
  ASSUME NEW S, NEW s \in Seq(S), NEW a \in S, NEW b \in S
  PROVE  s \o <<a, b, a, a>> = Append(Append(Append(Append(s, a), b), a), a)
<1>1. <<a, b>> \in Seq(S) /\ <<a, b, a>> \in Seq(S)
  OBVIOUS
<1>6. Append(<<a>>, b) = <<a, b>>
  BY TwoAppend
<1> DEFINE two == <<a, b>>
           three == <<a, b, a>>
           four == <<a, b, a, a>>
<1>9. two \in Seq(S) /\ Len(two) = 2 /\ two[1] = a /\ two[2] = b
  BY TwoIsSeq
<1>10. three \in Seq(S) /\ Len(three) = 3 /\ three[1] = a /\ three[2] = b /\ three[3] = a
  OBVIOUS
<1>11. /\ four \in Seq(S) /\ Len(four) = 4
       /\ four[1] = a /\ four[2] = b /\ four[3] = a /\ four[4] = a
  OBVIOUS
<1> HIDE DEF two, three, four
<1>12. \A k \in 1 .. 2 : k = 1 \/ k = 2
  OBVIOUS
<1>13. \A k \in 1 .. 3 : k = 1 \/ k = 2 \/ k = 3
  OBVIOUS
<1>14. (\A k \in 1 .. Len(two) : three[k] = two[k]) /\ Len(three) = Len(two) + 1 /\ three[Len(two) + 1] = a
  BY <1>9, <1>10, <1>12
<1>15. (\A k \in 1 .. Len(three) : four[k] = three[k]) /\ Len(four) = Len(three) + 1 /\ four[Len(three) + 1] = a
  BY <1>10, <1>11, <1>13
<1>7. three = Append(two, a)
  BY <1>9, <1>10, <1>14, IsAppend
<1>8. four = Append(three, a)
  BY <1>10, <1>11, <1>15, IsAppend
<1>2. s \o <<a>> = Append(s, a) /\ <<a>> \in Seq(S)
  BY OneIsSeq, AppendIsConcat
<1>3. s \o Append(<<a>>, b) = Append(s \o <<a>>, b)
  BY <1>2, ConcatAppend
<1>4. s \o Append(<<a, b>>, a) = Append(s \o <<a, b>>, a)
  BY <1>1, ConcatAppend
<1>5. s \o Append(<<a, b, a>>, a) = Append(s \o <<a, b, a>>, a)
  BY <1>1, ConcatAppend
<1> QED BY <1>2, <1>3, <1>4, <1>5, <1>6, <1>7, <1>8 DEF two, three, four

\* The text a wrap begins with, and what stands in its quotes, character by character.
WrapLead == Append(Append(Append(<<>>, "u"), "_"), "'")

LEMMA WrapIs ==
  ASSUME NEW text \in Seq(Chars)
  PROVE  /\ WrapLead \in Seq(Chars)
         /\ WrapOf(text) = Append(WrapLead \o FlattenSeq(Escaped(text)), "'")
<1> DEFINE body == FlattenSeq(Escaped(text))
           quote == <<"'">>
<1>0. "'" \in Chars /\ "u" \in Chars /\ "_" \in Chars
  BY CharAssumption
<1>1. quote \in Seq(Chars) /\ Prefix \in Seq(Chars)
  BY <1>0, OneIsSeq, TwoIsSeq DEF Prefix
<1>2. body \in Seq(Chars)
  BY EscapedIsSeq, FlattenIsSeq
<1>3. Append(Append(<<>>, "u"), "_") = Prefix
  <2>1. Append(<<>>, "u") = <<"u">>
    OBVIOUS
  <2> QED BY <2>1, TwoAppend DEF Prefix
<1>4. WrapLead = Append(Prefix, "'")
  BY <1>3 DEF WrapLead
<1>5. WrapLead = Prefix \o quote
  BY <1>0, <1>1, <1>4, AppendIsConcat
<1>6. Escape(text) = quote \o body \o quote
  BY EscapeIsSeq
<1>7. WrapOf(text) = Prefix \o Escape(text)
  BY DEF WrapOf
<1>8. WrapLead \in Seq(Chars)
  BY <1>0, <1>1, <1>4, AppendFacts
<1>9. WrapLead \o body \in Seq(Chars) /\ Append(WrapLead \o body, "'") = (WrapLead \o body) \o quote
  BY <1>0, <1>2, <1>8, ConcatProperties, AppendIsConcat
<1> HIDE DEF body
<1>10. quote \o body \in Seq(Chars)
  BY <1>1, <1>2, ConcatProperties
<1> HIDE DEF quote
<1>11. Prefix \o ((quote \o body) \o quote) = (Prefix \o (quote \o body)) \o quote
  BY <1>1, <1>10, RegroupChars
<1>12. Prefix \o (quote \o body) = (Prefix \o quote) \o body
  BY <1>1, <1>2, RegroupChars
<1>13. WrapOf(text) = (WrapLead \o body) \o quote
  BY <1>5, <1>6, <1>7, <1>11, <1>12
<1> QED BY <1>8, <1>9, <1>13 DEF body

\* Character by character, what a shell has of the argument is what was quoted.
LEMMA ReadWrapped ==
  ASSUME NEW text \in Seq(Chars), NEW i \in 0 .. Len(text),
         NEW lead \in Seq(Chars), NEW items, ReadAll(lead) = Inside(items, <<>>)
  PROVE  ReadAll(lead \o FlattenSeq(SubSeq(Escaped(text), 1, i)))
           = Inside(items, SubSeq(text, 1, i))
<1> DEFINE pieces(k) == SubSeq(Escaped(text), 1, k)
           flat(k) == FlattenSeq(pieces(k))
           Good == {k \in 0 .. Len(text) : ReadAll(lead \o flat(k)) = Inside(items, SubSeq(text, 1, k))}
<1>0. Len(text) \in Nat /\ lead \in Seq(Chars)
  OBVIOUS
<1>1. Escaped(text) \in Seq(Seq(Chars)) /\ Len(Escaped(text)) = Len(text)
  BY EscapedIsSeq
<1>2. \A k \in 0 .. Len(text) : flat(k) \in Seq(Chars)
  <2>1. \A k \in 0 .. Len(text) : pieces(k) \in Seq(Seq(Chars))
    BY <1>0, <1>1, CutIsSeq
  <2> HIDE DEF pieces
  <2> QED BY <2>1, FlattenIsSeq
<1>3. 0 \in Good
  <2>1. pieces(0) = <<>> /\ SubSeq(text, 1, 0) = <<>>
    BY <1>0, <1>1, SubSeqProperties, EmptyIffNone
  <2>2. flat(0) = <<>>
    BY <2>1, FlattenEmpty
  <2>3. lead \o flat(0) = lead
    BY <1>0, <2>2, ConcatEmptySeq
  <2>4. ReadAll(lead) = Inside(items, <<>>)
    OBVIOUS
  <2> HIDE DEF flat
  <2>5. 0 \in 0 .. Len(text)
    BY <1>0
  <2> QED BY <2>1, <2>3, <2>4, <2>5
<1>4. ASSUME NEW k \in 1 .. Len(text), k - 1 \in Good PROVE k \in Good
  <2> DEFINE before == lead \o flat(k - 1)
             had == SubSeq(text, 1, k - 1)
  <2>1. flat(k) = flat(k - 1) \o Escaped(text)[k]
    BY <1>1, FlattenUpto
  <2>2. before \in Seq(Chars) /\ flat(k - 1) \in Seq(Chars)
    <3>1. k - 1 \in 0 .. Len(text)
      BY <1>0
    <3> HIDE DEF flat
    <3> QED BY <1>0, <1>2, <3>1, ConcatProperties
  <2>3. Escaped(text)[k] \in Seq(Chars)
    BY <1>1, ElementOfSeq
  <2>4. lead \o flat(k) = before \o Escaped(text)[k]
    <3> DEFINE one == Escaped(text)[k]
               past == flat(k - 1)
    <3>1. lead \o flat(k) = lead \o (past \o one)
      BY <2>1
    <3>2. past \in Seq(Chars) /\ one \in Seq(Chars)
      BY <2>2, <2>3
    <3>3. before = lead \o past
      OBVIOUS
    <3> HIDE DEF past, one, before
    <3>4. lead \o (past \o one) = before \o one
      <4>1. lead \in Seq(Chars)
        BY <1>0
      <4>2. lead \o (past \o one) = (lead \o past) \o one
        BY ONLY <3>2, <4>1, RegroupChars
      <4> QED BY <3>3, <4>2
    <3> QED BY <3>1, <3>4 DEF one
  <2>5. ReadAll(before) = Inside(items, had)
    BY <1>4
  <2>6. text[k] \in Chars /\ SubSeq(text, 1, k) = Append(had, text[k])
    BY PrefixGrows
  <2>7. "'" \in Chars /\ "\\" \in Chars
    BY CharAssumption
  <2>8. Escaped(text)[k] = IF text[k] = "'" THEN <<"'", "\\", "'", "'">> ELSE <<text[k]>>
    BY EscapedIsSeq
  <2> HIDE DEF before, had
  <2>9. ReadAll(before \o Escaped(text)[k]) = Inside(items, Append(had, text[k]))
    <3>1. CASE text[k] # "'"
      <4>1. before \o Escaped(text)[k] = Append(before, text[k])
        BY <2>2, <2>6, <2>8, <3>1, AppendIsConcat
      <4>2. ReadAll(Append(before, text[k])) = ReadChar(Inside(items, had), text[k])
        BY <2>2, <2>5, <2>6, ReadAppend
      <4> QED BY <3>1, <4>1, <4>2, ReadInside
    <3>2. CASE text[k] = "'"
      <4> DEFINE b1 == Append(before, "'")
                 b2 == Append(b1, "\\")
                 b3 == Append(b2, "'")
                 b4 == Append(b3, "'")
      <4>1. b1 \in Seq(Chars)
        BY <2>2, <2>7, AppendFacts
      <4>2. b2 \in Seq(Chars)
        BY <2>7, <4>1, AppendFacts
      <4>3. b3 \in Seq(Chars)
        BY <2>7, <4>2, AppendFacts
      <4>4. before \o <<"'", "\\", "'", "'">> = b4
        BY <2>2, <2>7, FourMore
      <4>5. ReadAll(b1) = ReadChar(Inside(items, had), "'")
        BY <2>2, <2>5, <2>7, ReadAppend
      <4>6. ReadAll(b2) = ReadChar(ReadAll(b1), "\\")
        BY <2>7, <4>1, ReadAppend
      <4>7. ReadAll(b3) = ReadChar(ReadAll(b2), "'")
        BY <2>7, <4>2, ReadAppend
      <4>8. ReadAll(b4) = ReadChar(ReadAll(b3), "'")
        BY <2>7, <4>3, ReadAppend
      <4> HIDE DEF b1, b2, b3, b4
      <4>9. ReadAll(b4) = Inside(items, Append(had, "'"))
        BY <4>5, <4>6, <4>7, <4>8, ReadQuote
      <4> QED BY <2>8, <3>2, <4>4, <4>9
    <3> QED BY <3>1, <3>2
  <2>10. ReadAll(lead \o flat(k)) = Inside(items, SubSeq(text, 1, k))
    <3> HIDE DEF flat
    <3> QED BY <2>4, <2>6, <2>9
  <2> QED BY <1>0, <2>10
<1>5. \A k \in 0 .. Len(text) : k \in Good
  <2> HIDE DEF Good
  <2> QED BY <1>0, <1>3, <1>4, Upwards
<1> QED BY <1>5

LEMMA AppendChars ==
  \A s \in Seq(Chars), t \in Seq(Chars), x \in Chars :
    Append(t, x) \in Seq(Chars) /\ s \o Append(t, x) = Append(s \o t, x)
<1> TAKE s \in Seq(Chars), t \in Seq(Chars), x \in Chars
<1> QED BY ConcatAppend, AppendFacts

LEMMA ThreeMore ==
  ASSUME NEW s \in Seq(Chars), NEW a \in Chars, NEW b \in Chars, NEW x \in Chars
  PROVE  s \o Append(Append(Append(<<>>, a), b), x) = Append(Append(Append(s, a), b), x)
<1> DEFINE one == <<a>>
           two == Append(one, b)
<1>1. one \in Seq(Chars) /\ s \o one = Append(s, a)
  BY OneIsSeq, AppendIsConcat
<1>2. Append(<<>>, a) = one
  OBVIOUS
<1> HIDE DEF one
<1>3. two \in Seq(Chars) /\ s \o two = Append(s \o one, b)
  BY <1>1, AppendFacts, ConcatAppend
<1> HIDE DEF two
<1>4. s \o Append(two, x) = Append(s \o two, x)
  <2>1. two \in Seq(Chars)
    BY <1>3
  <2> QED BY ONLY <2>1, s \in Seq(Chars), x \in Chars, ConcatAppend
<1> QED BY <1>1, <1>2, <1>3, <1>4 DEF two

\* Between runs, a wrapped text is one run: the sandbox and the text.
LEMMA ReadWrap ==
  ASSUME NEW q \in Seq(Chars), NEW text \in Seq(Chars), ReadAll(q) \in Reader, BetweenRuns(ReadAll(q))
  PROVE  /\ ReadAll(q \o WrapOf(text)) = Argument(Opened(ReadAll(q).items), text, "plain")
         /\ EndWord(ReadAll(q \o WrapOf(text))).items
              = Append(ReadAll(q).items, Sandbox(<<<<"u">>, text>>))
<1> DEFINE lead == q \o WrapLead
           had == ReadAll(q).items
           items == Opened(had)
           body == FlattenSeq(Escaped(text))
<1>0. /\ "u" \in Chars /\ "_" \in Chars /\ "'" \in Chars /\ Len(text) \in Nat
      /\ WrapLead \in Seq(Chars) /\ WrapOf(text) = Append(WrapLead \o body, "'")
  BY CharAssumption, EmptyIffNone, WrapIs
<1>1. lead \in Seq(Chars) /\ ReadAll(lead) = Inside(items, <<>>)
  <2>4. lead = Append(Append(Append(q, "u"), "_"), "'")
    BY <1>0, ThreeMore DEF WrapLead
  <2> QED BY <2>4, WrapOpens
<1>2. body \in Seq(Chars)
  BY EscapedIsSeq, FlattenIsSeq
<1>3. ReadAll(lead \o body) = Inside(items, text)
  <2>1. Len(text) \in 0 .. Len(text) /\ SubSeq(text, 1, Len(text)) = text
    <3>1. Len(text) \in Nat
      BY <1>0
    <3> QED BY ONLY <3>1, text \in Seq(Chars), SubSeqFull
  <2>2. SubSeq(Escaped(text), 1, Len(text)) = Escaped(text)
    BY EscapedIsSeq, SubSeqFull
  <2> DEFINE e == SubSeq(Escaped(text), 1, Len(text))
             t == SubSeq(text, 1, Len(text))
  <2> HIDE DEF lead, items
  <2>3. ReadAll(lead \o FlattenSeq(e)) = Inside(items, t)
    BY <1>1, <2>1, ReadWrapped
  <2>4. e = Escaped(text) /\ t = text
    BY <2>1, <2>2
  <2> HIDE DEF e, t
  <2> QED BY <2>3, <2>4
<1>4. q \o WrapOf(text) = Append(lead \o body, "'") /\ lead \o body \in Seq(Chars)
  <2> HIDE DEF body
  <2>1. WrapLead \o body \in Seq(Chars) /\ lead \o body \in Seq(Chars)
    BY <1>0, <1>1, <1>2, ConcatProperties
  <2>2. q \o Append(WrapLead \o body, "'") = Append(q \o (WrapLead \o body), "'")
    BY <1>0, <2>1, AppendChars
  <2>3. q \o (WrapLead \o body) = lead \o body
    BY <1>0, <1>2, RegroupChars
  <2> QED BY <1>0, <2>1, <2>2, <2>3
<1> HIDE DEF body, lead, items
<1>5. ReadAll(q \o WrapOf(text)) = Argument(items, text, "plain")
  <2>1. ReadAll(q \o WrapOf(text)) = ReadChar(Inside(items, text), "'")
    BY <1>0, <1>3, <1>4, ReadAppend
  <2> QED BY <2>1, ReadClosing
<1>6. EndWord(Argument(items, text, "plain")).items = AddWord(items, text)
  BY DEF EndWord, Argument
<1>7. AddWord(items, text) = Append(had, Sandbox(<<<<"u">>, text>>))
  <2> DEFINE one == Sandbox(<<<<"u">>>>)
             both == Sandbox(<<<<"u">>, text>>)
             n == Len(had) + 1
  <2>1. had \in Seq(Item) /\ one \in Item /\ both \in Item
    <3>1. <<"u">> \in Seq(Chars) /\ <<>> \in Seq(Chars)
      BY <1>0, OneIsSeq, EmptySeq
    <3>2. <<<<"u">>>> \in Seq(Seq(Chars)) /\ <<<<"u">>, text>> \in Seq(Seq(Chars))
      BY <3>1, OneIsSeq, TwoIsSeq
    <3>3. had \in Seq(Item)
      BY DEF Reader
    <3> QED BY <3>1, <3>2, <3>3 DEF Sandbox, Item
  <2>2. items = Append(had, one)
    BY DEF items, Opened
  <2>3. [one EXCEPT !.words = Append(@, text)] = both
    <3>1. one = [op |-> <<>>, words |-> <<<<"u">>>>] /\ both = [op |-> <<>>, words |-> <<<<"u">>, text>>]
      BY DEF Sandbox
    <3>2. Append(<<<<"u">>>>, text) = <<<<"u">>, text>>
      BY TwoAppend
    <3> DEFINE more == Append(<<<<"u">>>>, text)
    <3>3. [one EXCEPT !.words = Append(@, text)] = [op |-> <<>>, words |-> more]
      <4>1. one.words = <<<<"u">>>>
        BY <3>1
      <4>2. [one EXCEPT !.words = Append(@, text)] = [one EXCEPT !.words = more]
        BY <4>1
      <4> HIDE DEF more
      <4> QED BY <3>1, <4>2
    <3> QED BY <3>1, <3>2, <3>3
  <2>4. one.op = <<>>
    BY DEF Sandbox
  <2> HIDE DEF one, both
  <2>5. /\ items \in Seq(Item) /\ items # <<>> /\ Len(had) \in Nat /\ Len(items) = n
        /\ \A k \in 1 .. Len(had) : items[k] = had[k]
        /\ items[n] = one
    BY <2>1, <2>2, AppendFacts
  <2>6. AddWord(items, text) = [items EXCEPT ![n] = both]
    <3>1. AddWord(items, text) = [items EXCEPT ![n].words = Append(@, text)]
      BY <2>4, <2>5 DEF AddWord
    <3>2. [items EXCEPT ![n].words = Append(@, text)] = [items EXCEPT ![n] = [items[n] EXCEPT !.words = Append(@, text)]]
      OBVIOUS
    <3> QED BY <2>3, <2>5, <3>1, <3>2
  <2>7. [items EXCEPT ![n] = both] = Append(had, both)
    <3> DEFINE e == [items EXCEPT ![n] = both]
    <3>1. /\ e \in Seq(Item) /\ Len(e) = n /\ e[n] = both
          /\ \A k \in 1 .. Len(had) : e[k] = items[k]
      <4>1. n \in 1 .. Len(items) /\ DOMAIN items = 1 .. Len(items)
        BY <2>5
      <4>2. e \in Seq(Item) /\ Len(e) = Len(items)
        BY <2>1, <2>5, <4>1, ExceptSeq
      <4>3. e[n] = both /\ \A k \in 1 .. Len(had) : e[k] = items[k]
        BY <2>5, <4>1
      <4> QED BY <2>5, <4>2, <4>3
    <3> HIDE DEF e
    <3>2. \A k \in 1 .. Len(had) : e[k] = had[k]
      BY <2>5, <3>1
    <3>3. e = Append(had, both)
      BY <2>1, <3>1, <3>2, IsAppend
    <3> QED BY <3>3 DEF e
  <2> QED BY <2>6, <2>7 DEF both
<1> QED BY <1>5, <1>6, <1>7 DEF items

LEMMA FreshIsReader == Fresh \in Reader /\ BetweenRuns(Fresh)
<1>1. <<>> \in Seq(Chars) /\ <<>> \in Seq(Item)
  BY EmptySeq
<1>2. Fresh \in [items : Seq(Item), word : Seq(Chars), inWord : BOOLEAN, quoted : BOOLEAN, mode : Modes]
  <2> DEFINE none == <<>>
  <2>1. Fresh = [items |-> none, word |-> none, inWord |-> FALSE, quoted |-> FALSE, mode |-> "plain"]
    BY DEF Fresh
  <2>2. none \in Seq(Chars) /\ none \in Seq(Item) /\ "plain" \in Modes
    BY <1>1 DEF Modes
  <2> HIDE DEF none
  <2> QED BY <2>1, <2>2
<1>3. Fresh.word = <<>> /\ ~Fresh.quoted /\ ~Fresh.inWord /\ Fresh.mode = "plain" /\ Fresh.items = <<>>
  BY DEF Fresh
<1> QED BY <1>2, <1>3 DEF Reader, BetweenRuns

\* Whatever is wrapped is one argument to a shell: the sandbox and the text.
LEMMA WrapIsOneArgument ==
  ASSUME NEW text \in Seq(Chars)
  PROVE  OneWord(WrapOf(text)) /\ Reading(WrapOf(text))[1].words = <<<<"u">>, text>>
<1> DEFINE w == WrapOf(text)
           run == Sandbox(<<<<"u">>, text>>)
<1>1. w \in Seq(Chars) /\ <<>> \in Seq(Chars)
  BY EscapeIsSeq, EmptySeq
<1> HIDE DEF w
<1>2. <<>> \o w = w
  BY <1>1, ConcatEmptySeq
<1>3. ReadAll(w) = Argument(Opened(<<>>), text, "plain") /\ EndWord(ReadAll(w)).items = Append(<<>>, run)
  <2>1. ReadAll(<<>>) \in Reader /\ BetweenRuns(ReadAll(<<>>)) /\ ReadAll(<<>>).items = <<>>
    <3>1. Fresh.items = <<>>
      BY DEF Fresh
    <3> QED BY <3>1, ReadEmpty, FreshIsReader
  <2> QED BY <1>1, <1>2, <2>1, ReadWrap DEF w
<1>4. Complete(w)
  BY <1>3 DEF Complete, Argument
<1>5. Append(<<>>, run) = <<run>> /\ run.op = <<>> /\ run.words = <<<<"u">>, text>>
  BY DEF Sandbox
<1>6. Reading(w) = <<run>>
  BY <1>3, <1>5 DEF Reading
<1> HIDE DEF run
<1>7. Len(Reading(w)) = 1 /\ Reading(w)[1] = run
  BY <1>6
<1> QED BY <1>4, <1>5, <1>7 DEF OneWord, w

----------------------------------------------------------------------------
(* Two shells side by side, that read alike but for the wrapped runs.          *)

\* One more item read, or the last one changed.
Grown(items, more, new) ==
    /\ items \in Seq(Item) /\ more \in Seq(Item) /\ Len(more) = Len(items) + 1
    /\ \A j \in 1 .. Len(items) : more[j] = items[j]
    /\ more[Len(items) + 1] = new
Changed(items, more, new) ==
    /\ items \in Seq(Item) /\ more \in Seq(Item) /\ Len(more) = Len(items) /\ Len(items) # 0
    /\ \A j \in 1 .. Len(items) : j # Len(items) => more[j] = items[j]
    /\ more[Len(items)] = new
LongerOp(item, x) == [op |-> Append(item.op, x), words |-> item.words]
LongerRun(item, w) == [op |-> item.op, words |-> Append(item.words, w)]

LEMMA LongerItems ==
  ASSUME NEW item \in Item, NEW x \in Chars, NEW w \in Seq(Chars)
  PROVE  /\ LongerOp(item, x) \in Item /\ LongerOp(item, x).words = item.words
         /\ LongerOp(item, x).op = Append(item.op, x) /\ Append(item.op, x) # <<>>
         /\ LongerRun(item, w) \in Item /\ LongerRun(item, w).op = item.op
         /\ Len(LongerRun(item, w).words) = Len(item.words) + 1
<1> DEFINE op == item.op
           words == item.words
           longop == Append(op, x)
           longrun == Append(words, w)
<1>1. op \in Seq(Chars) /\ words \in Seq(Seq(Chars))
  BY DEF Item
<1> HIDE DEF op, words
<1>2. longop \in Seq(Chars) /\ longop # <<>> /\ longrun \in Seq(Seq(Chars)) /\ Len(longrun) = Len(words) + 1
  BY <1>1, AppendFacts
<1> HIDE DEF longop, longrun
<1>3. /\ LongerOp(item, x) = [op |-> longop, words |-> words]
      /\ LongerRun(item, w) = [op |-> op, words |-> longrun]
  BY DEF LongerOp, LongerRun, longop, longrun, op, words
<1>4. /\ LongerOp(item, x) \in Item /\ LongerOp(item, x).words = words /\ LongerOp(item, x).op = longop
      /\ LongerRun(item, w) \in Item /\ LongerRun(item, w).op = op /\ LongerRun(item, w).words = longrun
  BY <1>1, <1>2, <1>3 DEF Item
<1> QED BY <1>2, <1>4 DEF longop, words, op

LEMMA ChangeLast ==
  ASSUME NEW items \in Seq(Item), items # <<>>, NEW new \in Item
  PROVE  Changed(items, [items EXCEPT ![Len(items)] = new], new)
<1>1. PICK n \in Nat : Len(items) = n
  BY EmptyIffNone
<1>2. n \in 1 .. n /\ DOMAIN items = 1 .. n /\ n # 0
  BY <1>1, EmptyIffNone
<1> DEFINE more == [items EXCEPT ![n] = new]
<1>3. more \in Seq(Item) /\ Len(more) = n
  BY <1>1, <1>2, ExceptSeq
<1>4. more[n] = new /\ \A j \in 1 .. n : j # n => more[j] = items[j]
  BY <1>2
<1>5. [items EXCEPT ![Len(items)] = new] = more
  BY <1>1
<1> HIDE DEF more
<1>6. Changed(items, more, new)
  BY <1>1, <1>2, <1>3, <1>4 DEF Changed
<1> QED BY <1>5, <1>6

LEMMA GrowLast ==
  ASSUME NEW items \in Seq(Item), NEW new \in Item
  PROVE  Grown(items, Append(items, new), new)
<1> DEFINE more == Append(items, new)
<1>1. /\ more \in Seq(Item) /\ Len(more) = Len(items) + 1
      /\ (\A j \in 1 .. Len(items) : more[j] = items[j]) /\ more[Len(items) + 1] = new
  BY AppendFacts
<1> HIDE DEF more
<1>2. Grown(items, more, new)
  BY <1>1 DEF Grown
<1> QED BY <1>2 DEF more

\* What an operator character and a word do to what was read.
OpOf(x) == [op |-> <<x>>, words |-> <<>>]
RunOfWord(w) == [op |-> <<>>, words |-> <<w>>]
EndsInOp(items) == items # <<>> /\ items[Len(items)].op # <<>>
EndsInRun(items) == items # <<>> /\ items[Len(items)].op = <<>>

LEMMA NewItems ==
  ASSUME NEW x \in Chars, NEW w \in Seq(Chars)
  PROVE  OpOf(x) \in Item /\ RunOfWord(w) \in Item
<1> DEFINE none == <<>>
           op == <<x>>
           words == <<w>>
<1>1. none \in Seq(Chars) /\ none \in Seq(Seq(Chars)) /\ op \in Seq(Chars) /\ words \in Seq(Seq(Chars))
  BY EmptySeq, OneIsSeq
<1>2. OpOf(x) = [op |-> op, words |-> none] /\ RunOfWord(w) = [op |-> none, words |-> words]
  BY DEF OpOf, RunOfWord
<1> HIDE DEF none, op, words
<1> QED BY <1>1, <1>2 DEF Item

LEMMA LastIsItem ==
  ASSUME NEW items \in Seq(Item), items # <<>>
  PROVE  items[Len(items)] \in Item
BY EmptyIffNone, ElementOfSeq

LEMMA AddOpIs ==
  ASSUME NEW items \in Seq(Item), NEW x \in Chars
  PROVE  /\ EndsInOp(items) => Changed(items, AddOp(items, x), LongerOp(items[Len(items)], x))
         /\ ~EndsInOp(items) => Grown(items, AddOp(items, x), OpOf(x))
<1>1. CASE EndsInOp(items)
  <2> DEFINE n == Len(items)
             old == items[n]
             op == Append(old.op, x)
  <2>1. old \in Item /\ items # <<>>
    BY <1>1, LastIsItem DEF EndsInOp
  <2>2. AddOp(items, x) = [items EXCEPT ![n].op = op]
    BY <1>1 DEF AddOp, EndsInOp
  <2>3. [items EXCEPT ![n].op = op] = [items EXCEPT ![n] = [old EXCEPT !.op = op]]
    OBVIOUS
  <2>4. [old EXCEPT !.op = op] = LongerOp(old, x)
    <3>1. old \in [op : Seq(Chars), words : Seq(Seq(Chars))]
      BY <2>1 DEF Item
    <3>2. LongerOp(old, x) = [op |-> op, words |-> old.words]
      BY DEF LongerOp
    <3> HIDE DEF old, op
    <3>3. [old EXCEPT !.op = op] = [op |-> op, words |-> old.words]
      BY ONLY <3>1
    <3> QED BY <3>2, <3>3
  <2> DEFINE new == LongerOp(old, x)
  <2>5. AddOp(items, x) = [items EXCEPT ![Len(items)] = new]
    BY <2>2, <2>3, <2>4
  <2> HIDE DEF old
  <2>6. new \in Item
    BY <2>1, EmptySeq, LongerItems
  <2> HIDE DEF new
  <2>7. Changed(items, AddOp(items, x), new)
    BY <2>1, <2>5, <2>6, ChangeLast
  <2> QED BY <1>1, <2>7 DEF new, old
<1>2. CASE ~EndsInOp(items)
  <2>1. AddOp(items, x) = Append(items, OpOf(x))
    BY <1>2 DEF AddOp, EndsInOp, OpOf
  <2>2. OpOf(x) \in Item
    BY EmptySeq, NewItems
  <2>3. Grown(items, AddOp(items, x), OpOf(x))
    BY <2>1, <2>2, GrowLast
  <2> QED BY <1>2, <2>3
<1> QED BY <1>1, <1>2

LEMMA AddWordIs ==
  ASSUME NEW items \in Seq(Item), NEW w \in Seq(Chars)
  PROVE  /\ EndsInRun(items) => Changed(items, AddWord(items, w), LongerRun(items[Len(items)], w))
         /\ ~EndsInRun(items) => Grown(items, AddWord(items, w), RunOfWord(w))
<1>1. CASE EndsInRun(items)
  <2> DEFINE n == Len(items)
             old == items[n]
             words == Append(old.words, w)
  <2>1. old \in Item /\ items # <<>>
    BY <1>1, LastIsItem DEF EndsInRun
  <2>2. AddWord(items, w) = [items EXCEPT ![n].words = words]
    BY <1>1 DEF AddWord, EndsInRun
  <2>3. [items EXCEPT ![n].words = words] = [items EXCEPT ![n] = [old EXCEPT !.words = words]]
    OBVIOUS
  <2>4. [old EXCEPT !.words = words] = LongerRun(old, w)
    <3>1. old \in [op : Seq(Chars), words : Seq(Seq(Chars))]
      BY <2>1 DEF Item
    <3>2. LongerRun(old, w) = [op |-> old.op, words |-> words]
      BY DEF LongerRun
    <3> HIDE DEF old, words
    <3>3. [old EXCEPT !.words = words] = [op |-> old.op, words |-> words]
      BY ONLY <3>1
    <3> QED BY <3>2, <3>3
  <2> DEFINE new == LongerRun(old, w)
  <2>5. AddWord(items, w) = [items EXCEPT ![Len(items)] = new]
    BY <2>2, <2>3, <2>4
  <2> HIDE DEF old
  <2>6. new \in Item
    BY <2>1, CharAssumption, LongerItems
  <2> HIDE DEF new
  <2>7. Changed(items, AddWord(items, w), new)
    BY <2>1, <2>5, <2>6, ChangeLast
  <2> QED BY <1>1, <2>7 DEF new, old
<1>2. CASE ~EndsInRun(items)
  <2>1. AddWord(items, w) = Append(items, RunOfWord(w))
    BY <1>2 DEF AddWord, EndsInRun, RunOfWord
  <2>2. RunOfWord(w) \in Item
    BY CharAssumption, NewItems
  <2>3. Grown(items, AddWord(items, w), RunOfWord(w))
    BY <2>1, <2>2, GrowLast
  <2> QED BY <1>2, <2>3
<1> QED BY <1>1, <1>2

\* What was read is the same but for some runs: each has at least so many words, and
\* while it has no more there stand others for them.
Alike(as, bs, swaps) ==
    /\ as \in Seq(Item) /\ bs \in Seq(Item) /\ Len(as) = Len(bs)
    /\ \A j \in 1 .. Len(as) : as[j].op = bs[j].op
    /\ \A j \in 1 .. Len(as) : (\A w \in swaps : w.place # j) => as[j] = bs[j]
    /\ \A w \in swaps :
         /\ w.place \in 1 .. Len(as) /\ w.size \in Nat /\ w.size <= Len(as[w.place].words)
         /\ Len(as[w.place].words) = w.size => bs[w.place].words = w.words

SwapsAt(more, place, new, put) ==
    \A w \in more : w.place = place /\ w.size = Len(new.words) /\ w.words = put.words

\* Two readings that are alike stay so when both have one more item, alike but for a
\* place that is swapped from now on.
LEMMA GrownAlike ==
  ASSUME NEW as, NEW bs, NEW swaps, Alike(as, bs, swaps), NEW am, NEW bm, NEW new, NEW put,
         Grown(as, am, new), Grown(bs, bm, put), new.op = put.op, NEW more,
         more = {} => new = put, SwapsAt(more, Len(as) + 1, new, put)
  PROVE  Alike(am, bm, swaps \cup more)
<1>1. PICK n \in Nat : Len(as) = n
  BY EmptyIffNone DEF Alike
<1> DEFINE m == n + 1
<1>10. Len(bs) = n
  BY <1>1 DEF Alike
<1>11. am \in Seq(Item) /\ Len(am) = m /\ am[m] = new /\ \A j \in 1 .. n : am[j] = as[j]
  BY <1>1 DEF Grown
<1>12. bm \in Seq(Item) /\ Len(bm) = m /\ bm[m] = put /\ \A j \in 1 .. n : bm[j] = bs[j]
  BY <1>10 DEF Grown
<1>2. /\ Len(bs) = n /\ am \in Seq(Item) /\ bm \in Seq(Item) /\ Len(am) = m /\ Len(bm) = m
      /\ am[m] = new /\ bm[m] = put /\ m \in Nat /\ n < m
      /\ \A j \in 1 .. n : am[j] = as[j] /\ bm[j] = bs[j]
  <2>1. m \in Nat /\ n < m
    OBVIOUS
  <2> HIDE DEF m
  <2> QED BY <1>10, <1>11, <1>12, <2>1
<1>3. \A j \in 1 .. m : j = m \/ j \in 1 .. n
  OBVIOUS
<1>4. m \in 1 .. m /\ \A j \in 1 .. n : j \in 1 .. m /\ j # m
  OBVIOUS
<1>5. Len(new.words) \in Nat
  <2>1. new \in Item
    BY <1>2, <1>4, ElementOfSeq
  <2>2. new.words \in Seq(Seq(Chars))
    BY <2>1 DEF Item
  <2> QED BY <2>2, LenProperties
<1>6. \A w \in more : w.place = m /\ w.size = Len(new.words) /\ w.words = put.words
  BY <1>1 DEF SwapsAt
<1> HIDE DEF m
<1>7. \A j \in 1 .. m : am[j].op = bm[j].op
  <2>1. \A j \in 1 .. n : as[j].op = bs[j].op
    BY <1>1 DEF Alike
  <2> QED BY <1>2, <1>3, <2>1
<1>8. ASSUME NEW j \in 1 .. m, \A w \in swaps \cup more : w.place # j PROVE am[j] = bm[j]
  <2>1. CASE j = m
    BY <1>2, <1>6, <1>8, <2>1
  <2>2. CASE j \in 1 .. n
    <3>1. as[j] = bs[j]
      BY <1>1, <1>8, <2>2 DEF Alike
    <3> QED BY <1>2, <2>2, <3>1
  <2> QED BY <1>3, <2>1, <2>2
<1>9. ASSUME NEW w \in swaps \cup more
      PROVE  /\ w.place \in 1 .. m /\ w.size \in Nat /\ w.size <= Len(am[w.place].words)
             /\ Len(am[w.place].words) = w.size => bm[w.place].words = w.words
  <2>1. CASE w \in swaps
    <3>1. /\ w.place \in 1 .. n /\ w.size \in Nat /\ w.size <= Len(as[w.place].words)
          /\ Len(as[w.place].words) = w.size => bs[w.place].words = w.words
      BY <1>1, <2>1 DEF Alike
    <3> QED BY <1>2, <1>4, <3>1
  <2>2. CASE w \in more
    <3>1. w.place = m /\ w.size = Len(new.words) /\ w.words = put.words
      BY <1>6, <2>2
    <3> QED BY <1>2, <1>4, <1>5, <3>1
  <2> QED BY <2>1, <2>2
<1> QED BY <1>1, <1>2, <1>7, <1>8, <1>9 DEF Alike

LEMMA GrownSame ==
  ASSUME NEW as, NEW bs, NEW swaps, Alike(as, bs, swaps), NEW am, NEW bm, NEW new,
         Grown(as, am, new), Grown(bs, bm, new)
  PROVE  Alike(am, bm, swaps)
<1> DEFINE none == {}
<1>1. swaps \cup none = swaps /\ \A w \in none : FALSE
  OBVIOUS
<1> HIDE DEF none
<1>2. SwapsAt(none, Len(as) + 1, new, new)
  BY <1>1 DEF SwapsAt
<1>3. Alike(am, bm, swaps \cup none)
  BY <1>2, GrownAlike
<1> QED BY <1>1, <1>3

\* They stay so when the last item of both is changed alike.
LEMMA ChangedAlike ==
  ASSUME NEW as, NEW bs, NEW swaps, Alike(as, bs, swaps), NEW am, NEW bm, NEW new, NEW put,
         Changed(as, am, new), Changed(bs, bm, put), new.op = put.op,
         as[Len(as)] = bs[Len(bs)] => new = put,
         \/ new.words = as[Len(as)].words /\ put.words = bs[Len(bs)].words
         \/ Len(new.words) = Len(as[Len(as)].words) + 1
  PROVE  Alike(am, bm, swaps)
<1>1. PICK n \in Nat : Len(as) = n
  BY EmptyIffNone DEF Alike
<1>2. /\ Len(bs) = n /\ am \in Seq(Item) /\ bm \in Seq(Item) /\ Len(am) = n /\ Len(bm) = n
      /\ am[n] = new /\ bm[n] = put /\ n # 0
      /\ \A j \in 1 .. n : j # n => am[j] = as[j] /\ bm[j] = bs[j]
  BY <1>1 DEF Alike, Changed
<1>3. n \in 1 .. n
  BY <1>2
<1>4. /\ as[n] = bs[n] => new = put
      /\ \/ new.words = as[n].words /\ put.words = bs[n].words
         \/ Len(new.words) = Len(as[n].words) + 1
  BY <1>1, <1>2
<1>5. \A j \in 1 .. n : Len(as[j].words) \in Nat
  <2> TAKE j \in 1 .. n
  <2>1. as[j] \in Item
    BY <1>1, ElementOfSeq DEF Alike
  <2>2. as[j].words \in Seq(Seq(Chars))
    BY <2>1 DEF Item
  <2> QED BY <2>2, LenProperties
<1>7. \A j \in 1 .. n : am[j].op = bm[j].op
  <2>1. \A j \in 1 .. n : as[j].op = bs[j].op
    BY <1>1 DEF Alike
  <2> QED BY <1>2, <2>1
<1>8. ASSUME NEW j \in 1 .. n, \A w \in swaps : w.place # j PROVE am[j] = bm[j]
  <2>1. as[j] = bs[j]
    BY <1>1, <1>8 DEF Alike
  <2> QED BY <1>2, <1>4, <2>1
<1>9. ASSUME NEW w \in swaps
      PROVE  /\ w.place \in 1 .. n /\ w.size \in Nat /\ w.size <= Len(am[w.place].words)
             /\ Len(am[w.place].words) = w.size => bm[w.place].words = w.words
  <2>1. /\ w.place \in 1 .. n /\ w.size \in Nat /\ w.size <= Len(as[w.place].words)
        /\ Len(as[w.place].words) = w.size => bs[w.place].words = w.words
    BY <1>1 DEF Alike
  <2>2. CASE w.place # n
    BY <1>2, <2>1, <2>2
  <2>3. CASE w.place = n
    <3>1. CASE new.words = as[n].words /\ put.words = bs[n].words
      BY <1>2, <2>1, <2>3, <3>1
    <3>2. CASE Len(new.words) = Len(as[n].words) + 1
      <4> DEFINE had == Len(as[n].words)
                 has == Len(new.words)
      <4>1. had \in Nat /\ has = had + 1 /\ w.size <= had /\ w.size \in Nat
        BY <1>3, <1>5, <2>1, <2>3, <3>2
      <4> HIDE DEF had, has
      <4>2. w.size <= has /\ has # w.size
        BY <4>1
      <4> QED BY <1>2, <2>1, <2>3, <4>2 DEF has
    <3> QED BY <1>4, <3>1, <3>2
  <2> QED BY <2>2, <2>3
<1> QED BY <1>1, <1>2, <1>7, <1>8, <1>9 DEF Alike

LEMMA EndsAlike ==
  ASSUME NEW as, NEW bs, NEW swaps, Alike(as, bs, swaps)
  PROVE  /\ EndsInOp(as) <=> EndsInOp(bs)
         /\ EndsInRun(as) <=> EndsInRun(bs)
         /\ as \in Seq(Item) /\ bs \in Seq(Item) /\ swaps \cup {} = swaps
         /\ EndsInOp(as) \/ EndsInRun(as) =>
               /\ as[Len(as)] \in Item /\ bs[Len(bs)] \in Item
               /\ as[Len(as)].op = bs[Len(bs)].op
<1>1. PICK n \in Nat : Len(as) = n
  BY EmptyIffNone DEF Alike
<1>2. as \in Seq(Item) /\ bs \in Seq(Item) /\ Len(bs) = n
  BY <1>1 DEF Alike
<1>3. (as # <<>> <=> n # 0) /\ (bs # <<>> <=> n # 0)
  BY <1>1, <1>2, EmptyIffNone
<1>4. n # 0 => as[n].op = bs[n].op
  <2>1. n # 0 => n \in 1 .. n
    OBVIOUS
  <2> QED BY <1>1, <2>1 DEF Alike
<1>5. n # 0 => as[n] \in Item /\ bs[n] \in Item
  <2>1. n # 0 => n \in 1 .. n
    OBVIOUS
  <2> QED BY <1>1, <1>2, <2>1, ElementOfSeq
<1> QED BY <1>1, <1>2, <1>3, <1>4, <1>5 DEF EndsInOp, EndsInRun

LEMMA AddOpAlike ==
  ASSUME NEW as, NEW bs, NEW swaps, Alike(as, bs, swaps), NEW x \in Chars
  PROVE  Alike(AddOp(as, x), AddOp(bs, x), swaps)
<1>1. CASE EndsInOp(as)
  <2> DEFINE a == as[Len(as)]
             b == bs[Len(bs)]
  <2>1. a \in Item /\ b \in Item /\ a.op = b.op
    BY <1>1, EndsAlike
  <2>2. Changed(as, AddOp(as, x), LongerOp(a, x)) /\ Changed(bs, AddOp(bs, x), LongerOp(b, x))
    BY <1>1, EndsAlike, AddOpIs
  <2> HIDE DEF a, b
  <2>3. /\ LongerOp(a, x).op = LongerOp(b, x).op
        /\ LongerOp(a, x).words = a.words /\ LongerOp(b, x).words = b.words
    <3> DEFINE none == <<>>
    <3>1. none \in Seq(Chars)
      BY EmptySeq
    <3> HIDE DEF none
    <3>2. LongerOp(a, x).op = Append(a.op, x) /\ LongerOp(a, x).words = a.words
      BY <2>1, <3>1, LongerItems
    <3>3. LongerOp(b, x).op = Append(b.op, x) /\ LongerOp(b, x).words = b.words
      BY <2>1, <3>1, LongerItems
    <3> QED BY <2>1, <3>2, <3>3
  <2> QED BY <2>2, <2>3, ChangedAlike DEF a, b
<1>2. CASE ~EndsInOp(as)
  <2>1. Grown(as, AddOp(as, x), OpOf(x)) /\ Grown(bs, AddOp(bs, x), OpOf(x))
    BY <1>2, EndsAlike, AddOpIs
  <2> QED BY <2>1, GrownSame
<1> QED BY <1>1, <1>2

LEMMA AddWordAlike ==
  ASSUME NEW as, NEW bs, NEW swaps, Alike(as, bs, swaps), NEW v \in Seq(Chars)
  PROVE  Alike(AddWord(as, v), AddWord(bs, v), swaps)
<1>1. CASE EndsInRun(as)
  <2> DEFINE a == as[Len(as)]
             b == bs[Len(bs)]
  <2>1. a \in Item /\ b \in Item /\ a.op = b.op
    BY <1>1, EndsAlike
  <2>2. Changed(as, AddWord(as, v), LongerRun(a, v)) /\ Changed(bs, AddWord(bs, v), LongerRun(b, v))
    BY <1>1, EndsAlike, AddWordIs
  <2> HIDE DEF a, b
  <2>3. LongerRun(a, v).op = LongerRun(b, v).op /\ Len(LongerRun(a, v).words) = Len(a.words) + 1
    BY <2>1, CharAssumption, LongerItems
  <2> QED BY <2>2, <2>3, ChangedAlike DEF a, b
<1>2. CASE ~EndsInRun(as)
  <2>1. Grown(as, AddWord(as, v), RunOfWord(v)) /\ Grown(bs, AddWord(bs, v), RunOfWord(v))
    BY <1>2, EndsAlike, AddWordIs
  <2> QED BY <2>1, GrownSame
<1> QED BY <1>1, <1>2

\* What a shell has after each thing it does.
AnyReader == [items : Seq(Item), word : Seq(Chars), inWord : BOOLEAN, quoted : BOOLEAN, mode : Modes]

LEMMA ReaderIs ==
  ASSUME NEW s \in Reader
  PROVE  /\ s \in AnyReader /\ s.items \in Seq(Item) /\ s.word \in Seq(Chars) /\ s.mode \in Modes
         /\ ~s.inWord => s.word = <<>> /\ s.quoted = FALSE /\ s.inWord = FALSE
<1>1. s \in AnyReader /\ (~s.inWord => s.word = <<>> /\ ~s.quoted)
  BY DEF Reader, AnyReader
<1>2. s.items \in Seq(Item) /\ s.word \in Seq(Chars) /\ s.mode \in Modes /\ s.inWord \in BOOLEAN /\ s.quoted \in BOOLEAN
  BY <1>1 DEF AnyReader
<1> QED BY <1>1, <1>2

LEMMA InWordIsReader ==
  ASSUME NEW s \in AnyReader, s.inWord
  PROVE  s \in Reader
BY DEF Reader, AnyReader

LEMMA OutOfWordIsReader ==
  ASSUME NEW s \in AnyReader, s.word = <<>>, s.quoted = FALSE
  PROVE  s \in Reader
BY DEF Reader, AnyReader

LEMMA PutIs ==
  ASSUME NEW s \in Reader, NEW x \in Chars
  PROVE  LET r == Put(s, x)
         IN  /\ r \in Reader /\ r.items = s.items /\ r.word = Append(s.word, x)
             /\ r.inWord = TRUE /\ r.quoted = s.quoted /\ r.mode = s.mode
<1> DEFINE r == Put(s, x)
           word == Append(s.word, x)
<1>1. s \in AnyReader /\ s.word \in Seq(Chars)
  BY ReaderIs
<1>2. word \in Seq(Chars)
  BY <1>1, AppendFacts
<1>3. r = [s EXCEPT !.word = word, !.inWord = TRUE]
  BY <1>1 DEF Put
<1> HIDE DEF r, word
<1>4. /\ r \in AnyReader /\ r.items = s.items /\ r.word = word
      /\ r.inWord = TRUE /\ r.quoted = s.quoted /\ r.mode = s.mode
  BY <1>1, <1>2, <1>3 DEF AnyReader
<1>5. r \in Reader
  BY <1>4, InWordIsReader
<1> QED BY <1>4, <1>5 DEF r, word

LEMMA QuoteIs ==
  ASSUME NEW s \in Reader, NEW mode \in Modes
  PROVE  LET r == Quote(s, mode)
         IN  /\ r \in Reader /\ r.items = s.items /\ r.word = s.word
             /\ r.inWord = TRUE /\ r.quoted = TRUE /\ r.mode = mode
<1> DEFINE r == Quote(s, mode)
<1>1. s \in AnyReader
  BY ReaderIs
<1>2. r = [s EXCEPT !.mode = mode, !.inWord = TRUE, !.quoted = TRUE]
  BY DEF Quote
<1> HIDE DEF r
<1>3. /\ r \in AnyReader /\ r.items = s.items /\ r.word = s.word
      /\ r.inWord = TRUE /\ r.quoted = TRUE /\ r.mode = mode
  BY <1>1, <1>2 DEF AnyReader
<1>4. r \in Reader
  BY <1>3, InWordIsReader
<1> QED BY <1>3, <1>4 DEF r

LEMMA ModeIs ==
  ASSUME NEW s \in Reader, NEW mode \in Modes
  PROVE  LET r == [s EXCEPT !.mode = mode]
         IN  /\ r \in Reader /\ r.items = s.items /\ r.word = s.word
             /\ r.inWord = s.inWord /\ r.quoted = s.quoted /\ r.mode = mode
<1> DEFINE r == [s EXCEPT !.mode = mode]
<1>1. s \in AnyReader /\ (~s.inWord => s.word = <<>> /\ s.quoted = FALSE)
  BY ReaderIs
<1>2. r = [s EXCEPT !.mode = mode]
  OBVIOUS
<1> HIDE DEF r
<1>3. /\ r \in AnyReader /\ r.items = s.items /\ r.word = s.word
      /\ r.inWord = s.inWord /\ r.quoted = s.quoted /\ r.mode = mode
  BY <1>1, <1>2 DEF AnyReader
<1>4. r \in Reader
  <2>1. CASE s.inWord
    BY <1>3, <2>1, InWordIsReader
  <2>2. CASE ~s.inWord
    BY <1>1, <1>3, <2>2, OutOfWordIsReader
  <2> QED BY <2>1, <2>2
<1> QED BY <1>3, <1>4 DEF r

\* Out of a word, in the mode it was in.
Out(r, items, mode) ==
    r \in Reader /\ r.items = items /\ r.word = <<>> /\ r.inWord = FALSE /\ r.quoted = FALSE /\ r.mode = mode

LEMMA EndWordIs ==
  ASSUME NEW s \in Reader
  PROVE  /\ s.inWord => Out(EndWord(s), AddWord(s.items, s.word), s.mode)
         /\ ~s.inWord => EndWord(s) = s /\ Out(EndWord(s), s.items, s.mode)
<1>1. /\ s \in AnyReader /\ s.items \in Seq(Item) /\ s.word \in Seq(Chars)
      /\ ~s.inWord => s.word = <<>> /\ s.quoted = FALSE /\ s.inWord = FALSE
  BY ReaderIs
<1>2. CASE s.inWord
  <2> DEFINE more == AddWord(s.items, s.word)
             none == <<>>
             r == EndWord(s)
  <2>1. more \in Seq(Item)
    BY <1>1, AddWordIs DEF Grown, Changed
  <2>2. none \in Seq(Chars)
    BY EmptySeq
  <2>3. r = [s EXCEPT !.items = more, !.word = none, !.inWord = FALSE, !.quoted = FALSE]
    BY <1>2 DEF EndWord
  <2>5. none = <<>>
    OBVIOUS
  <2> HIDE DEF more, none, r
  <2>4. /\ r \in AnyReader /\ r.items = more /\ r.word = none /\ r.inWord = FALSE
        /\ r.quoted = FALSE /\ r.mode = s.mode
    BY <1>1, <2>1, <2>2, <2>3 DEF AnyReader
  <2>6. r \in Reader
    BY <2>4, <2>5, OutOfWordIsReader
  <2> QED BY <1>2, <2>4, <2>5, <2>6 DEF Out, r, more
<1>3. CASE ~s.inWord
  <2>1. EndWord(s) = s
    BY <1>3 DEF EndWord
  <2> QED BY <1>1, <1>3, <2>1 DEF Out
<1> QED BY <1>2, <1>3

LEMMA EndWordOut ==
  ASSUME NEW s \in Reader
  PROVE  Out(EndWord(s), EndWord(s).items, s.mode)
BY EndWordIs DEF Out

LEMMA ReadOpIs ==
  ASSUME NEW s \in Reader, NEW x \in Chars
  PROVE  /\ BareTwo(s, x) => Out(ReadOp(s, x), AddOp(AddOp(s.items, "2"), x), s.mode) /\ "2" \in Chars
         /\ ~BareTwo(s, x) => Out(ReadOp(s, x), AddOp(EndWord(s).items, x), s.mode)
<1>0. s \in AnyReader /\ s.items \in Seq(Item) /\ s.word \in Seq(Chars)
  BY ReaderIs
<1>e. \A items \in Seq(Item), y \in Chars : AddOp(items, y) \in Seq(Item)
  BY AddOpIs DEF Grown, Changed
<1>1. CASE BareTwo(s, x)
  <2> DEFINE more == AddOp(AddOp(s.items, "2"), x)
             none == <<>>
             r == ReadOp(s, x)
  <2>0. s.word = <<"2">> /\ s.quoted = FALSE
    BY <1>0, <1>1 DEF BareTwo, AnyReader
  <2>1. "2" \in Chars
    <3>1. Len(s.word) = 1 /\ s.word[1] = "2"
      BY <2>0
    <3> QED BY <1>0, <3>1, ElementOfSeq
  <2>2. none \in Seq(Chars) /\ more \in Seq(Item)
    BY <1>0, <1>e, <2>1, EmptySeq
  <2>3. r = [s EXCEPT !.items = more, !.word = none, !.inWord = FALSE]
    BY <1>1 DEF ReadOp
  <2>5. none = <<>>
    OBVIOUS
  <2> HIDE DEF more, none, r
  <2>4. /\ r \in AnyReader /\ r.items = more /\ r.word = none /\ r.inWord = FALSE
        /\ r.quoted = s.quoted /\ r.mode = s.mode
    BY <1>0, <2>2, <2>3 DEF AnyReader
  <2>6. r \in Reader
    BY <2>0, <2>4, <2>5, OutOfWordIsReader
  <2> QED BY <1>1, <2>0, <2>1, <2>4, <2>5, <2>6 DEF Out, r, more
<1>2. CASE ~BareTwo(s, x)
  <2> DEFINE e == EndWord(s)
             more == AddOp(e.items, x)
             r == ReadOp(s, x)
  <2>1. e \in Reader /\ e.word = <<>> /\ e.inWord = FALSE /\ e.quoted = FALSE /\ e.mode = s.mode
    BY EndWordOut DEF Out
  <2>2. r = [e EXCEPT !.items = more]
    BY <1>2 DEF ReadOp
  <2> HIDE DEF e
  <2>3. e \in AnyReader /\ e.items \in Seq(Item)
    BY <2>1, ReaderIs
  <2>4. more \in Seq(Item)
    BY <1>e, <2>3
  <2> HIDE DEF more, r
  <2>5. /\ r \in AnyReader /\ r.items = more /\ r.word = e.word /\ r.inWord = e.inWord
        /\ r.quoted = e.quoted /\ r.mode = e.mode
    BY <2>2, <2>3, <2>4 DEF AnyReader
  <2>6. r \in Reader
    BY <2>1, <2>5, OutOfWordIsReader
  <2> QED BY <1>2, <2>1, <2>5, <2>6 DEF Out, r, more, e
<1> QED BY <1>1, <1>2

\* Two shells that are in the same word in the same way, having read what is alike.
Like(a, b, swaps) ==
    /\ a \in Reader /\ b \in Reader /\ a.word = b.word /\ a.inWord = b.inWord
    /\ a.quoted = b.quoted /\ a.mode = b.mode /\ Alike(a.items, b.items, swaps)

LEMMA OutAlike ==
  ASSUME NEW r, NEW t, NEW as, NEW bs, NEW mode, NEW swaps,
         Out(r, as, mode), Out(t, bs, mode), Alike(as, bs, swaps)
  PROVE  Like(r, t, swaps)
BY DEF Out, Like

LEMMA EndWordLike ==
  ASSUME NEW a, NEW b, NEW swaps, Like(a, b, swaps)
  PROVE  Like(EndWord(a), EndWord(b), swaps)
<1>1. /\ a \in Reader /\ b \in Reader /\ a.word = b.word /\ a.inWord = b.inWord
      /\ a.mode = b.mode /\ Alike(a.items, b.items, swaps)
  BY DEF Like
<1>2. CASE a.inWord
  <2>1. Out(EndWord(a), AddWord(a.items, a.word), a.mode) /\ Out(EndWord(b), AddWord(b.items, a.word), a.mode)
    BY <1>1, <1>2, EndWordIs
  <2>2. Alike(AddWord(a.items, a.word), AddWord(b.items, a.word), swaps)
    BY <1>1, ReaderIs, AddWordAlike
  <2> QED BY <2>1, <2>2, OutAlike
<1>3. CASE ~a.inWord
  BY <1>1, <1>3, EndWordIs
<1> QED BY <1>2, <1>3

LEMMA ReadOpLike ==
  ASSUME NEW a, NEW b, NEW swaps, Like(a, b, swaps), NEW x \in Chars
  PROVE  Like(ReadOp(a, x), ReadOp(b, x), swaps)
<1>1. /\ a \in Reader /\ b \in Reader /\ a.word = b.word /\ a.inWord = b.inWord
      /\ a.quoted = b.quoted /\ a.mode = b.mode /\ Alike(a.items, b.items, swaps)
  BY DEF Like
<1>2. BareTwo(a, x) <=> BareTwo(b, x)
  BY <1>1 DEF BareTwo
<1>3. CASE BareTwo(a, x)
  <2> DEFINE as == AddOp(a.items, "2")
             bs == AddOp(b.items, "2")
  <2>1. /\ Out(ReadOp(a, x), AddOp(as, x), a.mode) /\ "2" \in Chars
        /\ Out(ReadOp(b, x), AddOp(bs, x), a.mode)
    BY <1>1, <1>2, <1>3, ReadOpIs
  <2>2. Alike(as, bs, swaps)
    BY <1>1, <2>1, AddOpAlike
  <2> HIDE DEF as, bs
  <2>3. Alike(AddOp(as, x), AddOp(bs, x), swaps)
    BY <2>2, AddOpAlike
  <2> QED BY <2>1, <2>3, OutAlike
<1>4. CASE ~BareTwo(a, x)
  <2> DEFINE as == EndWord(a).items
             bs == EndWord(b).items
  <2>1. Out(ReadOp(a, x), AddOp(as, x), a.mode) /\ Out(ReadOp(b, x), AddOp(bs, x), a.mode)
    BY <1>1, <1>2, <1>4, ReadOpIs
  <2>2. Alike(as, bs, swaps)
    BY EndWordLike DEF Like
  <2> HIDE DEF as, bs
  <2>3. Alike(AddOp(as, x), AddOp(bs, x), swaps)
    BY <2>2, AddOpAlike
  <2> QED BY <2>1, <2>3, OutAlike
<1> QED BY <1>3, <1>4

\* What goes on in a word.
LEMMA PutLike ==
  ASSUME NEW a, NEW b, NEW swaps, Like(a, b, swaps), NEW x \in Chars
  PROVE  Like(Put(a, x), Put(b, x), swaps)
<1>1. a \in Reader /\ b \in Reader
  BY DEF Like
<1> DEFINE r == Put(a, x)
           t == Put(b, x)
<1>2. /\ r \in Reader /\ r.items = a.items /\ r.word = Append(a.word, x)
      /\ r.inWord = TRUE /\ r.quoted = a.quoted /\ r.mode = a.mode
  BY <1>1, PutIs
<1>3. /\ t \in Reader /\ t.items = b.items /\ t.word = Append(b.word, x)
      /\ t.inWord = TRUE /\ t.quoted = b.quoted /\ t.mode = b.mode
  BY <1>1, PutIs
<1> HIDE DEF r, t
<1>4. Like(r, t, swaps)
  BY <1>2, <1>3 DEF Like
<1> QED BY <1>4 DEF r, t

LEMMA QuoteLike ==
  ASSUME NEW a, NEW b, NEW swaps, Like(a, b, swaps), NEW mode \in Modes
  PROVE  Like(Quote(a, mode), Quote(b, mode), swaps)
<1>1. a \in Reader /\ b \in Reader
  BY DEF Like
<1> DEFINE r == Quote(a, mode)
           t == Quote(b, mode)
<1>2. /\ r \in Reader /\ r.items = a.items /\ r.word = a.word
      /\ r.inWord = TRUE /\ r.quoted = TRUE /\ r.mode = mode
  BY <1>1, QuoteIs
<1>3. /\ t \in Reader /\ t.items = b.items /\ t.word = b.word
      /\ t.inWord = TRUE /\ t.quoted = TRUE /\ t.mode = mode
  BY <1>1, QuoteIs
<1> HIDE DEF r, t
<1>4. Like(r, t, swaps)
  BY <1>2, <1>3 DEF Like
<1> QED BY <1>4 DEF r, t

LEMMA ModeLike ==
  ASSUME NEW a, NEW b, NEW swaps, Like(a, b, swaps), NEW mode \in Modes
  PROVE  Like(InMode(a, mode), InMode(b, mode), swaps)
<1>1. a \in Reader /\ b \in Reader
  BY DEF Like
<1> DEFINE r == InMode(a, mode)
           t == InMode(b, mode)
<1>2. /\ r \in Reader /\ r.items = a.items /\ r.word = a.word
      /\ r.inWord = a.inWord /\ r.quoted = a.quoted /\ r.mode = mode
  BY <1>1, ModeIs DEF InMode
<1>3. /\ t \in Reader /\ t.items = b.items /\ t.word = b.word
      /\ t.inWord = b.inWord /\ t.quoted = b.quoted /\ t.mode = mode
  BY <1>1, ModeIs DEF InMode
<1> HIDE DEF r, t
<1>4. Like(r, t, swaps)
  BY <1>2, <1>3 DEF Like
<1> QED BY <1>4 DEF r, t

\* What a shell does with a character, in each mode.
LEMMA PlainChar ==
  ASSUME NEW s, s.mode = "plain", NEW x
  PROVE  /\ x = "_" => ReadChar(s, x) = EndWord(s)
         /\ x \in OperatorChars => ReadChar(s, x) = ReadOp(s, x)
         /\ x = "'" => ReadChar(s, x) = Quote(s, "single")
         /\ x = "\"" => ReadChar(s, x) = Quote(s, "double")
         /\ x = "\\" => ReadChar(s, x) = InMode(s, "escape")
         /\ x \notin OperatorChars \cup {"_", "'", "\"", "\\"} => ReadChar(s, x) = Put(s, x)
<1>1. ReadChar(s, x) = ReadPlain(s, x)
  BY DEF ReadChar
<1> QED BY <1>1 DEF ReadPlain, OperatorChars, Single

LEMMA QuotedChar ==
  ASSUME NEW s, NEW x
  PROVE  /\ s.mode = "single" => ReadChar(s, x) = ReadSingle(s, x)
         /\ s.mode = "double" => ReadChar(s, x) = ReadDouble(s, x)
         /\ s.mode = "escape" => ReadChar(s, x) = ReadEscape(s, x)
         /\ s.mode = "descape" => ReadChar(s, x) = ReadDescape(s, x)
BY DEF ReadChar

\* A character keeps two shells alike.
LEMMA CharLike ==
  ASSUME NEW a, NEW b, NEW swaps, Like(a, b, swaps), NEW x \in Chars
  PROVE  Like(ReadChar(a, x), ReadChar(b, x), swaps)
<1> DEFINE r == ReadChar(a, x)
           t == ReadChar(b, x)
<1>0. a.mode = b.mode /\ a.mode \in Modes
  BY ReaderIs DEF Like
<1>m. "plain" \in Modes /\ "single" \in Modes /\ "double" \in Modes /\ "escape" \in Modes /\ "descape" \in Modes
  BY DEF Modes
<1>c. "\\" \in Chars
  BY CharAssumption
<1>1. CASE a.mode = "plain"
  <2>0. b.mode = "plain"
    BY <1>0, <1>1
  <2>1. CASE x = "_"
    <3>1. r = EndWord(a) /\ t = EndWord(b)
      BY <1>1, <2>0, <2>1, PlainChar
    <3> QED BY <3>1, EndWordLike
  <2>2. CASE x \in OperatorChars
    <3>1. r = ReadOp(a, x) /\ t = ReadOp(b, x)
      BY <1>1, <2>0, <2>2, PlainChar
    <3> QED BY <3>1, ReadOpLike
  <2>3. CASE x = "'"
    <3>1. r = Quote(a, "single") /\ t = Quote(b, "single")
      BY <1>1, <2>0, <2>3, PlainChar
    <3> QED BY <1>m, <3>1, QuoteLike
  <2>4. CASE x = "\""
    <3>1. r = Quote(a, "double") /\ t = Quote(b, "double")
      BY <1>1, <2>0, <2>4, PlainChar
    <3> QED BY <1>m, <3>1, QuoteLike
  <2>5. CASE x = "\\"
    <3>1. r = InMode(a, "escape") /\ t = InMode(b, "escape")
      BY <1>1, <2>0, <2>5, PlainChar
    <3> QED BY <1>m, <3>1, ModeLike
  <2>6. CASE x \notin OperatorChars \cup {"_", "'", "\"", "\\"}
    <3>1. r = Put(a, x) /\ t = Put(b, x)
      BY <1>1, <2>0, <2>6, PlainChar
    <3> QED BY <3>1, PutLike
  <2> QED BY <2>1, <2>2, <2>3, <2>4, <2>5, <2>6
<1>2. CASE a.mode = "single"
  <2>1. CASE x = "'"
    <3>1. r = InMode(a, "plain") /\ t = InMode(b, "plain")
      BY <1>0, <1>2, <2>1, QuotedChar DEF ReadSingle
    <3> QED BY <1>m, <3>1, ModeLike
  <2>2. CASE x # "'"
    <3>1. r = Put(a, x) /\ t = Put(b, x)
      BY <1>0, <1>2, <2>2, QuotedChar DEF ReadSingle
    <3> QED BY <3>1, PutLike
  <2> QED BY <2>1, <2>2
<1>3. CASE a.mode = "double"
  <2>1. CASE x = "\""
    <3>1. r = InMode(a, "plain") /\ t = InMode(b, "plain")
      BY <1>0, <1>3, <2>1, QuotedChar DEF ReadDouble
    <3> QED BY <1>m, <3>1, ModeLike
  <2>2. CASE x = "\\"
    <3>1. r = InMode(a, "descape") /\ t = InMode(b, "descape")
      BY <1>0, <1>3, <2>2, QuotedChar DEF ReadDouble
    <3> QED BY <1>m, <3>1, ModeLike
  <2>3. CASE x \notin {"\"", "\\"}
    <3>1. r = Put(a, x) /\ t = Put(b, x)
      BY <1>0, <1>3, <2>3, QuotedChar DEF ReadDouble
    <3> QED BY <3>1, PutLike
  <2> QED BY <2>1, <2>2, <2>3
<1>4. CASE a.mode = "escape"
  <2>1. CASE x = "n"
    <3>1. r = InMode(a, "plain") /\ t = InMode(b, "plain")
      BY <1>0, <1>4, <2>1, QuotedChar DEF ReadEscape
    <3> QED BY <1>m, <3>1, ModeLike
  <2>2. CASE x # "n"
    <3>1. r = Quote(Put(a, x), "plain") /\ t = Quote(Put(b, x), "plain")
      BY <1>0, <1>4, <2>2, QuotedChar DEF ReadEscape
    <3>2. Like(Put(a, x), Put(b, x), swaps)
      BY PutLike
    <3> QED BY <1>m, <3>1, <3>2, QuoteLike
  <2> QED BY <2>1, <2>2
<1>5. CASE a.mode = "descape"
  <2>1. CASE x = "n"
    <3>1. r = InMode(a, "double") /\ t = InMode(b, "double")
      BY <1>0, <1>5, <2>1, QuotedChar DEF ReadDescape
    <3> QED BY <1>m, <3>1, ModeLike
  <2>2. CASE x \in {"\"", "\\"}
    <3>1. r = InMode(Put(a, x), "double") /\ t = InMode(Put(b, x), "double")
      BY <1>0, <1>5, <2>2, QuotedChar DEF ReadDescape
    <3>2. Like(Put(a, x), Put(b, x), swaps)
      BY PutLike
    <3> QED BY <1>m, <3>1, <3>2, ModeLike
  <2>3. CASE x \notin {"n", "\"", "\\"}
    <3>1. r = InMode(Put(Put(a, "\\"), x), "double") /\ t = InMode(Put(Put(b, "\\"), x), "double")
      BY <1>0, <1>5, <2>3, QuotedChar DEF ReadDescape
    <3>2. Like(Put(a, "\\"), Put(b, "\\"), swaps)
      BY <1>c, PutLike
    <3> DEFINE a1 == Put(a, "\\")
               b1 == Put(b, "\\")
    <3> HIDE DEF a1, b1
    <3>3. Like(Put(a1, x), Put(b1, x), swaps)
      BY <3>2, PutLike DEF a1, b1
    <3>4. Like(InMode(Put(a1, x), "double"), InMode(Put(b1, x), "double"), swaps)
      BY <1>m, <3>3, ModeLike
    <3> QED BY <3>1, <3>2, <3>3, <3>4 DEF a1, b1
  <2> QED BY <2>1, <2>2, <2>3
<1> QED BY <1>0, <1>1, <1>2, <1>3, <1>4, <1>5 DEF Modes

\* Whatever a shell reads, it is a reader.
LEMMA ReadIsTyped ==
  ASSUME NEW c \in Seq(Chars)
  PROVE  ReadAll(c) \in Reader
<1> DEFINE Good == {i \in 0 .. Len(c) : ReadAll(SubSeq(c, 1, i)) \in Reader}
<1>0. Len(c) \in Nat /\ SubSeq(c, 1, Len(c)) = c
  BY EmptyIffNone, SubSeqFull
<1>1. 0 \in Good
  <2>1. SubSeq(c, 1, 0) = <<>> /\ 0 \in 0 .. Len(c)
    BY <1>0, SubSeqProperties, EmptyIffNone
  <2> QED BY <2>1, ReadEmpty, FreshIsReader
<1>2. ASSUME NEW i \in 1 .. Len(c), i - 1 \in Good PROVE i \in Good
  <2> DEFINE d == SubSeq(c, 1, i - 1)
             s == ReadAll(d)
             none == {}
  <2>1. d \in Seq(Chars) /\ c[i] \in Chars /\ SubSeq(c, 1, i) = Append(d, c[i])
    BY PrefixGrows
  <2>2. s \in Reader
    BY <1>2
  <2> HIDE DEF d
  <2>3. ReadAll(SubSeq(c, 1, i)) = ReadChar(s, c[i])
    BY <2>1, ReadAppend
  <2> HIDE DEF s
  <2>4. s.items \in Seq(Item) /\ \A w \in none : FALSE
    BY <2>2, ReaderIs
  <2> HIDE DEF none
  <2>5. Alike(s.items, s.items, none)
    BY <2>4 DEF Alike
  <2>6. Like(s, s, none)
    BY <2>2, <2>5 DEF Like
  <2>7. ReadChar(s, c[i]) \in Reader
    BY <2>1, <2>6, CharLike DEF Like
  <2>8. i \in 0 .. Len(c)
    BY <1>0
  <2> QED BY <2>3, <2>7, <2>8
<1>3. \A i \in 0 .. Len(c) : i \in Good
  <2> HIDE DEF Good
  <2> QED BY <1>0, <1>1, <1>2, Upwards
<1>4. Len(c) \in Good
  <2> HIDE DEF Good
  <2> QED BY <1>0, <1>3
<1> QED BY <1>0, <1>4

\* What a shell has read of a text at a place, and of another one put before the rest.
ReadTo(c, i) == ReadAll(SubSeq(c, 1, i))
ReadOn(q, c, lo, hi) == ReadAll(q \o SubSeq(c, lo + 1, hi))

LEMMA CutGrows ==
  ASSUME NEW c \in Seq(Chars), NEW lo \in Nat, NEW hi \in Nat, lo < hi, hi <= Len(c)
  PROVE  /\ SubSeq(c, lo + 1, hi - 1) \in Seq(Chars) /\ c[hi] \in Chars
         /\ SubSeq(c, lo + 1, hi) = Append(SubSeq(c, lo + 1, hi - 1), c[hi])
<1>0. Len(c) \in Nat
  BY EmptyIffNone
<1>1. c[hi] \in Chars
  <2>1. hi \in 1 .. Len(c)
    BY <1>0
  <2> QED BY <2>1, ElementOfSeq
<1>2. SubSeq(c, lo + 1, hi - 1) \in Seq(Chars)
  <2>1. lo + 1 \in Int /\ hi - 1 \in Int /\ 1 <= lo + 1 /\ hi - 1 <= Len(c)
    BY <1>0
  <2> QED BY <2>1, CutIsSeq
<1>3. SubSeq(c, lo + 1, hi) = SubSeq(c, lo + 1, hi - 1) \o <<c[hi]>>
  <2>1. lo + 1 \in 1 .. Len(c) /\ hi \in lo + 1 .. Len(c)
    BY <1>0
  <2> QED BY <2>1, SubSeqRecursiveSecond
<1> QED BY <1>1, <1>2, <1>3, AppendIsConcat

LEMMA CutEmpty ==
  ASSUME NEW c \in Seq(Chars), NEW q \in Seq(Chars), NEW lo \in Nat
  PROVE  SubSeq(c, lo + 1, lo) = <<>> /\ q \o SubSeq(c, lo + 1, lo) = q
<1>1. SubSeq(c, lo + 1, lo) = <<>>
  BY SubSeqEmpty
<1> QED BY <1>1, ConcatEmptySeq

\* One character more.
LEMMA ReadsOn ==
  ASSUME NEW c \in Seq(Chars), NEW q \in Seq(Chars), NEW lo \in Nat, NEW hi \in Nat, lo < hi, hi <= Len(c)
  PROVE  /\ c[hi] \in Chars
         /\ ReadTo(c, hi) = ReadChar(ReadTo(c, hi - 1), c[hi])
         /\ ReadOn(q, c, lo, hi) = ReadChar(ReadOn(q, c, lo, hi - 1), c[hi])
<1> DEFINE x == c[hi]
           cut == SubSeq(c, lo + 1, hi - 1)
           pre == SubSeq(c, 1, hi - 1)
<1>1. x \in Chars /\ cut \in Seq(Chars) /\ SubSeq(c, lo + 1, hi) = Append(cut, x)
  BY CutGrows
<1>2. pre \in Seq(Chars) /\ SubSeq(c, 1, hi) = Append(pre, x)
  <2>1. 0 \in Nat /\ 0 < hi /\ 0 + 1 = 1
    OBVIOUS
  <2> QED BY <2>1, CutGrows
<1> HIDE DEF x, cut, pre
<1>3. ReadAll(Append(pre, x)) = ReadChar(ReadAll(pre), x)
  BY <1>1, <1>2, ReadAppend
<1>4. q \o cut \in Seq(Chars) /\ q \o Append(cut, x) = Append(q \o cut, x)
  BY <1>1, AppendChars, ConcatProperties
<1>5. ReadAll(Append(q \o cut, x)) = ReadChar(ReadAll(q \o cut), x)
  BY <1>1, <1>4, ReadAppend
<1> QED BY <1>1, <1>2, <1>3, <1>4, <1>5 DEF ReadTo, ReadOn, x, cut, pre

\* Two shells that read the same from somewhere on stay alike.
LEMMA ReadAlong ==
  ASSUME NEW c \in Seq(Chars), NEW q \in Seq(Chars), NEW lo \in Nat, NEW mid \in Nat, NEW hi \in Nat,
         lo <= mid, mid <= hi, hi <= Len(c), NEW swaps,
         Like(ReadTo(c, mid), ReadOn(q, c, lo, mid), swaps)
  PROVE  Like(ReadTo(c, hi), ReadOn(q, c, lo, hi), swaps)
<1> DEFINE Holds(i) == Like(ReadTo(c, i), ReadOn(q, c, lo, i), swaps)
           n == hi - mid
           Good == {i \in 0 .. n : Holds(mid + i)}
<1>0. n \in Nat /\ mid + 0 = mid /\ mid + n = hi /\ Len(c) \in Nat
  BY EmptyIffNone
<1>1. 0 \in Good
  <2>1. Holds(mid)
    OBVIOUS
  <2> HIDE DEF Holds
  <2> QED BY <1>0, <2>1
<1>2. ASSUME NEW i \in 1 .. n, i - 1 \in Good PROVE i \in Good
  <2> DEFINE j == mid + i
             a == ReadTo(c, j - 1)
             b == ReadOn(q, c, lo, j - 1)
  <2>1. j \in Nat /\ lo < j /\ j <= Len(c) /\ j - 1 = mid + (i - 1) /\ i \in 0 .. n
    BY <1>0
  <2>2. Holds(j - 1)
    <3> HIDE DEF Holds, j
    <3> QED BY <1>2, <2>1
  <2> HIDE DEF j
  <2>3. /\ c[j] \in Chars /\ ReadTo(c, j) = ReadChar(a, c[j])
        /\ ReadOn(q, c, lo, j) = ReadChar(b, c[j])
    BY <2>1, ReadsOn
  <2>4. Like(a, b, swaps)
    BY <2>2
  <2> HIDE DEF a, b
  <2>5. Like(ReadChar(a, c[j]), ReadChar(b, c[j]), swaps)
    BY <2>3, <2>4, CharLike
  <2>6. Holds(j)
    BY <2>3, <2>5
  <2> HIDE DEF Holds
  <2> QED BY <2>1, <2>6 DEF j
<1>3. n \in Good
  <2> HIDE DEF Good, n
  <2>1. \A i \in 0 .. n : i \in Good
    BY <1>0, <1>1, <1>2, Upwards
  <2>2. n \in 0 .. n
    BY <1>0
  <2> QED BY <2>1, <2>2
<1>4. Holds(hi)
  <2> HIDE DEF Holds
  <2> QED BY <1>0, <1>3
<1> QED BY <1>4

\* A blank or operator that ends a word reads the same where the word has ended.
Settled(s, x) == ReadChar(s, x) = ReadChar(EndWord(s), x)

LEMMA OutIsEnded ==
  ASSUME NEW s, NEW items, NEW mode, Out(s, items, mode)
  PROVE  EndWord(s) = s
BY EndWordIs DEF Out

LEMMA EndsAreSettled ==
  ASSUME NEW s \in Reader, s.mode = "plain", NEW x \in Chars, EndsWord(s, x)
  PROVE  Settled(s, x)
<1> DEFINE e == EndWord(s)
<1>1. Out(e, e.items, "plain")
  BY EndWordOut
<1>2. e \in Reader /\ e.mode = "plain" /\ e.inWord = FALSE
  BY <1>1 DEF Out
<1>3. EndWord(e) = e
  BY <1>1, OutIsEnded
<1>4. CASE x = "_"
  <2>1. ReadChar(s, x) = e
    BY <1>4, PlainChar
  <2> HIDE DEF e
  <2>2. ReadChar(e, x) = EndWord(e)
    BY <1>2, <1>4, PlainChar
  <2> QED BY <1>3, <2>1, <2>2 DEF Settled, e
<1>5. CASE x \in OperatorChars
  <2>1. ~BareTwo(s, x)
    BY DEF EndsWord
  <2>2. ~BareTwo(e, x)
    BY <1>2 DEF BareTwo
  <2>3. ReadChar(s, x) = ReadOp(s, x)
    BY <1>5, PlainChar
  <2>4. ReadOp(s, x) = [e EXCEPT !.items = AddOp(@, x)]
    BY <2>1 DEF ReadOp
  <2> HIDE DEF e
  <2>5. ReadChar(e, x) = ReadOp(e, x)
    BY <1>2, <1>5, PlainChar
  <2>6. ReadOp(e, x) = [e EXCEPT !.items = AddOp(@, x)]
    BY <1>3, <2>2 DEF ReadOp
  <2> QED BY <2>3, <2>4, <2>5, <2>6 DEF Settled, e
<1> QED BY <1>4, <1>5 DEF EndsWord

\* A text and another that a shell has read alike, each up to the end of a run: what
\* follows in the first reads on in both.
Joined(c, lo, q, swaps) ==
    /\ Like(EndWord(ReadTo(c, lo)), EndWord(ReadAll(q)), swaps)
    /\ lo < Len(c) => Settled(ReadTo(c, lo), c[lo + 1]) /\ Settled(ReadAll(q), c[lo + 1])

\* What stands between two runs.
LEMMA ReadGap ==
  ASSUME NEW c \in Seq(Chars), NEW q \in Seq(Chars), NEW lo \in Nat, NEW hi \in Nat,
         lo < hi, hi <= Len(c), NEW swaps, Joined(c, lo, q, swaps)
  PROVE  Like(ReadTo(c, hi), ReadOn(q, c, lo, hi), swaps)
<1> DEFINE s == ReadTo(c, lo)
           t == ReadAll(q)
           x == c[lo + 1]
           mid == lo + 1
<1>0. mid \in Nat /\ lo < mid /\ mid <= hi /\ mid <= Len(c) /\ mid - 1 = lo /\ lo < Len(c) /\ lo <= mid
  BY EmptyIffNone
<1>1. /\ Like(EndWord(s), EndWord(t), swaps)
      /\ ReadChar(s, x) = ReadChar(EndWord(s), x) /\ ReadChar(t, x) = ReadChar(EndWord(t), x)
  BY <1>0 DEF Joined, Settled
<1>2. ReadOn(q, c, lo, lo) = t
  BY CutEmpty DEF ReadOn
<1> HIDE DEF mid
<1>3. c[mid] \in Chars /\ ReadTo(c, mid) = ReadChar(s, c[mid]) /\ ReadOn(q, c, lo, mid) = ReadChar(t, c[mid])
  BY <1>0, <1>2, ReadsOn
<1>4. c[mid] = x
  BY DEF mid
<1> HIDE DEF s, t, x
<1>5. Like(ReadChar(EndWord(s), x), ReadChar(EndWord(t), x), swaps)
  BY <1>1, <1>3, <1>4, CharLike
<1>6. Like(ReadTo(c, mid), ReadOn(q, c, lo, mid), swaps)
  BY <1>1, <1>3, <1>4, <1>5
<1> QED BY <1>0, <1>6, ReadAlong

LEMMA ReadToIsReader ==
  ASSUME NEW c \in Seq(Chars), NEW i \in 0 .. Len(c)
  PROVE  /\ ReadTo(c, i) \in Reader /\ ReadTo(c, i).items \in Seq(Item)
         /\ Reading(c) \in Seq(Item)
<1>1. ReadAll(c) \in Reader
  BY ReadIsTyped
<1>2. EndWord(ReadAll(c)) \in Reader
  BY <1>1, EndWordOut DEF Out
<1>3. SubSeq(c, 1, i) \in Seq(Chars)
  <2>1. 1 \in Int /\ i \in Int /\ 1 <= 1 /\ i <= Len(c)
    BY EmptyIffNone
  <2> QED BY <2>1, CutIsSeq
<1>4. ReadTo(c, i) \in Reader
  BY <1>3, ReadIsTyped DEF ReadTo
<1> QED BY <1>2, <1>4, ReaderIs DEF Reading

\* No segment starts where another ends: a gap is between them.
LEMMA NotTwoRuns ==
  ASSUME NEW c \in Seq(Chars), NEW g, NEW h, StandsAlone(c, g), StandsAlone(c, h),
         Start(g) - 1 \in 0 .. Len(c), End(g) \in 0 .. Len(c), Start(h) - 1 = End(g)
  PROVE  FALSE
<1> DEFINE before == ReadTo(c, Start(g) - 1)
           after == ReadTo(c, End(g))
           had == before.items
           run == Reading(c)[Len(had) + 1]
<1>1. EndWord(after).items = Append(had, run) /\ run.op = <<>> /\ Len(had) + 1 \in DOMAIN Reading(c)
  BY DEF StandsAlone, ReadTo
<1>2. ~after.inWord /\ (after.items # <<>> => after.items[Len(after.items)].op # <<>>)
  BY DEF StandsAlone, BetweenRuns, ReadTo
<1>3. EndWord(after) = after
  BY <1>2 DEF EndWord
<1>4. had \in Seq(Item) /\ Reading(c) \in Seq(Item)
  BY ReadToIsReader
<1>5. run \in Item
  <2>1. Len(had) + 1 \in 1 .. Len(Reading(c))
    BY <1>1, <1>4, EmptyIffNone
  <2> QED BY <1>4, <2>1, ElementOfSeq
<1> HIDE DEF before, after, had, run
<1> DEFINE more == Append(had, run)
<1>6. more # <<>> /\ more[Len(more)] = run
  <2>1. /\ more # <<>> /\ Len(had) \in Nat /\ Len(more) = Len(had) + 1 /\ more[Len(had) + 1] = run
    BY <1>4, <1>5, AppendFacts
  <2> HIDE DEF more
  <2> QED BY <2>1
<1>7. after.items = more
  BY <1>1, <1>3
<1> HIDE DEF more
<1> QED BY <1>1, <1>2, <1>6, <1>7

LEMMA BeforeRun ==
  ASSUME NEW c \in Seq(Chars), NEW q \in Seq(Chars), NEW lo \in Nat, NEW hi \in Nat,
         lo <= hi, hi <= Len(c), NEW swaps, Joined(c, lo, q, swaps),
         lo = hi => lo = 0 /\ q = <<>>
  PROVE  Like(ReadTo(c, hi), ReadOn(q, c, lo, hi), swaps)
<1>1. CASE lo < hi
  BY <1>1, ReadGap
<1>2. CASE lo = hi
  <2>1. SubSeq(c, 1, hi) = <<>> /\ ReadOn(q, c, lo, hi) = ReadAll(q) /\ q = <<>>
    <3>1. 0 \in Nat /\ lo = 0 /\ q = <<>> /\ hi = 0
      BY <1>2
    <3>2. SubSeq(c, lo + 1, lo) = <<>> /\ q \o SubSeq(c, lo + 1, lo) = q
      BY CutEmpty
    <3>3. lo + 1 = 1
      BY <3>1
    <3> QED BY <1>2, <3>1, <3>2, <3>3 DEF ReadOn
  <2>2. ReadTo(c, hi) = Fresh /\ ReadOn(q, c, lo, hi) = Fresh /\ ReadAll(q) = Fresh /\ ReadTo(c, lo) = Fresh
    BY <1>2, <2>1, ReadEmpty DEF ReadTo
  <2>3. EndWord(Fresh) = Fresh
    BY DEF EndWord, Fresh
  <2> QED BY <2>2, <2>3 DEF Joined
<1> QED BY <1>1, <1>2

\* A run that both texts hold.
LEMMA RunKept ==
  ASSUME NEW c \in Seq(Chars), NEW q \in Seq(Chars), NEW lo \in Nat, NEW hi \in Nat,
         lo <= hi, hi <= Len(c), NEW swaps, Like(ReadTo(c, lo), ReadAll(q), swaps),
         ReadTo(c, hi).mode = "plain", hi < Len(c) => EndsWord(ReadTo(c, hi), c[hi + 1])
  PROVE  Joined(c, hi, q \o SubSeq(c, lo + 1, hi), swaps)
<1> DEFINE s == ReadTo(c, hi)
           t == ReadOn(q, c, lo, hi)
<1>1. Like(s, t, swaps)
  <2>1. ReadOn(q, c, lo, lo) = ReadAll(q)
    BY CutEmpty DEF ReadOn
  <2>2. lo <= lo
    OBVIOUS
  <2> QED BY <2>1, <2>2, ReadAlong
<1> HIDE DEF s, t
<1>2. Like(EndWord(s), EndWord(t), swaps)
  BY <1>1, EndWordLike
<1>3. /\ s \in Reader /\ t \in Reader /\ s.word = t.word /\ s.inWord = t.inWord
      /\ s.quoted = t.quoted /\ s.mode = "plain" /\ t.mode = "plain"
  BY <1>1 DEF Like, s
<1>4. ASSUME hi < Len(c) PROVE Settled(s, c[hi + 1]) /\ Settled(t, c[hi + 1])
  <2> DEFINE x == c[hi + 1]
  <2>1. x \in Chars
    <3>1. hi + 1 \in 1 .. Len(c)
      BY <1>4, EmptyIffNone
    <3> QED BY <3>1, ElementOfSeq
  <2>2. EndsWord(s, x)
    BY <1>4 DEF s
  <2>3. EndsWord(t, x)
    BY <1>3, <2>2 DEF EndsWord, BareTwo
  <2> QED BY <1>3, <2>1, <2>2, <2>3, EndsAreSettled
<1> QED BY <1>2, <1>4 DEF Joined, ReadOn, s, t

\* Where the run of a segment is among what a shell reads, and what is to stand there.
PlaceOf(c, g) == Len(EndWord(ReadTo(c, End(g))).items)
SwapOf(c, g, text) ==
    [place |-> PlaceOf(c, g), size |-> Len(Reading(c)[PlaceOf(c, g)].words), words |-> <<<<"u">>, text>>]

LEMMA SandboxIsItem ==
  ASSUME NEW text \in Seq(Chars)
  PROVE  LET put == Sandbox(<<<<"u">>, text>>)
         IN  put \in Item /\ put.op = <<>> /\ put.words = <<<<"u">>, text>>
<1> DEFINE words == <<<<"u">>, text>>
           none == <<>>
<1>1. words \in Seq(Seq(Chars)) /\ none \in Seq(Chars)
  <2>1. <<"u">> \in Seq(Chars)
    BY CharAssumption, OneIsSeq
  <2> QED BY <2>1, TwoIsSeq, EmptySeq
<1>2. Sandbox(words) = [op |-> none, words |-> words]
  BY DEF Sandbox
<1> HIDE DEF words, none
<1>3. Sandbox(words) \in Item /\ Sandbox(words).op = none /\ Sandbox(words).words = words
  BY <1>1, <1>2 DEF Item
<1> QED BY <1>3 DEF words, none

\* A run that one text holds and the other has the sandbox and a text for.
LEMMA RunWrapped ==
  ASSUME NEW c \in Seq(Chars), NEW q \in Seq(Chars), NEW g, StandsAlone(c, g),
         Start(g) - 1 \in 0 .. Len(c), End(g) \in 0 .. Len(c), NEW swaps,
         Like(ReadTo(c, Start(g) - 1), ReadAll(q), swaps), NEW text \in Seq(Chars)
  PROVE  Joined(c, End(g), q \o WrapOf(text), swaps \cup {SwapOf(c, g, text)})
<1> DEFINE before == ReadTo(c, Start(g) - 1)
           after == ReadTo(c, End(g))
           t == ReadAll(q)
           w == ReadAll(q \o WrapOf(text))
           had == before.items
           new == Reading(c)[Len(had) + 1]
           put == Sandbox(<<<<"u">>, text>>)
           more == {SwapOf(c, g, text)}
           hi == End(g)
<1>1. /\ BetweenRuns(before) /\ after.mode = "plain"
      /\ hi < Len(c) => EndsWord(after, c[hi + 1])
      /\ Len(had) + 1 \in DOMAIN Reading(c) /\ new.op = <<>>
      /\ EndWord(after).items = Append(had, new)
  BY DEF StandsAlone, ReadTo
<1>2. /\ before \in Reader /\ after \in Reader /\ t \in Reader /\ w \in Reader /\ q \o WrapOf(text) \in Seq(Chars)
      /\ Reading(c) \in Seq(Item)
  <2>1. q \o WrapOf(text) \in Seq(Chars)
    BY EscapeIsSeq, ConcatProperties
  <2> QED BY <2>1, ReadToIsReader, ReadIsTyped
<1>3. put \in Item /\ put.op = <<>> /\ put.words = <<<<"u">>, text>>
  BY SandboxIsItem
<1>4. new \in Item
  <2>1. Len(had) + 1 \in 1 .. Len(Reading(c))
    BY <1>1, <1>2, EmptyIffNone
  <2> QED BY <1>2, <2>1, ElementOfSeq
<1> HIDE DEF before, after, had, new, t, w, put
<1>5. Alike(had, t.items, swaps) /\ before.mode = t.mode /\ before.inWord = t.inWord
  BY DEF Like, before, t, had
<1>6. BetweenRuns(t)
  <2>1. had # <<>> => EndsInOp(had)
    BY <1>1 DEF BetweenRuns, EndsInOp, had
  <2>2. t.items # <<>> <=> had # <<>>
    <3>1. had \in Seq(Item) /\ t.items \in Seq(Item) /\ Len(had) = Len(t.items)
      BY <1>5 DEF Alike
    <3> QED BY <3>1, EmptyIffNone
  <2>3. t.items # <<>> => EndsInOp(t.items)
    BY <1>5, <2>1, <2>2, EndsAlike
  <2> QED BY <1>1, <1>5, <2>3 DEF BetweenRuns, EndsInOp
<1>7. w = Argument(Opened(t.items), text, "plain") /\ EndWord(w).items = Append(t.items, put)
  BY <1>2, <1>6, ReadWrap DEF t, w, put
<1>8. w.mode = "plain" /\ w.quoted = TRUE
  BY <1>7 DEF Argument
<1>9. Alike(Append(had, new), Append(t.items, put), swaps \cup more)
  <2>1. Grown(had, Append(had, new), new) /\ Grown(t.items, Append(t.items, put), put)
    <3>1. had \in Seq(Item) /\ t.items \in Seq(Item)
      BY <1>5 DEF Alike
    <3> QED BY <1>3, <1>4, <3>1, GrowLast
  <2>2. new.op = put.op /\ (more = {} => new = put)
    BY <1>1, <1>3
  <2>3. SwapsAt(more, Len(had) + 1, new, put)
    <3>1. PlaceOf(c, g) = Len(had) + 1
      <4>1. had \in Seq(Item) /\ PlaceOf(c, g) = Len(Append(had, new))
        BY <1>1, <1>5 DEF PlaceOf, after, Alike
      <4> QED BY <1>4, <4>1, AppendFacts
    <3>2. /\ SwapOf(c, g, text).place = Len(had) + 1 /\ SwapOf(c, g, text).size = Len(new.words)
          /\ SwapOf(c, g, text).words = put.words
      BY <1>3, <3>1 DEF SwapOf, new
    <3> QED BY <3>2 DEF SwapsAt
  <2> HIDE DEF more
  <2> QED BY <1>5, <2>1, <2>2, <2>3, GrownAlike
<1> HIDE DEF more
<1>10. Like(EndWord(after), EndWord(w), swaps \cup more)
  <2>1. Out(EndWord(after), Append(had, new), "plain")
    BY <1>1, <1>2, EndWordOut
  <2>2. Out(EndWord(w), Append(t.items, put), "plain")
    BY <1>2, <1>7, <1>8, EndWordOut
  <2> QED BY <1>9, <2>1, <2>2, OutAlike
<1>11. ASSUME hi < Len(c) PROVE Settled(after, c[hi + 1]) /\ Settled(w, c[hi + 1])
  <2> DEFINE x == c[hi + 1]
  <2>1. x \in Chars
    <3>1. hi + 1 \in 1 .. Len(c)
      BY <1>11, EmptyIffNone
    <3> QED BY <3>1, ElementOfSeq
  <2>2. EndsWord(after, x)
    BY <1>1, <1>11
  <2>3. EndsWord(w, x)
    BY <1>8, <2>2 DEF EndsWord, BareTwo
  <2> QED BY <1>1, <1>2, <1>8, <2>1, <2>2, <2>3, EndsAreSettled
<1> QED BY <1>10, <1>11 DEF Joined, after, w, more

----------------------------------------------------------------------------
(* A command put back together.                                                *)

\* Where the segment k ends, what is before it and what stands there, put back together.
Edge(c, k) == IF k = 0 THEN 0 ELSE End(Groups(c)[k])
GapOf(c, k) == SubSeq(c, Edge(c, k - 1) + 1, Start(Groups(c)[k]) - 1)
PutOf(c, replacements, k) ==
    IF k \in DOMAIN replacements THEN replacements[k]
    ELSE SubSeq(c, Start(Groups(c)[k]), End(Groups(c)[k]))
TailOf(c) == SubSeq(c, Edge(c, Len(Groups(c))) + 1, Len(c))

LEMMA GroupsAreInside ==
  ASSUME NEW c \in Seq(Chars)
  PROVE  /\ Len(Groups(c)) \in Nat /\ DOMAIN Groups(c) = 1 .. Len(Groups(c)) /\ Len(c) \in Nat
         /\ \A k \in 1 .. Len(Groups(c)) :
              /\ Start(Groups(c)[k]) \in 1 .. Len(c) /\ End(Groups(c)[k]) \in 1 .. Len(c)
              /\ Start(Groups(c)[k]) <= End(Groups(c)[k])
              /\ Edge(c, k - 1) <= Start(Groups(c)[k]) - 1
         /\ \A k \in 0 .. Len(Groups(c)) : Edge(c, k) \in 0 .. Len(c)
<1> DEFINE gs == Groups(c)
           n == Len(gs)
<1>1. gs \in Seq(GroupOf(c)) /\ n \in Nat /\ DOMAIN gs = 1 .. n /\ Len(c) \in Nat
  BY GroupsAreGroups, EmptyIffNone
<1>2. Ordered(gs)
  BY GroupsInOrder
<1>3. \A k \in 0 .. n : Edge(c, k) = IF k = 0 THEN 0 ELSE End(gs[k])
  BY DEF Edge
<1> HIDE DEF gs
<1>4. \A k \in 1 .. n : Start(gs[k]) \in 1 .. Len(c) /\ End(gs[k]) \in 1 .. Len(c)
  <2> TAKE k \in 1 .. n
  <2> DEFINE g == gs[k]
  <2>1. g \in GroupOf(c)
    BY <1>1, ElementOfSeq
  <2> HIDE DEF g
  <2>2. g \in Seq(PartOf(c)) /\ g # <<>>
    BY <2>1 DEF GroupOf
  <2>3. Len(g) \in 1 .. Len(g) /\ 1 \in 1 .. Len(g)
    BY <2>2, EmptyIffNone
  <2>4. g[1] \in PartOf(c) /\ g[Len(g)] \in PartOf(c)
    BY <2>2, <2>3, ElementOfSeq
  <2>5. Start(g) \in 1 .. Len(c) /\ End(g) \in 1 .. Len(c)
    BY <1>1, <2>4 DEF Start, End, PartOf
  <2> QED BY <2>5 DEF g
<1>5. /\ \A k \in 1 .. n : Start(gs[k]) <= End(gs[k])
      /\ \A k \in 2 .. n : End(gs[k - 1]) < Start(gs[k])
  BY <1>2 DEF Ordered
<1> HIDE DEF n
<1>6. \A k \in 0 .. n : Edge(c, k) \in 0 .. Len(c)
  BY <1>1, <1>3, <1>4
<1>7. ASSUME NEW k \in 1 .. n PROVE Edge(c, k - 1) <= Start(gs[k]) - 1
  <2>1. CASE k = 1
    <3>1. Edge(c, k - 1) = 0
      BY <1>1, <1>3, <2>1
    <3> QED BY <1>4, <3>1
  <2>2. CASE k # 1
    <3>1. k \in 2 .. n /\ k - 1 \in 0 .. n /\ k - 1 \in 1 .. n /\ k - 1 # 0
      BY <1>1, <2>2
    <3>2. Edge(c, k - 1) = End(gs[k - 1]) /\ End(gs[k - 1]) < Start(gs[k])
      BY <1>3, <1>5, <3>1
    <3>3. End(gs[k - 1]) \in Nat /\ Start(gs[k]) \in Nat
      BY <1>1, <1>4, <3>1
    <3> QED BY <3>2, <3>3
  <2> QED BY <2>1, <2>2
<1> QED BY <1>1, <1>4, <1>5, <1>6, <1>7 DEF gs, n

\* A command put back together, piece by piece.
LEMMA RebuiltIs ==
  ASSUME NEW c \in Seq(Chars), NEW replacements,
         \A k \in DOMAIN replacements : replacements[k] \in Seq(Chars),
         RebuildCommand(c, replacements) # NoText
  PROVE  /\ DOMAIN replacements \subseteq 1 .. Len(Groups(c)) /\ TailOf(c) \in Seq(Chars)
         /\ \A k \in 1 .. Len(Groups(c)) : GapOf(c, k) \in Seq(Chars) /\ PutOf(c, replacements, k) \in Seq(Chars)
         /\ \E pieces \in Seq(Seq(Chars)) :
              /\ Len(pieces) = Len(Groups(c))
              /\ \A k \in 1 .. Len(Groups(c)) : pieces[k] = GapOf(c, k) \o PutOf(c, replacements, k)
              /\ RebuildCommand(c, replacements) = FlattenSeq(pieces) \o TailOf(c)
<1> DEFINE gs == Groups(c)
           n == Len(gs)
           pieces == [k \in DOMAIN gs |-> GapOf(c, k) \o PutOf(c, replacements, k)]
<1>1. /\ DOMAIN replacements \subseteq DOMAIN gs
      /\ RebuildCommand(c, replacements) = FlattenSeq(pieces) \o TailOf(c)
  BY DEF RebuildCommand, GapOf, PutOf, TailOf, Edge
<1>2. /\ n \in Nat /\ DOMAIN gs = 1 .. n /\ Len(c) \in Nat
      /\ \A k \in 1 .. n : Start(gs[k]) \in 1 .. Len(c) /\ End(gs[k]) \in 1 .. Len(c)
      /\ \A k \in 0 .. n : Edge(c, k) \in 0 .. Len(c)
  BY GroupsAreInside
<1>3. TailOf(c) \in Seq(Chars)
  <2>1. Edge(c, n) \in 0 .. Len(c)
    BY <1>2
  <2> HIDE DEF n
  <2> QED BY <1>2, <2>1, CutIsSeq DEF TailOf, n, gs
<1> HIDE DEF gs
<1>4. ASSUME NEW k \in 1 .. n PROVE GapOf(c, k) \in Seq(Chars) /\ PutOf(c, replacements, k) \in Seq(Chars)
  <2>1. Edge(c, k - 1) \in 0 .. Len(c) /\ Start(gs[k]) \in 1 .. Len(c) /\ End(gs[k]) \in 1 .. Len(c)
    <3>1. k - 1 \in 0 .. n
      BY <1>2
    <3> QED BY <1>2, <3>1
  <2>2. SubSeq(c, Edge(c, k - 1) + 1, Start(gs[k]) - 1) \in Seq(Chars)
    BY <1>2, <2>1, CutIsSeq
  <2>3. SubSeq(c, Start(gs[k]), End(gs[k])) \in Seq(Chars)
    BY <1>2, <2>1, CutIsSeq
  <2>4. PutOf(c, replacements, k) = IF k \in DOMAIN replacements THEN replacements[k]
                                    ELSE SubSeq(c, Start(gs[k]), End(gs[k]))
    BY DEF PutOf, gs
  <2> QED BY <2>2, <2>3, <2>4 DEF GapOf, gs
<1>5. pieces \in Seq(Seq(Chars)) /\ Len(pieces) = n /\ \A k \in 1 .. n : pieces[k] = GapOf(c, k) \o PutOf(c, replacements, k)
  <2>1. \A k \in 1 .. n : GapOf(c, k) \o PutOf(c, replacements, k) \in Seq(Chars)
    BY <1>4, ConcatProperties
  <2>2. pieces \in [1 .. n -> Seq(Chars)]
    BY <1>2, <2>1
  <2>3. pieces \in Seq(Seq(Chars)) /\ Len(pieces) = n
    <3> HIDE DEF pieces
    <3> QED BY <1>2, <2>2, FunctionIsSeq
  <2> QED BY <1>2, <2>3
<1> HIDE DEF pieces
<1> QED BY <1>1, <1>2, <1>3, <1>4, <1>5 DEF gs, n

\* The same from one segment to the next.
LEMMA RebuiltScan ==
  ASSUME NEW c \in Seq(Chars), NEW replacements,
         \A k \in DOMAIN replacements : replacements[k] \in Seq(Chars),
         RebuildCommand(c, replacements) # NoText
  PROVE  \E upto :
           /\ upto[0] = <<>> /\ \A k \in 0 .. Len(Groups(c)) : upto[k] \in Seq(Chars)
           /\ \A k \in 1 .. Len(Groups(c)) :
                upto[k] = (upto[k - 1] \o GapOf(c, k)) \o PutOf(c, replacements, k)
           /\ RebuildCommand(c, replacements) = upto[Len(Groups(c))] \o TailOf(c)
<1> DEFINE n == Len(Groups(c))
<1>1. /\ \A k \in 1 .. n : GapOf(c, k) \in Seq(Chars) /\ PutOf(c, replacements, k) \in Seq(Chars)
      /\ \E pieces \in Seq(Seq(Chars)) :
           /\ Len(pieces) = n /\ \A k \in 1 .. n : pieces[k] = GapOf(c, k) \o PutOf(c, replacements, k)
           /\ RebuildCommand(c, replacements) = FlattenSeq(pieces) \o TailOf(c)
  BY RebuiltIs
<1>2. PICK pieces \in Seq(Seq(Chars)) :
        /\ Len(pieces) = n /\ \A k \in 1 .. n : pieces[k] = GapOf(c, k) \o PutOf(c, replacements, k)
        /\ RebuildCommand(c, replacements) = FlattenSeq(pieces) \o TailOf(c)
  BY <1>1
<1>3. n \in Nat
  BY GroupsAreInside
<1> HIDE DEF n
<1> DEFINE upto == [k \in 0 .. n |-> FlattenSeq(SubSeq(pieces, 1, k))]
<1>4. \A k \in 0 .. n : upto[k] = FlattenSeq(SubSeq(pieces, 1, k))
  OBVIOUS
<1> HIDE DEF upto
<1>5. \A k \in 0 .. n : upto[k] \in Seq(Chars)
  <2> TAKE k \in 0 .. n
  <2>1. SubSeq(pieces, 1, k) \in Seq(Seq(Chars))
    BY <1>2, <1>3, CutIsSeq
  <2> QED BY <1>4, <2>1, FlattenIsSeq
<1>6. upto[0] = <<>> /\ upto[n] = FlattenSeq(pieces)
  <2>1. SubSeq(pieces, 1, 0) = <<>> /\ SubSeq(pieces, 1, n) = pieces
    BY <1>2, SubSeqEmpty, SubSeqFull
  <2>2. 0 \in 0 .. n /\ n \in 0 .. n
    BY <1>3
  <2> QED BY <1>4, <2>1, <2>2, FlattenEmpty
<1>7. ASSUME NEW k \in 1 .. n PROVE upto[k] = (upto[k - 1] \o GapOf(c, k)) \o PutOf(c, replacements, k)
  <2>1. k \in 0 .. n /\ k - 1 \in 0 .. n
    BY <1>3
  <2>2. upto[k] = upto[k - 1] \o pieces[k]
    BY <1>2, <1>4, <2>1, FlattenUpto
  <2> DEFINE a == upto[k - 1]
             gap == GapOf(c, k)
             put == PutOf(c, replacements, k)
  <2>3. a \in Seq(Chars) /\ gap \in Seq(Chars) /\ put \in Seq(Chars) /\ pieces[k] = gap \o put
    BY <1>1, <1>2, <1>5, <2>1
  <2> HIDE DEF a, gap, put
  <2>4. (a \o gap) \o put = a \o (gap \o put)
    BY <2>3, RegroupChars
  <2> QED BY <2>2, <2>3, <2>4 DEF a, gap, put
<1> QED BY <1>2, <1>5, <1>6, <1>7 DEF n

\* What stands for the runs of the segments so far.
SwapsTo(c, texts, k) == {SwapOf(c, Groups(c)[i], texts[i]) : i \in {j \in DOMAIN texts : j <= k}}

LEMMA SwapsGrow ==
  ASSUME NEW c, NEW texts, NEW n \in Nat, DOMAIN texts \subseteq 1 .. n
  PROVE  /\ SwapsTo(c, texts, 0) = {}
         /\ \A k \in 1 .. n :
              SwapsTo(c, texts, k) =
                IF k \in DOMAIN texts THEN SwapsTo(c, texts, k - 1) \cup {SwapOf(c, Groups(c)[k], texts[k])}
                ELSE SwapsTo(c, texts, k - 1)
<1> DEFINE Upon(k) == {j \in DOMAIN texts : j <= k}
           Swap(i) == SwapOf(c, Groups(c)[i], texts[i])
<1>1. Upon(0) = {}
  OBVIOUS
<1>2. \A k \in 1 .. n : Upon(k) = IF k \in DOMAIN texts THEN Upon(k - 1) \cup {k} ELSE Upon(k - 1)
  OBVIOUS
<1>3. \A k : SwapsTo(c, texts, k) = {Swap(i) : i \in Upon(k)}
  BY DEF SwapsTo
<1> HIDE DEF Upon, Swap
<1>4. SwapsTo(c, texts, 0) = {}
  BY <1>1, <1>3
<1>5. ASSUME NEW k \in 1 .. n
      PROVE  SwapsTo(c, texts, k) = IF k \in DOMAIN texts THEN SwapsTo(c, texts, k - 1) \cup {Swap(k)}
                                    ELSE SwapsTo(c, texts, k - 1)
  <2>1. CASE k \in DOMAIN texts
    <3>1. Upon(k) = Upon(k - 1) \cup {k}
      BY <1>2, <2>1
    <3>2. {Swap(i) : i \in Upon(k - 1) \cup {k}} = {Swap(i) : i \in Upon(k - 1)} \cup {Swap(k)}
      OBVIOUS
    <3> QED BY <1>3, <2>1, <3>1, <3>2
  <2>2. CASE k \notin DOMAIN texts
    <3>1. Upon(k) = Upon(k - 1)
      BY <1>2, <2>2
    <3> QED BY <1>3, <2>2, <3>1
  <2> QED BY <2>1, <2>2
<1> QED BY <1>4, <1>5 DEF Swap

LEMMA NothingJoined ==
  ASSUME NEW c \in Seq(Chars)
  PROVE  Joined(c, 0, <<>>, {})
<1> DEFINE none == {}
<1>1. ReadTo(c, 0) = Fresh /\ ReadAll(<<>>) = Fresh
  <2>1. SubSeq(c, 1, 0) = <<>>
    BY SubSeqEmpty
  <2> QED BY <2>1, ReadEmpty DEF ReadTo
<1>2. EndWord(Fresh) = Fresh
  BY DEF EndWord, Fresh
<1>3. Fresh \in Reader /\ Fresh.items \in Seq(Item) /\ \A w \in none : FALSE
  BY FreshIsReader, ReaderIs
<1> HIDE DEF none
<1>4. Alike(Fresh.items, Fresh.items, none)
  BY <1>3 DEF Alike
<1>5. Like(Fresh, Fresh, none)
  BY <1>3, <1>4 DEF Like
<1> QED BY <1>1, <1>2, <1>5 DEF Joined, Settled, none

\* A shell reads a command put back together as it reads the command, but that the runs of
\* the wrapped segments are the sandbox and their texts.
LEMMA RebuiltReads ==
  ASSUME NEW c \in Seq(Chars), SeesAsTheShell(c), NEW texts, NEW replacements,
         DOMAIN replacements = DOMAIN texts,
         \A k \in DOMAIN texts : texts[k] \in Seq(Chars) /\ replacements[k] = WrapOf(texts[k]),
         RebuildCommand(c, replacements) # NoText
  PROVE  LET e == RebuildCommand(c, replacements)
         IN  Complete(e) /\ Alike(Reading(c), Reading(e), SwapsTo(c, texts, Len(Groups(c))))
<1> DEFINE gs == Groups(c)
           n == Len(gs)
           e == RebuildCommand(c, replacements)
<1>0. \A k \in DOMAIN replacements : replacements[k] \in Seq(Chars)
  BY EscapeIsSeq
<1>1. /\ n \in Nat /\ DOMAIN gs = 1 .. n /\ Len(c) \in Nat
      /\ \A k \in 1 .. n :
           /\ Start(gs[k]) \in 1 .. Len(c) /\ End(gs[k]) \in 1 .. Len(c)
           /\ Start(gs[k]) <= End(gs[k]) /\ Edge(c, k - 1) <= Start(gs[k]) - 1
      /\ \A k \in 0 .. n : Edge(c, k) \in 0 .. Len(c)
  BY GroupsAreInside
<1>2. /\ DOMAIN texts \subseteq 1 .. n /\ TailOf(c) \in Seq(Chars)
      /\ \A k \in 1 .. n : GapOf(c, k) \in Seq(Chars)
  BY <1>0, RebuiltIs
<1>3. PICK upto :
        /\ upto[0] = <<>> /\ \A k \in 0 .. n : upto[k] \in Seq(Chars)
        /\ \A k \in 1 .. n : upto[k] = (upto[k - 1] \o GapOf(c, k)) \o PutOf(c, replacements, k)
        /\ e = upto[n] \o TailOf(c)
  BY <1>0, RebuiltScan
<1>4. /\ Complete(c)
      /\ \A k \in 1 .. n : StandsAlone(c, gs[k])
      /\ Edge(c, 0) = 0 /\ \A k \in 1 .. n : Edge(c, k) = End(gs[k])
      /\ \A k \in 1 .. n : GapOf(c, k) = SubSeq(c, Edge(c, k - 1) + 1, Start(gs[k]) - 1)
      /\ \A k \in 1 .. n : PutOf(c, replacements, k) = IF k \in DOMAIN replacements THEN replacements[k]
                                                       ELSE SubSeq(c, Start(gs[k]), End(gs[k]))
  <2>1. Complete(c) /\ \A k \in 1 .. n : StandsAlone(c, gs[k])
    BY <1>1 DEF SeesAsTheShell
  <2>2. Edge(c, 0) = 0 /\ \A k \in 1 .. n : Edge(c, k) = End(gs[k])
    BY <1>1 DEF Edge
  <2>3. \A k \in 1 .. n : GapOf(c, k) = SubSeq(c, Edge(c, k - 1) + 1, Start(gs[k]) - 1)
    BY DEF GapOf
  <2>4. \A k \in 1 .. n : PutOf(c, replacements, k) = IF k \in DOMAIN replacements THEN replacements[k]
                                                       ELSE SubSeq(c, Start(gs[k]), End(gs[k]))
    BY DEF PutOf
  <2> QED BY <2>1, <2>2, <2>3, <2>4
<1>5. /\ SwapsTo(c, texts, 0) = {}
      /\ \A k \in 1 .. n :
           SwapsTo(c, texts, k) = IF k \in DOMAIN texts THEN SwapsTo(c, texts, k - 1) \cup {SwapOf(c, gs[k], texts[k])}
                                  ELSE SwapsTo(c, texts, k - 1)
  BY <1>1, <1>2, SwapsGrow
<1> HIDE DEF gs, n, e
<1> DEFINE Holds(k) == Joined(c, Edge(c, k), upto[k], SwapsTo(c, texts, k))
           Good == {k \in 0 .. n : Holds(k)}
<1>6. 0 \in Good
  <2>1. 0 \in 0 .. n
    BY <1>1
  <2> QED BY <1>3, <1>4, <1>5, <2>1, NothingJoined
<1>7. ASSUME NEW k \in 1 .. n, k - 1 \in Good PROVE k \in Good
  <2> DEFINE g == gs[k]
             lo == Edge(c, k - 1)
             hi == Start(g) - 1
             to == End(g)
             q == upto[k - 1]
             gap == GapOf(c, k)
             had == SwapsTo(c, texts, k - 1)
  <2>0. k - 1 \in 0 .. n /\ k \in 0 .. n
    BY <1>1
  <2>1. /\ lo \in Nat /\ hi \in Nat /\ to \in Nat /\ hi \in 0 .. Len(c) /\ to \in 0 .. Len(c)
        /\ lo <= hi /\ hi <= to /\ hi <= Len(c) /\ to <= Len(c) /\ hi + 1 = Start(g)
    <3> DEFINE st == Start(g)
    <3>1. /\ st \in 1 .. Len(c) /\ to \in 1 .. Len(c) /\ st <= to /\ lo <= st - 1 /\ hi = st - 1
          /\ Len(c) \in Nat
      BY <1>1
    <3>2. lo \in 0 .. Len(c)
      BY <1>1, <2>0
    <3> HIDE DEF st, lo, hi, to
    <3>3. hi + 1 = st
      BY <3>1
    <3> QED BY <3>1, <3>2, <3>3 DEF st
  <2>2. q \in Seq(Chars) /\ gap \in Seq(Chars) /\ gap = SubSeq(c, lo + 1, hi) /\ StandsAlone(c, g)
    BY <1>2, <1>3, <1>4, <2>0
  <2>3. Joined(c, lo, q, had)
    BY <1>7
  <2>4. lo = hi => lo = 0 /\ q = <<>>
    <3>1. CASE k = 1
      BY <1>3, <1>4, <3>1
    <3>2. CASE k # 1
      <4> DEFINE f == gs[k - 1]
      <4>1. k - 1 \in 1 .. n
        BY <1>1, <3>2
      <4>2. StandsAlone(c, f) /\ lo = End(f) /\ Start(f) - 1 \in 0 .. Len(c) /\ End(f) \in 0 .. Len(c)
        <5>1. StandsAlone(c, f) /\ lo = End(f)
          BY <1>4, <4>1
        <5>2. Start(f) \in 1 .. Len(c) /\ End(f) \in 1 .. Len(c)
          BY <1>1, <4>1
        <5> HIDE DEF f
        <5> QED BY <1>1, <5>1, <5>2
      <4> HIDE DEF f, g, lo, hi
      <4>3. ASSUME lo = hi PROVE FALSE
        BY <2>2, <4>2, <4>3, NotTwoRuns DEF hi
      <4> QED BY <4>3
    <3> QED BY <3>1, <3>2
  <2>5. upto[k] = (q \o gap) \o PutOf(c, replacements, k) /\ Edge(c, k) = to
    BY <1>3, <1>4
  <2>6. PutOf(c, replacements, k) = IF k \in DOMAIN texts THEN WrapOf(texts[k]) ELSE SubSeq(c, hi + 1, to)
    BY <1>4, <2>1
  <2>7. SwapsTo(c, texts, k) = IF k \in DOMAIN texts THEN had \cup {SwapOf(c, g, texts[k])} ELSE had
    BY <1>5
  <2> HIDE DEF g, lo, hi, to, q, gap, had
  <2> DEFINE p == q \o gap
  <2>8. p \in Seq(Chars)
    BY <2>2, ConcatProperties
  <2>9. Like(ReadTo(c, hi), ReadAll(p), had)
    <3>1. Like(ReadTo(c, hi), ReadOn(q, c, lo, hi), had)
      BY <2>1, <2>2, <2>3, <2>4, BeforeRun
    <3> QED BY <2>2, <3>1 DEF ReadOn
  <2>10. upto[k] = p \o PutOf(c, replacements, k)
    BY <2>5
  <2> HIDE DEF p
  <2>11. Joined(c, to, upto[k], SwapsTo(c, texts, k))
    <3>1. CASE k \in DOMAIN texts
      <4>1. Joined(c, to, p \o WrapOf(texts[k]), had \cup {SwapOf(c, g, texts[k])})
        BY <2>1, <2>2, <2>8, <2>9, <3>1, RunWrapped DEF hi, to
      <4> QED BY <2>6, <2>7, <2>10, <3>1, <4>1
    <3>2. CASE k \notin DOMAIN texts
      <4>1. ReadTo(c, to).mode = "plain" /\ (to < Len(c) => EndsWord(ReadTo(c, to), c[to + 1]))
        BY <2>2 DEF StandsAlone, ReadTo, to
      <4>2. Joined(c, to, p \o SubSeq(c, hi + 1, to), had)
        BY <2>1, <2>8, <2>9, <4>1, RunKept
      <4> QED BY <2>6, <2>7, <2>10, <3>2, <4>2
    <3> QED BY <3>1, <3>2
  <2> QED BY <2>0, <2>5, <2>11
<1>8. Holds(n)
  <2>1. \A k \in 0 .. n : k \in Good
    <3> HIDE DEF Good
    <3> QED BY <1>1, <1>6, <1>7, Upwards
  <2>2. n \in 0 .. n
    BY <1>1
  <2> QED BY <2>1, <2>2
<1> DEFINE lo == Edge(c, n)
           q == upto[n]
           swaps == SwapsTo(c, texts, n)
<1>9. lo \in Nat /\ lo <= Len(c) /\ q \in Seq(Chars) /\ Joined(c, lo, q, swaps) /\ TailOf(c) = SubSeq(c, lo + 1, Len(c))
  <2>1. n \in 0 .. n
    BY <1>1
  <2> QED BY <1>1, <1>3, <1>8, <2>1 DEF TailOf, n, gs
<1>10. e = q \o SubSeq(c, lo + 1, Len(c))
  BY <1>3, <1>9
<1> HIDE DEF lo, q, swaps
<1>11. ReadTo(c, Len(c)) = ReadAll(c) /\ ReadAll(e) = ReadOn(q, c, lo, Len(c))
  BY <1>10, SubSeqFull DEF ReadTo, ReadOn
<1>12. Like(EndWord(ReadAll(c)), EndWord(ReadAll(e)), swaps)
  <2>1. CASE lo < Len(c)
    <3>1. Like(ReadAll(c), ReadAll(e), swaps)
      <4>1. Len(c) <= Len(c)
        BY <1>1
      <4> QED BY <1>1, <1>9, <1>11, <2>1, <4>1, ReadGap
    <3> QED BY <3>1, EndWordLike
  <2>2. CASE lo = Len(c)
    <3>1. q \o SubSeq(c, lo + 1, lo) = q
      BY <1>9, CutEmpty
    <3>2. e = q
      BY <1>10, <2>2, <3>1
    <3> QED BY <1>9, <1>11, <2>2, <3>2 DEF Joined
  <2> QED BY <1>1, <1>9, <2>1, <2>2
<1>13. e \in Seq(Chars)
  <2>1. q \in Seq(Chars) /\ SubSeq(c, lo + 1, Len(c)) \in Seq(Chars)
    BY <1>2, <1>9
  <2> QED BY <1>10, <2>1, ConcatProperties
<1>14. Complete(e) /\ Alike(Reading(c), Reading(e), swaps)
  <2> DEFINE s == ReadAll(c)
             t == ReadAll(e)
  <2>1. s \in Reader /\ t \in Reader /\ s.mode = "plain"
    BY <1>4, <1>13, ReadIsTyped DEF Complete
  <2> HIDE DEF s, t
  <2>2. EndWord(s).mode = s.mode /\ EndWord(t).mode = t.mode
    BY <2>1, EndWordOut DEF Out
  <2>3. EndWord(s).mode = EndWord(t).mode /\ Alike(EndWord(s).items, EndWord(t).items, swaps)
    BY <1>12 DEF Like, s, t
  <2> QED BY <2>1, <2>2, <2>3 DEF Complete, Reading, s, t
<1> QED BY <1>14 DEF e, swaps, n, gs

\* A text is found inside another.
FoundAt(all, w, i) ==
    i \in DOMAIN all /\ i + Len(w) - 1 <= Len(all) /\ SubSeq(all, i, i + Len(w) - 1) = w

LEMMA InsideIsFound ==
  ASSUME NEW a \in Seq(Chars), NEW w \in Seq(Chars), NEW b \in Seq(Chars), w # <<>>,
         NEW all, all = (a \o w) \o b
  PROVE  FoundAt(all, w, Len(a) + 1)
<1> DEFINE aw == a \o w
           i == Len(a) + 1
           cut == SubSeq(all, i, i + Len(w) - 1)
<1>0. /\ Len(a) \in Nat /\ Len(w) \in Nat /\ Len(b) \in Nat /\ Len(w) # 0
  BY EmptyIffNone
<1>1. /\ aw \in Seq(Chars) /\ Len(aw) = Len(a) + Len(w)
      /\ \A k \in 1 .. Len(a) + Len(w) : aw[k] = IF k <= Len(a) THEN a[k] ELSE w[k - Len(a)]
  BY ConcatProperties
<1> HIDE DEF aw
<1>2. /\ all \in Seq(Chars) /\ Len(all) = Len(aw) + Len(b)
      /\ \A k \in 1 .. Len(aw) + Len(b) : all[k] = IF k <= Len(aw) THEN aw[k] ELSE b[k - Len(aw)]
  <2>1. aw \in Seq(Chars)
    BY <1>1
  <2>2. all = aw \o b
    BY DEF aw
  <2> QED BY <2>1, <2>2, ConcatProperties
<1>3. DOMAIN all = 1 .. Len(all)
  BY <1>2, EmptyIffNone
<1>4. i \in 1 .. Len(all) /\ i + Len(w) - 1 \in i .. Len(all)
  BY <1>0, <1>1, <1>2
<1>5. cut \in Seq(Chars) /\ Len(cut) = Len(w) /\ \A k \in 1 .. Len(w) : cut[k] = all[i + k - 1]
  <2> DEFINE j == i + Len(w) - 1
  <2>1. i \in Nat /\ 1 <= i /\ j \in Nat /\ j + 1 = i + Len(w) /\ j <= Len(all)
    BY <1>0, <1>1, <1>2, <1>4
  <2> HIDE DEF j, i
  <2>2. /\ SubSeq(all, i, j) \in Seq(Chars) /\ Len(SubSeq(all, i, j)) = Len(w)
        /\ \A k \in 1 .. Len(w) : SubSeq(all, i, j)[k] = all[i + k - 1]
    <3>1. all \in Seq(Chars) /\ Len(w) \in Nat
      BY <1>0, <1>2
    <3> QED BY ONLY <2>1, <3>1, CutAt
  <2>3. cut = SubSeq(all, i, j)
    BY DEF j
  <2> QED BY <2>2, <2>3
<1>6. \A k \in 1 .. Len(w) : cut[k] = w[k]
  <2> TAKE k \in 1 .. Len(w)
  <2>1. i + k - 1 \in 1 .. Len(aw) + Len(b) /\ i + k - 1 <= Len(aw) /\ ~(i + k - 1 <= Len(a)) /\ (i + k - 1) - Len(a) = k
    BY <1>0, <1>1
  <2>2. all[i + k - 1] = aw[i + k - 1] /\ aw[i + k - 1] = w[k]
    <3> DEFINE j == i + k - 1
    <3>1. j \in 1 .. Len(aw) + Len(b) /\ j \in 1 .. Len(a) + Len(w) /\ j <= Len(aw) /\ ~(j <= Len(a)) /\ j - Len(a) = k
      BY <1>1, <2>1
    <3> HIDE DEF j
    <3>2. all[j] = aw[j] /\ aw[j] = w[k]
      BY <1>1, <1>2, <3>1
    <3> QED BY <3>2 DEF j
  <2> QED BY <1>5, <2>2
<1>7. cut = w
  <2> HIDE DEF cut
  <2> QED BY <1>5, <1>6, SeqEqual
<1>8. i \in DOMAIN all /\ i + Len(w) - 1 <= Len(all) /\ SubSeq(all, i, i + Len(w) - 1) = w
  BY <1>3, <1>4, <1>7
<1> QED BY <1>8 DEF FoundAt

\* What is put together begins with what was put together up to any segment.
Growing(n, upto, more) ==
    /\ n \in Nat /\ \A k \in 0 .. n : upto[k] \in Seq(Chars)
    /\ \A k \in 1 .. n : more[k] \in Seq(Chars) /\ upto[k] = upto[k - 1] \o more[k]

Beginning(n, upto) ==
    \A j \in 0 .. n : \A k \in j .. n : \E b \in Seq(Chars) : upto[k] = upto[j] \o b

LEMMA UptoGrows ==
  ASSUME NEW n, NEW upto, NEW more, Growing(n, upto, more)
  PROVE  Beginning(n, upto)
<1> SUFFICES \A j \in 0 .. n : \A k \in j .. n : \E b \in Seq(Chars) : upto[k] = upto[j] \o b
  BY DEF Beginning
<1>0. /\ n \in Nat /\ \A k \in 0 .. n : upto[k] \in Seq(Chars)
      /\ \A k \in 1 .. n : more[k] \in Seq(Chars) /\ upto[k] = upto[k - 1] \o more[k]
  BY DEF Growing
<1> TAKE j \in 0 .. n
<1> TAKE k \in j .. n
<1> DEFINE Begins(i) == \E b \in Seq(Chars) : upto[i] = upto[j] \o b
           Good == {i \in 0 .. n - j : Begins(j + i)}
<1>1. 0 \in Good
  <2>1. <<>> \in Seq(Chars) /\ upto[j] = upto[j] \o <<>>
    BY <1>0, EmptySeq, ConcatEmptySeq
  <2>2. Begins(j)
    BY <2>1
  <2>3. j + 0 = j /\ 0 \in 0 .. n - j
    BY <1>0
  <2> HIDE DEF Begins
  <2> QED BY <2>2, <2>3
<1>2. ASSUME NEW i \in 1 .. n - j, i - 1 \in Good PROVE i \in Good
  <2>1. PICK b \in Seq(Chars) : upto[j + (i - 1)] = upto[j] \o b
    BY <1>2
  <2>2. j + i \in 1 .. n /\ (j + i) - 1 = j + (i - 1) /\ i \in 0 .. n - j
    BY <1>0
  <2>3. more[j + i] \in Seq(Chars) /\ upto[j + i] = (upto[j] \o b) \o more[j + i]
    BY <1>0, <2>1, <2>2
  <2>4. upto[j + i] = upto[j] \o (b \o more[j + i]) /\ b \o more[j + i] \in Seq(Chars)
    <3> DEFINE a == upto[j]
               m == more[j + i]
    <3>1. a \in Seq(Chars) /\ m \in Seq(Chars)
      BY <1>0, <2>3
    <3> HIDE DEF a, m
    <3>2. (a \o b) \o m = a \o (b \o m) /\ b \o m \in Seq(Chars)
      BY <3>1, RegroupChars, ConcatProperties
    <3> QED BY <2>3, <3>2 DEF a, m
  <2>5. Begins(j + i)
    BY <2>4
  <2> HIDE DEF Begins
  <2> QED BY <2>2, <2>5
<1>3. \A i \in 0 .. n - j : i \in Good
  <2>1. n - j \in Nat
    BY <1>0
  <2> HIDE DEF Good
  <2> QED BY <1>1, <1>2, <2>1, Upwards
<1>4. k - j \in 0 .. n - j /\ j + (k - j) = k
  BY <1>0
<1>5. Begins(j + (k - j))
  <2> HIDE DEF Begins
  <2> QED BY <1>3, <1>4
<1> QED BY <1>4, <1>5

\* A command put back together is a text that holds every replacement, each in a place
\* of its own and in the order of the segments.
LEMMA RebuiltPlaces ==
  ASSUME NEW c \in Seq(Chars), NEW replacements,
         \A k \in DOMAIN replacements : replacements[k] \in Seq(Chars) /\ replacements[k] # <<>>,
         RebuildCommand(c, replacements) # NoText
  PROVE  \E at \in [DOMAIN replacements -> Nat] :
           /\ \A k \in DOMAIN replacements :
                FoundAt(RebuildCommand(c, replacements), replacements[k], at[k])
           /\ \A j, k \in DOMAIN replacements :
                j < k => at[j] + Len(replacements[j]) <= at[k]
<1> DEFINE n == Len(Groups(c))
           gap(k) == GapOf(c, k)
           put(k) == PutOf(c, replacements, k)
           tail == TailOf(c)
<1>1. PICK upto :
        /\ upto[0] = <<>> /\ \A k \in 0 .. n : upto[k] \in Seq(Chars)
        /\ \A k \in 1 .. n : upto[k] = (upto[k - 1] \o gap(k)) \o put(k)
        /\ RebuildCommand(c, replacements) = upto[n] \o tail
  BY RebuiltScan
<1>2. /\ DOMAIN replacements \subseteq 1 .. n /\ tail \in Seq(Chars)
      /\ \A k \in 1 .. n : gap(k) \in Seq(Chars) /\ put(k) \in Seq(Chars)
  BY RebuiltIs
<1>3. \A k \in DOMAIN replacements : k \in 1 .. n /\ put(k) = replacements[k]
  BY <1>2 DEF PutOf
<1>4. n \in Nat
  BY GroupsAreInside
<1> HIDE DEF n, gap, put, tail
<1> DEFINE more == [k \in 1 .. n |-> gap(k) \o put(k)]
           before(k) == upto[k - 1] \o gap(k)
<1>5. \A k \in 1 .. n : more[k] \in Seq(Chars) /\ upto[k] = upto[k - 1] \o more[k]
  <2> TAKE k \in 1 .. n
  <2> DEFINE a == upto[k - 1]
             g == gap(k)
             p == put(k)
  <2>1. a \in Seq(Chars) /\ g \in Seq(Chars) /\ p \in Seq(Chars)
    <3>1. k - 1 \in 0 .. n
      BY <1>4
    <3> QED BY <1>1, <1>2, <3>1
  <2>2. more[k] = g \o p /\ upto[k] = (a \o g) \o p
    BY <1>1
  <2> HIDE DEF a, g, p, more
  <2>3. (a \o g) \o p = a \o (g \o p) /\ g \o p \in Seq(Chars)
    BY <2>1, RegroupChars, ConcatProperties
  <2> QED BY <2>2, <2>3 DEF a
<1>6. \A k \in 1 .. n : before(k) \in Seq(Chars) /\ upto[k] = before(k) \o put(k)
  <2> TAKE k \in 1 .. n
  <2>1. upto[k - 1] \in Seq(Chars) /\ gap(k) \in Seq(Chars)
    <3>1. k - 1 \in 0 .. n
      BY <1>4
    <3> QED BY <1>1, <1>2, <3>1
  <2> QED BY <1>1, <2>1, ConcatProperties
<1> HIDE DEF more
<1>g. \A j \in 0 .. n : \A k \in j .. n : \E b \in Seq(Chars) : upto[k] = upto[j] \o b
  <2>1. Growing(n, upto, more)
    BY <1>1, <1>4, <1>5 DEF Growing
  <2>2. Beginning(n, upto)
    BY <2>1, UptoGrows
  <2> QED BY <2>2 DEF Beginning
<1> DEFINE at == [k \in DOMAIN replacements |-> Len(before(k)) + 1]
<1>7. at \in [DOMAIN replacements -> Nat]
  <2>1. \A k \in DOMAIN replacements : Len(before(k)) \in Nat
    BY <1>3, <1>6, EmptyIffNone
  <2> HIDE DEF before
  <2> QED BY <2>1
<1>8. ASSUME NEW k \in DOMAIN replacements
      PROVE  FoundAt(RebuildCommand(c, replacements), replacements[k], at[k])
  <2> DEFINE a == before(k)
             w == replacements[k]
             all == RebuildCommand(c, replacements)
  <2>1. k \in 1 .. n /\ k \in 0 .. n /\ n \in k .. n
    BY <1>3, <1>4
  <2>2. a \in Seq(Chars) /\ w \in Seq(Chars) /\ w # <<>> /\ upto[k] = a \o w
    BY <1>3, <1>6, <2>1
  <2>3. PICK b \in Seq(Chars) : upto[n] = upto[k] \o b
    BY <1>g, <2>1
  <2>4. all = ((a \o w) \o b) \o tail
    BY <1>1, <2>2, <2>3
  <2>5. at[k] = Len(a) + 1
    BY <1>8
  <2> HIDE DEF a, w, all, at
  <2>6. a \o w \in Seq(Chars) /\ b \o tail \in Seq(Chars)
    BY <1>2, <2>2, ConcatProperties
  <2>7. all = (a \o w) \o (b \o tail)
    <3> DEFINE aw == a \o w
    <3>1. aw \in Seq(Chars) /\ all = (aw \o b) \o tail
      BY <2>4, <2>6
    <3> HIDE DEF aw
    <3>2. (aw \o b) \o tail = aw \o (b \o tail)
      BY <1>2, <3>1, RegroupChars
    <3> QED BY <3>1, <3>2 DEF aw
  <2>8. FoundAt(all, w, Len(a) + 1)
    <3> DEFINE bt == b \o tail
    <3>1. bt \in Seq(Chars) /\ all = (a \o w) \o bt
      BY <2>6, <2>7
    <3> HIDE DEF bt
    <3> QED BY <2>2, <3>1, InsideIsFound
  <2> QED BY <2>5, <2>8 DEF w, all
<1>9. ASSUME NEW j \in DOMAIN replacements, NEW k \in DOMAIN replacements, j < k
      PROVE  at[j] + Len(replacements[j]) <= at[k]
  <2>1. j \in 1 .. n /\ k \in 1 .. n /\ j \in 0 .. n /\ k - 1 \in j .. n /\ k - 1 \in 0 .. n
    BY <1>3, <1>4, <1>9
  <2>2. PICK b \in Seq(Chars) : upto[k - 1] = upto[j] \o b
    BY <1>g, <2>1
  <2>3. upto[j] \in Seq(Chars) /\ upto[k - 1] \in Seq(Chars) /\ gap(k) \in Seq(Chars)
    BY <1>1, <1>2, <2>1
  <2>4. Len(upto[k - 1]) = Len(upto[j]) + Len(b) /\ Len(before(k)) = Len(upto[k - 1]) + Len(gap(k))
    BY <2>2, <2>3, ConcatProperties
  <2>5. Len(upto[j]) = Len(before(j)) + Len(replacements[j])
    <3>1. before(j) \in Seq(Chars) /\ replacements[j] \in Seq(Chars) /\ upto[j] = before(j) \o replacements[j]
      BY <1>3, <1>6, <2>1
    <3> HIDE DEF before
    <3> QED BY <3>1, ConcatProperties
  <2>6. /\ Len(b) \in Nat /\ Len(gap(k)) \in Nat /\ Len(upto[j]) \in Nat
        /\ Len(before(j)) \in Nat /\ Len(replacements[j]) \in Nat
    BY <1>6, <2>1, <2>2, <2>3, EmptyIffNone
  <2>7. at[j] = Len(before(j)) + 1 /\ at[k] = Len(before(k)) + 1
    BY <1>9
  <2> HIDE DEF before, at
  <2> QED BY <2>4, <2>5, <2>6, <2>7
<1> HIDE DEF at
<1> QED BY <1>7, <1>8, <1>9

----------------------------------------------------------------------------
(* Where the words stand in a text they are joined to.                         *)

LEMMA QuotesAreSeqs ==
  ASSUME NEW words \in Seq(Seq(Chars))
  PROVE  /\ [k \in DOMAIN words |-> Escape(words[k])] \in Seq(Seq(Chars))
         /\ Len([k \in DOMAIN words |-> Escape(words[k])]) = Len(words)
         /\ QuoteArgv(words) \in Seq(Chars)
<1> DEFINE quoted == [k \in DOMAIN words |-> Escape(words[k])]
<1>1. Len(words) \in Nat /\ DOMAIN words = 1 .. Len(words)
  BY EmptyIffNone
<1>2. \A k \in 1 .. Len(words) : Escape(words[k]) \in Seq(Chars)
  BY ElementOfSeq, EscapeIsSeq
<1>3. quoted \in [1 .. Len(words) -> Seq(Chars)]
  BY <1>1, <1>2
<1>4. QuoteArgv(words) = Join(quoted)
  BY DEF QuoteArgv
<1> HIDE DEF quoted
<1>5. quoted \in Seq(Seq(Chars)) /\ Len(quoted) = Len(words)
  BY <1>1, <1>3, FunctionIsSeq
<1>6. Join(quoted) \in Seq(Chars)
  BY <1>5, JoinIsSeq
<1> QED BY <1>4, <1>5, <1>6 DEF quoted

Upto(words, k)  == Join(SubSeq(words, 1, k))
Past(words, k)  == Len(Upto(words, k))
Place(words, k) == IF k = 1 THEN 0 ELSE Past(words, k - 1) + 1

LEMMA JoinStep ==
  ASSUME NEW words \in Seq(Seq(Chars)), NEW k \in 1 .. Len(words)
  PROVE  /\ words[k] \in Seq(Chars) /\ Len(words[k]) \in Nat
         /\ Upto(words, k) \in Seq(Chars) /\ Upto(words, k - 1) \in Seq(Chars)
         /\ Past(words, k - 1) \in Nat /\ Place(words, k) \in Nat
         /\ Past(words, k) = Place(words, k) + Len(words[k])
         /\ k # 1 => Place(words, k) = Past(words, k - 1) + 1
         /\ k = 1 => Past(words, k - 1) = 0 /\ Place(words, k) = 0
         /\ \A i \in 1 .. Past(words, k - 1) : Upto(words, k)[i] = Upto(words, k - 1)[i]
         /\ k # 1 => Upto(words, k)[Place(words, k)] = "_"
         /\ \A j \in 1 .. Len(words[k]) : Upto(words, k)[Place(words, k) + j] = words[k][j]
<1> DEFINE had == SubSeq(words, 1, k - 1)
           w == words[k]
           before == Join(had)
<1>1. /\ had \in Seq(Seq(Chars)) /\ Len(had) = k - 1 /\ w \in Seq(Chars)
      /\ SubSeq(words, 1, k) = Append(had, w)
  BY PrefixGrows
<1>2. Len(w) \in Nat
  BY <1>1, EmptyIffNone
<1> HIDE DEF had, w
<1>3. before \in Seq(Chars) /\ Len(before) \in Nat
  BY <1>1, JoinIsSeq, EmptyIffNone
<1>4. Join(Append(had, w)) = IF had = <<>> THEN w ELSE before \o (<<"_">> \o w)
  BY <1>1, JoinAppend
<1>5. had = <<>> <=> k = 1
  BY <1>1, EmptyIffNone
<1>6. Upto(words, k) = Join(Append(had, w)) /\ Upto(words, k - 1) = before
  BY <1>1 DEF Upto, had
<1>7. CASE k = 1
  <2>1. Upto(words, k) = w /\ before = <<>>
    BY <1>4, <1>5, <1>6, <1>7, JoinEmpty
  <2>2. Past(words, k - 1) = 0 /\ Past(words, k) = Len(w) /\ Place(words, k) = 0
    <3>1. Len(<<>>) = 0
      OBVIOUS
    <3> QED BY <1>6, <1>7, <2>1, <3>1 DEF Past, Place
  <2>3. \A i \in 1 .. Past(words, k - 1) : Upto(words, k)[i] = Upto(words, k - 1)[i]
    BY <2>2
  <2>4. \A j \in 1 .. Len(w) : Upto(words, k)[Place(words, k) + j] = w[j]
    BY <1>2, <2>1, <2>2
  <2>5. /\ Upto(words, k) \in Seq(Chars) /\ Upto(words, k - 1) \in Seq(Chars)
        /\ Past(words, k - 1) \in Nat /\ Place(words, k) \in Nat
        /\ Past(words, k) = Place(words, k) + Len(w)
    <3>1. Upto(words, k) \in Seq(Chars) /\ Upto(words, k - 1) \in Seq(Chars)
      BY <1>1, <1>3, <1>6, <2>1
    <3>2. /\ Past(words, k - 1) \in Nat /\ Place(words, k) \in Nat
          /\ Past(words, k) = Place(words, k) + Len(w)
      BY <1>2, <2>2
    <3> QED BY <3>1, <3>2
  <2> QED BY <1>1, <1>2, <1>7, <2>2, <2>3, <2>4, <2>5 DEF w
<1>8. CASE k # 1
  <2> DEFINE blank == <<"_">>
             piece == blank \o w
             all == before \o piece
  <2>1. blank \in Seq(Chars) /\ Len(blank) = 1 /\ blank[1] = "_"
    <3>1. blank \in Seq(Chars)
      BY BlankIsSeq
    <3> QED BY <3>1
  <2> HIDE DEF blank
  <2>2. /\ piece \in Seq(Chars) /\ Len(piece) = 1 + Len(w)
        /\ \A i \in 1 .. 1 + Len(w) : piece[i] = IF i <= 1 THEN blank[i] ELSE w[i - 1]
    <3>1. /\ piece \in Seq(Chars) /\ Len(piece) = Len(blank) + Len(w)
          /\ \A i \in 1 .. Len(blank) + Len(w) :
               piece[i] = IF i <= Len(blank) THEN blank[i] ELSE w[i - Len(blank)]
      BY <1>1, <2>1, ConcatProperties
    <3> HIDE DEF piece
    <3> QED BY <2>1, <3>1
  <2> HIDE DEF piece
  <2>3. /\ all \in Seq(Chars) /\ Len(all) = Len(before) + (1 + Len(w))
        /\ \A i \in 1 .. Len(before) + Len(piece) :
             all[i] = IF i <= Len(before) THEN before[i] ELSE piece[i - Len(before)]
    <3>1. piece \in Seq(Chars)
      BY <2>2
    <3>2. /\ all \in Seq(Chars) /\ Len(all) = Len(before) + Len(piece)
          /\ \A i \in 1 .. Len(before) + Len(piece) :
               all[i] = IF i <= Len(before) THEN before[i] ELSE piece[i - Len(before)]
      BY <1>3, <3>1, ConcatProperties
    <3> QED BY <2>2, <3>2
  <2>4. Upto(words, k) = all
    BY <1>4, <1>5, <1>6, <1>8 DEF piece, blank
  <2> HIDE DEF all
  <2>5. /\ Past(words, k - 1) = Len(before) /\ Place(words, k) = Len(before) + 1
        /\ Past(words, k) = Len(all)
    BY <1>6, <1>8, <2>4 DEF Past, Place
  <2>6. all[Len(before) + 1] = "_"
    <3>1. Len(before) + 1 \in 1 .. Len(before) + Len(piece) /\ ~(Len(before) + 1 <= Len(before))
          /\ (Len(before) + 1) - Len(before) = 1
      BY <1>2, <1>3, <2>2
    <3>2. piece[1] = blank[1]
      <4>1. 1 \in 1 .. 1 + Len(w) /\ 1 <= 1
        BY <1>2
      <4> QED BY <2>2, <4>1
    <3> QED BY <2>1, <2>3, <3>1, <3>2
  <2>7. ASSUME NEW j \in 1 .. Len(w) PROVE all[(Len(before) + 1) + j] = w[j]
    <3> DEFINE i == (Len(before) + 1) + j
    <3>1. /\ i \in 1 .. Len(before) + Len(piece) /\ ~(i <= Len(before)) /\ i - Len(before) = j + 1
          /\ j + 1 \in 1 .. 1 + Len(w) /\ ~(j + 1 <= 1) /\ (j + 1) - 1 = j
      BY <1>2, <1>3, <2>2
    <3> HIDE DEF i
    <3>2. all[i] = piece[j + 1] /\ piece[j + 1] = w[j]
      BY <2>2, <2>3, <3>1
    <3> QED BY <3>2 DEF i
  <2>8. \A i \in 1 .. Len(before) : all[i] = before[i]
    BY <1>2, <1>3, <2>2, <2>3
  <2>9. Past(words, k) = Place(words, k) + Len(w)
    BY <1>2, <1>3, <2>3, <2>5
  <2>10. /\ Upto(words, k) \in Seq(Chars) /\ Upto(words, k - 1) \in Seq(Chars)
         /\ Past(words, k - 1) \in Nat /\ Place(words, k) \in Nat
         /\ Place(words, k) = Past(words, k - 1) + 1
    BY <1>3, <1>6, <2>3, <2>4, <2>5
  <2>11. /\ \A i \in 1 .. Past(words, k - 1) : Upto(words, k)[i] = Upto(words, k - 1)[i]
         /\ Upto(words, k)[Place(words, k)] = "_"
         /\ \A j \in 1 .. Len(w) : Upto(words, k)[Place(words, k) + j] = w[j]
    BY <1>6, <2>4, <2>5, <2>6, <2>7, <2>8
  <2> QED BY <1>1, <1>2, <1>8, <2>9, <2>10, <2>11 DEF w
<1> QED BY <1>7, <1>8

LEMMA JoinKeeps ==
  ASSUME NEW words \in Seq(Seq(Chars)), NEW m \in 0 .. Len(words)
  PROVE  \A k \in 0 .. m : /\ Past(words, k) \in Nat /\ Past(words, k) <= Past(words, m)
                           /\ \A i \in 1 .. Past(words, k) : Upto(words, m)[i] = Upto(words, k)[i]
<1> DEFINE past(k) == Past(words, k)
           upto(k) == Upto(words, k)
           Kept(n) == \A k \in 0 .. n : /\ past(k) \in Nat /\ past(k) <= past(n)
                                        /\ \A i \in 1 .. past(k) : upto(n)[i] = upto(k)[i]
           Good == {n \in 0 .. Len(words) : Kept(n)}
<1>0. Len(words) \in Nat
  BY EmptyIffNone
<1>1. past(0) = 0
  <2>1. SubSeq(words, 1, 0) = <<>>
    BY <1>0, SubSeqProperties, EmptyIffNone
  <2>2. Len(<<>>) = 0
    OBVIOUS
  <2> QED BY <2>1, <2>2, JoinEmpty DEF Past, Upto
<1>2. \A n \in 1 .. Len(words) :
        /\ past(n - 1) \in Nat /\ past(n) \in Nat /\ past(n - 1) <= past(n)
        /\ \A i \in 1 .. past(n - 1) : upto(n)[i] = upto(n - 1)[i]
  <2> TAKE n \in 1 .. Len(words)
  <2>1. /\ past(n - 1) \in Nat /\ \A i \in 1 .. past(n - 1) : upto(n)[i] = upto(n - 1)[i]
    BY JoinStep
  <2>2. past(n) \in Nat /\ past(n - 1) <= past(n)
    <3>1. /\ Past(words, n - 1) \in Nat /\ Place(words, n) \in Nat /\ Len(words[n]) \in Nat
          /\ Past(words, n) = Place(words, n) + Len(words[n])
          /\ n # 1 => Place(words, n) = Past(words, n - 1) + 1
          /\ n = 1 => Past(words, n - 1) = 0
      BY JoinStep
    <3> QED BY <3>1
  <2> QED BY <2>1, <2>2
<1> HIDE DEF past, upto
<1>3. 0 \in Good
  BY <1>0, <1>1
<1>4. ASSUME NEW n \in 1 .. Len(words), n - 1 \in Good PROVE n \in Good
  <2>1. Kept(n - 1)
    BY <1>4
  <2>2. ASSUME NEW k \in 0 .. n
        PROVE  /\ past(k) \in Nat /\ past(k) <= past(n)
               /\ \A i \in 1 .. past(k) : upto(n)[i] = upto(k)[i]
    <3>1. CASE k = n
      BY <1>2, <3>1
    <3>2. CASE k # n
      <4>1. k \in 0 .. n - 1
        BY <1>0, <3>2
      <4>2. /\ past(k) \in Nat /\ past(k) <= past(n - 1)
            /\ \A i \in 1 .. past(k) : upto(n - 1)[i] = upto(k)[i]
        BY <2>1, <4>1
      <4>3. /\ past(n - 1) \in Nat /\ past(n) \in Nat /\ past(n - 1) <= past(n)
            /\ \A i \in 1 .. past(n - 1) : upto(n)[i] = upto(n - 1)[i]
        BY <1>2
      <4>4. \A i \in 1 .. past(k) : i \in 1 .. past(n - 1)
        BY <4>2, <4>3
      <4>5. past(k) <= past(n)
        BY <4>2, <4>3
      <4> QED BY <4>2, <4>3, <4>4, <4>5
    <3> QED BY <3>1, <3>2
  <2>3. Kept(n)
    BY <2>2
  <2>4. n \in 0 .. Len(words)
    BY <1>0
  <2> HIDE DEF Kept
  <2> QED BY <2>3, <2>4
<1>5. \A n \in 0 .. Len(words) : n \in Good
  <2> HIDE DEF Good
  <2> QED BY <1>0, <1>3, <1>4, Upwards
<1> QED BY <1>5 DEF past, upto

\* Where each word of a joined text is, and the blank before it.
WordIn(c, words, k) == \A j \in 1 .. Len(words[k]) : c[Place(words, k) + j] = words[k][j]

LEMMA JoinLayout ==
  ASSUME NEW words \in Seq(Seq(Chars)), NEW c, c = Join(words), NEW k \in 1 .. Len(words)
  PROVE  /\ words[k] \in Seq(Chars) /\ Len(words[k]) \in Nat
         /\ c \in Seq(Chars) /\ Len(c) \in Nat /\ Len(c) = Past(words, Len(words))
         /\ Past(words, k - 1) \in Nat /\ Place(words, k) \in Nat /\ Past(words, k) \in Nat
         /\ Past(words, k) = Place(words, k) + Len(words[k]) /\ Past(words, k) <= Len(c)
         /\ k # 1 => Place(words, k) = Past(words, k - 1) + 1 /\ c[Place(words, k)] = "_"
         /\ k = 1 => Past(words, k - 1) = 0 /\ Place(words, k) = 0
         /\ WordIn(c, words, k)
<1>0. Len(words) \in Nat /\ c \in Seq(Chars) /\ Len(c) \in Nat
  BY JoinIsSeq, EmptyIffNone
<1>1. Upto(words, Len(words)) = c
  BY SubSeqFull DEF Upto
<1>2. Past(words, Len(words)) = Len(c)
  BY <1>1 DEF Past
<1>3. /\ Past(words, k) \in Nat /\ Past(words, k) <= Len(c)
      /\ \A i \in 1 .. Past(words, k) : c[i] = Upto(words, k)[i]
  <2>1. Len(words) \in 0 .. Len(words) /\ k \in 0 .. Len(words)
    BY <1>0
  <2> QED BY <1>1, <1>2, <2>1, JoinKeeps
<1>4. /\ words[k] \in Seq(Chars) /\ Len(words[k]) \in Nat
      /\ Past(words, k - 1) \in Nat /\ Place(words, k) \in Nat
      /\ Past(words, k) = Place(words, k) + Len(words[k])
      /\ k # 1 => Place(words, k) = Past(words, k - 1) + 1
      /\ k = 1 => Past(words, k - 1) = 0 /\ Place(words, k) = 0
  BY JoinStep
<1>5. k # 1 => c[Place(words, k)] = "_"
  <2> SUFFICES ASSUME k # 1 PROVE c[Place(words, k)] = "_"
    OBVIOUS
  <2>1. Place(words, k) \in 1 .. Past(words, k)
    BY <1>3, <1>4
  <2>2. Upto(words, k)[Place(words, k)] = "_"
    BY JoinStep
  <2> QED BY <1>3, <2>1, <2>2
<1>6. ASSUME NEW j \in 1 .. Len(words[k]) PROVE c[Place(words, k) + j] = words[k][j]
  <2>3. /\ Place(words, k) \in Nat /\ Len(words[k]) \in Nat
        /\ Past(words, k) = Place(words, k) + Len(words[k])
    BY <1>4
  <2>1. Place(words, k) + j \in 1 .. Past(words, k)
    BY <2>3
  <2>2. Upto(words, k)[Place(words, k) + j] = words[k][j]
    BY <1>6, JoinStep
  <2> QED BY <1>3, <2>1, <2>2
<1>7. WordIn(c, words, k)
  BY <1>6 DEF WordIn
<1> QED BY <1>0, <1>2, <1>3, <1>4, <1>5, <1>7

\* Words with no blank in them are what a text they are joined to is split into.
LEMMA SplitJoin ==
  ASSUME NEW words \in Seq(Seq(Chars)),
         \A k \in 1 .. Len(words) : words[k] # <<>> /\ \A i \in 1 .. Len(words[k]) : words[k][i] \notin Space
  PROVE  Split(Join(words)) = words
<1> DEFINE Good == {k \in 0 .. Len(words) : Split(Join(SubSeq(words, 1, k))) = SubSeq(words, 1, k)}
<1>0. Len(words) \in Nat
  BY EmptyIffNone
<1>1. 0 \in Good
  <2>1. SubSeq(words, 1, 0) = <<>>
    BY <1>0, SubSeqProperties, EmptyIffNone
  <2>2. Split(Join(<<>>)) = <<>>
    BY JoinEmpty, SplitEmpty
  <2>3. 0 \in 0 .. Len(words)
    BY <1>0
  <2> QED BY <2>1, <2>2, <2>3
<1>2. ASSUME NEW k \in 1 .. Len(words), k - 1 \in Good PROVE k \in Good
  <2> DEFINE had == SubSeq(words, 1, k - 1)
             w == words[k]
             before == Join(had)
  <2>1. /\ had \in Seq(Seq(Chars)) /\ Len(had) = k - 1 /\ w \in Seq(Chars)
        /\ SubSeq(words, 1, k) = Append(had, w)
    BY PrefixGrows
  <2>2. Split(before) = had
    BY <1>2
  <2>3. w # <<>> /\ \A i \in 1 .. Len(w) : w[i] \notin Space
    OBVIOUS
  <2>4. k \in 0 .. Len(words)
    BY <1>0
  <2> SUFFICES Split(Join(Append(had, w))) = Append(had, w)
    <3> HIDE DEF had, w
    <3> QED BY <2>1, <2>4
  <2> HIDE DEF had, w
  <2>5. Join(Append(had, w)) = IF had = <<>> THEN w ELSE before \o (<<"_">> \o w)
    BY <2>1, JoinAppend
  <2>6. before \in Seq(Chars)
    BY <2>1, JoinIsSeq
  <2>7. CASE had = <<>>
    <3>1. <<>> \in Seq(Chars) /\ <<>> \o w = w
      BY <2>1, EmptySeq, ConcatEmptySeq
    <3>2. Split(<<>> \o w) = Append(Split(<<>>), w)
      BY <2>1, <2>3, <3>1, SplitWord
    <3> QED BY <2>5, <2>7, <3>1, <3>2, SplitEmpty
  <2>8. CASE had # <<>>
    <3> DEFINE blank == "_"
               spaced == Append(before, blank)
    <3> HIDE DEF before
    <3>1. blank \in Chars /\ blank \in Space
      BY CharAssumption DEF Space
    <3> HIDE DEF blank
    <3>2. spaced \in Seq(Chars) /\ spaced[Len(spaced)] \in Space
      <4>1. spaced \in Seq(Chars) /\ Len(spaced) = Len(before) + 1 /\ spaced[Len(before) + 1] = blank
        BY <2>6, <3>1, AppendFacts
      <4> HIDE DEF spaced
      <4> QED BY <3>1, <4>1
    <3>3. spaced = before \o <<blank>> /\ <<blank>> \in Seq(Chars)
      BY <2>6, <3>1, AppendIsConcat, OneIsSeq
    <3>4. before \o (<<blank>> \o w) = spaced \o w
      <4> DEFINE one == <<blank>>
      <4>1. one \in Seq(Chars) /\ spaced = before \o one
        BY <3>3
      <4> HIDE DEF one, spaced
      <4>2. (before \o one) \o w = before \o (one \o w)
        BY <2>1, <2>6, <4>1, RegroupChars
      <4> QED BY <4>1, <4>2 DEF one
    <3>5. Split(spaced) = Split(before)
      BY <2>6, <3>1, SplitBlank
    <3> HIDE DEF spaced
    <3>6. Split(spaced \o w) = Append(Split(spaced), w)
      BY <2>1, <2>3, <3>2, SplitWord
    <3> QED BY <2>2, <2>5, <2>8, <3>4, <3>5, <3>6 DEF blank
  <2> QED BY <2>7, <2>8
<1>3. \A k \in 0 .. Len(words) : k \in Good
  <2> HIDE DEF Good
  <2> QED BY <1>0, <1>1, <1>2, Upwards
<1>4. SubSeq(words, 1, Len(words)) = words /\ Len(words) \in 0 .. Len(words)
  BY <1>0, SubSeqFull
<1> QED BY <1>3, <1>4

----------------------------------------------------------------------------
(* The wrapper's quotes.                                                       *)

\* A word with no quote in it stands in its quotes as it is.
LEMMA QuotableIsEscaped ==
  ASSUME NEW w \in Seq(Chars), Quotable(w)
  PROVE  /\ Escape(w) \in Seq(Chars) /\ Len(w) \in Nat /\ Len(Escape(w)) = Len(w) + 2
         /\ Escape(w)[1] = "'" /\ Escape(w)[Len(w) + 2] = "'"
         /\ \A i \in 1 .. Len(w) : Escape(w)[i + 1] = w[i] /\ w[i] \notin Quotes /\ w[i] # "\\"
<1> DEFINE flat(i) == FlattenSeq(SubSeq(Escaped(w), 1, i))
           Good == {i \in 0 .. Len(w) : flat(i) = SubSeq(w, 1, i)}
<1>0. Len(w) \in Nat /\ DOMAIN w = 1 .. Len(w)
  BY EmptyIffNone
<1>1. /\ Escaped(w) \in Seq(Seq(Chars)) /\ Len(Escaped(w)) = Len(w)
      /\ \A i \in 1 .. Len(w) : w[i] \in Chars
  BY EscapedIsSeq
<1>2. \A i \in 1 .. Len(w) : w[i] \notin Quotes /\ w[i] # "\\" /\ w[i] # "'"
  BY <1>0 DEF Quotable, Quotes
<1>3. \A i \in 1 .. Len(w) : Escaped(w)[i] = <<w[i]>>
  BY <1>2, EscapedIsSeq
<1>4. 0 \in Good
  <2>1. SubSeq(Escaped(w), 1, 0) = <<>> /\ SubSeq(w, 1, 0) = <<>>
    BY <1>0, <1>1, SubSeqProperties, EmptyIffNone
  <2>2. 0 \in 0 .. Len(w)
    BY <1>0
  <2> QED BY <2>1, <2>2, FlattenEmpty
<1>5. ASSUME NEW i \in 1 .. Len(w), i - 1 \in Good PROVE i \in Good
  <2> DEFINE had == SubSeq(w, 1, i - 1)
  <2>1. had \in Seq(Chars) /\ w[i] \in Chars /\ SubSeq(w, 1, i) = Append(had, w[i])
    BY PrefixGrows
  <2>2. flat(i) = flat(i - 1) \o Escaped(w)[i]
    BY <1>1, FlattenUpto
  <2>3. flat(i - 1) = had
    BY <1>5
  <2>4. had \o <<w[i]>> = Append(had, w[i])
    BY <2>1, AppendIsConcat
  <2>5. i \in 0 .. Len(w)
    BY <1>0
  <2>6. flat(i) = SubSeq(w, 1, i)
    <3> HIDE DEF flat, had
    <3> QED BY <1>3, <2>1, <2>2, <2>3, <2>4
  <2> QED BY <2>5, <2>6
<1>6. FlattenSeq(Escaped(w)) = w
  <2>1. \A i \in 0 .. Len(w) : i \in Good
    <3> HIDE DEF Good
    <3> QED BY <1>0, <1>4, <1>5, Upwards
  <2>2. flat(Len(w)) = SubSeq(w, 1, Len(w))
    BY <1>0, <2>1
  <2> QED BY <1>1, <2>2, SubSeqFull
<1> DEFINE quote == <<"'">>
           open == quote \o w
<1>7. quote \in Seq(Chars) /\ Len(quote) = 1 /\ quote[1] = "'"
  <2>1. "'" \in Chars
    BY CharAssumption
  <2> QED BY <2>1, OneIsSeq
<1>8. Escape(w) = open \o quote /\ Escape(w) \in Seq(Chars)
  BY <1>6, EscapeIsSeq
<1> HIDE DEF quote
<1>9. /\ open \in Seq(Chars) /\ Len(open) = 1 + Len(w)
      /\ \A i \in 1 .. 1 + Len(w) : open[i] = IF i <= 1 THEN quote[i] ELSE w[i - 1]
  <2>1. /\ open \in Seq(Chars) /\ Len(open) = Len(quote) + Len(w)
        /\ \A i \in 1 .. Len(quote) + Len(w) :
             open[i] = IF i <= Len(quote) THEN quote[i] ELSE w[i - Len(quote)]
    BY <1>7, ConcatProperties
  <2> HIDE DEF open
  <2> QED BY <1>7, <2>1
<1> HIDE DEF open
<1>10. /\ Len(Escape(w)) = Len(open) + 1
       /\ \A i \in 1 .. Len(open) + 1 :
            Escape(w)[i] = IF i <= Len(open) THEN open[i] ELSE quote[i - Len(open)]
  <2> DEFINE all == open \o quote
  <2>1. /\ Len(all) = Len(open) + Len(quote)
        /\ \A i \in 1 .. Len(open) + Len(quote) :
             all[i] = IF i <= Len(open) THEN open[i] ELSE quote[i - Len(open)]
    BY <1>7, <1>9, ConcatProperties
  <2> HIDE DEF all
  <2> QED BY <1>7, <1>8, <2>1 DEF all
<1>11. Escape(w)[1] = "'"
  <2>1. 1 \in 1 .. Len(open) + 1 /\ 1 <= Len(open) /\ 1 \in 1 .. 1 + Len(w) /\ 1 <= 1
    BY <1>0, <1>9
  <2> QED BY <1>7, <1>9, <1>10, <2>1
<1>12. Escape(w)[Len(w) + 2] = "'"
  <2>1. /\ Len(w) + 2 \in 1 .. Len(open) + 1 /\ ~(Len(w) + 2 <= Len(open))
        /\ (Len(w) + 2) - Len(open) = 1
    BY <1>0, <1>9
  <2> QED BY <1>7, <1>10, <2>1
<1>13. ASSUME NEW i \in 1 .. Len(w) PROVE Escape(w)[i + 1] = w[i]
  <2>1. /\ i + 1 \in 1 .. Len(open) + 1 /\ i + 1 <= Len(open) /\ i + 1 \in 1 .. 1 + Len(w)
        /\ ~(i + 1 <= 1) /\ (i + 1) - 1 = i
    BY <1>0, <1>9
  <2>2. Escape(w)[i + 1] = open[i + 1] /\ open[i + 1] = w[i]
    BY <1>9, <1>10, <2>1
  <2> QED BY <2>2
<1>14. Len(Escape(w)) = Len(w) + 2
  BY <1>0, <1>9, <1>10
<1> QED BY <1>0, <1>2, <1>8, <1>11, <1>12, <1>13, <1>14

\* The words in their quotes, and where they stand in what the wrapper writes.
Quoted(words) == [k \in DOMAIN words |-> Escape(words[k])]
Opening(words, k) == Place(Quoted(words), k) + 1
Closing(words, k) == Past(Quoted(words), k)

StandsIn(c, words, k) ==
    \A j \in 1 .. Len(words[k]) : /\ c[Opening(words, k) + j] = words[k][j]
                                 /\ words[k][j] \notin Quotes /\ words[k][j] # "\\"

LEMMA QuotedLayout ==
  ASSUME NEW words \in Seq(Seq(Chars)), \A k \in 1 .. Len(words) : Quotable(words[k]),
         NEW c, c = QuoteArgv(words), NEW k \in 1 .. Len(words)
  PROVE  /\ c \in Seq(Chars) /\ Len(c) \in Nat /\ Len(words[k]) \in Nat
         /\ Opening(words, k) \in 1 .. Len(c) /\ Closing(words, k) \in 1 .. Len(c)
         /\ Closing(words, k) = Opening(words, k) + Len(words[k]) + 1
         /\ c[Opening(words, k)] = "'" /\ c[Closing(words, k)] = "'"
         /\ StandsIn(c, words, k)
         /\ SubSeq(c, Opening(words, k), Closing(words, k)) = Escape(words[k])
         /\ k = 1 => Opening(words, k) = 1
         /\ k # 1 => /\ Opening(words, k) = Closing(words, k - 1) + 2
                     /\ c[Closing(words, k - 1) + 1] = "_"
         /\ k = Len(words) => Closing(words, k) = Len(c)
<1> DEFINE quoted == Quoted(words)
           w == words[k]
           e == Escape(w)
           at == Place(quoted, k)
<1>0. /\ w \in Seq(Chars) /\ Quotable(w) /\ Len(words) \in Nat
  BY EmptyIffNone, ElementOfSeq
<1>1. /\ quoted \in Seq(Seq(Chars)) /\ Len(quoted) = Len(words) /\ c = Join(quoted)
  BY QuotesAreSeqs DEF Quoted, QuoteArgv
<1>2. quoted[k] = e
  BY EmptyIffNone DEF Quoted
<1> HIDE DEF quoted, w
<1>3. /\ Len(w) \in Nat /\ Len(e) = Len(w) + 2 /\ e \in Seq(Chars)
      /\ e[1] = "'" /\ e[Len(w) + 2] = "'"
      /\ \A i \in 1 .. Len(w) : e[i + 1] = w[i] /\ w[i] \notin Quotes /\ w[i] # "\\"
  BY <1>0, QuotableIsEscaped
<1> HIDE DEF e
<1>4. k \in 1 .. Len(quoted)
  BY <1>1
<1>5. /\ c \in Seq(Chars) /\ Len(c) \in Nat /\ Len(c) = Past(quoted, Len(quoted))
      /\ Past(quoted, k - 1) \in Nat /\ at \in Nat /\ Past(quoted, k) \in Nat
      /\ Past(quoted, k) = at + Len(e) /\ Past(quoted, k) <= Len(c)
      /\ k # 1 => at = Past(quoted, k - 1) + 1 /\ c[at] = "_"
      /\ k = 1 => at = 0
  BY <1>1, <1>2, <1>4, JoinLayout
<1>16. WordIn(c, quoted, k)
  BY <1>1, <1>4, JoinLayout
<1>17. \A j \in 1 .. Len(e) : c[at + j] = e[j]
  BY <1>2, <1>16 DEF WordIn
<1>6. Opening(words, k) = at + 1 /\ Closing(words, k) = Past(quoted, k) /\ Closing(words, k - 1) = Past(quoted, k - 1)
  BY DEF Opening, Closing, quoted
<1> HIDE DEF at
<1> DEFINE past == Past(quoted, k)
           had == Past(quoted, k - 1)
           size == Len(e)
           long == Len(w)
<1>13. /\ c \in Seq(Chars) /\ Len(c) \in Nat /\ had \in Nat /\ at \in Nat /\ past \in Nat
       /\ long \in Nat /\ size = long + 2 /\ past = at + size /\ past <= Len(c)
       /\ k # 1 => at = had + 1
  BY <1>3, <1>5
<1> HIDE DEF past, had, size, long
<1>7. /\ at + 1 \in 1 .. Len(c) /\ past \in 1 .. Len(c)
      /\ past = (at + 1) + long + 1
  BY <1>13
<1>8. c[at + 1] = "'" /\ c[past] = "'"
  <2>1. 1 \in 1 .. size /\ long + 2 \in 1 .. size /\ past = at + (long + 2)
    BY <1>13
  <2> QED BY <1>3, <1>17, <2>1 DEF size, long
<1>9. ASSUME NEW j \in 1 .. long PROVE c[(at + 1) + j] = w[j]
  <2>1. j + 1 \in 1 .. size /\ (at + 1) + j = at + (j + 1)
    BY <1>13
  <2> QED BY <1>3, <1>17, <1>9, <2>1 DEF size, long
<1>10. SubSeq(c, at + 1, past) = e
  <2> DEFINE cut == SubSeq(c, at + 1, past)
  <2>1. cut \in Seq(Chars) /\ Len(cut) = size /\ \A j \in 1 .. size : cut[j] = c[(at + 1) + j - 1]
    <3>1. /\ past + 1 = (at + 1) + size /\ size \in Nat
          /\ 1 <= at + 1 /\ past \in Nat /\ at + 1 \in Nat
      BY <1>13
    <3> QED BY <1>13, <3>1, CutAt
  <2>2. \A j \in 1 .. size : cut[j] = e[j]
    <3> TAKE j \in 1 .. size
    <3>1. (at + 1) + j - 1 = at + j
      BY <1>13
    <3> HIDE DEF cut
    <3> QED BY <1>17, <2>1, <3>1 DEF size
  <2> HIDE DEF cut
  <2>3. cut = e
    BY <1>3, <2>1, <2>2, SeqEqual DEF size
  <2> QED BY <2>3 DEF cut
<1>14. k # 1 => at + 1 = had + 2
  BY <1>13
<1>11. k # 1 => at + 1 = had + 2 /\ c[had + 1] = "_"
  BY <1>5, <1>14 DEF had
<1>12. k = 1 => at + 1 = 1
  BY <1>5
<1>15. StandsIn(c, words, k)
  <2>1. \A j \in 1 .. long : c[(at + 1) + j] = w[j] /\ w[j] \notin Quotes /\ w[j] # "\\"
    BY <1>3, <1>9 DEF long
  <2> QED BY <1>6, <2>1 DEF StandsIn, w, long
<1> QED BY <1>1, <1>5, <1>6, <1>7, <1>8, <1>10, <1>11, <1>12, <1>13, <1>15 DEF w, e, past, had, long

LEMMA OneCut ==
  ASSUME NEW S, NEW s \in Seq(S), NEW i \in 1 .. Len(s)
  PROVE  SubSeq(s, i, i) = <<s[i]>>
<1>1. i \in i .. Len(s) /\ i \in Int /\ i + 1 \in Int /\ i < i + 1
  BY EmptyIffNone
<1>2. SubSeq(s, i, i) = <<s[i]>> \o SubSeq(s, i + 1, i)
  BY <1>1, SubSeqRecursiveFirst
<1>3. SubSeq(s, i + 1, i) = <<>>
  BY <1>1, SubSeqEmpty
<1>4. <<s[i]>> \in Seq(S)
  BY ElementOfSeq, OneIsSeq
<1>5. <<s[i]>> \o <<>> = <<s[i]>>
  BY <1>4, ConcatEmptySeq
<1> QED BY <1>2, <1>3, <1>5

\* A quoted word is one part of what the wrapper writes.
LEMMA QuotedIsPart ==
  ASSUME NEW words \in Seq(Seq(Chars)), \A k \in 1 .. Len(words) : Quotable(words[k]),
         NEW c, c = QuoteArgv(words), NEW k \in 1 .. Len(words)
  PROVE  PartEnd(c, Opening(words, k)) = Closing(words, k) + 1
<1> DEFINE from == Opening(words, k)
           to == Closing(words, k)
           long == Len(words[k])
<1>1. /\ c \in Seq(Chars) /\ Len(c) \in Nat /\ long \in Nat
      /\ from \in 1 .. Len(c) /\ to \in 1 .. Len(c) /\ to = from + long + 1
  BY QuotedLayout
<1>2. c[from] = "'" /\ c[to] = "'"
  BY QuotedLayout
<1>3. \A j \in 1 .. long : c[from + j] = words[k][j] /\ words[k][j] \notin Quotes /\ words[k][j] # "\\"
  <2>1. StandsIn(c, words, k)
    BY QuotedLayout
  <2> QED BY <2>1 DEF StandsIn
<1> HIDE DEF from, to, long
<1>4. \A j \in from + 1 .. to - 1 : c[j] # "'" /\ c[j] # "\\"
  <2> TAKE j \in from + 1 .. to - 1
  <2>1. j - from \in 1 .. long /\ from + (j - from) = j
    BY <1>1
  <2> QED BY <1>3, <2>1 DEF Quotes
<1>5. PICK f : /\ \A j \in from + 1 .. Len(c) + 2 :
                     f[j] = IF j > Len(c) THEN Len(c) + 1
                            ELSE IF c[j] = c[from] THEN j + 1
                            ELSE IF c[j] = "\\" THEN f[j + 2] ELSE f[j + 1]
               /\ QuoteEnd(c, from) = f[from + 1]
  BY <1>1, QuoteScan
<1> DEFINE Good == {j \in from + 1 .. to : f[j] = to + 1}
<1>6. to \in Good
  <2>1. to \in from + 1 .. to /\ to \in from + 1 .. Len(c) + 2 /\ ~(to > Len(c))
    BY <1>1
  <2> QED BY <1>2, <1>5, <2>1
<1>7. ASSUME NEW j \in from + 1 .. to - 1, \A i \in j + 1 .. to : i \in Good PROVE j \in Good
  <2>1. /\ j \in from + 1 .. to /\ j \in from + 1 .. Len(c) + 2 /\ ~(j > Len(c)) /\ j + 1 \in j + 1 .. to
    BY <1>1
  <2>2. c[j] # c[from] /\ c[j] # "\\"
    BY <1>2, <1>4
  <2>3. f[j] = f[j + 1]
    BY <1>5, <2>1, <2>2
  <2>4. j + 1 \in Good
    <3> HIDE DEF Good
    <3> QED BY <1>7, <2>1
  <2> QED BY <2>1, <2>3, <2>4
<1>8. \A j \in from + 1 .. to : j \in Good
  <2>1. from + 1 \in Nat /\ to \in Nat
    BY <1>1
  <2> HIDE DEF Good
  <2> QED BY <1>6, <1>7, <2>1, Downwards
<1>9. QuoteEnd(c, from) = to + 1
  <2>1. from + 1 \in from + 1 .. to
    BY <1>1
  <2> QED BY <1>5, <1>8, <2>1
<1>10. ~TwoAt(c, from)
  <2> SUFFICES ASSUME from < Len(c) PROVE SubSeq(c, from, from + 1) \notin Double
    BY DEF TwoAt
  <2> DEFINE two == SubSeq(c, from, from + 1)
  <2>1. two[1] = c[from]
    <3>1. from >= 1 /\ from <= (from + 1) + 1 /\ from + 1 <= Len(c) /\ (from + 1) - from + 1 = 2 /\ from + 1 - 1 = from
      BY <1>1
    <3>2. 1 \in 1 .. 2
      OBVIOUS
    <3> QED BY <1>1, <3>1, <3>2, SubSeqProperties
  <2> HIDE DEF two
  <2>2. two[1] = "'"
    BY <1>2, <2>1
  <2>3. two \notin Double
    BY <2>2 DEF Double
  <2> QED BY <2>3 DEF two
<1>11. c[from] \notin Single /\ c[from] \in Quotes
  BY <1>2 DEF Single, Quotes
<1> QED BY <1>9, <1>10, <1>11 DEF PartEnd, from, to

Places(words) == [k \in 1 .. Len(words) |-> [from |-> Opening(words, k), to |-> Closing(words, k) + 1]]

LEMMA QuotedParts ==
  ASSUME NEW words \in Seq(Seq(Chars)), \A k \in 1 .. Len(words) : Quotable(words[k]), words # <<>>,
         NEW c, c = QuoteArgv(words)
  PROVE  SplitParts(c) = Places(words) /\ Places(words) \in Seq(PartOf(c)) /\ Len(Places(words)) = Len(words)
<1> DEFINE all == Places(words)
           n == Len(words)
           part(k) == [from |-> Opening(words, k), to |-> Closing(words, k) + 1]
<1>0. n \in Nat /\ n >= 1
  BY EmptyIffNone
<1> HIDE DEF n
<1>1. /\ c \in Seq(Chars) /\ Len(c) \in Nat
      /\ \A k \in 1 .. n : /\ Opening(words, k) \in 1 .. Len(c) /\ Closing(words, k) \in 1 .. Len(c)
                           /\ Opening(words, k) < Closing(words, k)
                           /\ k # 1 => Opening(words, k) = Closing(words, k - 1) + 2
      /\ Opening(words, 1) = 1 /\ Closing(words, n) = Len(c)
  <2>1. 1 \in 1 .. n /\ n \in 1 .. n
    BY <1>0
  <2>2. c \in Seq(Chars) /\ Len(c) \in Nat /\ Opening(words, 1) = 1 /\ Closing(words, n) = Len(c)
    BY <2>1, QuotedLayout DEF n
  <2>3. ASSUME NEW k \in 1 .. n
        PROVE  /\ Opening(words, k) \in 1 .. Len(c) /\ Closing(words, k) \in 1 .. Len(c)
               /\ Opening(words, k) < Closing(words, k)
               /\ k # 1 => Opening(words, k) = Closing(words, k - 1) + 2
    <3>1. /\ Opening(words, k) \in 1 .. Len(c) /\ Closing(words, k) \in 1 .. Len(c)
          /\ Len(words[k]) \in Nat /\ Closing(words, k) = Opening(words, k) + Len(words[k]) + 1
          /\ k # 1 => Opening(words, k) = Closing(words, k - 1) + 2
      BY QuotedLayout DEF n
    <3>2. Opening(words, k) < Closing(words, k)
      BY ONLY <2>2, <3>1
    <3> QED BY <3>1, <3>2
  <2> QED BY <2>2, <2>3
<1>2. \A k \in 1 .. n : c[Opening(words, k)] = "'" /\ (k # 1 => c[Closing(words, k - 1) + 1] = "_")
  BY QuotedLayout DEF n
<1>3. all \in Seq(PartOf(c)) /\ Len(all) = n /\ \A k \in 1 .. n : all[k] = part(k)
  <2>1. all = [k \in 1 .. n |-> part(k)]
    BY DEF Places, n
  <2>2. ASSUME NEW k \in 1 .. n PROVE part(k) \in PartOf(c)
    <3>1. /\ Opening(words, k) \in Nat /\ Closing(words, k) + 1 \in Nat /\ 1 <= Opening(words, k)
          /\ Opening(words, k) < Closing(words, k) + 1 /\ Closing(words, k) + 1 <= Len(c) + 1
      BY <1>1
    <3> QED BY <3>1 DEF PartOf
  <2> HIDE DEF part
  <2>3. all \in [1 .. n -> PartOf(c)]
    BY <2>1, <2>2
  <2> HIDE DEF all
  <2> QED BY <1>0, <2>1, <2>3, FunctionIsSeq
<1> HIDE DEF all
<1>4. PICK f : /\ \A i \in 1 .. Len(c) + 1 :
                     f[i] = IF i > Len(c) THEN <<>>
                            ELSE IF c[i] = "_" THEN f[i + 1]
                            ELSE <<[from |-> i, to |-> PartEnd(c, i)]>> \o f[PartEnd(c, i)]
               /\ SplitParts(c) = f[1]
  BY <1>1, PartScan
<1>5. ASSUME NEW k \in 1 .. n PROVE f[Opening(words, k)] = <<part(k)>> \o f[Closing(words, k) + 1]
  <2> DEFINE i == Opening(words, k)
             next == Closing(words, k) + 1
  <2>1. i \in 1 .. Len(c) + 1 /\ ~(i > Len(c))
    BY <1>1
  <2>2. c[i] # "_"
    BY <1>2
  <2>3. PartEnd(c, i) = next
    BY QuotedIsPart DEF n
  <2> HIDE DEF i, next
  <2>4. f[i] = <<[from |-> i, to |-> next]>> \o f[next]
    BY <1>4, <2>1, <2>2, <2>3, Zenon
  <2> QED BY <2>4 DEF i, next
<1>6. ASSUME NEW k \in 1 .. n, k # n PROVE f[Closing(words, k) + 1] = f[Opening(words, k + 1)]
  <2> DEFINE i == Closing(words, k) + 1
  <2>1. k + 1 \in 1 .. n /\ k + 1 # 1 /\ (k + 1) - 1 = k
    BY <1>0, <1>6
  <2>2. Opening(words, k + 1) = Closing(words, k) + 2 /\ Opening(words, k + 1) \in 1 .. Len(c) /\ Closing(words, k) \in 1 .. Len(c)
    BY <1>1, <2>1
  <2>3. i \in 1 .. Len(c) + 1 /\ ~(i > Len(c)) /\ Opening(words, k + 1) = i + 1
    BY <1>1, <2>2
  <2>4. c[i] = "_"
    BY <1>2, <2>1
  <2> HIDE DEF i
  <2>5. f[i] = f[i + 1]
    BY <1>4, <2>3, <2>4, Zenon
  <2> QED BY <2>3, <2>5 DEF i
<1>7. f[Closing(words, n) + 1] = <<>>
  <2>1. Len(c) + 1 \in 1 .. Len(c) + 1 /\ Len(c) + 1 > Len(c)
    BY <1>1
  <2>2. f[Len(c) + 1] = <<>>
    BY <1>4, <2>1, Zenon
  <2> QED BY <1>1, <2>2
<1> HIDE DEF part
<1> DEFINE Good == {k \in 1 .. n : f[Opening(words, k)] = SubSeq(all, k, n)}
<1>8. n \in Good
  <2>1. f[Opening(words, n)] = <<part(n)>> \o <<>> /\ n \in 1 .. n
    <3>1. n \in 1 .. n
      BY <1>0
    <3> QED BY <1>5, <1>7, <3>1
  <2>2. all[n] = part(n) /\ part(n) \in PartOf(c)
    BY <1>3, <2>1, ElementOfSeq
  <2>3. <<part(n)>> \o <<>> = <<part(n)>>
    BY <2>2, OneIsSeq, ConcatEmptySeq
  <2>4. SubSeq(all, n, n) = <<all[n]>>
    BY <1>0, <1>3, <2>1, OneCut
  <2> QED BY <2>1, <2>2, <2>3, <2>4
<1>9. ASSUME NEW k \in 1 .. n - 1, \A i \in k + 1 .. n : i \in Good PROVE k \in Good
  <2>1. k \in 1 .. n /\ k # n /\ k + 1 \in k + 1 .. n
    BY <1>0
  <2>2. k + 1 \in Good
    <3> HIDE DEF Good
    <3> QED BY <1>9, <2>1
  <2>3. f[Opening(words, k)] = <<part(k)>> \o SubSeq(all, k + 1, n)
    BY <1>5, <1>6, <2>1, <2>2
  <2>4. SubSeq(all, k, n) = <<all[k]>> \o SubSeq(all, k + 1, n)
    BY <1>0, <1>3, <2>1, SubSeqRecursiveFirst
  <2> QED BY <1>3, <2>1, <2>3, <2>4
<1>10. 1 \in Good
  <2>1. \A k \in 1 .. n : k \in Good
    <3> HIDE DEF Good
    <3> QED BY <1>0, <1>8, <1>9, Downwards
  <2>2. 1 \in 1 .. n
    BY <1>0
  <2> HIDE DEF Good
  <2> QED BY <2>1, <2>2
<1>11. SplitParts(c) = all
  <2>1. SplitParts(c) = SubSeq(all, 1, n)
    BY <1>1, <1>4, <1>10
  <2> QED BY <1>3, <2>1, SubSeqFull
<1> QED BY <1>3, <1>11 DEF all, n

\* Groups with one, which grows.
OneGroup(g) == [done |-> <<g>>, open |-> FALSE]

LEMMA GroupOpens ==
  ASSUME NEW c, NEW p, ~IsOperator(Text(c, p)), NEW gs, gs = [done |-> <<>>, open |-> TRUE]
  PROVE  GroupPart(gs, c, p) = OneGroup(<<p>>)
<1>1. Append(<<>>, <<p>>) = <<<<p>>>>
  OBVIOUS
<1> QED BY <1>1 DEF GroupPart, OneGroup

LEMMA GroupGrows ==
  ASSUME NEW c, NEW g, NEW p, ~IsOperator(Text(c, p)), NEW gs, gs = OneGroup(g)
  PROVE  GroupPart(gs, c, p) = OneGroup(Append(g, p))
<1> DEFINE r == [done |-> <<g>>, open |-> FALSE]
<1>1. gs = r
  BY DEF OneGroup
<1>2. Len(r.done) = 1 /\ r.done[1] = g /\ ~r.open
  OBVIOUS
<1>3. GroupPart(r, c, p) = [r EXCEPT !.done[1] = Append(g, p)]
  BY <1>2 DEF GroupPart
<1>4. [<<g>> EXCEPT ![1] = Append(g, p)] = <<Append(g, p)>>
  OBVIOUS
<1>5. GroupPart(r, c, p) = [r EXCEPT !.done = <<Append(g, p)>>]
  BY <1>2, <1>3, <1>4
<1>6. GroupPart(r, c, p) = OneGroup(Append(g, p))
  BY <1>5 DEF OneGroup
<1> HIDE DEF r
<1> QED BY <1>1, <1>6

\* What the wrapper writes is one segment, the command itself.
LEMMA QuotedIsOneSegment ==
  ASSUME NEW words \in Seq(Seq(Chars)), \A k \in 1 .. Len(words) : Quotable(words[k]), words # <<>>,
         NEW c, c = QuoteArgv(words)
  PROVE  SegmentTexts(c) = <<c>>
<1> DEFINE all == Places(words)
           n == Len(words)
           upto(k) == SubSeq(all, 1, k)
           state(k) == OneGroup(upto(k))
<1>0. n \in Nat /\ n >= 1
  BY EmptyIffNone
<1>1. SplitParts(c) = all /\ all \in Seq(PartOf(c)) /\ Len(all) = n
  BY QuotedParts
<1>2. \A k \in 1 .. n : Text(c, all[k]) = Escape(words[k])
  <2> TAKE k \in 1 .. n
  <2>1. /\ Closing(words, k) \in 1 .. Len(c) /\ Len(c) \in Nat
        /\ SubSeq(c, Opening(words, k), Closing(words, k)) = Escape(words[k])
    BY QuotedLayout
  <2>2. all[k].from = Opening(words, k) /\ all[k].to = Closing(words, k) + 1
    BY DEF Places
  <2>3. (Closing(words, k) + 1) - 1 = Closing(words, k)
    BY <2>1
  <2> QED BY <2>1, <2>2, <2>3 DEF Text
<1>3. \A k \in 1 .. n : ~IsOperator(Text(c, all[k]))
  <2> TAKE k \in 1 .. n
  <2>1. Escape(words[k])[1] = "'"
    BY ElementOfSeq, QuotableIsEscaped
  <2> DEFINE e == Escape(words[k])
  <2> HIDE DEF e
  <2>2. e[1] = "'" => ~IsOperator(e)
    <3>1. \A x \in Double : x[1] # "'"
      BY DEF Double
    <3>2. \A x \in Single : <<x>>[1] # "'"
      BY DEF Single
    <3>3. <<"2", ">", ">">>[1] # "'"
      OBVIOUS
    <3> QED BY <3>1, <3>2, <3>3 DEF IsOperator
  <2> QED BY <1>2, <2>1, <2>2 DEF e
<1> HIDE DEF all, n
<1>4. PICK f : /\ \A k \in 0 .. n :
                     f[k] = IF k = 0 THEN [done |-> <<>>, open |-> TRUE]
                            ELSE GroupPart(f[k - 1], c, all[k])
               /\ Groups(c) = f[n].done
  BY <1>0, <1>1, GroupScan
<1> DEFINE Good == {0} \cup {k \in 1 .. n : f[k] = state(k)}
<1>5. ASSUME NEW k \in 1 .. n, k - 1 \in Good PROVE k \in Good
  <2> DEFINE p == all[k]
  <2>1. /\ upto(k) = Append(upto(k - 1), p) /\ upto(k - 1) \in Seq(PartOf(c))
        /\ Len(upto(k - 1)) = k - 1
    BY <1>1, PrefixGrows
  <2>2. ~IsOperator(Text(c, p))
    BY <1>3
  <2>3. f[k] = GroupPart(f[k - 1], c, p)
    BY <1>0, <1>4
  <2> HIDE DEF p
  <2>4. CASE k = 1
    <3>1. f[0] = [done |-> <<>>, open |-> TRUE]
      <4>1. 0 \in 0 .. n
        BY <1>0
      <4> QED BY <1>4, <4>1
    <3>2. upto(k) = <<p>>
      <4>1. upto(k - 1) = <<>>
        BY <2>1, <2>4, EmptyIffNone
      <4>2. Append(<<>>, p) = <<p>>
        OBVIOUS
      <4> HIDE DEF upto
      <4> QED BY <2>1, <4>1, <4>2
    <3>3. f[k - 1] = [done |-> <<>>, open |-> TRUE]
      BY <2>4, <3>1
    <3> HIDE DEF upto
    <3>4. f[k] = OneGroup(<<p>>)
      BY <2>2, <2>3, <3>3, GroupOpens
    <3>5. f[k] = state(k)
      BY <3>2, <3>4
    <3> QED BY <3>5
  <2>5. CASE k # 1
    <3>1. f[k - 1] = state(k - 1)
      BY <1>5, <2>5
    <3> HIDE DEF upto
    <3>2. f[k] = OneGroup(Append(upto(k - 1), p))
      BY <2>2, <2>3, <3>1, GroupGrows
    <3>3. f[k] = state(k)
      BY <2>1, <3>2
    <3> QED BY <3>3
  <2> QED BY <2>4, <2>5
<1>6. f[n] = state(n)
  <2>1. \A k \in 0 .. n : k \in Good
    <3>1. 0 \in Good
      OBVIOUS
    <3> HIDE DEF Good
    <3> QED BY <1>0, <1>5, <3>1, Upwards
  <2>2. n \in 0 .. n /\ n # 0
    BY <1>0
  <2> HIDE DEF state
  <2> QED BY <2>1, <2>2
<1>7. Groups(c) = <<all>>
  <2>1. upto(n) = all
    BY <1>1, SubSeqFull
  <2> HIDE DEF upto
  <2>2. f[n].done = <<upto(n)>>
    BY <1>6 DEF OneGroup
  <2> QED BY <1>4, <2>1, <2>2
<1> DEFINE gs == Groups(c)
           texts(k) == [p \in DOMAIN gs[k] |-> Text(c, gs[k][p])]
<1>8. texts(1) = Quoted(words)
  <2>1. DOMAIN all = 1 .. n /\ DOMAIN words = 1 .. n
    BY <1>0, <1>1, EmptyIffNone DEF n
  <2>2. gs[1] = all
    BY <1>7
  <2> HIDE DEF gs
  <2>3. texts(1) = [p \in 1 .. n |-> Text(c, all[p])]
    BY <2>1, <2>2
  <2>4. Quoted(words) = [p \in 1 .. n |-> Escape(words[p])]
    BY <2>1 DEF Quoted
  <2> HIDE DEF texts
  <2> QED BY <1>2, <2>3, <2>4
<1>9. DOMAIN gs = {1}
  BY <1>7
<1>10. SegmentTexts(c) = [k \in DOMAIN gs |-> Join(texts(k))]
  BY DEF SegmentTexts
<1> HIDE DEF gs, texts
<1>11. SegmentTexts(c) = [k \in {1} |-> Join(texts(1))]
  <2>1. \A k \in {1} : Join(texts(k)) = Join(texts(1))
    OBVIOUS
  <2> QED BY <1>9, <1>10, <2>1
<1>12. Join(texts(1)) = c
  BY <1>8 DEF Quoted, QuoteArgv
<1> QED BY <1>11, <1>12

\* The command an argument vector is quoted to is judged as the segment it is.
LEMMA QuotedIsParsed ==
  ASSUME NEW words \in Seq(Seq(Chars)), \A k \in 1 .. Len(words) : Quotable(words[k]), words # <<>>,
         NEW c, c = QuoteArgv(words)
  PROVE  ParseCommand(c) = <<c>>
<1>1. 1 \in 1 .. Len(words) /\ Len(words) \in 1 .. Len(words)
  BY EmptyIffNone
<1>2. c \in Seq(Chars) /\ Len(c) \in Nat /\ c[1] = "'" /\ c[Len(c)] = "'" /\ Len(c) >= 1
  <2>1. c \in Seq(Chars) /\ Len(c) \in Nat /\ Opening(words, 1) = 1 /\ c[Opening(words, 1)] = "'"
        /\ Opening(words, 1) \in 1 .. Len(c)
    BY <1>1, QuotedLayout
  <2> DEFINE n == Len(words)
  <2>3. n \in 1 .. Len(words) /\ n = Len(words)
    BY <1>1
  <2> HIDE DEF n
  <2>4. Closing(words, n) = Len(c)
    BY <2>3, QuotedLayout
  <2>5. c[Closing(words, n)] = "'"
    <3>1. n \in 1 .. Len(words)
      BY <2>3
    <3> QED BY <3>1, QuotedLayout
  <2>2. Closing(words, Len(words)) = Len(c) /\ c[Closing(words, Len(words))] = "'"
    BY <2>3, <2>4, <2>5
  <2> QED BY <2>1, <2>2
<1>3. c # <<>> /\ c[1] \notin Space /\ c[Len(c)] \notin Space
  BY <1>2, EmptyIffNone DEF Space
<1>4. Strip(c) = c
  BY <1>2, <1>3, StripIsSeq
<1> QED BY <1>4, QuotedIsOneSegment DEF ParseCommand

LEMMA BareIsBare ==
  ASSUME NEW w \in Seq(Chars), Bare(w)
  PROVE  /\ w # <<>> /\ Quotable(w) /\ Len(w) \in Nat /\ Len(w) # 0
         /\ \A i \in 1 .. Len(w) : w[i] \notin Space /\ w[i] \notin Quotes
BY EmptyIffNone DEF Bare, Quotable

\* With the quotes off, what the wrapper writes is the bare words, and so are they.
LEMMA QuotesAreOff ==
  ASSUME NEW words \in Seq(Seq(Chars)), \A k \in 1 .. Len(words) : Bare(words[k])
  PROVE  /\ NormalizeQuoted(QuoteArgv(words)) = Join(words)
         /\ NormalizeQuoted(Join(words)) = Join(words)
<1> DEFINE bare(w) == IF Len(w) > 1 /\ w[1] \in Quotes /\ w[Len(w)] \in Quotes
                      THEN SubSeq(w, 2, Len(w) - 1) ELSE w
<1>0. DOMAIN words = 1 .. Len(words) /\ Len(words) \in Nat /\ \A k \in 1 .. Len(words) : words[k] \in Seq(Chars)
  BY EmptyIffNone, ElementOfSeq
<1>1. \A text : NormalizeQuoted(text) = Join([k \in DOMAIN Split(text) |-> bare(Split(text)[k])])
  BY DEF NormalizeQuoted
<1>2. \A k \in 1 .. Len(words) : bare(words[k]) = words[k]
  <2> TAKE k \in 1 .. Len(words)
  <2> DEFINE w == words[k]
  <2>1. Len(w) > 1 => w[1] \notin Quotes
    <3>1. w \in Seq(Chars) /\ Bare(w)
      BY <1>0
    <3> HIDE DEF w
    <3>2. Len(w) \in Nat /\ \A i \in 1 .. Len(w) : w[i] \notin Quotes
      BY <3>1, BareIsBare
    <3>3. Len(w) > 1 => 1 \in 1 .. Len(w)
      BY <3>2
    <3> QED BY <3>2, <3>3
  <2> QED BY <2>1
<1>3. \A k \in 1 .. Len(words) :
        /\ bare(Escape(words[k])) = words[k]
        /\ Escape(words[k]) # <<>>
        /\ \A i \in 1 .. Len(Escape(words[k])) : Escape(words[k])[i] \notin Space
  <2> TAKE k \in 1 .. Len(words)
  <2> DEFINE w == words[k]
             e == Escape(w)
             cut == SubSeq(e, 2, Len(e) - 1)
  <2>1. w \in Seq(Chars) /\ Bare(w)
    BY <1>0
  <2> HIDE DEF w
  <2>2. Quotable(w) /\ \A i \in 1 .. Len(w) : w[i] \notin Space
    BY <2>1, BareIsBare
  <2>3. /\ e \in Seq(Chars) /\ Len(w) \in Nat /\ Len(e) = Len(w) + 2
        /\ e[1] = "'" /\ e[Len(w) + 2] = "'"
        /\ \A i \in 1 .. Len(w) : e[i + 1] = w[i]
    BY <2>1, <2>2, QuotableIsEscaped
  <2> HIDE DEF e
  <2>4. e # <<>> /\ Len(e) > 1 /\ Len(e) - 1 = Len(w) + 1
    BY <2>3, EmptyIffNone
  <2>5. cut \in Seq(Chars) /\ Len(cut) = Len(w) /\ \A i \in 1 .. Len(w) : cut[i] = e[i + 1]
    <3> DEFINE m == Len(e) - 1
    <3>1. 1 <= 2 /\ m <= Len(e) /\ m \in Int /\ 2 <= m + 1 /\ m - 2 + 1 = Len(w)
      BY <2>3
    <3>2. \A i \in 1 .. Len(w) : 2 + i - 1 = i + 1
      BY <2>3
    <3> HIDE DEF m
    <3>3. SubSeq(e, 2, m) \in Seq(Chars)
      BY <2>3, <3>1, CutIsSeq
    <3>4. \A i \in 2 .. m : e[i] \in Chars
      BY <2>3, <3>1, ElementOfSeq
    <3>5. /\ Len(SubSeq(e, 2, m)) = IF 2 <= m THEN m - 2 + 1 ELSE 0
          /\ \A i \in 1 .. m - 2 + 1 : SubSeq(e, 2, m)[i] = e[2 + i - 1]
      BY <3>1, <3>4, SubSeqProperties
    <3>6. Len(SubSeq(e, 2, m)) = Len(w)
      BY <2>3, <3>1, <3>5
    <3> QED BY <3>1, <3>2, <3>3, <3>5, <3>6 DEF m
  <2>6. cut = w
    <3> HIDE DEF cut
    <3> QED BY <2>1, <2>3, <2>5, SeqEqual
  <2>7. bare(e) = w
    <3>1. e[1] \in Quotes /\ e[Len(e)] \in Quotes
      BY <2>3 DEF Quotes
    <3> HIDE DEF w
    <3> QED BY <2>4, <2>6, <3>1
  <2>8. ASSUME NEW i \in 1 .. Len(e) PROVE e[i] \notin Space
    <3>1. i = 1 \/ i = Len(w) + 2 \/ (i - 1 \in 1 .. Len(w) /\ (i - 1) + 1 = i)
      BY <2>3
    <3>2. "'" \notin Space
      BY DEF Space
    <3> QED BY <2>2, <2>3, <3>1, <3>2
  <2> HIDE DEF bare
  <2> QED BY <2>4, <2>7, <2>8 DEF w, e
<1> HIDE DEF bare
<1>4. Split(Join(words)) = words
  <2>1. \A k \in 1 .. Len(words) : words[k] # <<>> /\ \A i \in 1 .. Len(words[k]) : words[k][i] \notin Space
    BY <1>0, BareIsBare
  <2> QED BY <2>1, SplitJoin
<1>5. Split(QuoteArgv(words)) = Quoted(words)
  <2> DEFINE quoted == Quoted(words)
  <2>1. quoted \in Seq(Seq(Chars)) /\ Len(quoted) = Len(words) /\ QuoteArgv(words) = Join(quoted)
    BY QuotesAreSeqs DEF Quoted, QuoteArgv
  <2>2. \A k \in 1 .. Len(words) : quoted[k] = Escape(words[k])
    BY <1>0 DEF Quoted
  <2> HIDE DEF quoted
  <2>3. \A k \in 1 .. Len(quoted) : quoted[k] # <<>> /\ \A i \in 1 .. Len(quoted[k]) : quoted[k][i] \notin Space
    BY <1>3, <2>1, <2>2
  <2>4. Split(Join(quoted)) = quoted
    BY <2>1, <2>3, SplitJoin
  <2> QED BY <2>1, <2>4 DEF quoted
<1>6. NormalizeQuoted(Join(words)) = Join(words)
  <2>1. [k \in DOMAIN words |-> bare(words[k])] = words
    <3>1. [k \in DOMAIN words |-> bare(words[k])] = [k \in DOMAIN words |-> words[k]]
      BY <1>0, <1>2
    <3>2. [k \in DOMAIN words |-> words[k]] = words
      OBVIOUS
    <3> QED BY <3>1, <3>2
  <2> QED BY <1>1, <1>4, <2>1
<1>7. NormalizeQuoted(QuoteArgv(words)) = Join(words)
  <2> DEFINE quoted == Quoted(words)
  <2>1. DOMAIN quoted = DOMAIN words /\ \A k \in DOMAIN words : quoted[k] = Escape(words[k])
    BY DEF Quoted
  <2> HIDE DEF quoted
  <2>2. [k \in DOMAIN quoted |-> bare(quoted[k])] = words
    <3>1. \A k \in DOMAIN words : bare(quoted[k]) = words[k]
      BY <1>0, <1>3, <2>1
    <3>2. [k \in DOMAIN words |-> bare(quoted[k])] = [k \in DOMAIN words |-> words[k]]
      BY <3>1
    <3>3. [k \in DOMAIN words |-> words[k]] = words
      OBVIOUS
    <3> QED BY <2>1, <3>2, <3>3
  <2>3. NormalizeQuoted(QuoteArgv(words)) = Join([k \in DOMAIN quoted |-> bare(quoted[k])])
    BY <1>1, <1>5 DEF quoted
  <2> QED BY <2>2, <2>3
<1> QED BY <1>6, <1>7

\* A text occurs where it is found character by character.
LEMMA OccursAt ==
  ASSUME NEW needle \in Seq(Chars), NEW c \in Seq(Chars)
  PROVE  Occurs(needle, c) <=> \E i \in 0 .. Len(c) - Len(needle) :
                                 \A j \in 1 .. Len(needle) : c[i + j] = needle[j]
<1> DEFINE cut(i) == SubSeq(c, i + 1, i + Len(needle))
<1>0. Len(needle) \in Nat /\ Len(c) \in Nat
  BY EmptyIffNone
<1>1. ASSUME NEW i \in 0 .. Len(c) - Len(needle)
      PROVE  /\ cut(i) \in Seq(Chars) /\ Len(cut(i)) = Len(needle)
             /\ \A j \in 1 .. Len(needle) : cut(i)[j] = c[i + j]
  <2> DEFINE a == i + 1
             b == i + Len(needle)
  <2>1. a \in Int /\ b \in Int /\ 1 <= a /\ b <= Len(c) /\ a <= b + 1 /\ b - a + 1 = Len(needle)
    BY <1>0
  <2>2. \A j \in 1 .. Len(needle) : a + j - 1 = i + j
    BY <1>0
  <2>3. a > b => Len(needle) = 0
    BY <1>0
  <2> HIDE DEF a, b
  <2>4. SubSeq(c, a, b) \in Seq(Chars)
    BY <2>1, CutIsSeq
  <2>5. \A k \in a .. b : c[k] \in Chars
    <3>1. \A k \in a .. b : k \in 1 .. Len(c)
      BY <1>0, <2>1
    <3> QED BY <3>1, ElementOfSeq
  <2>6. /\ Len(SubSeq(c, a, b)) = IF a <= b THEN b - a + 1 ELSE 0
        /\ \A j \in 1 .. b - a + 1 : SubSeq(c, a, b)[j] = c[a + j - 1]
    BY <2>1, <2>5, SubSeqProperties
  <2>7. Len(SubSeq(c, a, b)) = Len(needle)
    BY <2>1, <2>3, <2>6
  <2> QED BY <2>1, <2>2, <2>4, <2>6, <2>7 DEF a, b
<1> HIDE DEF cut
<1>2. ASSUME NEW i \in 0 .. Len(c) - Len(needle)
      PROVE  cut(i) = needle <=> \A j \in 1 .. Len(needle) : c[i + j] = needle[j]
  <2>1. ASSUME \A j \in 1 .. Len(needle) : c[i + j] = needle[j] PROVE cut(i) = needle
    <3>1. \A j \in 1 .. Len(cut(i)) : cut(i)[j] = needle[j]
      BY <1>1, <2>1
    <3> QED BY <1>1, <3>1, SeqEqual
  <2>2. ASSUME cut(i) = needle PROVE \A j \in 1 .. Len(needle) : c[i + j] = needle[j]
    BY <1>1, <2>2
  <2> QED BY <2>1, <2>2
<1> QED BY <1>2 DEF Occurs, cut

\* What has no quote in it and is found between the quotes is found without them.
LEMMA OccursBare ==
  ASSUME NEW words \in Seq(Seq(Chars)), words # <<>>, \A k \in 1 .. Len(words) : Quotable(words[k]),
         NEW needle \in Seq(Chars), needle # <<>>, \A j \in 1 .. Len(needle) : needle[j] \notin Quotes,
         Occurs(needle, QuoteArgv(words))
  PROVE  Occurs(needle, Join(words))
<1> DEFINE c == QuoteArgv(words)
           d == Join(words)
           n == Len(words)
           size == Len(needle)
<1>0. n \in Nat /\ n >= 1 /\ size \in Nat /\ size >= 1 /\ n \in 1 .. n
  BY EmptyIffNone
<1>1. c \in Seq(Chars) /\ d \in Seq(Chars) /\ Len(c) \in Nat /\ Len(d) \in Nat
  BY QuotesAreSeqs, JoinIsSeq, EmptyIffNone
<1>2. PICK i \in 0 .. Len(c) - size : \A j \in 1 .. size : c[i + j] = needle[j]
  BY <1>1, OccursAt
<1> DEFINE b == i + size
<1>3. \A k \in 1 .. n : /\ Opening(words, k) \in 1 .. Len(c) /\ Closing(words, k) \in 1 .. Len(c)
                        /\ Closing(words, k) = Opening(words, k) + Len(words[k]) + 1
                        /\ k = 1 => Opening(words, k) = 1
                        /\ k # 1 => Opening(words, k) = Closing(words, k - 1) + 2
                        /\ k = n => Closing(words, k) = Len(c)
  BY QuotedLayout
<1>4. \A k \in 1 .. n : c[Opening(words, k)] = "'" /\ c[Closing(words, k)] = "'"
  BY QuotedLayout
<1>5. \A k \in 1 .. n : StandsIn(c, words, k)
  BY QuotedLayout
<1>6. \A k \in 1 .. n : k # 1 => c[Closing(words, k - 1) + 1] = "_"
  BY QuotedLayout
<1>7. \A k \in 1 .. n : /\ Place(words, k) \in Nat /\ Len(words[k]) \in Nat
                        /\ Place(words, k) + Len(words[k]) <= Len(d)
                        /\ k # 1 => Place(words, k) >= 1
  <2> TAKE k \in 1 .. n
  <2>1. /\ Place(words, k) \in Nat /\ Len(words[k]) \in Nat /\ Past(words, k - 1) \in Nat
        /\ Past(words, k) = Place(words, k) + Len(words[k]) /\ Past(words, k) <= Len(d)
    BY JoinLayout
  <2>2. k # 1 => Place(words, k) = Past(words, k - 1) + 1
    BY JoinLayout
  <2> QED BY <2>1, <2>2
<1>8. \A k \in 1 .. n : k # 1 => d[Place(words, k)] = "_"
  BY JoinLayout
<1>9. \A k \in 1 .. n : WordIn(d, words, k)
  BY JoinLayout
<1> HIDE DEF c, d, n, size
<1>10. \A j \in 1 .. size : c[i + j] \notin Quotes
  BY <1>2 DEF size
<1>11. "'" \in Quotes
  BY DEF Quotes
<1>12. b \in 1 .. Len(c) /\ i \in Nat
  BY <1>0, <1>1
<1>13. \A at \in i + 1 .. b : c[at] # "'"
  <2> TAKE at \in i + 1 .. b
  <2>1. at - i \in 1 .. size /\ i + (at - i) = at
    BY <1>0, <1>1
  <2> QED BY <1>10, <1>11, <2>1
<1> HIDE DEF b
<1> DEFINE Beyond == {k \in 1 .. n : b <= Closing(words, k)}
<1>14. PICK k \in Beyond : \A m \in Beyond : k <= m
  <2>1. n \in Beyond
    BY <1>0, <1>1, <1>3, <1>12
  <2>2. Beyond \in SUBSET Nat
    OBVIOUS
  <2> HIDE DEF Beyond
  <2> QED BY <2>1, <2>2, SmallestExists
<1>15. k \in 1 .. n /\ b <= Closing(words, k)
  BY <1>14
<1>16. k # 1 => k - 1 \in 1 .. n /\ b > Closing(words, k - 1)
  <2> SUFFICES ASSUME k # 1 PROVE k - 1 \in 1 .. n /\ b > Closing(words, k - 1)
    OBVIOUS
  <2>1. k - 1 \in 1 .. n /\ ~(k <= k - 1)
    BY <1>0, <1>15
  <2>2. k - 1 \notin Beyond
    <3> HIDE DEF Beyond
    <3> QED BY <1>14, <2>1
  <2>3. ~(b <= Closing(words, k - 1)) /\ Closing(words, k - 1) \in 1 .. Len(c)
    BY <1>3, <2>1, <2>2
  <2> QED BY <1>12, <2>1, <2>3
<1> HIDE DEF Beyond
<1>17. b # Closing(words, k) /\ b # Opening(words, k)
  <2>1. b \in i + 1 .. b
    BY <1>0, <1>12 DEF b
  <2> QED BY <1>4, <1>13, <1>15, <2>1
<1> DEFINE open == Opening(words, k)
           close == Closing(words, k)
           long == Len(words[k])
           place == Place(words, k)
<1>18. /\ open \in 1 .. Len(c) /\ close \in 1 .. Len(c) /\ close = open + long + 1
       /\ place \in Nat /\ long \in Nat /\ place + long <= Len(d)
  BY <1>3, <1>7, <1>15
<1>19. SUFFICES \E at \in 0 .. Len(d) - size : \A j \in 1 .. size : d[at + j] = needle[j]
  BY <1>1, OccursAt DEF d, size
<1>20. CASE b > open
  <2>1. i >= open
    <3> SUFFICES ASSUME i < open PROVE FALSE
      BY <1>12, <1>18
    <3>1. open \in i + 1 .. b
      BY <1>12, <1>18, <1>20
    <3> QED BY <1>4, <1>13, <1>15, <3>1
  <2> DEFINE at == place + (i - open)
  <2>5. b <= close /\ b # close
    BY <1>15, <1>17
  <2> HIDE DEF open, close, long, place
  <2>2. b < close
    BY <1>1, <1>12, <1>18, <2>5
  <2>3. at \in 0 .. Len(d) - size
    BY <1>0, <1>1, <1>12, <1>18, <2>1, <2>2 DEF b
  <2>4. ASSUME NEW j \in 1 .. size PROVE d[at + j] = needle[j]
    <3> DEFINE h == (i - open) + j
    <3>1. h \in 1 .. long /\ open + h = i + j /\ place + h = at + j
      BY <1>0, <1>1, <1>12, <1>18, <2>1, <2>2 DEF b
    <3> HIDE DEF h, at
    <3>2. c[open + h] = words[k][h]
      BY <1>5, <1>15, <3>1 DEF StandsIn, open, long
    <3>3. d[place + h] = words[k][h]
      BY <1>9, <1>15, <3>1 DEF WordIn, place, long
    <3> QED BY <1>2, <3>1, <3>2, <3>3
  <2> HIDE DEF at
  <2> QED BY <2>3, <2>4
<1>21. CASE ~(b > open)
  <2>1. k # 1
    BY <1>3, <1>12, <1>15, <1>17, <1>18, <1>21
  <2> DEFINE before == Closing(words, k - 1)
  <2>2. before \in 1 .. Len(c) /\ open = before + 2 /\ b > before /\ k - 1 \in 1 .. n
    BY <1>3, <1>15, <1>16, <2>1
  <2> HIDE DEF before, open
  <2>3. b = before + 1
    BY <1>1, <1>12, <1>17, <1>18, <1>21, <2>2 DEF open
  <2>4. i = before
    <3>1. before \notin i + 1 .. b
      BY <1>4, <1>13, <2>2 DEF before
    <3>2. i <= before
      BY <1>0, <1>1, <1>12, <2>2, <2>3 DEF b
    <3> QED BY <1>0, <1>12, <2>2, <2>3, <3>1, <3>2
  <2>5. size = 1 /\ needle[1] = "_"
    <3>1. size = 1
      BY <1>0, <1>1, <1>12, <2>2, <2>3, <2>4 DEF b
    <3>2. 1 \in 1 .. size
      BY <3>1
    <3>3. c[i + 1] = needle[1]
      BY <1>2, <3>2
    <3> QED BY <1>6, <1>15, <2>1, <2>4, <3>1, <3>3 DEF before
  <2> DEFINE at == place - 1
  <2>6. place >= 1
    BY <1>7, <1>15, <2>1
  <2>10. size = 1
    BY <2>5
  <2>7. at \in 0 .. Len(d) - size /\ at + 1 = place
    <3>1. place <= Len(d)
      <4> HIDE DEF place, long
      <4> QED BY <1>1, <1>18
    <3>2. place \in Nat
      BY <1>18
    <3> HIDE DEF place
    <3> QED BY <1>1, <2>6, <2>10, <3>1, <3>2
  <2>8. \A j \in 1 .. size : j = 1
    BY <2>10
  <2>11. d[place] = "_"
    BY <1>8, <1>15, <2>1
  <2> HIDE DEF at
  <2>9. \A j \in 1 .. size : d[at + j] = needle[j]
    BY <2>5, <2>7, <2>8, <2>11
  <2> QED BY <2>7, <2>9
<1> QED BY <1>20, <1>21


----------------------------------------------------------------------------
(* What a rule says of quoted words is what it says of the bare ones.          *)

LEMMA PatternSeesThrough ==
  ASSUME NEW words \in Seq(Seq(Chars)), words # <<>>, \A k \in 1 .. Len(words) : Bare(words[k]),
         NEW def, def.type = "pattern", def.field \in Seq(Chars), ~LooksForQuote(def)
  PROVE  MatchPattern(QuoteArgv(words), def) = MatchPattern(Join(words), def)
<1> DEFINE q == QuoteArgv(words)
           d == Join(words)
           regex == def.field
<1>1. NormalizeQuoted(q) = d /\ NormalizeQuoted(d) = d
  BY QuotesAreOff
<1>2. \A k \in 1 .. Len(words) : Quotable(words[k])
  BY DEF Bare
<1>3. \A j \in 1 .. Len(regex) : regex[j] \notin Quotes
  BY EmptyIffNone DEF LooksForQuote
<1>4. ASSUME regex # <<>>, Occurs(regex, q) PROVE Occurs(regex, d)
  BY <1>2, <1>3, <1>4, OccursBare
<1> HIDE DEF q, d, regex
<1>5. regex # <<>> => ((\E t \in {q, d} : Occurs(regex, t)) <=> (\E t \in {d, d} : Occurs(regex, t)))
  BY <1>4
<1>6. regex # <<>> => Search(regex, {q, d}) = Search(regex, {d, d})
  BY <1>5 DEF Search, Say
<1>7. \A raw : MatchPattern(raw, def) =
                 IF regex = <<>> THEN "no" ELSE Search(regex, {raw, NormalizeQuoted(raw)})
  BY DEF MatchPattern, regex
<1>8. MatchPattern(q, def) = MatchPattern(d, def)
  BY <1>1, <1>6, <1>7
<1> QED BY <1>8 DEF q, d

\* Every other type reads the text with its quotes off.
LEMMA AnswerSeesThrough ==
  ASSUME NEW words \in Seq(Seq(Chars)), words # <<>>, \A k \in 1 .. Len(words) : Bare(words[k]),
         NEW def \in Definitions, ~LooksForQuote(def), NEW below
  PROVE  Answer(QuoteArgv(words), def, below) = Answer(Join(words), def, below)
<1> DEFINE q == QuoteArgv(words)
           d == Join(words)
<1>1. NormalizeQuoted(q) = NormalizeQuoted(d)
  BY QuotesAreOff
<1>2. def.type = "pattern" => MatchPattern(q, def) = MatchPattern(d, def)
  BY RuleAssumption, PatternSeesThrough
<1> HIDE DEF q, d
<1>3. /\ MatchCommand(q, def) = MatchCommand(d, def)
      /\ MatchSubcommand(q, def) = MatchSubcommand(d, def)
      /\ MatchPath(q, def) = MatchPath(d, def)
      /\ MatchSyscall(q, def) = MatchSyscall(d, def)
      /\ MatchNetwork(q, def) = MatchNetwork(d, def)
      /\ MatchHeredoc(q, def) = MatchHeredoc(d, def)
  BY <1>1 DEF MatchCommand, MatchSubcommand, MatchPath, MatchSyscall, MatchNetwork, MatchHeredoc
<1>4. MatchPipeline(q, def) = MatchPipeline(d, def)
  BY <1>1 DEF MatchPipeline
<1>5. MatchComposite(q, def, below) = MatchComposite(d, def, below)
  <2>1. \A cond : MatchSimple(q, cond, below) = MatchSimple(d, cond, below)
    BY <1>1 DEF MatchSimple
  <2>2. [k \in DOMAIN def.conditions |-> MatchSimple(q, def.conditions[k], below)]
          = [k \in DOMAIN def.conditions |-> MatchSimple(d, def.conditions[k], below)]
    BY <2>1
  <2> QED BY <2>1, <2>2 DEF MatchComposite
<1>6. Answer(q, def, below) = Answer(d, def, below)
  BY <1>2, <1>3, <1>4, <1>5 DEF Answer
<1> QED BY <1>6 DEF q, d

\* However deep a rule is, it says of the quoted words what it says of the bare ones.
LEMMA SegmentSeesThrough ==
  ASSUME NEW words \in Seq(Seq(Chars)), words # <<>>, \A k \in 1 .. Len(words) : Bare(words[k]),
         \A def \in Definitions : ~LooksForQuote(def), NEW asked
  PROVE  MatchSegment(QuoteArgv(words), asked) = MatchSegment(Join(words), asked)
<1> DEFINE q == QuoteArgv(words)
           d == Join(words)
           Known(n) == UNION {Nested[m] : m \in 1 .. n}
<1>0. Len(Nested) \in Nat /\ DOMAIN Nested = 1 .. Len(Nested)
  BY NestedAssumption
<1>1. PICK f : /\ \A n \in 0 .. Len(Nested) : f[n] = [x \in Known(n) |-> Answer(q, x, f[n - 1])]
               /\ \A def : MatchSegment(q, def) = f[Len(Nested)][def]
  BY AnswersScan
<1>2. PICK g : /\ \A n \in 0 .. Len(Nested) : g[n] = [x \in Known(n) |-> Answer(d, x, g[n - 1])]
               /\ \A def : MatchSegment(d, def) = g[Len(Nested)][def]
  BY AnswersScan
<1>3. \A x \in Definitions : \A below : Answer(q, x, below) = Answer(d, x, below)
  BY AnswerSeesThrough
<1>4. \A n \in 0 .. Len(Nested) : Known(n) \subseteq Definitions
  <2> TAKE n \in 0 .. Len(Nested)
  <2>1. \A m \in 1 .. n : m \in DOMAIN Nested
    BY <1>0
  <2> QED BY <2>1 DEF Definitions
<1> HIDE DEF q, d, Known
<1> DEFINE Same == {n \in 0 .. Len(Nested) : f[n] = g[n]}
<1>5. 0 \in Same
  <2>1. Known(0) = {}
    BY DEF Known
  <2>2. 0 \in 0 .. Len(Nested)
    BY <1>0
  <2>3. f[0] = g[0]
    BY <1>1, <1>2, <2>1, <2>2
  <2> QED BY <2>2, <2>3
<1>6. ASSUME NEW n \in 1 .. Len(Nested), n - 1 \in Same PROVE n \in Same
  <2>1. n \in 0 .. Len(Nested) /\ f[n - 1] = g[n - 1]
    BY <1>0, <1>6
  <2>2. [x \in Known(n) |-> Answer(q, x, f[n - 1])] = [x \in Known(n) |-> Answer(d, x, g[n - 1])]
    BY <1>3, <1>4, <2>1
  <2> QED BY <1>1, <1>2, <2>1, <2>2
<1> HIDE DEF Same
<1>7. \A n \in 0 .. Len(Nested) : n \in Same
  BY <1>0, <1>5, <1>6, Upwards
<1>8. f[Len(Nested)] = g[Len(Nested)]
  BY <1>0, <1>7 DEF Same
<1>9. MatchSegment(q, asked) = MatchSegment(d, asked)
  BY <1>1, <1>2, <1>8
<1> QED BY <1>9 DEF q, d

----------------------------------------------------------------------------
(* The invariant: what is kept of the command, its segments and its verdicts.  *)

CommandIsText ==
    /\ command \in Seq(Chars) /\ rule \in Definitions /\ Validates(rule)
    /\ argv # <<>> => (\E x \in Argvs : argv = x.argv) /\ command = QuoteArgv(argv)

\* The segments are those of the command, and the verdicts those of the segments.
SegmentsAreParsed ==
    IF pc = "parse" THEN segments = <<>> /\ matched = <<>> ELSE segments = ParseCommand(command)
VerdictsAreMatches ==
    /\ matched \in Seq({"yes", "no", "raise"}) /\ Len(matched) <= Len(segments)
    /\ \A k \in 1 .. Len(matched) : matched[k] = MatchSegment(segments[k], rule)

\* What each end of the judgement leaves behind.
Ends ==
    /\ pc \in {"parse", "judge", "allow", "modify", "raised"}
    /\ pc \in {"parse", "judge", "raised"} => emitted = NoText
    /\ pc = "allow" => emitted = command
    /\ pc = "raised" => matched # <<>> /\ matched[Len(matched)] = "raise"
    /\ pc = "modify" => /\ Len(matched) = Len(segments)
                        /\ emitted = RebuildModified(command, segments, Replacements)

IInv == CommandIsText /\ SegmentsAreParsed /\ VerdictsAreMatches /\ Ends
LEMMA InitInvariant == Init => IInv
<1> SUFFICES ASSUME Init PROVE IInv
  OBVIOUS
<1>1. CommandIsText
  <2>1. CASE \E x \in Cases : argv = <<>> /\ command = x.command /\ rule = x.rule
    BY <2>1, CaseAssumption DEF CommandIsText
  <2>2. CASE \E x \in Argvs : argv = x.argv /\ command = QuoteArgv(x.argv) /\ rule = x.rule
    <3>1. PICK x \in Argvs : argv = x.argv /\ command = QuoteArgv(x.argv) /\ rule = x.rule
      BY <2>2
    <3>2. x.argv \in Seq(Seq(Chars)) /\ x.rule \in Definitions /\ Validates(x.rule)
      BY ArgvAssumption
    <3>3. QuoteArgv(x.argv) \in Seq(Chars)
      BY <3>2, QuotesAreSeqs
    <3> QED BY <3>1, <3>2, <3>3 DEF CommandIsText
  <2> QED BY <2>1, <2>2 DEF Init
<1>2. SegmentsAreParsed
  BY DEF Init, SegmentsAreParsed
<1>3. VerdictsAreMatches
  <2>1. matched = <<>> /\ segments = <<>>
    BY DEF Init
  <2>2. <<>> \in Seq({"yes", "no", "raise"}) /\ Len(<<>>) = 0
    BY EmptySeq
  <2> QED BY <2>1, <2>2 DEF VerdictsAreMatches
<1>4. Ends
  BY DEF Init, Ends
<1> QED BY <1>1, <1>2, <1>3, <1>4 DEF IInv

LEMMA NextInvariant == IInv /\ [Next]_vars => IInv'
<1> SUFFICES ASSUME IInv, [Next]_vars PROVE IInv'
  OBVIOUS
<1>0. CommandIsText /\ SegmentsAreParsed /\ VerdictsAreMatches /\ Ends
  BY DEF IInv
<1>1. CASE PassThrough
  <2>1. /\ pc = "parse" /\ ParseCommand(command) = <<>> /\ pc' = "allow" /\ emitted' = command
        /\ UNCHANGED <<argv, command, rule, segments, matched>>
    BY <1>1 DEF PassThrough
  <2>2. CommandIsText'
    BY <1>0, <2>1 DEF CommandIsText
  <2>3. SegmentsAreParsed'
    BY <1>0, <2>1 DEF SegmentsAreParsed
  <2>4. VerdictsAreMatches'
    BY <1>0, <2>1 DEF VerdictsAreMatches
  <2>5. Ends'
    BY <1>0, <2>1 DEF Ends
  <2> QED BY <2>2, <2>3, <2>4, <2>5 DEF IInv
<1>2. CASE Parse
  <2>1. /\ pc = "parse" /\ pc' = "judge" /\ segments' = ParseCommand(command)
        /\ UNCHANGED <<argv, command, rule, matched, emitted>>
    BY <1>2 DEF Parse
  <2>2. CommandIsText'
    BY <1>0, <2>1 DEF CommandIsText
  <2>3. SegmentsAreParsed'
    BY <1>0, <2>1 DEF SegmentsAreParsed
  <2>4. VerdictsAreMatches'
    <3>1. matched' = <<>> /\ <<>> \in Seq({"yes", "no", "raise"}) /\ Len(<<>>) = 0
      BY <1>0, <2>1, EmptySeq DEF SegmentsAreParsed
    <3>2. Len(ParseCommand(command)) \in Nat
      BY <1>0, ParsedAreSeqs, EmptyIffNone DEF CommandIsText
    <3> QED BY <2>1, <3>1, <3>2 DEF VerdictsAreMatches
  <2>5. Ends'
    BY <1>0, <2>1 DEF Ends
  <2> QED BY <2>2, <2>3, <2>4, <2>5 DEF IInv
<1>3. CASE JudgeSegment
  <2> DEFINE n == Len(matched) + 1
             answer == MatchSegment(segments[n], rule)
             Three == {"yes", "no", "raise"}
  <2>1. /\ pc = "judge" /\ Len(matched) < Len(segments) /\ matched' = Append(matched, answer)
        /\ pc' = IF answer = "raise" THEN "raised" ELSE pc
        /\ UNCHANGED <<argv, command, rule, segments, emitted>>
    BY <1>3 DEF JudgeSegment
  <2>2. CommandIsText'
    BY <1>0, <2>1 DEF CommandIsText
  <2>3. SegmentsAreParsed'
    BY <1>0, <2>1 DEF SegmentsAreParsed
  <2>4. answer \in Three
    BY <1>0, SegmentIsAnswered DEF CommandIsText
  <2>5. segments \in Seq(Seq(Chars)) /\ Len(segments) \in Nat
    BY <1>0, <2>1, ParsedAreSeqs, EmptyIffNone DEF SegmentsAreParsed, CommandIsText
  <2> HIDE DEF answer
  <2>6. /\ matched \in Seq(Three) /\ Len(matched) \in Nat
        /\ \A k \in 1 .. Len(matched) : matched[k] = MatchSegment(segments[k], rule)
    BY <1>0, EmptyIffNone DEF VerdictsAreMatches
  <2> HIDE DEF Three
  <2>7. /\ matched' \in Seq(Three) /\ Len(matched') = n /\ matched' # <<>>
        /\ matched'[n] = answer /\ \A k \in 1 .. Len(matched) : matched'[k] = matched[k]
    BY <2>1, <2>4, <2>6, AppendFacts
  <2>8. VerdictsAreMatches'
    <3>1. Len(matched') <= Len(segments)
      BY <2>1, <2>5, <2>6, <2>7
    <3>2. ASSUME NEW k \in 1 .. Len(matched') PROVE matched'[k] = MatchSegment(segments[k], rule)
      <4>1. k = n \/ k \in 1 .. Len(matched)
        BY <2>6, <2>7
      <4> HIDE DEF n
      <4> QED BY <2>6, <2>7, <4>1 DEF answer
    <3> QED BY <2>1, <2>7, <3>1, <3>2 DEF VerdictsAreMatches, Three
  <2>9. Ends'
    BY <1>0, <2>1, <2>7 DEF Ends
  <2> QED BY <2>2, <2>3, <2>8, <2>9 DEF IInv
<1>4. CASE Allow
  <2>1. /\ pc = "judge" /\ pc' = "allow" /\ emitted' = command
        /\ UNCHANGED <<argv, command, rule, segments, matched>>
    BY <1>4 DEF Allow, Judged
  <2>2. CommandIsText'
    BY <1>0, <2>1 DEF CommandIsText
  <2>3. SegmentsAreParsed'
    BY <1>0, <2>1 DEF SegmentsAreParsed
  <2>4. VerdictsAreMatches'
    BY <1>0, <2>1 DEF VerdictsAreMatches
  <2>5. Ends'
    BY <1>0, <2>1 DEF Ends
  <2> QED BY <2>2, <2>3, <2>4, <2>5 DEF IInv
<1>5. CASE Rewrite
  <2>1. /\ pc = "judge" /\ Len(matched) = Len(segments)
        /\ pc' = "modify" /\ emitted' = RebuildModified(command, segments, Replacements)
        /\ UNCHANGED <<argv, command, rule, segments, matched>>
    BY <1>5 DEF Rewrite, Judged
  <2>2. CommandIsText'
    BY <1>0, <2>1 DEF CommandIsText
  <2>3. SegmentsAreParsed'
    BY <1>0, <2>1 DEF SegmentsAreParsed
  <2>4. VerdictsAreMatches'
    BY <1>0, <2>1 DEF VerdictsAreMatches
  <2>5. Replacements' = Replacements
    BY <2>1 DEF Replacements, Wrapped
  <2>6. Ends'
    BY <1>0, <2>1, <2>5 DEF Ends
  <2> QED BY <2>2, <2>3, <2>4, <2>6 DEF IInv
<1>6. CASE UNCHANGED vars
  <2>1. UNCHANGED <<pc, argv, command, rule, segments, matched, emitted>>
    BY <1>6 DEF vars
  <2>2. CommandIsText' /\ SegmentsAreParsed' /\ VerdictsAreMatches'
    BY <1>0, <2>1 DEF CommandIsText, SegmentsAreParsed, VerdictsAreMatches
  <2>3. Replacements' = Replacements
    BY <2>1 DEF Replacements, Wrapped
  <2>4. Ends'
    BY <1>0, <2>1, <2>3 DEF Ends
  <2> QED BY <2>2, <2>4 DEF IInv
<1> QED BY <1>1, <1>2, <1>3, <1>4, <1>5, <1>6 DEF Next

LEMMA WhatIsWrapped ==
  ASSUME IInv
  PROVE  /\ command \in Seq(Chars) /\ WholeWrap(command) \in Seq(Chars) /\ command # NoText
         /\ pc # "parse" => segments \in Seq(Seq(Chars)) /\ Len(segments) \in Nat
         /\ Len(matched) \in Nat /\ DOMAIN matched = 1 .. Len(matched)
         /\ pc # "parse" => \A k \in Wrapped : k \in 1 .. Len(segments) /\ segments[k] \in Seq(Chars)
         /\ \A s \in Seq(Chars) : s # NoText
<1>0. CommandIsText /\ SegmentsAreParsed /\ VerdictsAreMatches
  BY DEF IInv
<1>1. command \in Seq(Chars)
  BY <1>0 DEF CommandIsText
<1>2. WholeWrap(command) \in Seq(Chars)
  BY <1>1, StripIsSeq, EscapeIsSeq DEF WholeWrap
<1>3. \A s \in Seq(Chars) : s # NoText
  <2> SUFFICES ASSUME NEW s \in Seq(Chars), s = NoText PROVE FALSE
    OBVIOUS
  <2>1. Len(s) = 1 /\ s[1] = "none"
    BY DEF NoText
  <2>2. s[1] \in Chars
    <3>1. 1 \in 1 .. Len(s)
      BY <2>1
    <3> QED BY <3>1, ElementOfSeq
  <2> QED BY <2>1, <2>2, CharAssumption
<1>4. pc # "parse" => segments \in Seq(Seq(Chars)) /\ Len(segments) \in Nat
  BY <1>0, <1>1, ParsedAreSeqs, EmptyIffNone DEF SegmentsAreParsed
<1>5. Len(matched) \in Nat /\ DOMAIN matched = 1 .. Len(matched)
  BY <1>0, EmptyIffNone DEF VerdictsAreMatches
<1>6. ASSUME pc # "parse", NEW k \in Wrapped
      PROVE  k \in 1 .. Len(segments) /\ segments[k] \in Seq(Chars)
  <2>1. k \in 1 .. Len(matched) /\ Len(matched) <= Len(segments)
    BY <1>0, <1>5 DEF Wrapped, VerdictsAreMatches
  <2>2. k \in 1 .. Len(segments)
    BY <1>4, <1>5, <1>6, <2>1
  <2> QED BY <1>4, <1>6, <2>2, ElementOfSeq
<1> QED BY <1>1, <1>2, <1>3, <1>4, <1>5, <1>6

----------------------------------------------------------------------------
(* What follows from the invariant.                                            *)

\* What a rewrite emits: the whole wrapped, or the command with its segments wrapped.
LEMMA RewriteEmits ==
  ASSUME IInv, pc = "modify"
  PROVE  \/ emitted = WholeWrap(command)
         \/ /\ emitted = RebuildCommand(command, Replacements) /\ emitted # NoText
            /\ Len(SegmentTexts(emitted)) = Len(segments)
<1>1. emitted = RebuildModified(command, segments, Replacements)
  BY DEF IInv, Ends
<1>2. CASE /\ SegmentTexts(command) = segments /\ RebuildCommand(command, Replacements) # NoText
           /\ StructurePreserved(command, RebuildCommand(command, Replacements))
  BY <1>1, <1>2 DEF RebuildModified, StructurePreserved
<1>3. CASE ~(/\ SegmentTexts(command) = segments /\ RebuildCommand(command, Replacements) # NoText
             /\ StructurePreserved(command, RebuildCommand(command, Replacements)))
  BY <1>1, <1>3 DEF RebuildModified
<1> QED BY <1>2, <1>3

LEMMA ReplacementsAreSeqs ==
  ASSUME IInv, pc = "modify"
  PROVE  /\ DOMAIN Replacements = Wrapped
         /\ \A k \in Wrapped : /\ Replacements[k] = WrapOf(segments[k])
                               /\ WrapOf(segments[k]) \in Seq(Chars) /\ WrapOf(segments[k]) # <<>>
<1>1. DOMAIN Replacements = Wrapped /\ \A k \in Wrapped : Replacements[k] = WrapOf(segments[k])
  BY DEF Replacements
<1>2. ASSUME NEW k \in Wrapped PROVE WrapOf(segments[k]) \in Seq(Chars) /\ WrapOf(segments[k]) # <<>>
  <2> DEFINE text == segments[k]
  <2>1. text \in Seq(Chars)
    BY <1>2, WhatIsWrapped
  <2> HIDE DEF text
  <2>2. WrapOf(text) \in Seq(Chars) /\ Escape(text) \in Seq(Chars)
    <3>1. Escape(text) \in Seq(Chars)
      BY <2>1, EscapeIsSeq
    <3> QED BY <2>1, <3>1, EscapeIsSeq
  <2>3. Prefix \in Seq(Chars) /\ Len(Prefix) = 2
    <3>1. "u" \in Chars /\ "_" \in Chars
      BY CharAssumption
    <3> QED BY <3>1, TwoIsSeq DEF Prefix
  <2>4. Len(WrapOf(text)) = 2 + Len(Escape(text)) /\ Len(Escape(text)) \in Nat
    <3> DEFINE argument == Escape(text)
    <3>1. WrapOf(text) = Prefix \o argument /\ argument \in Seq(Chars)
      BY <2>2 DEF WrapOf
    <3> HIDE DEF argument
    <3>2. Len(Prefix \o argument) = Len(Prefix) + Len(argument) /\ Len(argument) \in Nat
      BY <2>3, <3>1, ConcatProperties, EmptyIffNone
    <3> QED BY <2>3, <3>1, <3>2 DEF argument
  <2>5. WrapOf(text) # <<>>
    BY <2>2, <2>4, EmptyIffNone
  <2> QED BY <2>2, <2>5 DEF text
<1> QED BY <1>1, <1>2

LEMMA TypeHolds == IInv => TypeOK
<1> SUFFICES ASSUME IInv PROVE TypeOK
  OBVIOUS
<1>0. VerdictsAreMatches /\ Ends /\ CommandIsText
  BY DEF IInv
<1>1. \A k \in DOMAIN matched : matched[k] \in {"yes", "no", "raise"}
  <2> DEFINE Three == {"yes", "no", "raise"}
  <2>1. matched \in Seq(Three)
    BY <1>0 DEF VerdictsAreMatches
  <2> HIDE DEF Three
  <2>2. \A k \in DOMAIN matched : matched[k] \in Three
    BY <2>1, EmptyIffNone, ElementOfSeq
  <2> QED BY <2>2 DEF Three
<1>2. pc = "allow" => emitted # NoText
  BY <1>0, WhatIsWrapped DEF Ends
<1>3. pc = "modify" => emitted # NoText
  BY RewriteEmits, WhatIsWrapped
<1> QED BY <1>0, <1>1, <1>2, <1>3 DEF TypeOK, Ends, VerdictsAreMatches

LEMMA WholeHolds == IInv => WholeWrapIsOneArgument
<1> SUFFICES ASSUME IInv, Whole PROVE OneWord(emitted) /\ Reading(emitted)[1].words = <<<<"u">>, Strip(command)>>
  BY DEF WholeWrapIsOneArgument
<1>1. emitted = WrapOf(Strip(command))
  BY DEF Whole, WholeWrap
<1>2. Strip(command) \in Seq(Chars)
  BY WhatIsWrapped, StripIsSeq
<1> QED BY <1>1, <1>2, WrapIsOneArgument

LEMMA EachIsWrapped == IInv => EverySandboxedSegmentIsWrapped
<1> SUFFICES ASSUME IInv, InPlace PROVE EverySandboxedSegmentIsWrapped
  BY DEF EverySandboxedSegmentIsWrapped
<1> DEFINE w(k) == WrapOf(segments[k])
<1>0. pc = "modify" /\ emitted # WholeWrap(command)
  BY DEF InPlace, Whole
<1>1. /\ emitted = RebuildCommand(command, Replacements) /\ emitted # NoText
      /\ Len(SegmentTexts(emitted)) = Len(segments)
  BY <1>0, RewriteEmits
<1>2. /\ DOMAIN Replacements = Wrapped
      /\ \A k \in Wrapped : /\ Replacements[k] = w(k)
                            /\ Replacements[k] \in Seq(Chars) /\ Replacements[k] # <<>>
  BY <1>0, ReplacementsAreSeqs
<1> DEFINE replacements == Replacements
<1>3. PICK at \in [Wrapped -> Nat] :
             /\ \A k \in Wrapped : FoundAt(emitted, replacements[k], at[k])
             /\ \A j, k \in Wrapped : j < k => at[j] + Len(replacements[j]) <= at[k]
  <2>1. /\ command \in Seq(Chars) /\ DOMAIN replacements = Wrapped
        /\ emitted = RebuildCommand(command, replacements)
        /\ RebuildCommand(command, replacements) # NoText
        /\ \A k \in DOMAIN replacements : replacements[k] \in Seq(Chars) /\ replacements[k] # <<>>
    BY <1>1, <1>2, WhatIsWrapped
  <2> HIDE DEF replacements
  <2> QED BY <2>1, RebuiltPlaces
<1>4. \A k \in Wrapped : at[k] \in StandsAt(w(k))
  <2> TAKE k \in Wrapped
  <2> DEFINE text == w(k)
             i == at[k]
  <2>1. FoundAt(emitted, text, i)
    BY <1>2, <1>3
  <2> HIDE DEF text, i
  <2>2. /\ i \in DOMAIN emitted /\ i + Len(text) - 1 <= Len(emitted)
        /\ SubSeq(emitted, i, i + Len(text) - 1) = text
    BY <2>1 DEF FoundAt
  <2>3. i \in StandsAt(text)
    BY <2>2 DEF StandsAt
  <2> QED BY <2>3 DEF text, i
<1>5. \A j, k \in Wrapped : j < k => at[j] + Len(w(j)) <= at[k]
  BY <1>2, <1>3
<1> HIDE DEF w
<1>6. at \in [Wrapped -> UNION {StandsAt(w(k)) : k \in Wrapped}]
  BY <1>3, <1>4
<1>7. /\ at \in [Wrapped -> UNION {StandsAt(WrapOf(segments[k])) : k \in Wrapped}]
      /\ \A k \in Wrapped : at[k] \in StandsAt(WrapOf(segments[k]))
      /\ \A j, k \in Wrapped : j < k => at[j] + Len(WrapOf(segments[j])) <= at[k]
  BY <1>4, <1>5, <1>6 DEF w
<1> QED BY <1>1, <1>7, Zenon DEF EverySandboxedSegmentIsWrapped

LEMMA StructureHolds == IInv => RewriteKeepsStructure
<1> DEFINE c == command
           texts == [k \in Wrapped |-> segments[k]]
           n == Len(Groups(c))
           swaps == SwapsTo(c, texts, n)
<1> SUFFICES ASSUME IInv, InPlace, SeesAsTheShell(c)
             PROVE  /\ Complete(emitted) /\ Operators(emitted) = Operators(c)
                    /\ \A k \in Wrapped : Reading(emitted)[RunOf(k)].words = <<<<"u">>, segments[k]>>
                    /\ \A i \in DOMAIN Reading(c) \ {RunOf(k) : k \in Wrapped} : Reading(emitted)[i] = Reading(c)[i]
  BY DEF RewriteKeepsStructure
<1>0. pc = "modify" /\ emitted # WholeWrap(c)
  BY DEF InPlace, Whole
<1>1. emitted = RebuildCommand(c, Replacements) /\ emitted # NoText /\ c \in Seq(Chars)
  BY <1>0, RewriteEmits, WhatIsWrapped
<1>2. /\ DOMAIN texts = Wrapped /\ DOMAIN Replacements = Wrapped
      /\ \A k \in Wrapped : texts[k] = segments[k] /\ segments[k] \in Seq(Chars) /\ Replacements[k] = WrapOf(segments[k])
      /\ \A k \in Wrapped : Replacements[k] \in Seq(Chars)
  BY <1>0, WhatIsWrapped, ReplacementsAreSeqs
<1> HIDE DEF texts
<1> DEFINE replacements == Replacements
           e == RebuildCommand(c, replacements)
<1>3. Wrapped \subseteq 1 .. n /\ n \in Nat
  <2>1. DOMAIN replacements = Wrapped /\ (\A k \in DOMAIN replacements : replacements[k] \in Seq(Chars)) /\ e # NoText
    BY <1>1, <1>2
  <2> HIDE DEF replacements
  <2>2. DOMAIN replacements \subseteq 1 .. n
    BY <1>1, <2>1, RebuiltIs
  <2> QED BY <1>1, <2>1, <2>2, GroupsAreInside
<1>4. Complete(emitted) /\ Alike(Reading(c), Reading(emitted), swaps)
  <2>1. /\ DOMAIN replacements = DOMAIN texts /\ e # NoText /\ emitted = e
        /\ \A k \in DOMAIN texts : texts[k] \in Seq(Chars) /\ replacements[k] = WrapOf(texts[k])
    BY <1>1, <1>2
  <2> HIDE DEF replacements
  <2>2. Complete(e) /\ Alike(Reading(c), Reading(e), swaps)
    BY <1>1, <2>1, RebuiltReads
  <2> QED BY <2>1, <2>2
<1> DEFINE as == Reading(c)
           bs == Reading(emitted)
<1>5. \A k \in Wrapped :
        /\ SwapOf(c, Groups(c)[k], segments[k]).place = RunOf(k)
        /\ SwapOf(c, Groups(c)[k], segments[k]).size = Len(as[RunOf(k)].words)
        /\ SwapOf(c, Groups(c)[k], segments[k]).words = <<<<"u">>, segments[k]>>
  BY DEF SwapOf, PlaceOf, RunOf, Reading, ReadTo
<1>6. swaps = {SwapOf(c, Groups(c)[k], segments[k]) : k \in Wrapped}
  <2>1. {j \in DOMAIN texts : j <= n} = Wrapped
    BY <1>2, <1>3
  <2> QED BY <1>2, <2>1 DEF SwapsTo
<1> HIDE DEF swaps
<1>7. PICK m \in Nat : Len(as) = m
  <2>1. as \in Seq(Item)
    BY <1>4 DEF Alike
  <2> QED BY <2>1, EmptyIffNone
<1>8. /\ DOMAIN as = 1 .. m /\ DOMAIN bs = 1 .. m
      /\ \A j \in 1 .. m : as[j].op = bs[j].op
      /\ \A j \in 1 .. m : (\A w \in swaps : w.place # j) => as[j] = bs[j]
      /\ \A w \in swaps : Len(as[w.place].words) = w.size => bs[w.place].words = w.words
  <2>1. as \in Seq(Item) /\ bs \in Seq(Item) /\ Len(bs) = m
    BY <1>4, <1>7 DEF Alike
  <2>2. DOMAIN as = 1 .. m /\ DOMAIN bs = 1 .. m
    BY <1>7, <2>1, EmptyIffNone
  <2> QED BY <1>4, <1>7, <2>2 DEF Alike
<1> HIDE DEF as, bs
<1>9. Operators(emitted) = Operators(c)
  <2>1. Operators(emitted) = [j \in 1 .. m |-> bs[j].op] /\ Operators(c) = [j \in 1 .. m |-> as[j].op]
    BY <1>8 DEF Operators, as, bs
  <2> QED BY <1>8, <2>1
<1>10. ASSUME NEW k \in Wrapped PROVE bs[RunOf(k)].words = <<<<"u">>, segments[k]>>
  <2> DEFINE w == SwapOf(c, Groups(c)[k], segments[k])
  <2>1. w \in swaps
    BY <1>6
  <2>2. w.place = RunOf(k) /\ w.size = Len(as[RunOf(k)].words) /\ w.words = <<<<"u">>, segments[k]>>
    BY <1>5
  <2> HIDE DEF w
  <2> QED BY <1>8, <2>1, <2>2
<1>11. ASSUME NEW i \in DOMAIN as \ {RunOf(k) : k \in Wrapped} PROVE bs[i] = as[i]
  <2>1. ASSUME NEW w \in swaps PROVE w.place # i
    <3>1. PICK k \in Wrapped : w = SwapOf(c, Groups(c)[k], segments[k])
      BY <1>6
    <3> QED BY <1>5, <3>1
  <2> QED BY <1>8, <2>1
<1> QED BY <1>4, <1>9, <1>10, <1>11 DEF as, bs

\* Whatever its commands and rules, what a rule sandboxes runs in the sandbox: a command
\* rewritten in place (_rebuild_modified_command, rewriter.py) holds the wrap of every
\* segment with that verdict, and a command wrapped whole is to a shell the sandbox and
\* one argument, the command character for character.
THEOREM WrapHoldsTheCommand == Spec => []SandboxedIsWrapped
<1>1. IInv => SandboxedIsWrapped
  BY TypeHolds, WholeHolds, EachIsWrapped DEF SandboxedIsWrapped
<1> QED BY InitInvariant, NextInvariant, <1>1, PTL DEF Spec

\* To a shell, a rewrite in place changes nothing but the runs it wraps: where every
\* segment of the engine is a run of the shell, the rewritten command has the operators of
\* the command in their order, each wrapped run is the sandbox and the segment's text, and
\* every other run is as it was (_rebuild_modified_command and rebuild_command).
THEOREM RewritesKeepTheRuns == Spec => []RewriteKeepsStructure
<1>1. IInv => RewriteKeepsStructure
  BY StructureHolds
<1> QED BY <1>1, InitInvariant, NextInvariant, PTL DEF Spec

\* Whatever the rule and however deep its conditions, once the schema let it through no
\* field the schema checked can raise in a matcher (rules.py, matcher.py): what raises is
\* a string re.compile raises anything but re.error for, a value of another type in a
\* field the schema does not look at, in a condition above all, or a command match on a
\* segment with no first word.
THEOREM RulesRaiseForACause == Spec => []RaisesHaveACause
<1>1. IInv => RaisesHaveACause
  <2> SUFFICES ASSUME IInv, pc = "raised"
               PROVE  \E def \in Parts(rule) : CanRaise(segments[Len(matched)], def, def = rule)
    BY DEF RaisesHaveACause
  <2>0. VerdictsAreMatches /\ Ends /\ CommandIsText
    BY DEF IInv
  <2> DEFINE n == Len(matched)
  <2>1. n \in 1 .. Len(matched) /\ matched[n] = "raise"
    <3>1. matched # <<>> /\ matched[n] = "raise"
      BY <2>0 DEF Ends
    <3>2. n \in Nat /\ n # 0
      BY <2>0, <3>1, EmptyIffNone DEF VerdictsAreMatches
    <3> QED BY <3>1, <3>2
  <2>2. MatchSegment(segments[n], rule) = "raise"
    BY <2>0, <2>1 DEF VerdictsAreMatches
  <2>3. segments \in Seq(Seq(Chars)) /\ Len(segments) \in Nat /\ Len(matched) <= Len(segments)
    BY <2>0, WhatIsWrapped DEF VerdictsAreMatches
  <2>4. segments[n] \in Seq(Chars)
    <3>1. n \in 1 .. Len(segments)
      BY <2>1, <2>3
    <3> QED BY <2>3, <3>1, ElementOfSeq
  <2>5. rule \in Definitions /\ Validates(rule)
    BY <2>0 DEF CommandIsText
  <2> HIDE DEF n
  <2>6. \E def \in Parts(rule) : CanRaise(segments[n], def, def = rule)
    BY <2>2, <2>4, <2>5, RaiseHasACause
  <2> QED BY <2>6 DEF n
<1> QED BY InitInvariant, NextInvariant, <1>1, PTL DEF Spec

\* The wrapper's quotes hide nothing from a rule and make up nothing, for every argument
\* vector whose words hold no quote and no backslash: the parser reads one segment
\* (shell_parser.py), and where no word is blank or empty and no pattern looks for a
\* quote, the rule says of it what it says of the bare words (matcher.py), whatever the
\* rule's type and however deep its conditions.
THEOREM QuotesAreSeenThrough == Spec => []QuotesHideNothing
<1>1. IInv => QuotesHideNothing
  <2> SUFFICES ASSUME IInv, argv # <<>>, Judged, \A k \in DOMAIN argv : Quotable(argv[k])
               PROVE  /\ Len(segments) = 1
                      /\ (/\ \A k \in DOMAIN argv : Bare(argv[k])
                          /\ \A def \in Definitions : ~LooksForQuote(def)) =>
                            matched[1] = MatchSegment(Join(argv), rule)
    BY DEF QuotesHideNothing
  <2>1. argv \in Seq(Seq(Chars)) /\ command = QuoteArgv(argv) /\ DOMAIN argv = 1 .. Len(argv)
    <3>1. (\E x \in Argvs : argv = x.argv) /\ command = QuoteArgv(argv)
      BY DEF IInv, CommandIsText
    <3>2. argv \in Seq(Seq(Chars))
      BY <3>1, ArgvAssumption
    <3> QED BY <3>1, <3>2, EmptyIffNone
  <2>2. segments = <<command>>
    <3>1. pc # "parse" /\ segments = ParseCommand(command)
      BY DEF IInv, SegmentsAreParsed, Judged
    <3>2. ParseCommand(command) = <<command>>
      BY <2>1, QuotedIsParsed
    <3> QED BY <3>1, <3>2
  <2>3. Len(segments) = 1 /\ segments[1] = command
    BY <2>2
  <2>4. matched[1] = MatchSegment(command, rule)
    <3>1. 1 \in 1 .. Len(matched)
      BY <2>3 DEF Judged
    <3> QED BY <2>3, <3>1 DEF IInv, VerdictsAreMatches
  <2>5. ASSUME \A k \in DOMAIN argv : Bare(argv[k]), \A def \in Definitions : ~LooksForQuote(def)
        PROVE  MatchSegment(QuoteArgv(argv), rule) = MatchSegment(Join(argv), rule)
    BY <2>1, <2>5, SegmentSeesThrough
  <2> QED BY <2>1, <2>3, <2>4, <2>5
<1> QED BY InitInvariant, NextInvariant, <1>1, PTL DEF Spec
=============================================================================

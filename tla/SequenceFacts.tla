---------------------------- MODULE SequenceFacts ----------------------------
(***************************************************************************)
(* Facts about FlattenSeq, which puts together what the code appends piece *)
(* by piece: the results of a scan, the titles of the pages.  FlattenSeq   *)
(* is defined by recursion, so they are proved by induction; Induct is     *)
(* induction over the set of the numbers for which a statement holds.      *)
(***************************************************************************)
EXTENDS Integers, Sequences, SequencesExt, TLAPS, WellFoundedInduction, SequenceTheorems

LEMMA Least ==
  ASSUME NEW T \in SUBSET Nat, T # {}
  PROVE  \E m \in T : \A k \in T : m <= k
<1> DEFINE R == {ss \in Nat \X Nat : ss[1] < ss[2]}
<1>1. OpToRel(<, Nat) = R
  BY Zenon DEF OpToRel
<1>2. IsWellFoundedOn(R, Nat)
  BY <1>1, NatLessThanWellFounded
<1>3. PICK m \in T : \A k \in T : ~ (<<k, m>> \in R)
  <2> HIDE DEF R
  <2> QED
    BY <1>2, WFMin
<1>4. ASSUME NEW k \in T PROVE m <= k
  <2>1. k \in Nat /\ m \in Nat /\ <<k, m>> \notin R
    BY <1>3
  <2>2. ~ (k < m)
    BY <2>1
  <2> QED
    BY <2>1, <2>2
<1> QED
  BY <1>4

LEMMA Induct ==
  ASSUME NEW T \in SUBSET Nat, 0 \in T, \A n \in T : n + 1 \in T
  PROVE  T = Nat
<1> SUFFICES ASSUME T # Nat PROVE FALSE
  OBVIOUS
<1> DEFINE U == Nat \ T
<1>1. U \in SUBSET Nat /\ U # {}
  OBVIOUS
<1>2. PICK m \in U : \A k \in U : m <= k
  <2> HIDE DEF U
  <2> QED
    BY <1>1, Least
<1>3. m # 0 /\ m - 1 \in Nat
  BY <1>2
<1>4. m - 1 \in T
  BY <1>2, <1>3
<1> QED
  BY <1>2, <1>4
LEMMA MinIs ==
  ASSUME NEW I \in SUBSET Nat, I # {}
  PROVE  Min(I) \in I /\ \A i \in I : Min(I) <= i
<1>1. \E m \in I : \A k \in I : m <= k
  BY Least
<1> QED
  BY <1>1 DEF Min

LEMMA Pieces ==
  ASSUME NEW S, NEW s \in Seq(S), NEW m \in Nat \ {0}, NEW n \in 0 .. Len(s), m <= n + 1
  PROVE  /\ SubSeq(s, m, n) \in Seq(S)
         /\ Len(SubSeq(s, m, n)) = n - m + 1
         /\ \A i \in 1 .. n - m + 1 : SubSeq(s, m, n)[i] = s[m + i - 1]
<1>1. \A i \in m .. n : s[i] \in S
  OBVIOUS
<1> QED
  BY <1>1, SubSeqProperties

LEMMA One ==
  ASSUME NEW S, NEW a \in S
  PROVE  <<a>> \in Seq(S) /\ Len(<<a>>) = 1 /\ <<a>>[1] = a
OBVIOUS

LEMMA Two ==
  ASSUME NEW S, NEW a \in S, NEW b \in S
  PROVE  <<a, b>> \in Seq(S) /\ Len(<<a, b>>) = 2 /\ <<a, b>>[1] = a /\ <<a, b>>[2] = b
OBVIOUS

-----------------------------------------------------------------------------
(* f holds the first n pieces of seqs, and each prefix of them, joined.    *)
Joins(f, seqs, n) ==
  f = [i \in 1 .. n |-> IF i = 1 THEN seqs[i] ELSE f[i-1] \o seqs[i]]

LEMMA FlattenIsJoin ==
  ASSUME NEW seqs
  PROVE  FlattenSeq(seqs) =
           IF Len(seqs) = 0 THEN seqs
           ELSE (CHOOSE f : Joins(f, seqs, Len(seqs)))[Len(seqs)]
BY DEF FlattenSeq, Joins

LEMMA JoinAt ==
  ASSUME NEW f, NEW seqs, NEW n, Joins(f, seqs, n), NEW i \in 1 .. n
  PROVE  f[i] = IF i = 1 THEN seqs[i] ELSE f[i-1] \o seqs[i]
<1> DEFINE join == [k \in 1 .. n |-> IF k = 1 THEN seqs[k] ELSE f[k-1] \o seqs[k]]
<1>1. f = join
  BY DEF Joins
<1>2. join[i] = IF i = 1 THEN seqs[i] ELSE f[i-1] \o seqs[i]
  OBVIOUS
<1> HIDE DEF join
<1> QED
  BY <1>1, <1>2

LEMMA JoinExists == ASSUME NEW seqs, NEW m \in Nat PROVE \E f : Joins(f, seqs, m)
<1> DEFINE T == {n \in Nat : \E f : Joins(f, seqs, n)}
<1>1. 0 \in T
  <2>1. Joins([i \in 1 .. 0 |-> seqs], seqs, 0)
    BY DEF Joins
  <2> QED
    BY <2>1
<1>2. ASSUME NEW n \in T PROVE n + 1 \in T
  <2>1. n \in Nat
    OBVIOUS
  <2>2. PICK g : Joins(g, seqs, n)
    OBVIOUS
  <2> DEFINE piece(i) == IF i = 1 THEN seqs[i] ELSE g[i-1] \o seqs[i]
             h == [i \in 1 .. n + 1 |-> piece(i)]
  <2>3. ASSUME NEW i \in 1 .. n PROVE h[i] = g[i]
    <3>1. g[i] = piece(i)
      BY <2>2, JoinAt
    <3>2. i \in 1 .. n + 1
      BY <2>1
    <3> QED
      BY <3>1, <3>2
  <2>4. ASSUME NEW i \in 1 .. n + 1
        PROVE  h[i] = IF i = 1 THEN seqs[i] ELSE h[i-1] \o seqs[i]
    <3>1. i # 1 => i - 1 \in 1 .. n
      BY <2>1
    <3>2. h[i] = piece(i)
      OBVIOUS
    <3> HIDE DEF h
    <3> QED
      BY <2>3, <3>1, <3>2
  <2>5. h = [i \in 1 .. n + 1 |-> h[i]]
    OBVIOUS
  <2> HIDE DEF h
  <2>6. h = [i \in 1 .. n + 1 |-> IF i = 1 THEN seqs[i] ELSE h[i-1] \o seqs[i]]
    BY <2>4, <2>5
  <2>7. Joins(h, seqs, n + 1)
    BY <2>6 DEF Joins
  <2> QED
    BY <2>1, <2>7
<1> HIDE DEF T
<1>3. T = Nat
  <2>1. T \in SUBSET Nat
    BY DEF T
  <2> QED
    BY <1>1, <1>2, <2>1, Induct
<1> QED
  BY <1>3 DEF T

LEMMA ToSetConcat ==
  ASSUME NEW S, NEW s \in Seq(S), NEW t \in Seq(S)
  PROVE  s \o t \in Seq(S) /\ ToSet(s \o t) = ToSet(s) \cup ToSet(t)
<1>1. /\ s \o t \in Seq(S)
      /\ DOMAIN s = 1 .. Len(s) /\ DOMAIN t = 1 .. Len(t)
      /\ DOMAIN (s \o t) = 1 .. Len(s) + Len(t)
      /\ Len(s) \in Nat /\ Len(t) \in Nat
      /\ \A i \in 1 .. Len(s) + Len(t) :
           (s \o t)[i] = IF i <= Len(s) THEN s[i] ELSE t[i - Len(s)]
  OBVIOUS
<1>2. ToSet(s \o t) \subseteq ToSet(s) \cup ToSet(t)
  BY <1>1 DEF ToSet
<1>3. ToSet(s) \subseteq ToSet(s \o t)
  BY <1>1 DEF ToSet
<1>4. ASSUME NEW i \in 1 .. Len(t) PROVE t[i] \in ToSet(s \o t)
  <2>1. i + Len(s) \in 1 .. Len(s) + Len(t) /\ (s \o t)[i + Len(s)] = t[i]
    BY <1>1
  <2> QED
    BY <1>1, <2>1 DEF ToSet
<1> QED
  BY <1>1, <1>2, <1>3, <1>4 DEF ToSet

(* A sequence put together of sequences over S is one over S, and holds    *)
(* what the pieces hold.                                                   *)
LEMMA Flatten ==
  ASSUME NEW S, NEW seqs \in Seq(Seq(S))
  PROVE  /\ FlattenSeq(seqs) \in Seq(S)
         /\ ToSet(FlattenSeq(seqs)) = UNION {ToSet(seqs[i]) : i \in DOMAIN seqs}
<1>1. /\ Len(seqs) \in Nat /\ DOMAIN seqs = 1 .. Len(seqs)
      /\ \A i \in 1 .. Len(seqs) : seqs[i] \in Seq(S)
  OBVIOUS
<1>2. CASE Len(seqs) = 0
  <2>1. seqs = << >>
    BY <1>2
  <2>2. FlattenSeq(seqs) = seqs
    BY <1>2, FlattenIsJoin
  <2>3. << >> \in Seq(S) /\ ToSet(<< >>) = {} /\ DOMAIN seqs = {}
    BY <1>1, <1>2 DEF ToSet
  <2>4. UNION {ToSet(seqs[i]) : i \in {}} = {}
    OBVIOUS
  <2> QED
    BY <2>1, <2>2, <2>3, <2>4
<1>3. CASE Len(seqs) # 0
  <2> DEFINE f == CHOOSE g : Joins(g, seqs, Len(seqs))
             Held(n) == UNION {ToSet(seqs[i]) : i \in 1 .. n}
             Good(n) == f[n] \in Seq(S) /\ ToSet(f[n]) = Held(n)
             T == {n \in Nat : n \in 1 .. Len(seqs) => Good(n)}
  <2>1. Joins(f, seqs, Len(seqs))
    BY <1>1, JoinExists
  <2>2. FlattenSeq(seqs) = f[Len(seqs)]
    BY <1>3, FlattenIsJoin
  <2> HIDE DEF f
  <2>3. \A i \in 1 .. Len(seqs) : f[i] = IF i = 1 THEN seqs[i] ELSE f[i-1] \o seqs[i]
    BY <2>1, JoinAt
  <2>4. 0 \in T
    BY <1>1
  <2>5. ASSUME NEW n \in T PROVE n + 1 \in T
    <3> SUFFICES ASSUME n + 1 \in 1 .. Len(seqs) PROVE Good(n + 1)
      OBVIOUS
    <3>1. n \in Nat /\ seqs[n + 1] \in Seq(S)
      BY <1>1
    <3>2. CASE n = 0
      <4>1. f[1] = seqs[1]
        BY <2>3, <3>2
      <4>2. Held(1) = ToSet(seqs[1])
        BY <1>1
      <4> QED
        BY <3>1, <3>2, <4>1, <4>2
    <3>3. CASE n # 0
      <4>1. Good(n) /\ f[n + 1] = f[n] \o seqs[n + 1]
        <5>1. n \in 1 .. Len(seqs)
          BY <1>1, <3>1, <3>3
        <5>2. Good(n)
          <6> HIDE DEF Good
          <6> QED
            BY <5>1
        <5>3. (n + 1) - 1 = n /\ n + 1 # 1
          BY <3>1, <3>3
        <5>4. f[n + 1] = f[(n + 1) - 1] \o seqs[n + 1]
          BY <2>3, <5>3, Zenon
        <5> QED
          BY <5>2, <5>3, <5>4
      <4>2. Held(n + 1) = Held(n) \cup ToSet(seqs[n + 1])
        <5>1. 1 .. n + 1 = 1 .. n \cup {n + 1}
          BY <3>1
        <5> QED
          BY <5>1
      <4> HIDE DEF Held
      <4>3. /\ f[n + 1] \in Seq(S)
            /\ ToSet(f[n + 1]) = ToSet(f[n]) \cup ToSet(seqs[n + 1])
        BY <3>1, <4>1, ToSetConcat
      <4> QED
        BY <4>1, <4>2, <4>3
    <3> QED
      BY <3>2, <3>3
  <2> HIDE DEF T
  <2>6. T = Nat
    <3>1. T \in SUBSET Nat
      BY DEF T
    <3> QED
      BY <2>4, <2>5, <3>1, Induct
  <2>7. Good(Len(seqs))
    <3> HIDE DEF Good
    <3>1. Len(seqs) \in T /\ Len(seqs) \in 1 .. Len(seqs)
      BY <1>1, <1>3, <2>6
    <3> QED
      BY <3>1 DEF T
  <2> QED
    BY <1>1, <2>2, <2>7
<1> QED
  BY <1>2, <1>3
LEMMA JoinsAgree ==
  ASSUME NEW f, NEW g, NEW s, NEW t, NEW n \in Nat,
         Joins(f, s, n), Joins(g, t, n + 1), \A i \in 1 .. n : s[i] = t[i]
  PROVE  \A i \in 1 .. n : f[i] = g[i]
<1> DEFINE T == {i \in Nat : i \in 1 .. n => f[i] = g[i]}
<1>1. 0 \in T
  OBVIOUS
<1>2. ASSUME NEW i \in T PROVE i + 1 \in T
  <2> SUFFICES ASSUME i + 1 \in 1 .. n PROVE f[i + 1] = g[i + 1]
    OBVIOUS
  <2>1. i + 1 \in 1 .. n /\ i + 1 \in 1 .. n + 1 /\ (i + 1) - 1 = i
    OBVIOUS
  <2>2. /\ f[i + 1] = IF i + 1 = 1 THEN s[i + 1] ELSE f[(i + 1) - 1] \o s[i + 1]
        /\ g[i + 1] = IF i + 1 = 1 THEN t[i + 1] ELSE g[(i + 1) - 1] \o t[i + 1]
    BY <2>1, JoinAt
  <2>3. i + 1 # 1 => f[i] = g[i]
    OBVIOUS
  <2>4. s[i + 1] = t[i + 1]
    OBVIOUS
  <2> HIDE DEF T
  <2> QED
    BY <2>1, <2>2, <2>3, <2>4, Zenon
<1> HIDE DEF T
<1>3. T \in SUBSET Nat
  BY DEF T
<1>4. T = Nat
  BY <1>1, <1>2, <1>3, Induct
<1> QED
  BY <1>4 DEF T

(* FlattenSeq of nothing, of one piece more, of two sequences.            *)
LEMMA FlattenEmpty == FlattenSeq(<< >>) = << >>
BY FlattenIsJoin

LEMMA FlattenAppend ==
  ASSUME NEW S, NEW seqs \in Seq(Seq(S)), NEW e \in Seq(S)
  PROVE  FlattenSeq(Append(seqs, e)) = FlattenSeq(seqs) \o e
<1> DEFINE n == Len(seqs)
           more == Append(seqs, e)
           g == CHOOSE h : Joins(h, more, n + 1)
<1>1. /\ n \in Nat /\ Len(more) = n + 1 /\ more[n + 1] = e
      /\ \A i \in 1 .. n : more[i] = seqs[i]
  BY AppendProperties
<1> HIDE DEF more
<1>2. Joins(g, more, n + 1)
  <2>1. \E h : Joins(h, more, n + 1)
    <3>1. n + 1 \in Nat
      BY <1>1
    <3> QED
      BY <3>1, JoinExists
  <2> QED
    BY <2>1, Zenon
<1>3. FlattenSeq(more) = g[n + 1]
  BY <1>1, FlattenIsJoin
<1> HIDE DEF g
<1>4. g[n + 1] = IF n + 1 = 1 THEN more[n + 1] ELSE g[(n + 1) - 1] \o more[n + 1]
  <2>1. n + 1 \in 1 .. n + 1
    BY <1>1
  <2> QED
    BY <1>2, <2>1, JoinAt
<1>5. CASE n = 0
  <2>1. seqs = << >>
    BY <1>5
  <2>2. << >> \o e = e
    BY ConcatEmptySeq
  <2>3. g[n + 1] = e
    BY <1>1, <1>4, <1>5
  <2> QED
    BY <1>3, <2>1, <2>2, <2>3, FlattenEmpty, Zenon DEF more
<1>6. CASE n # 0
  <2> DEFINE f == CHOOSE h : Joins(h, seqs, n)
  <2>1. Joins(f, seqs, n)
    BY <1>1, JoinExists
  <2>2. FlattenSeq(seqs) = f[n]
    BY <1>6, FlattenIsJoin
  <2> HIDE DEF f
  <2>3. \A i \in 1 .. n : f[i] = g[i]
    <3>1. n \in Nat /\ \A i \in 1 .. n : seqs[i] = more[i]
      BY <1>1
    <3> HIDE DEF n
    <3> QED
      BY <1>2, <2>1, <3>1, JoinsAgree
  <2>4. f[n] = g[n] /\ (n + 1) - 1 = n /\ n + 1 # 1
    BY <1>1, <1>6, <2>3
  <2>5. g[n + 1] = f[n] \o e
    BY <1>1, <1>4, <2>4, Zenon
  <2> QED
    BY <1>3, <2>2, <2>5, Zenon DEF more
<1> QED
  BY <1>5, <1>6

LEMMA FlattenConcat ==
  ASSUME NEW S, NEW s \in Seq(Seq(S)), NEW t \in Seq(Seq(S))
  PROVE  FlattenSeq(s \o t) = FlattenSeq(s) \o FlattenSeq(t)
<1> DEFINE Prefix(n) == SubSeq(t, 1, n)
           Good(n) == FlattenSeq(s \o Prefix(n)) = FlattenSeq(s) \o FlattenSeq(Prefix(n))
           T == {n \in Nat : n <= Len(t) => Good(n)}
<1>1. FlattenSeq(s) \in Seq(S)
  BY Flatten
<1>2. Good(0)
  <2>1. Prefix(0) = << >>
    BY SubSeqEmpty
  <2>2. s \o << >> = s
    BY ConcatEmptySeq
  <2>3. FlattenSeq(s) \o << >> = FlattenSeq(s)
    BY <1>1, ConcatEmptySeq
  <2> QED
    BY <2>1, <2>2, <2>3, FlattenEmpty, Zenon
<1>3. ASSUME NEW n \in T PROVE n + 1 \in T
  <2> SUFFICES ASSUME n + 1 <= Len(t) PROVE Good(n + 1)
    OBVIOUS
  <2>1. n \in Nat /\ n <= Len(t) /\ Len(t) \in Nat
    OBVIOUS
  <2>2. Good(n)
    BY <2>1
  <2>3. t[n + 1] \in Seq(S)
    BY <2>1
  <2>4. Prefix(n) \in Seq(Seq(S)) /\ Prefix(n + 1) = Append(Prefix(n), t[n + 1])
    <3>1. n + 1 \in 1 .. Len(t) /\ 1 \in 1 .. Len(t) /\ n + 1 \in 1 .. Len(t)
      BY <2>1
    <3>2. SubSeq(t, 1, n + 1) = SubSeq(t, 1, (n + 1) - 1) \o <<t[n + 1]>>
      BY <3>1, SubSeqRecursiveSecond
    <3>3. SubSeq(t, 1, n) \in Seq(Seq(S))
      BY <2>1, Pieces
    <3>4. Append(SubSeq(t, 1, n), t[n + 1]) = SubSeq(t, 1, n) \o <<t[n + 1]>>
      BY <2>3, <3>3, AppendIsConcat
    <3>5. (n + 1) - 1 = n
      BY <2>1
    <3> QED
      BY <3>2, <3>3, <3>4, <3>5
  <2> DEFINE front == Prefix(n)
             e == t[n + 1]
  <2>5. front \in Seq(Seq(S)) /\ e \in Seq(S) /\ Prefix(n + 1) = Append(front, e)
        /\ FlattenSeq(s \o front) = FlattenSeq(s) \o FlattenSeq(front)
    BY <2>2, <2>3, <2>4
  <2> HIDE DEF front, e, T, Good, Prefix
  <2>6. s \o Append(front, e) = Append(s \o front, e) /\ s \o front \in Seq(Seq(S))
    <3>1. Append(front, e) = front \o <<e>> /\ s \o front \in Seq(Seq(S))
      BY <2>5, AppendIsConcat, ConcatProperties
    <3>2. Append(s \o front, e) = (s \o front) \o <<e>>
      BY <2>5, <3>1, AppendIsConcat
    <3>3. <<e>> \in Seq(Seq(S))
      BY <2>5, One
    <3>4. (s \o front) \o <<e>> = s \o (front \o <<e>>)
      BY <2>5, <3>3, ConcatAssociative
    <3> QED
      BY <3>1, <3>2, <3>4
  <2>7. FlattenSeq(front) \in Seq(S)
    BY <2>5, Flatten
  <2>8. /\ FlattenSeq(Append(front, e)) = FlattenSeq(front) \o e
        /\ FlattenSeq(Append(s \o front, e)) = FlattenSeq(s \o front) \o e
    BY <2>5, <2>6, FlattenAppend
  <2>9. (FlattenSeq(s) \o FlattenSeq(front)) \o e = FlattenSeq(s) \o (FlattenSeq(front) \o e)
    BY <1>1, <2>5, <2>7, ConcatAssociative
  <2> QED
    BY <2>5, <2>6, <2>8, <2>9, Zenon DEF Good
<1>4. T = Nat
  <2>1. T \in SUBSET Nat /\ 0 \in T
    BY <1>2
  <2> HIDE DEF T
  <2> QED
    BY <1>3, <2>1, Induct
<1>5. Good(Len(t))
  <2> HIDE DEF Good
  <2>1. Len(t) \in T
    BY <1>4
  <2> QED
    BY <2>1
<1>6. Prefix(Len(t)) = t
  BY SubSeqFull
<1> QED
  BY <1>5, <1>6, Zenon
-----------------------------------------------------------------------------
(* Of the responses in k, those of pages in T, and the successors of those *)
(* of pages in C, one after another.                                       *)
ChosenAt(k, T, C, i) ==
  CASE k[i].page \in T                         -> <<k[i].page>>
    [] k[i].page \in C /\ i + 1 \in DOMAIN k -> <<k[i + 1].page>>
    [] OTHER                                   -> << >>
Bodies(P) == Seq([page : P, complete : BOOLEAN])
Chosen(k, T, C) == FlattenSeq([i \in DOMAIN k |-> ChosenAt(k, T, C, i)])

LEMMA ChosenAtIs ==
  ASSUME NEW P, NEW k \in Bodies(P), NEW T, NEW C, C \cap T = {}, NEW i \in DOMAIN k
  PROVE  /\ ChosenAt(k, T, C, i) \in Seq(P)
         /\ ToSet(ChosenAt(k, T, C, i)) =
              {p \in P : \/ p = k[i].page /\ p \in T
                         \/ k[i].page \in C /\ i + 1 \in DOMAIN k /\ p = k[i + 1].page}
<1>1. ASSUME NEW x \in P PROVE <<x>> \in Seq(P) /\ ToSet(<<x>>) = {x}
  BY <1>1 DEF ToSet
<1>2. \A j \in DOMAIN k : k[j].page \in P
  <2>1. \A r \in [page : P, complete : BOOLEAN] : r.page \in P
    OBVIOUS
  <2>2. \A j \in DOMAIN k : k[j] \in [page : P, complete : BOOLEAN]
    <3> DEFINE R == [page : P, complete : BOOLEAN]
    <3>1. k \in Seq(R)
      BY DEF Bodies
    <3> HIDE DEF R
    <3>2. \A j \in DOMAIN k : k[j] \in R
      BY <3>1
    <3> QED
      BY <3>2 DEF R
  <2> QED
    BY <2>1, <2>2
<1>3. CASE k[i].page \in T
  <2>1. ChosenAt(k, T, C, i) = <<k[i].page>>
    BY <1>3 DEF ChosenAt
  <2> QED
    BY <1>3, <1>1, <1>2, <2>1
<1>4. CASE k[i].page \in C /\ i + 1 \in DOMAIN k
  <2>1. ChosenAt(k, T, C, i) = <<k[i + 1].page>>
    BY <1>4 DEF ChosenAt
  <2> QED
    BY <1>4, <1>1, <1>2, <2>1
<1>5. CASE k[i].page \notin T /\ ~(k[i].page \in C /\ i + 1 \in DOMAIN k)
  <2>1. ChosenAt(k, T, C, i) = << >>
    BY <1>5 DEF ChosenAt
  <2> QED
    BY <1>5, <2>1 DEF ToSet
<1> QED
  BY <1>3, <1>4, <1>5

LEMMA ChosenAre ==
  ASSUME NEW P, NEW k \in Bodies(P), NEW T, NEW C, C \cap T = {}
  PROVE  /\ Chosen(k, T, C) \in Seq(P)
         /\ \A p : p \in ToSet(Chosen(k, T, C)) <=>
              \E i \in DOMAIN k : p \in ToSet(ChosenAt(k, T, C, i))
<1> DEFINE pieces == [i \in DOMAIN k |-> ChosenAt(k, T, C, i)]
<1>1. DOMAIN k = 1 .. Len(k) /\ Len(k) \in Nat
  BY DEF Bodies
<1>2. \A i \in DOMAIN k : ChosenAt(k, T, C, i) \in Seq(P)
  BY ChosenAtIs
<1>3. /\ pieces \in Seq(Seq(P)) /\ DOMAIN pieces = DOMAIN k
      /\ \A i \in DOMAIN k : pieces[i] = ChosenAt(k, T, C, i)
  BY <1>1, <1>2
<1>4. Chosen(k, T, C) = FlattenSeq(pieces)
  BY DEF Chosen
<1> HIDE DEF pieces
<1>5. /\ Chosen(k, T, C) \in Seq(P)
      /\ ToSet(Chosen(k, T, C)) = UNION {ToSet(pieces[i]) : i \in DOMAIN k}
  BY <1>3, <1>4, Flatten
<1> QED
  BY <1>3, <1>5

(* What is chosen stays so when responses are appended or completed.       *)
LEMMA ChosenStay ==
  ASSUME NEW P, NEW k \in Bodies(P), NEW l \in Bodies(P), NEW T, NEW C, C \cap T = {},
         \A i \in DOMAIN k : i \in DOMAIN l /\ l[i].page = k[i].page
  PROVE  ToSet(Chosen(k, T, C)) \subseteq ToSet(Chosen(l, T, C))
<1>1. ASSUME NEW i \in DOMAIN k
      PROVE  ToSet(ChosenAt(k, T, C, i)) \subseteq ToSet(ChosenAt(l, T, C, i))
  <2>1. ToSet(ChosenAt(k, T, C, i)) =
          {p \in P : \/ p = k[i].page /\ p \in T
                     \/ k[i].page \in C /\ i + 1 \in DOMAIN k /\ p = k[i + 1].page}
    BY ChosenAtIs
  <2>2. ToSet(ChosenAt(l, T, C, i)) =
          {p \in P : \/ p = l[i].page /\ p \in T
                     \/ l[i].page \in C /\ i + 1 \in DOMAIN l /\ p = l[i + 1].page}
    BY ChosenAtIs
  <2> QED
    BY <2>1, <2>2
<1>2. ASSUME NEW p \in ToSet(Chosen(k, T, C)) PROVE p \in ToSet(Chosen(l, T, C))
  <2>1. PICK i \in DOMAIN k : p \in ToSet(ChosenAt(k, T, C, i))
    BY ChosenAre
  <2>2. i \in DOMAIN l /\ p \in ToSet(ChosenAt(l, T, C, i))
    BY <1>1, <2>1
  <2> QED
    BY <2>2, ChosenAre
<1> QED
  BY <1>2
-----------------------------------------------------------------------------
(* Sequences put together, and the values of f over a sequence.            *)
LEMMA Joined ==
  ASSUME NEW S, NEW s \in Seq(S), NEW t \in Seq(S)
  PROVE  /\ s \o t \in Seq(S) /\ Len(s \o t) = Len(s) + Len(t)
         /\ \A i \in 1 .. Len(s) : (s \o t)[i] = s[i]
         /\ \A i \in 1 .. Len(t) : (s \o t)[Len(s) + i] = t[i]
OBVIOUS

LEMMA AreJoined ==
  ASSUME NEW S, NEW s \in Seq(S), NEW t \in Seq(S), NEW u \in Seq(S),
         Len(u) = Len(s) + Len(t), \A i \in 1 .. Len(s) : u[i] = s[i],
         \A i \in 1 .. Len(t) : u[Len(s) + i] = t[i]
  PROVE  u = s \o t
<1>1. /\ s \o t \in Seq(S) /\ Len(s \o t) = Len(u)
      /\ \A i \in 1 .. Len(s) : (s \o t)[i] = s[i]
      /\ \A i \in 1 .. Len(t) : (s \o t)[Len(s) + i] = t[i]
  BY Joined
<1>2. Len(s) \in Nat /\ Len(t) \in Nat
  OBVIOUS
<1>3. ASSUME NEW i \in 1 .. Len(u) PROVE u[i] = (s \o t)[i]
  <2>1. CASE i <= Len(s)
    BY <1>1, <1>2, <2>1
  <2>2. CASE i > Len(s)
    <3>1. i - Len(s) \in 1 .. Len(t) /\ i = Len(s) + (i - Len(s))
      BY <1>2, <2>2
    <3> QED
      BY <1>1, <3>1
  <2> QED
    BY <1>2, <2>1, <2>2
<1> QED
  BY <1>1, <1>3, SeqEqual

(* f of each of the elements of s, and these put together.                 *)
Maps(f, L, S) == f \in [L -> Seq(S)]
Each(f, s) == [i \in DOMAIN s |-> f[s[i]]]
Mapped(f, s) == FlattenSeq(Each(f, s))

LEMMA EachIs ==
  ASSUME NEW L, NEW S, NEW f, Maps(f, L, S), NEW s \in Seq(L)
  PROVE  /\ Each(f, s) \in Seq(Seq(S)) /\ Len(Each(f, s)) = Len(s)
         /\ \A i \in 1 .. Len(s) : Each(f, s)[i] = f[s[i]]
<1>1. DOMAIN s = 1 .. Len(s) /\ Len(s) \in Nat /\ \A i \in 1 .. Len(s) : s[i] \in L
  OBVIOUS
<1>2. \A i \in 1 .. Len(s) : f[s[i]] \in Seq(S)
  BY <1>1 DEF Maps
<1> QED
  BY <1>1, <1>2 DEF Each

LEMMA MappedTyped ==
  ASSUME NEW L, NEW S, NEW f, Maps(f, L, S), NEW s \in Seq(L)
  PROVE  Mapped(f, s) \in Seq(S)
<1>1. Each(f, s) \in Seq(Seq(S))
  BY EachIs
<1>2. FlattenSeq(Each(f, s)) \in Seq(S)
  BY <1>1, Flatten
<1> QED
  BY <1>2 DEF Mapped

LEMMA MappedConcat ==
  ASSUME NEW L, NEW S, NEW f, Maps(f, L, S), NEW s \in Seq(L), NEW t \in Seq(L)
  PROVE  Mapped(f, s \o t) = Mapped(f, s) \o Mapped(f, t)
<1> DEFINE both == s \o t
           whole == Each(f, both)
           first == Each(f, s)
           second == Each(f, t)
<1>1. /\ both \in Seq(L) /\ Len(both) = Len(s) + Len(t)
      /\ \A i \in 1 .. Len(s) : both[i] = s[i]
      /\ \A i \in 1 .. Len(t) : both[Len(s) + i] = t[i]
  BY Joined
<1>2. /\ first \in Seq(Seq(S)) /\ Len(first) = Len(s)
      /\ \A i \in 1 .. Len(s) : first[i] = f[s[i]]
  BY EachIs
<1>3. /\ second \in Seq(Seq(S)) /\ Len(second) = Len(t)
      /\ \A i \in 1 .. Len(t) : second[i] = f[t[i]]
  BY EachIs
<1> HIDE DEF both
<1>4. /\ whole \in Seq(Seq(S)) /\ Len(whole) = Len(both)
      /\ \A i \in 1 .. Len(both) : whole[i] = f[both[i]]
  BY <1>1, EachIs
<1> HIDE DEF whole, first, second
<1>5. Len(s) \in Nat /\ Len(t) \in Nat
  OBVIOUS
<1>6. ASSUME NEW i \in 1 .. Len(s) PROVE whole[i] = first[i]
  <2>1. i \in 1 .. Len(both)
    BY <1>1, <1>5
  <2>2. both[i] = s[i] /\ first[i] = f[s[i]]
    BY <1>1, <1>2
  <2>3. whole[i] = f[both[i]]
    BY <1>4, <2>1
  <2> QED
    BY <2>2, <2>3, Zenon
<1>7. ASSUME NEW i \in 1 .. Len(t) PROVE whole[Len(s) + i] = second[i]
  <2>1. Len(s) + i \in 1 .. Len(both)
    BY <1>1, <1>5
  <2>2. both[Len(s) + i] = t[i] /\ second[i] = f[t[i]]
    BY <1>1, <1>3
  <2>3. whole[Len(s) + i] = f[both[Len(s) + i]]
    BY <1>4, <2>1
  <2> QED
    BY <2>2, <2>3, Zenon
<1>8. whole = first \o second
  <2>1. \A i \in 1 .. Len(first) : whole[i] = first[i]
    BY <1>2, <1>6, Zenon
  <2>2. \A i \in 1 .. Len(second) : whole[Len(first) + i] = second[i]
    BY <1>2, <1>3, <1>7, Zenon
  <2>3. Len(whole) = Len(first) + Len(second)
    BY <1>1, <1>2, <1>3, <1>4
  <2> QED
    BY <1>2, <1>3, <1>4, <2>1, <2>2, <2>3, AreJoined, Zenon
<1>9. FlattenSeq(first \o second) = FlattenSeq(first) \o FlattenSeq(second)
  BY <1>2, <1>3, FlattenConcat
<1> QED
  BY <1>8, <1>9 DEF Mapped, whole, first, second, both

LEMMA MappedOne ==
  ASSUME NEW L, NEW S, NEW f, Maps(f, L, S), NEW e \in L
  PROVE  Mapped(f, <<e>>) = f[e]
<1> DEFINE pieces == Each(f, <<e>>)
           none == << >>
<1>1. <<e>> \in Seq(L) /\ Len(<<e>>) = 1 /\ <<e>>[1] = e
  BY One
<1>2. pieces \in Seq(Seq(S)) /\ Len(pieces) = 1 /\ pieces[1] = f[e]
  <2>1. /\ pieces \in Seq(Seq(S)) /\ Len(pieces) = Len(<<e>>)
        /\ \A i \in 1 .. Len(<<e>>) : pieces[i] = f[<<e>>[i]]
    BY <1>1, EachIs
  <2> HIDE DEF pieces
  <2> QED
    BY <1>1, <2>1
<1> HIDE DEF pieces
<1>3. none \in Seq(Seq(S)) /\ f[e] \in Seq(S)
  BY DEF Maps
<1>4. pieces = Append(none, f[e])
  <2>1. Append(none, f[e]) \in Seq(Seq(S)) /\ Len(Append(none, f[e])) = 1
        /\ Append(none, f[e])[1] = f[e]
    <3>1. Len(none) = 0
      OBVIOUS
    <3> HIDE DEF none
    <3>2. /\ Append(none, f[e]) \in Seq(Seq(S))
          /\ Len(Append(none, f[e])) = Len(none) + 1
          /\ Append(none, f[e])[Len(none) + 1] = f[e]
      BY <1>3, AppendProperties
    <3> QED
      BY <3>1, <3>2
  <2> HIDE DEF none
  <2>2. \A i \in 1 .. Len(pieces) : pieces[i] = Append(none, f[e])[i]
    BY <1>2, <2>1
  <2> QED
    BY <1>2, <2>1, <2>2, SeqEqual
<1>5. FlattenSeq(Append(none, f[e])) = FlattenSeq(none) \o f[e]
  <2> HIDE DEF none
  <2> QED
    BY <1>3, FlattenAppend
<1>6. FlattenSeq(none) = none /\ none \o f[e] = f[e]
  BY <1>3, FlattenEmpty, ConcatEmptySeq
<1> QED
  BY <1>4, <1>5, <1>6 DEF Mapped, pieces

LEMMA MappedEmpty == ASSUME NEW f PROVE Mapped(f, << >>) = << >>
<1> DEFINE pieces == Each(f, << >>)
<1>1. pieces = << >>
  BY DEF Each
<1> HIDE DEF pieces
<1>2. FlattenSeq(pieces) = << >>
  BY <1>1, FlattenEmpty
<1> QED
  BY <1>2 DEF Mapped, pieces

-----------------------------------------------------------------------------
(* What a name and a record are put together from.                         *)

(* The greatest of finitely many numbers.                                  *)
LEMMA MaxIs ==
  ASSUME NEW n \in Nat, NEW I \in SUBSET (0 .. n), I # {}
  PROVE  Max(I) \in I /\ \A i \in I : i <= Max(I)
<1> DEFINE T == {n - i : i \in I}
<1>1. T \in SUBSET Nat /\ T # {}
  <2>1. \A i \in I : n - i \in Nat
    OBVIOUS
  <2> QED
    BY <2>1
<1>2. PICK m \in T : \A k \in T : m <= k
  <2> HIDE DEF T
  <2> QED
    BY <1>1, Least
<1>3. PICK i \in I : m = n - i
  OBVIOUS
<1>4. ASSUME NEW k \in I PROVE i >= k
  <2>1. m <= n - k
    BY <1>2
  <2> QED
    BY <1>3, <2>1
<1> QED
  BY <1>3, <1>4 DEF Max

(* Empty pieces join to nothing.                                           *)
LEMMA Empties ==
  ASSUME NEW S, NEW s \in Seq(Seq(S)), \A i \in 1 .. Len(s) : s[i] = << >>
  PROVE  FlattenSeq(s) = << >>
<1> DEFINE f == FlattenSeq(s)
<1>1. f \in Seq(S) /\ ToSet(f) = UNION {ToSet(s[i]) : i \in DOMAIN s}
  BY Flatten
<1>2. DOMAIN s = 1 .. Len(s)
  OBVIOUS
<1>3. \A i \in DOMAIN s : ToSet(s[i]) = {}
  BY <1>2 DEF ToSet
<1> HIDE DEF f
<1>4. ToSet(f) = {}
  BY <1>1, <1>3
<1>5. Len(f) = 0
  <2> SUFFICES ASSUME Len(f) # 0 PROVE FALSE
    OBVIOUS
  <2>1. f[1] \in ToSet(f)
    BY <1>1 DEF ToSet
  <2> QED
    BY <1>4, <2>1
<1>6. f = << >>
  BY <1>1, <1>5
<1> QED
  BY <1>6 DEF f

(* A sequence is its front and its last element.                           *)
LEMMA FrontAndLast ==
  ASSUME NEW S, NEW s \in Seq(S), Len(s) >= 1
  PROVE  Append(Front(s), s[Len(s)]) = s
<1>1. /\ Front(s) \in Seq(S) /\ Len(Front(s)) = Len(s) - 1
      /\ \A i \in 1 .. Len(s) - 1 : Front(s)[i] = s[i]
  <2> DEFINE n == Len(s) - 1
  <2>1. n \in 0 .. Len(s) /\ 1 \in Nat \ {0} /\ 1 <= n + 1 /\ n - 1 + 1 = n
    OBVIOUS
  <2> HIDE DEF n
  <2>2. /\ SubSeq(s, 1, n) \in Seq(S) /\ Len(SubSeq(s, 1, n)) = n - 1 + 1
        /\ \A i \in 1 .. n - 1 + 1 : SubSeq(s, 1, n)[i] = s[1 + i - 1]
    BY <2>1, Pieces
  <2>3. ASSUME NEW i \in 1 .. n PROVE SubSeq(s, 1, n)[i] = s[i]
    <3>1. 1 + i - 1 = i
      OBVIOUS
    <3> QED
      BY <2>1, <2>2, <3>1
  <2>4. SubSeq(s, 1, n) = Front(s)
    BY DEF Front, n
  <2> QED
    BY <2>1, <2>2, <2>3, <2>4 DEF n
<1> DEFINE f == Front(s)
<1>2. s[Len(s)] \in S
  OBVIOUS
<1> HIDE DEF f
<1>3. /\ Append(f, s[Len(s)]) \in Seq(S) /\ Len(Append(f, s[Len(s)])) = Len(s)
      /\ \A i \in 1 .. Len(s) : Append(f, s[Len(s)])[i] = s[i]
  BY <1>1, <1>2 DEF f
<1>4. Append(f, s[Len(s)]) = s
  BY <1>3, SeqEqual
<1> QED
  BY <1>4 DEF f

(* A beginning is a shorter one and what follows that.                     *)
LEMMA SubSeqSplit ==
  ASSUME NEW S, NEW s \in Seq(S), NEW m \in Nat, NEW n \in Nat, m <= n, n <= Len(s)
  PROVE  SubSeq(s, 1, n) = SubSeq(s, 1, m) \o SubSeq(s, m + 1, n)
<1> DEFINE a == SubSeq(s, 1, n)
           b == SubSeq(s, 1, m)
           c == SubSeq(s, m + 1, n)
<1>1. /\ n \in 0 .. Len(s) /\ m \in 0 .. Len(s) /\ 1 \in Nat \ {0} /\ m + 1 \in Nat \ {0}
      /\ 1 <= n + 1 /\ 1 <= m + 1 /\ m + 1 <= n + 1 /\ Len(s) \in Nat
  OBVIOUS
<1>2. /\ a \in Seq(S) /\ Len(a) = n - 1 + 1
      /\ \A i \in 1 .. n - 1 + 1 : a[i] = s[1 + i - 1]
  BY <1>1, Pieces
<1>3. /\ b \in Seq(S) /\ Len(b) = m - 1 + 1
      /\ \A i \in 1 .. m - 1 + 1 : b[i] = s[1 + i - 1]
  BY <1>1, Pieces
<1>4. /\ c \in Seq(S) /\ Len(c) = n - (m + 1) + 1
      /\ \A i \in 1 .. n - (m + 1) + 1 : c[i] = s[(m + 1) + i - 1]
  BY <1>1, Pieces
<1> HIDE DEF a, b, c
<1>5. Len(a) = n /\ Len(b) = m /\ Len(c) = n - m /\ Len(a) = Len(b) + Len(c)
  BY <1>2, <1>3, <1>4
<1>6. ASSUME NEW i \in 1 .. Len(b) PROVE a[i] = b[i]
  <2>1. i \in 1 .. n - 1 + 1 /\ i \in 1 .. m - 1 + 1
    BY <1>5
  <2> QED
    BY <1>2, <1>3, <2>1
<1>7. ASSUME NEW i \in 1 .. Len(c) PROVE a[Len(b) + i] = c[i]
  <2>1. /\ m + i \in 1 .. n - 1 + 1 /\ i \in 1 .. n - (m + 1) + 1
        /\ 1 + (m + i) - 1 = (m + 1) + i - 1 /\ Len(b) + i = m + i
    BY <1>5
  <2>2. a[m + i] = s[1 + (m + i) - 1] /\ c[i] = s[(m + 1) + i - 1]
    BY <1>2, <1>4, <2>1
  <2> QED
    BY <2>1, <2>2, Zenon
<1>8. a = b \o c
  BY <1>2, <1>3, <1>4, <1>5, <1>6, <1>7, AreJoined, Zenon
<1> QED
  BY <1>8 DEF a, b, c

(* The elements of a tuple of ten that the proofs ask for.                 *)
LEMMA Ten ==
  ASSUME NEW S, NEW a \in S, NEW b \in S, NEW c \in S, NEW d \in S, NEW e \in S,
         NEW f \in S, NEW g \in S, NEW h \in S, NEW i \in S, NEW j \in S
  PROVE  /\ <<a, b, c, d, e, f, g, h, i, j>> \in Seq(S)
         /\ Len(<<a, b, c, d, e, f, g, h, i, j>>) = 10
         /\ <<a, b, c, d, e, f, g, h, i, j>>[1] = a /\ <<a, b, c, d, e, f, g, h, i, j>>[2] = b
         /\ <<a, b, c, d, e, f, g, h, i, j>>[9] = i /\ <<a, b, c, d, e, f, g, h, i, j>>[10] = j
OBVIOUS
=============================================================================

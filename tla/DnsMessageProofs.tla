-------------------------- MODULE DnsMessageProofs ---------------------------
(***************************************************************************)
(* The messages for names of any labels and any number of records; and the *)
(* reading of answers, for labels without the octets that ReadName looks   *)
(* for: however a name server compresses such names, the code reads what   *)
(* was written.                                                            *)
(***************************************************************************)
EXTENDS DnsMessage, SequenceFacts

(* Follow is defined by recursion over the number of links.  Links is one  *)
(* round of it, and g a chain of the first n rounds.                       *)
Links(piece, next, k, rest) ==
  [x \in DOMAIN piece |->
     piece[x] \o (IF next[x] \notin DOMAIN piece THEN << >>
                 ELSE IF k = 0 THEN <<Lost>> ELSE rest[next[x]])]

Chain(g, piece, next, D) == g = [k \in D |-> Links(piece, next, k, g[k - 1])]

(* A round of the chain, and its first one, which follows nothing.         *)
LEMMA ChainAt ==
  ASSUME NEW g, NEW piece, NEW next, NEW D, Chain(g, piece, next, D), NEW k \in D
  PROVE  g[k] = Links(piece, next, k, g[k - 1])
<1> DEFINE h == [i \in D |-> Links(piece, next, i, g[i - 1])]
<1>1. g = h /\ h[k] = Links(piece, next, k, g[k - 1])
  BY DEF Chain
<1> HIDE DEF h
<1> QED
  BY <1>1

LEMMA FirstLinks ==
  ASSUME NEW piece, NEW next, NEW r, NEW s
  PROVE  Links(piece, next, 0, r) = Links(piece, next, 0, s)
BY DEF Links

(* Chains of different lengths agree, so there is one for all of Nat.      *)
LEMMA ChainsAgree ==
  ASSUME NEW g, NEW h, NEW piece, NEW next, NEW n \in Nat,
         Chain(g, piece, next, 0 .. n), Chain(h, piece, next, 0 .. n + 1)
  PROVE  \A k \in 0 .. n : g[k] = h[k]
<1> DEFINE T == {k \in Nat : k \in 0 .. n => g[k] = h[k]}
<1>1. 0 \in T
  <2>1. 0 \in 0 .. n /\ 0 \in 0 .. n + 1
    OBVIOUS
  <2>2. /\ g[0] = Links(piece, next, 0, g[0 - 1])
        /\ h[0] = Links(piece, next, 0, h[0 - 1])
    BY <2>1, ChainAt
  <2>3. g[0] = h[0]
    BY <2>2, FirstLinks, Zenon
  <2> QED
    BY <2>3
<1>2. ASSUME NEW k \in T PROVE k + 1 \in T
  <2> SUFFICES ASSUME k + 1 \in 0 .. n PROVE g[k + 1] = h[k + 1]
    OBVIOUS
  <2>1. k + 1 \in 0 .. n + 1 /\ (k + 1) - 1 = k /\ g[k] = h[k]
    OBVIOUS
  <2>2. /\ g[k + 1] = Links(piece, next, k + 1, g[(k + 1) - 1])
        /\ h[k + 1] = Links(piece, next, k + 1, h[(k + 1) - 1])
    BY <2>1, ChainAt
  <2> QED
    BY <2>1, <2>2, Zenon
<1>3. T \in SUBSET Nat
  OBVIOUS
<1> HIDE DEF T
<1>4. T = Nat
  BY <1>1, <1>2, <1>3, Induct
<1> QED
  BY <1>4 DEF T

LEMMA ChainExists ==
  ASSUME NEW piece, NEW next, NEW m \in Nat
  PROVE  \E g : Chain(g, piece, next, 0 .. m)
<1> DEFINE T == {n \in Nat : \E g : Chain(g, piece, next, 0 .. n)}
<1>1. 0 \in T
  <2> DEFINE first(r) == Links(piece, next, 0, r)
             g == [k \in 0 .. 0 |-> first(0)]
  <2>1. \A k \in 0 .. 0 : Links(piece, next, k, g[k - 1]) = first(0)
    <3>1. \A k \in 0 .. 0 : k = 0
      OBVIOUS
    <3>2. Links(piece, next, 0, g[0 - 1]) = first(0)
      <4> HIDE DEF g
      <4> QED
        BY FirstLinks, Zenon
    <3> QED
      BY <3>1, <3>2, Zenon
  <2> HIDE DEF first
  <2>2. g = [k \in 0 .. 0 |-> Links(piece, next, k, g[k - 1])]
    BY <2>1
  <2> HIDE DEF g
  <2>3. Chain(g, piece, next, 0 .. 0)
    BY <2>2 DEF Chain
  <2> QED
    BY <2>3
<1>2. ASSUME NEW n \in T PROVE n + 1 \in T
  <2>1. n \in Nat
    OBVIOUS
  <2>2. PICK g : Chain(g, piece, next, 0 .. n)
    OBVIOUS
  <2> DEFINE link(k) == Links(piece, next, k, g[k - 1])
             h == [k \in 0 .. n + 1 |-> link(k)]
  <2>3. ASSUME NEW k \in 0 .. n PROVE h[k] = g[k]
    <3>1. g[k] = link(k)
      BY <2>2, ChainAt
    <3>2. k \in 0 .. n + 1
      BY <2>1
    <3> QED
      BY <3>1, <3>2
  <2>4. ASSUME NEW k \in 0 .. n + 1 PROVE h[k] = Links(piece, next, k, h[k - 1])
    <3>1. h[k] = link(k)
      OBVIOUS
    <3> HIDE DEF h
    <3>2. CASE k = 0
      <4>1. Links(piece, next, 0, g[k - 1]) = Links(piece, next, 0, h[k - 1])
        BY FirstLinks, Zenon
      <4> QED
        BY <3>1, <3>2, <4>1, Zenon
    <3>3. CASE k # 0
      <4>1. k - 1 \in 0 .. n
        BY <2>1, <3>3
      <4>2. h[k - 1] = g[k - 1]
        BY <2>3, <4>1
      <4> QED
        BY <3>1, <4>2, Zenon
    <3> QED
      BY <3>2, <3>3
  <2>5. h = [k \in 0 .. n + 1 |-> h[k]]
    OBVIOUS
  <2> HIDE DEF h
  <2>6. h = [k \in 0 .. n + 1 |-> Links(piece, next, k, h[k - 1])]
    BY <2>4, <2>5
  <2>7. Chain(h, piece, next, 0 .. n + 1)
    BY <2>6 DEF Chain
  <2> QED
    BY <2>1, <2>7
<1>3. T \in SUBSET Nat
  OBVIOUS
<1> HIDE DEF T
<1>4. T = Nat
  BY <1>1, <1>2, <1>3, Induct
<1> QED
  BY <1>4 DEF T

LEMMA FollowExists ==
  ASSUME NEW piece, NEW next
  PROVE  \E g : Chain(g, piece, next, Nat)
<1> DEFINE part(k) == CHOOSE g : Chain(g, piece, next, 0 .. k)
           g == [k \in Nat |-> part(k)[k]]
<1>1. \A k \in Nat : Chain(part(k), piece, next, 0 .. k)
  BY ChainExists, Zenon
<1> HIDE DEF part
<1>2. ASSUME NEW k \in Nat PROVE g[k] = Links(piece, next, k, g[k - 1])
  <2>1. k \in 0 .. k
    OBVIOUS
  <2>2. g[k] = Links(piece, next, k, part(k)[k - 1])
    BY <1>1, <2>1, ChainAt
  <2>3. CASE k = 0
    BY <2>2, <2>3, FirstLinks, Zenon
  <2>4. CASE k # 0
    <3> DEFINE m == k - 1
    <3>1. m \in Nat /\ m \in 0 .. m /\ m + 1 = k
      BY <2>4
    <3>2. g[m] = part(m)[m]
      BY <3>1
    <3> HIDE DEF g, m
    <3>3. Chain(part(m), piece, next, 0 .. m) /\ Chain(part(k), piece, next, 0 .. m + 1)
      BY <1>1, <3>1
    <3>4. part(m)[m] = part(k)[m]
      BY <3>1, <3>3, ChainsAgree
    <3> QED
      BY <2>2, <3>2, <3>4, Zenon DEF m
  <2> QED
    BY <2>3, <2>4
<1>3. g = [k \in Nat |-> g[k]]
  OBVIOUS
<1> HIDE DEF g
<1>4. g = [k \in Nat |-> Links(piece, next, k, g[k - 1])]
  BY <1>2, <1>3
<1> QED
  BY <1>4 DEF Chain

(* What Follow puts together: the piece at x, and what follows it.         *)
Onward(piece, next, n, x) ==
  IF next[x] \notin DOMAIN piece THEN << >>
  ELSE IF n = 0 THEN <<Lost>> ELSE Follow(piece, next, n - 1)[next[x]]

LEMMA FollowIs ==
  ASSUME NEW piece, NEW next, NEW n \in Nat, NEW x \in DOMAIN piece
  PROVE  Follow(piece, next, n)[x] = piece[x] \o Onward(piece, next, n, x)
<1> DEFINE g == CHOOSE h : Chain(h, piece, next, Nat)
<1>1. Chain(g, piece, next, Nat)
  BY FollowExists, Zenon
<1>2. \A k : Follow(piece, next, k) = g[k]
  BY DEF Follow, Chain, Links
<1> HIDE DEF g
<1>3. g[n] = Links(piece, next, n, g[n - 1])
  BY <1>1, ChainAt
<1>4. Links(piece, next, n, g[n - 1])[x] =
        piece[x] \o (IF next[x] \notin DOMAIN piece THEN << >>
                    ELSE IF n = 0 THEN <<Lost>> ELSE g[n - 1][next[x]])
  BY DEF Links
<1> QED
  BY <1>2, <1>3, <1>4, Zenon DEF Onward

-----------------------------------------------------------------------------
(* How names are written: each label behind its length (Wire) or in front  *)
(* of a dot (Dotted); both are maps over the labels.                       *)

(* The octets of a written name: its labels and their lengths.             *)
Written == 0 .. 255

Lengths == [l \in Labels |-> <<Len(l)>> \o l]
Dots == [l \in Labels |-> Append(l, Dot)]
Dotted(name) == Mapped(Dots, name)

(* The octets of a label, behind its length and in front of a dot.         *)
LEMMA LabelIs ==
  ASSUME NEW l \in Labels
  PROVE  l \in Seq(Written) /\ Len(l) \in 1 .. 63
BY DEF Labels, Written, Octets

LEMMA LengthsAre ==
  ASSUME NEW l \in Labels
  PROVE  /\ Lengths[l] \in Seq(Written) /\ Len(Lengths[l]) = Len(l) + 1
         /\ Lengths[l][1] = Len(l)
         /\ \A i \in 1 .. Len(l) : Lengths[l][i + 1] = l[i]
<1>1. l \in Seq(Written) /\ Len(l) \in Written
  BY LabelIs DEF Written
<1> DEFINE size == <<Len(l)>>
<1>2. size \in Seq(Written) /\ Len(size) = 1 /\ size[1] = Len(l)
  BY <1>1, One
<1>3. Lengths[l] = size \o l
  BY DEF Lengths
<1> HIDE DEF size
<1>4. /\ size \o l \in Seq(Written) /\ Len(size \o l) = Len(size) + Len(l)
      /\ \A i \in 1 .. Len(size) : (size \o l)[i] = size[i]
      /\ \A i \in 1 .. Len(l) : (size \o l)[Len(size) + i] = l[i]
  BY <1>1, <1>2, Joined
<1>5. (size \o l)[1] = size[1]
  BY <1>2, <1>4
<1>6. Len(l) \in Nat
  BY <1>1
<1>7. ASSUME NEW i \in 1 .. Len(l) PROVE (size \o l)[i + 1] = l[i]
  <2>1. Len(size) + i = i + 1
    BY <1>2, <1>6
  <2> QED
    BY <1>4, <2>1, Zenon
<1> QED
  BY <1>2, <1>3, <1>4, <1>5, <1>6, <1>7

LEMMA DotsAre ==
  ASSUME NEW l \in Labels
  PROVE  /\ Dots[l] \in Seq(Written) /\ Len(Dots[l]) = Len(l) + 1
         /\ Dots[l][Len(l) + 1] = Dot
         /\ \A i \in 1 .. Len(l) : Dots[l][i] = l[i]
<1>1. l \in Seq(Written) /\ Dot \in Written
  BY LabelIs DEF Written, Dot
<1>2. Dots[l] = Append(l, Dot)
  BY DEF Dots
<1> QED
  BY <1>1, <1>2, AppendProperties

LEMMA BothMap == Maps(Lengths, Labels, Written) /\ Maps(Dots, Labels, Written)
<1>1. /\ Lengths = [l \in Labels |-> Lengths[l]]
      /\ Dots = [l \in Labels |-> Dots[l]]
  BY DEF Lengths, Dots
<1>2. \A l \in Labels : Lengths[l] \in Seq(Written) /\ Dots[l] \in Seq(Written)
  BY LengthsAre, DotsAre
<1> QED
  BY <1>1, <1>2 DEF Maps

(* Wire and Text as maps over the labels: what a name of no label, of one  *)
(* label, and of two parts is written as.                                  *)
LEMMA WireIs ==
  ASSUME NEW name \in Seq(Labels)
  PROVE  Wire(name) = Mapped(Lengths, name) /\ Text(name) = Front(Dotted(name))
<1>1. \A i \in DOMAIN name : name[i] \in Labels
  OBVIOUS
<1>2. [i \in DOMAIN name |-> <<Len(name[i])>> \o name[i]] = Each(Lengths, name)
  BY <1>1 DEF Each, Lengths
<1>3. [i \in DOMAIN name |-> Append(name[i], Dot)] = Each(Dots, name)
  BY <1>1 DEF Each, Dots
<1> QED
  BY <1>2, <1>3 DEF Wire, Text, Mapped, Dotted

LEMMA WireTyped ==
  ASSUME NEW name \in Seq(Labels)
  PROVE  /\ Wire(name) \in Seq(Written) /\ Dotted(name) \in Seq(Written)
         /\ Len(Wire(name)) \in Nat /\ Len(Dotted(name)) \in Nat
<1>1. Mapped(Lengths, name) \in Seq(Written) /\ Mapped(Dots, name) \in Seq(Written)
  BY BothMap, MappedTyped
<1>2. Wire(name) \in Seq(Written) /\ Dotted(name) \in Seq(Written)
  BY <1>1, WireIs DEF Dotted
<1> QED
  BY <1>2

LEMMA WireConcat ==
  ASSUME NEW s \in Seq(Labels), NEW t \in Seq(Labels)
  PROVE  Wire(s \o t) = Wire(s) \o Wire(t) /\ Dotted(s \o t) = Dotted(s) \o Dotted(t)
<1>1. /\ Mapped(Lengths, s \o t) = Mapped(Lengths, s) \o Mapped(Lengths, t)
      /\ Mapped(Dots, s \o t) = Mapped(Dots, s) \o Mapped(Dots, t)
  BY BothMap, MappedConcat
<1>2. s \o t \in Seq(Labels)
  OBVIOUS
<1> QED
  BY <1>1, <1>2, WireIs, Zenon DEF Dotted

LEMMA WireOne ==
  ASSUME NEW l \in Labels
  PROVE  Wire(<<l>>) = Lengths[l] /\ Dotted(<<l>>) = Dots[l]
<1>1. <<l>> \in Seq(Labels)
  BY One
<1>2. Mapped(Lengths, <<l>>) = Lengths[l] /\ Mapped(Dots, <<l>>) = Dots[l]
  BY BothMap, MappedOne
<1> QED
  BY <1>1, <1>2, WireIs, Zenon DEF Dotted

LEMMA WireEmpty == Wire(<< >>) = << >> /\ Dotted(<< >>) = << >>
<1>1. << >> \in Seq(Labels)
  OBVIOUS
<1>2. Mapped(Lengths, << >>) = << >> /\ Mapped(Dots, << >>) = << >>
  BY MappedEmpty, Zenon
<1> QED
  BY <1>1, <1>2, WireIs, Zenon DEF Dotted

(* A name's first labels and the rest.                                     *)
Before(name, j) == SubSeq(name, 1, j - 1)
From(name, j) == SubSeq(name, j, Len(name))

LEMMA Parted ==
  ASSUME NEW S, NEW name \in Seq(S), NEW j \in 1 .. Len(name) + 1
  PROVE  /\ Before(name, j) \in Seq(S) /\ From(name, j) \in Seq(S)
         /\ Len(Before(name, j)) = j - 1 /\ Len(From(name, j)) = Len(name) + 1 - j
         /\ \A i \in 1 .. j - 1 : Before(name, j)[i] = name[i]
         /\ \A i \in 1 .. Len(name) + 1 - j : From(name, j)[i] = name[j - 1 + i]
         /\ name = Before(name, j) \o From(name, j)
<1>1. Len(name) \in Nat
  OBVIOUS
<1> DEFINE s == Before(name, j)
           t == From(name, j)
<1>2. /\ s \in Seq(S) /\ Len(s) = j - 1
      /\ \A i \in 1 .. j - 1 : s[i] = name[i]
  BY <1>1 DEF Before
<1>3. /\ t \in Seq(S) /\ Len(t) = Len(name) + 1 - j
      /\ \A i \in 1 .. Len(name) + 1 - j : t[i] = name[j - 1 + i]
  BY <1>1 DEF From
<1> HIDE DEF s, t
<1>4. name = s \o t
  <2>1. Len(name) = Len(s) + Len(t)
    BY <1>1, <1>2, <1>3
  <2>2. \A i \in 1 .. Len(s) : name[i] = s[i]
    BY <1>2
  <2>3. \A i \in 1 .. Len(t) : name[Len(s) + i] = t[i]
    BY <1>2, <1>3
  <2> QED
    BY <1>2, <1>3, <2>1, <2>2, <2>3, AreJoined, Zenon
<1> QED
  BY <1>2, <1>3, <1>4 DEF s, t

LEMMA Parts ==
  ASSUME NEW S, NEW name \in Seq(S), NEW j \in 1 .. Len(name)
  PROVE  /\ <<name[j]>> \in Seq(S)
         /\ From(name, j) = <<name[j]>> \o From(name, j + 1)
         /\ Before(name, j + 1) = Before(name, j) \o <<name[j]>>
<1>1. /\ Len(name) \in Nat /\ name[j] \in S /\ j - 1 + 1 = j /\ (j + 1) - 1 = j
      /\ j \in 1 .. Len(name) + 1 /\ j + 1 \in 1 .. Len(name) + 1
  OBVIOUS
<1> DEFINE one == <<name[j]>>
           s == Before(name, j)
           t == From(name, j + 1)
           u == From(name, j)
           v == Before(name, j + 1)
<1>2. one \in Seq(S) /\ Len(one) = 1 /\ one[1] = name[j]
  BY <1>1, One
<1>3. /\ s \in Seq(S) /\ Len(s) = j - 1 /\ \A i \in 1 .. j - 1 : s[i] = name[i]
      /\ u \in Seq(S) /\ Len(u) = Len(name) + 1 - j
      /\ \A i \in 1 .. Len(name) + 1 - j : u[i] = name[j - 1 + i]
  BY <1>1, Parted
<1>4. /\ v \in Seq(S) /\ Len(v) = (j + 1) - 1
      /\ \A i \in 1 .. (j + 1) - 1 : v[i] = name[i]
      /\ t \in Seq(S) /\ Len(t) = Len(name) + 1 - (j + 1)
      /\ \A i \in 1 .. Len(name) + 1 - (j + 1) : t[i] = name[(j + 1) - 1 + i]
  BY <1>1, Parted
<1> HIDE DEF one, s, t, u, v
<1>0. Len(u) = Len(one) + Len(t) /\ Len(v) = Len(s) + Len(one) /\ Len(s) = j - 1
  <2>1. /\ Len(u) = Len(name) + 1 - j /\ Len(t) = Len(name) + 1 - (j + 1)
        /\ Len(v) = (j + 1) - 1 /\ Len(s) = j - 1 /\ Len(one) = 1
    BY <1>2, <1>3, <1>4
  <2> QED
    BY <1>1, <2>1
<1>5. u = one \o t
  <2>1. Len(u) = Len(one) + Len(t)
    BY <1>0
  <2>2. \A i \in 1 .. Len(one) : u[i] = one[i]
    BY <1>1, <1>2, <1>3
  <2>3. ASSUME NEW i \in 1 .. Len(t) PROVE u[Len(one) + i] = t[i]
    <3>1. /\ Len(one) + i = 1 + i /\ 1 + i \in 1 .. Len(name) + 1 - j
          /\ j - 1 + (1 + i) = (j + 1) - 1 + i
      BY <1>1, <1>2, <1>4
    <3>2. u[1 + i] = name[j - 1 + (1 + i)]
      BY <1>3, <3>1
    <3>3. t[i] = name[(j + 1) - 1 + i]
      BY <1>4
    <3> QED
      BY <3>1, <3>2, <3>3, Zenon
  <2> QED
    BY <1>2, <1>3, <1>4, <2>1, <2>2, <2>3, AreJoined, Zenon
<1>6. v = s \o one
  <2>1. Len(v) = Len(s) + Len(one)
    BY <1>0
  <2>2. ASSUME NEW i \in 1 .. Len(s) PROVE v[i] = s[i]
    <3>1. i \in 1 .. j - 1 /\ i \in 1 .. (j + 1) - 1
      BY <1>0, <1>1
    <3>2. v[i] = name[i] /\ s[i] = name[i]
      BY <1>3, <1>4, <3>1
    <3> QED
      BY <3>2
  <2>3. \A i \in 1 .. Len(one) : v[Len(s) + i] = one[i]
    BY <1>1, <1>2, <1>3, <1>4
  <2> QED
    BY <1>2, <1>3, <1>4, <2>1, <2>2, <2>3, AreJoined, Zenon
<1> QED
  BY <1>2, <1>5, <1>6 DEF one, s, t, u, v

(* A name is written as its first labels and then the rest.                *)
LEMMA WireSplit ==
  ASSUME NEW name \in Seq(Labels), NEW j \in 1 .. Len(name) + 1
  PROVE  /\ Wire(name) = Wire(Before(name, j)) \o Wire(From(name, j))
         /\ Dotted(name) = Dotted(Before(name, j)) \o Dotted(From(name, j))
         /\ Len(Wire(name)) = Len(Wire(Before(name, j))) + Len(Wire(From(name, j)))
<1> DEFINE s == Before(name, j)
           t == From(name, j)
<1>1. s \in Seq(Labels) /\ t \in Seq(Labels) /\ name = s \o t
  BY Parted
<1> HIDE DEF s, t
<1>2. Wire(s \o t) = Wire(s) \o Wire(t) /\ Dotted(s \o t) = Dotted(s) \o Dotted(t)
  BY <1>1, WireConcat
<1>3. Wire(s) \in Seq(Written) /\ Wire(t) \in Seq(Written)
  BY <1>1, WireTyped
<1>4. Len(Wire(s) \o Wire(t)) = Len(Wire(s)) + Len(Wire(t))
  BY <1>3, Joined
<1> QED
  BY <1>1, <1>2, <1>4, Zenon DEF s, t

(* Where label j stands in a name, written and with dots.                  *)
LEMMA LabelStands ==
  ASSUME NEW name \in Seq(Labels), NEW j \in 1 .. Len(name),
         NEW p, p = Len(Wire(Before(name, j)))
  PROVE  /\ p \in Nat /\ name[j] \in Labels
         /\ Len(Wire(Before(name, j + 1))) = p + 1 + Len(name[j])
         /\ p + 1 + Len(name[j]) <= Len(Wire(name))
         /\ Wire(name)[p + 1] = Len(name[j])
         /\ \A i \in 1 .. Len(name[j]) : Wire(name)[p + 1 + i] = name[j][i]
<1> DEFINE one == <<name[j]>>
           s == Before(name, j)
           t == From(name, j + 1)
           l == name[j]
           w == Wire(s)
           e == Lengths[l]
           z == Wire(t)
<1>1. /\ Len(name) \in Nat /\ l \in Labels
      /\ j \in 1 .. Len(name) + 1 /\ j + 1 \in 1 .. Len(name) + 1
  OBVIOUS
<1>2. /\ one \in Seq(Labels) /\ s \in Seq(Labels) /\ t \in Seq(Labels)
      /\ From(name, j) = one \o t /\ Before(name, j + 1) = s \o one
      /\ name = s \o From(name, j)
  BY <1>1, Parts, Parted
<1>3. Wire(one) = e
  BY <1>1, WireOne
<1>4. /\ w \in Seq(Written) /\ z \in Seq(Written) /\ e \in Seq(Written)
      /\ Len(e) = Len(l) + 1 /\ e[1] = Len(l) /\ Len(l) \in 1 .. 63
      /\ \A i \in 1 .. Len(l) : e[i + 1] = l[i]
  BY <1>1, <1>2, WireTyped, LengthsAre, LabelIs
<1>5. Wire(Before(name, j + 1)) = w \o e
  <2> HIDE DEF one, s, e
  <2>1. Wire(s \o one) = Wire(s) \o Wire(one)
    BY <1>2, WireConcat
  <2> QED
    BY <1>2, <1>3, <2>1, Zenon
<1>6. Wire(name) = w \o (e \o z)
  <2> HIDE DEF one, s, t, e
  <2>0. one \o t \in Seq(Labels)
    BY <1>2
  <2>1. Wire(one \o t) = Wire(one) \o Wire(t)
    BY <1>2, WireConcat
  <2> DEFINE r == one \o t
  <2> HIDE DEF r
  <2>2. Wire(s \o r) = Wire(s) \o Wire(r)
    BY <1>2, <2>0, WireConcat DEF r
  <2>3. name = s \o r
    BY <1>2 DEF r
  <2>4. Wire(r) = e \o z
    BY <1>3, <2>1, Zenon DEF r
  <2> QED
    BY <2>2, <2>3, <2>4, Zenon
<1> HIDE DEF one, s, t, w, e, z
<1> DEFINE x == e \o z
<1>7. /\ x \in Seq(Written) /\ Len(x) = Len(e) + Len(z)
      /\ \A i \in 1 .. Len(e) : x[i] = e[i]
  BY <1>4, Joined
<1> HIDE DEF x
<1>8. /\ Len(w \o x) = Len(w) + Len(x)
      /\ \A i \in 1 .. Len(x) : (w \o x)[Len(w) + i] = x[i]
  <2>1. w \in Seq(Written) /\ x \in Seq(Written)
    BY <1>4, <1>7
  <2> QED
    BY <2>1, Joined
<1>14. Len(w \o e) = Len(w) + Len(e)
  BY <1>4, Joined
<1>9. p = Len(w) /\ p \in Nat /\ Wire(name) = w \o x /\ Len(z) \in Nat
  BY <1>4, <1>6 DEF s, w, x
<1>15. /\ Len(e) = Len(l) + 1 /\ Len(x) = Len(e) + Len(z) /\ Len(l) \in 1 .. 63
       /\ Len(w \o x) = p + Len(x) /\ Len(w \o e) = p + Len(e)
  BY <1>4, <1>7, <1>8, <1>9, <1>14
<1> DEFINE shorter == Len(w \o e)
           longer == Len(w \o x)
           size == Len(l)
<1>16. /\ shorter = p + 1 + size /\ p + 1 + size <= longer /\ p + 1 \in Nat
  <2>1. /\ Len(e) = size + 1 /\ Len(x) = Len(e) + Len(z) /\ size \in 1 .. 63
        /\ longer = p + Len(x) /\ shorter = p + Len(e) /\ p \in Nat /\ Len(z) \in Nat
    BY <1>9, <1>15
  <2> HIDE DEF shorter, longer, size
  <2> QED
    BY <2>1
<1>10. Wire(name)[p + 1] = Len(l)
  <2>1. 1 \in 1 .. Len(x) /\ 1 \in 1 .. Len(e)
    BY <1>9, <1>15
  <2>2. (w \o x)[Len(w) + 1] = x[1] /\ x[1] = e[1] /\ e[1] = Len(l)
    BY <1>4, <1>7, <1>8, <2>1
  <2> QED
    BY <1>9, <2>2, Zenon
<1>11. ASSUME NEW i \in 1 .. Len(l) PROVE Wire(name)[p + 1 + i] = l[i]
  <2>1. /\ i + 1 \in 1 .. Len(e) /\ i + 1 \in 1 .. Len(x)
        /\ Len(w) + (i + 1) = p + 1 + i
    BY <1>4, <1>7, <1>9
  <2>2. (w \o x)[Len(w) + (i + 1)] = x[i + 1] /\ x[i + 1] = e[i + 1] /\ e[i + 1] = l[i]
    BY <1>4, <1>7, <1>8, <2>1
  <2> QED
    BY <1>9, <2>1, <2>2, Zenon
<1>12. Len(Wire(Before(name, j + 1))) = p + 1 + Len(l)
  BY <1>5, <1>16, Zenon
<1>13. p + 1 + Len(l) <= Len(Wire(name))
  BY <1>9, <1>16, Zenon
<1> QED
  BY <1>1, <1>9, <1>10, <1>11, <1>12, <1>13

(* A name that is not the root takes at least two octets.                  *)
LEMMA WireLong ==
  ASSUME NEW name \in Seq(Labels), name # << >>
  PROVE  Len(Wire(name)) >= 2
<1>1. 1 \in 1 .. Len(name) /\ Len(name) \in Nat
  OBVIOUS
<1> DEFINE p == Len(Wire(Before(name, 1)))
           size == Len(name[1])
<1>3. p \in Nat /\ name[1] \in Labels /\ p + 1 + size <= Len(Wire(name))
  BY <1>1, LabelStands
<1>4. size \in 1 .. 63
  BY <1>3, LabelIs
<1>5. Len(Wire(name)) \in Nat
  BY WireTyped
<1> HIDE DEF p, size
<1> QED
  BY <1>3, <1>4, <1>5

(* The text of the labels from j on.                                       *)
LEMMA DottedFrom ==
  ASSUME NEW name \in Seq(Labels), NEW j \in 1 .. Len(name)
  PROVE  Dotted(From(name, j)) = Dots[name[j]] \o Dotted(From(name, j + 1))
<1> DEFINE one == <<name[j]>>
           t == From(name, j + 1)
<1>1. name[j] \in Labels /\ j + 1 \in 1 .. Len(name) + 1
  OBVIOUS
<1>2. one \in Seq(Labels) /\ t \in Seq(Labels) /\ From(name, j) = one \o t
  BY <1>1, Parts, Parted
<1>3. Dotted(one) = Dots[name[j]]
  BY <1>1, WireOne
<1> HIDE DEF one, t
<1>4. Dotted(one \o t) = Dotted(one) \o Dotted(t)
  BY <1>2, WireConcat
<1> QED
  BY <1>2, <1>3, <1>4, Zenon DEF t

LEMMA FromEnd ==
  ASSUME NEW S, NEW name \in Seq(S)
  PROVE  From(name, Len(name) + 1) = << >> /\ Before(name, Len(name) + 1) = name
<1>1. Len(name) \in Nat /\ (Len(name) + 1) - 1 = Len(name)
  OBVIOUS
<1>2. SubSeq(name, 1, Len(name)) = name
  BY SubSeqFull
<1>3. SubSeq(name, Len(name) + 1, Len(name)) = << >>
  BY <1>1, SubSeqEmpty
<1> QED
  BY <1>1, <1>2, <1>3 DEF From, Before

(* The second half of ReadName turns a written name into its text.         *)
LEMMA UndotIs ==
  ASSUME NEW name \in Seq(Labels), name # << >>
  PROVE  Undot(Wire(name)) = Dotted(name)
<1> DEFINE oct == Wire(name)
           P == [p \in DOMAIN oct |->
                   IF p + oct[p] > Len(oct) THEN <<Lost>>
                   ELSE Append(SubSeq(oct, p + 1, p + oct[p]), Dot)]
           N == [p \in DOMAIN oct |-> p + oct[p] + 1]
           start(j) == Len(Wire(Before(name, j))) + 1
           Good(n, j) == Follow(P, N, n)[start(j)] = Dotted(From(name, j))
           T == {n \in Nat : \A j \in 1 .. Len(name) : Len(oct) - start(j) <= n => Good(n, j)}
<1>1. oct \in Seq(Written) /\ Len(oct) \in Nat /\ Len(oct) >= 2
  BY WireTyped, WireLong
<1>2. DOMAIN P = 1 .. Len(oct)
  BY <1>1
<1>3. ASSUME NEW j \in 1 .. Len(name)
      PROVE  /\ start(j) \in 1 .. Len(oct) /\ start(j + 1) \in start(j) + 2 .. Len(oct) + 1
             /\ P[start(j)] = Dots[name[j]] /\ N[start(j)] = start(j + 1)
  <2> DEFINE p == Len(Wire(Before(name, j)))
             l == name[j]
  <2>1. /\ p \in Nat /\ l \in Labels /\ Len(Wire(Before(name, j + 1))) = p + 1 + Len(l)
        /\ p + 1 + Len(l) <= Len(oct) /\ oct[p + 1] = Len(l)
        /\ \A i \in 1 .. Len(l) : oct[p + 1 + i] = l[i]
    BY LabelStands
  <2>2. /\ l \in Seq(Written) /\ Len(l) \in 1 .. 63
    BY <2>1, LabelIs
  <2>3. Dots[l] = Append(l, Dot)
    BY <2>1 DEF Dots
  <2>4. start(j) = p + 1 /\ start(j + 1) = p + 1 + Len(l) + 1
    BY <2>1
  <2> HIDE DEF oct, p, l
  <2>5. start(j) \in 1 .. Len(oct) /\ start(j + 1) \in start(j) + 2 .. Len(oct) + 1
    <3> DEFINE size == Len(l)
               all == Len(oct)
    <3>1. /\ p \in Nat /\ p + 1 + size <= all /\ size \in 1 .. 63 /\ all \in Nat
          /\ start(j) = p + 1 /\ start(j + 1) = p + 1 + size + 1
      BY <1>1, <2>1, <2>2, <2>4
    <3> HIDE DEF size, all, start
    <3>2. start(j) \in 1 .. all /\ start(j + 1) \in start(j) + 2 .. all + 1
      BY <3>1
    <3> QED
      BY <3>2 DEF all
  <2>6. SubSeq(oct, p + 1 + 1, p + 1 + Len(l)) = l
    <3> DEFINE s == SubSeq(oct, p + 1 + 1, p + 1 + Len(l))
    <3>1. /\ p + 1 + 1 \in Nat \ {0} /\ p + 1 + Len(l) \in 0 .. Len(oct)
          /\ p + 1 + 1 <= (p + 1 + Len(l)) + 1 /\ (p + 1 + Len(l)) - (p + 1 + 1) + 1 = Len(l)
      BY <1>1, <2>1, <2>2
    <3>2. /\ s \in Seq(Written) /\ Len(s) = Len(l)
          /\ \A i \in 1 .. Len(s) : s[i] = oct[p + 1 + 1 + i - 1]
      BY <1>1, <3>1, Pieces
    <3> HIDE DEF s
    <3>3. ASSUME NEW i \in 1 .. Len(s) PROVE s[i] = l[i]
      <4>1. p + 1 + 1 + i - 1 = p + 1 + i /\ i \in 1 .. Len(l)
        BY <2>1, <3>2
      <4>2. s[i] = oct[p + 1 + 1 + i - 1] /\ oct[p + 1 + i] = l[i]
        BY <2>1, <3>2, <4>1
      <4> QED
        BY <4>1, <4>2, Zenon
    <3>4. s = l
      BY <2>2, <3>2, <3>3, SeqEqual
    <3> QED
      BY <3>4 DEF s
  <2>7. P[p + 1] = Append(SubSeq(oct, p + 1 + 1, p + 1 + oct[p + 1]), Dot)
    <3>1. ~ (p + 1 + oct[p + 1] > Len(oct))
      BY <1>1, <2>1, <2>2
    <3> QED
      BY <1>2, <2>4, <2>5, <3>1
  <2>8. N[p + 1] = p + 1 + oct[p + 1] + 1
    BY <1>1, <2>4, <2>5
  <2> HIDE DEF P, N, start
  <2> QED
    BY <2>1, <2>3, <2>4, <2>5, <2>6, <2>7, <2>8, Zenon DEF l
<1>4. start(Len(name) + 1) = Len(oct) + 1 /\ Dotted(From(name, Len(name) + 1)) = << >>
  BY FromEnd, WireEmpty
<1>5. ASSUME NEW j \in 1 .. Len(name)
      PROVE  /\ Dotted(From(name, j)) = Dots[name[j]] \o Dotted(From(name, j + 1))
             /\ Dots[name[j]] \in Seq(Written)
  <2>1. name[j] \in Labels
    OBVIOUS
  <2> QED
    BY <2>1, DottedFrom, DotsAre
<1>6. ASSUME NEW n \in Nat, NEW j \in 1 .. Len(name)
      PROVE  Follow(P, N, n)[start(j)] =
               Dots[name[j]] \o (IF start(j + 1) \notin 1 .. Len(oct) THEN << >>
                                 ELSE IF n = 0 THEN <<Lost>>
                                 ELSE Follow(P, N, n - 1)[start(j + 1)])
  <2> DEFINE x == start(j)
  <2> HIDE DEF P, N, start
  <2>1. x \in DOMAIN P
    BY <1>2, <1>3
  <2> HIDE DEF x
  <2>2. Follow(P, N, n)[x] = P[x] \o Onward(P, N, n, x)
    BY <2>1, FollowIs, Zenon
  <2> QED
    BY <1>2, <1>3, <2>2, Zenon DEF x, Onward
<1> HIDE DEF P, N, start, oct
<1>7. Len(name) \in Nat /\ 1 \in 1 .. Len(name)
  OBVIOUS
<1>8. ASSUME NEW n \in Nat, NEW j \in 1 .. Len(name), Len(oct) - start(j) <= n,
             j < Len(name) => n > 0 /\ Good(n - 1, j + 1)
      PROVE  Good(n, j)
  <2>1. CASE j = Len(name)
    <3>1. start(j + 1) \notin 1 .. Len(oct)
      BY <1>1, <1>4, <2>1
    <3>2. Follow(P, N, n)[start(j)] = Dots[name[j]] \o << >>
      BY <1>6, <3>1
    <3>3. Dotted(From(name, j)) = Dots[name[j]] \o << >>
      BY <1>4, <1>5, <2>1, Zenon
    <3> QED
      BY <3>2, <3>3, Zenon
  <2>2. CASE j # Len(name)
    <3>1. j < Len(name) /\ j + 1 \in 1 .. Len(name)
      BY <1>7, <2>2
    <3>2. start(j + 1) \in 1 .. Len(oct) /\ n # 0
      BY <1>3, <1>8, <3>1
    <3>3. Follow(P, N, n)[start(j)] = Dots[name[j]] \o Follow(P, N, n - 1)[start(j + 1)]
      BY <1>6, <3>2
    <3>4. Good(n - 1, j + 1)
      BY <1>8, <3>1
    <3> QED
      BY <1>5, <3>3, <3>4, Zenon
  <2> QED
    BY <2>1, <2>2
<1> HIDE DEF Good
<1>9. 0 \in T
  <2> SUFFICES ASSUME NEW j \in 1 .. Len(name), Len(oct) - start(j) <= 0 PROVE Good(0, j)
    OBVIOUS
  <2>1. start(j) \in 1 .. Len(oct) /\ start(j + 1) \in start(j) + 2 .. Len(oct) + 1
    BY <1>3
  <2> QED
    BY <1>1, <2>1
<1>10. ASSUME NEW n \in T PROVE n + 1 \in T
  <2> SUFFICES ASSUME NEW j \in 1 .. Len(name), Len(oct) - start(j) <= n + 1
               PROVE  Good(n + 1, j)
    OBVIOUS
  <2>1. n \in Nat /\ n + 1 \in Nat /\ n + 1 > 0 /\ (n + 1) - 1 = n
    OBVIOUS
  <2>2. ASSUME j < Len(name) PROVE Good((n + 1) - 1, j + 1)
    <3>1. j + 1 \in 1 .. Len(name)
      BY <1>7, <2>2
    <3>2. Len(oct) - start(j + 1) <= n
      BY <1>1, <1>3, <2>1
    <3> QED
      BY <2>1, <3>1, <3>2
  <2> QED
    BY <1>8, <2>1, <2>2
<1>11. T \in SUBSET Nat
  OBVIOUS
<1> HIDE DEF T
<1>12. T = Nat
  BY <1>9, <1>10, <1>11, Induct
<1>13. Good(Len(oct), 1)
  <2>1. Len(oct) \in T /\ start(1) \in 1 .. Len(oct)
    BY <1>1, <1>3, <1>7, <1>12
  <2> QED
    BY <1>1, <1>7, <2>1 DEF T
<1>14. start(1) = 1 /\ From(name, 1) = name
  <2>1. Before(name, 1) = << >>
    BY SubSeqEmpty DEF Before
  <2>2. Wire(<< >>) = << >>
    BY WireEmpty
  <2>3. From(name, 1) = name
    BY SubSeqFull DEF From
  <2> QED
    BY <2>1, <2>2, <2>3 DEF start
<1>15. Follow(P, N, Len(oct))[1] = Dotted(name)
  BY <1>13, <1>14, Zenon DEF Good
<1>16. oct # << >>
  BY <1>1
<1> QED
  BY <1>15, <1>16, Zenon DEF Undot, P, N, oct

-----------------------------------------------------------------------------
(* A sequence is one over the set that its members are in.                 *)
LEMMA Narrowed ==
  ASSUME NEW S, NEW T, NEW s \in Seq(S)
  PROVE  /\ \A i \in 1 .. Len(s) : s[i] \in S
         /\ (\A i \in 1 .. Len(s) : s[i] \in T) => s \in Seq(T)
OBVIOUS

(* The octets of a written name, when those of its labels and the numbers  *)
(* that lengths can be are among W.                                        *)
Within(name, W) == \A i \in 1 .. Len(name) : name[i] \in Seq(W)

LEMMA WireWithin ==
  ASSUME NEW W, 1 .. 63 \subseteq W, NEW name \in Seq(Labels), Within(name, W)
  PROVE  Wire(name) \in Seq(W)
<1> DEFINE L == {l \in Labels : l \in Seq(W)}
           f == [l \in L |-> <<Len(l)>> \o l]
<1>1. ASSUME NEW l \in L PROVE f[l] \in Seq(W)
  <2>1. l \in Seq(W) /\ Len(l) \in W
    BY LabelIs
  <2>2. <<Len(l)>> \in Seq(W)
    BY <2>1, One
  <2> QED
    BY <2>1, <2>2
<1>2. Maps(f, L, W)
  BY <1>1 DEF Maps
<1>3. \A i \in 1 .. Len(name) : name[i] \in L
  <2>1. \A i \in 1 .. Len(name) : name[i] \in Labels
    BY Narrowed, Zenon
  <2> QED
    BY <2>1, Zenon DEF Within
<1> HIDE DEF L
<1>4. name \in Seq(L)
  BY <1>3, Narrowed, Zenon
<1>5. Mapped(f, name) \in Seq(W)
  <2> HIDE DEF f
  <2> QED
    BY <1>2, <1>4, MappedTyped
<1>6. \A i \in DOMAIN name : f[name[i]] = <<Len(name[i])>> \o name[i]
  <2>1. DOMAIN name = 1 .. Len(name)
    OBVIOUS
  <2> QED
    BY <1>3, <2>1, Zenon
<1> HIDE DEF f
<1>7. [i \in DOMAIN name |-> <<Len(name[i])>> \o name[i]] = Each(f, name)
  BY <1>6 DEF Each
<1> QED
  BY <1>5, <1>7 DEF Wire, Mapped

LEMMA ReadableIs ==
  ASSUME NEW name \in Seq(Labels)
  PROVE  Readable(name) <=> \A i \in 1 .. Len(name) : ToSet(name[i]) \subseteq 1 .. 191
<1>1. DOMAIN name = 1 .. Len(name)
  OBVIOUS
<1> QED
  BY <1>1 DEF Readable

LEMMA ReadableWithin ==
  ASSUME NEW name \in Seq(Labels), Readable(name)
  PROVE  Within(name, 1 .. 191)
<1> SUFFICES ASSUME NEW i \in 1 .. Len(name) PROVE name[i] \in Seq(1 .. 191)
  BY DEF Within
<1>1. ToSet(name[i]) \subseteq 1 .. 191
  BY ReadableIs
<1>2. name[i] \in Labels
  OBVIOUS
<1>3. name[i] \in Seq(Written)
  BY <1>2, LabelIs
<1>4. DOMAIN name[i] = 1 .. Len(name[i])
  BY <1>3
<1>5. \A k \in 1 .. Len(name[i]) : name[i][k] \in 1 .. 191
  BY <1>1, <1>4, Zenon DEF ToSet
<1> QED
  BY <1>3, <1>5, Narrowed, Zenon

(* The parts of a readable name are readable.                              *)
LEMMA ReadableParts ==
  ASSUME NEW name \in Seq(Labels), Readable(name), NEW j \in 1 .. Len(name) + 1
  PROVE  Readable(Before(name, j)) /\ Readable(From(name, j))
<1> DEFINE s == Before(name, j)
           t == From(name, j)
           Fine(l) == ToSet(l) \subseteq 1 .. 191
<1>1. /\ s \in Seq(Labels) /\ t \in Seq(Labels)
      /\ Len(s) = j - 1 /\ Len(t) = Len(name) + 1 - j
      /\ \A i \in 1 .. j - 1 : s[i] = name[i]
      /\ \A i \in 1 .. Len(name) + 1 - j : t[i] = name[j - 1 + i]
  BY Parted, Zenon
<1>2. \A i \in 1 .. Len(name) : Fine(name[i])
  BY ReadableIs
<1>0. Len(name) \in Nat
  OBVIOUS
<1> HIDE DEF s, t, Fine
<1>3. \A i \in 1 .. Len(s) : Fine(s[i])
  BY <1>0, <1>1, <1>2
<1>4. ASSUME NEW i \in 1 .. Len(t) PROVE Fine(t[i])
  <2>1. j - 1 + i \in 1 .. Len(name) /\ t[i] = name[j - 1 + i]
    BY <1>0, <1>1
  <2> QED
    BY <1>2, <2>1
<1>5. Readable(s) /\ Readable(t)
  BY <1>1, <1>3, <1>4, ReadableIs DEF Fine
<1> QED
  BY <1>5 DEF s, t

(* ReadName looks for no octet of a readable name.                         *)
LEMMA ReadableWire ==
  ASSUME NEW name \in Seq(Labels), Readable(name)
  PROVE  /\ Wire(name) \in Seq(1 .. 191)
         /\ \A i \in 1 .. Len(Wire(name)) : Wire(name)[i] \notin {0} \cup Pointers
<1>1. Wire(name) \in Seq(1 .. 191)
  <2>1. Within(name, 1 .. 191)
    BY ReadableWithin
  <2>2. 1 .. 63 \subseteq 1 .. 191
    OBVIOUS
  <2> QED
    BY <2>1, <2>2, WireWithin
<1>2. \A i \in 1 .. Len(Wire(name)) : Wire(name)[i] \in 1 .. 191
  BY <1>1, Narrowed, Zenon
<1>3. \A c \in 1 .. 191 : c \notin {0} \cup Pointers
  BY DEF Pointers
<1> QED
  BY <1>1, <1>2, <1>3

-----------------------------------------------------------------------------
(* Names in a message, in full or with a pointer.                          *)

(* The octets w are in b at offset o.                                      *)
Stands(b, o, w) == \A i \in 1 .. Len(w) : b[o + i] = w[i]

LEMMA SpanIs ==
  ASSUME NEW o \in Nat, NEW w \in Seq(Written), Stands(buff, o, w), Len(buff) \in Nat,
         NEW Marks, o + Len(w) + 1 <= Len(buff), buff[o + Len(w) + 1] \in Marks,
         \A i \in 1 .. Len(w) : w[i] \notin Marks
  PROVE  Span(o, Marks) = Len(w)
<1> DEFINE len == Len(w)
           all == Len(buff)
           Q(n) == /\ n \in 0 .. all - o /\ At(o + n) \in Marks
                   /\ \A m \in 0 .. n - 1 : At(o + m) \notin Marks
<1>1. len \in Nat /\ o + len + 1 <= all /\ all \in Nat /\ At(o + len) \in Marks
  BY DEF At
<1>2. ASSUME NEW m \in 0 .. len - 1 PROVE At(o + m) \notin Marks
  <2>1. m + 1 \in 1 .. Len(w) /\ o + m + 1 = o + (m + 1)
    BY <1>1
  <2>2. buff[o + (m + 1)] = w[m + 1] /\ w[m + 1] \notin Marks
    BY <2>1 DEF Stands
  <2> QED
    BY <2>1, <2>2 DEF At
<1>3. Span(o, Marks) = CHOOSE n : Q(n)
  <2>1. Span(o, Marks) = CHOOSE n \in 0 .. all - o :
                         At(o + n) \in Marks /\ \A m \in 0 .. n - 1 : At(o + m) \notin Marks
    BY DEF Span
  <2> QED
    BY <2>1
<1> HIDE DEF len, all
<1>4. Q(len)
  <2>1. len \in 0 .. all - o
    BY <1>1
  <2> QED
    BY <1>1, <1>2, <2>1
<1>5. ASSUME NEW n, Q(n) PROVE n = len
  <2>1. n \in Nat
    BY <1>1, <1>5
  <2>2. CASE n < len
    <3>1. n \in 0 .. len - 1
      BY <1>1, <2>1, <2>2
    <3> QED
      BY <1>2, <1>5, <3>1
  <2>3. CASE n > len
    <3>1. len \in 0 .. n - 1
      BY <1>1, <2>1, <2>3
    <3> QED
      BY <1>1, <1>5, <3>1
  <2> QED
    BY <1>1, <2>1, <2>2, <2>3
<1> HIDE DEF Q
<1>6. (CHOOSE n : Q(n)) = len
  BY <1>4, <1>5, Zenon
<1> QED
  BY <1>3, <1>6 DEF len

(* A name is written in b from offset o on, up to e: its labels in front   *)
(* of the j-th, and then either the end of a name or a pointer to an       *)
(* earlier offset, where K has the rest.                                   *)
MarkAt(o, name, j) == o + Len(Wire(Before(name, j)))

Ends(b, K, o, name, e, j) ==
  LET w == Wire(Before(name, j))
      q == MarkAt(o, name, j)
  IN  /\ Stands(b, o, w) /\ e <= Len(b)
      /\ \/ j = Len(name) + 1 /\ b[q + 1] = 0 /\ e = q + 1
         \/ /\ j <= Len(name) /\ e = q + 2
            /\ \E t \in 0 .. o - 1 : /\ <<t, From(name, j)>> \in K
                                     /\ b[q + 1] = 192 + t \div 256 /\ b[q + 2] = t % 256

NameAt(b, K, o, name, e) == \E j \in 1 .. Len(name) + 1 : Ends(b, K, o, name, e, j)

(* What the marks that ReadName looks for find at such a name, if it is    *)
(* readable.                                                               *)
LEMMA StopIs ==
  ASSUME NEW K, NEW o \in Nat, NEW name \in Seq(Labels), NEW e, NEW j \in 1 .. Len(name) + 1,
         Readable(name), buff \in Seq(Octets), Ends(buff, K, o, name, e, j)
  PROVE  /\ MarkAt(o, name, j) \in o .. Len(buff) - 1 /\ Stop(o) = MarkAt(o, name, j)
         /\ SubSeq(buff, o + 1, MarkAt(o, name, j)) = Wire(Before(name, j))
         /\ Count(o) = e - o /\ e \in o + 1 .. Len(buff)
<1> DEFINE w == Wire(Before(name, j))
           q == MarkAt(o, name, j)
           Marks == {0} \cup Pointers
<1>1. Before(name, j) \in Seq(Labels) /\ Len(name) \in Nat
  BY Parted
<1>2. w \in Seq(Written) /\ Len(w) \in Nat
  BY <1>1, WireTyped
<1>3. /\ Stands(buff, o, w) /\ e <= Len(buff) /\ q = o + Len(w)
      /\ \/ e = q + 1 /\ buff[q + 1] = 0
         \/ e = q + 2 /\ \E t \in 0 .. o - 1 : buff[q + 1] = 192 + t \div 256
  BY DEF Ends, MarkAt
<1> HIDE DEF w, q
<1>4. q \in Nat /\ q >= o /\ Len(buff) \in Nat
  BY <1>2, <1>3
<1>5. /\ q + 1 <= Len(buff) /\ e \in o + 1 .. Len(buff)
      /\ \/ e = q + 1 /\ buff[q + 1] = 0
         \/ e = q + 2 /\ buff[q + 1] \in Pointers
  <2>1. CASE e = q + 1 /\ buff[q + 1] = 0
    BY <1>3, <1>4, <2>1
  <2>2. CASE e = q + 2 /\ \E t \in 0 .. o - 1 : buff[q + 1] = 192 + t \div 256
    <3>1. q + 1 <= Len(buff) /\ q + 1 \in 1 .. Len(buff) /\ e \in o + 1 .. Len(buff)
      BY <1>3, <1>4, <2>2
    <3>2. buff[q + 1] \in Octets
      BY <3>1
    <3>3. PICK t \in 0 .. o - 1 : buff[q + 1] = 192 + t \div 256
      BY <2>2
    <3>4. t \div 256 >= 0
      BY <3>3
    <3>5. buff[q + 1] \in Pointers
      BY <3>2, <3>3, <3>4 DEF Octets, Pointers
    <3> QED
      BY <2>2, <3>1, <3>5
  <2> QED
    BY <1>3, <2>1, <2>2
<1>6. Span(o, Marks) = Len(w)
  <2>1. o + Len(w) + 1 <= Len(buff) /\ buff[o + Len(w) + 1] \in Marks
    BY <1>3, <1>5
  <2>2. \A i \in 1 .. Len(w) : w[i] \notin Marks
    <3>1. Readable(Before(name, j))
      BY ReadableParts
    <3> QED
      BY <1>1, <3>1, ReadableWire DEF w
  <2> HIDE DEF Marks
  <2> QED
    BY <1>2, <1>3, <1>4, <2>1, <2>2, SpanIs
<1>7. Stop(o) = q
  BY <1>3, <1>6 DEF Stop
<1>8. Count(o) = e - o
  <2>1. CASE e = q + 1 /\ buff[q + 1] = 0
    BY <1>4, <1>7, <2>1 DEF Count, At
  <2>2. CASE e = q + 2 /\ buff[q + 1] \in Pointers
    <3>1. \A c \in Pointers : c # 0
      BY DEF Pointers
    <3>2. At(Stop(o)) # 0
      BY <1>7, <2>2, <3>1 DEF At
    <3> QED
      BY <1>4, <1>7, <2>2, <3>2 DEF Count
  <2> QED
    BY <1>5, <2>1, <2>2
<1>9. SubSeq(buff, o + 1, q) = w
  <2> DEFINE s == SubSeq(buff, o + 1, q)
  <2>1. /\ o + 1 \in Nat \ {0} /\ q \in 0 .. Len(buff) /\ o + 1 <= q + 1 /\ q - (o + 1) + 1 = Len(w)
    BY <1>2, <1>3, <1>4, <1>5
  <2>2. /\ s \in Seq(Octets) /\ Len(s) = Len(w)
        /\ \A i \in 1 .. Len(s) : s[i] = buff[o + 1 + i - 1]
    BY <2>1, Pieces
  <2> HIDE DEF s
  <2>3. ASSUME NEW i \in 1 .. Len(s) PROVE s[i] = w[i]
    <3>1. i \in 1 .. Len(w) /\ o + 1 + i - 1 = o + i
      BY <1>2, <2>2
    <3>2. s[i] = buff[o + 1 + i - 1] /\ buff[o + i] = w[i]
      BY <1>3, <2>2, <3>1 DEF Stands
    <3> QED
      BY <3>1, <3>2, Zenon
  <2>4. s = w
    BY <1>2, <2>2, <2>3, SeqEqual
  <2> QED
    BY <2>4 DEF s
<1>10. q \in o .. Len(buff) - 1
  BY <1>4, <1>5
<1> QED
  BY <1>5, <1>7, <1>8, <1>9, <1>10 DEF w, q

(* The two octets of a number.                                             *)
LEMMA Divided ==
  ASSUME NEW t \in Nat
  PROVE  /\ t = 256 * (t \div 256) + (t % 256)
         /\ t \div 256 \in Nat /\ t % 256 \in Octets
<1>1. t % 256 \in Octets
  BY DEF Octets
<1>2. t \div 256 \in Nat
  OBVIOUS
<1>3. t = 256 * (t \div 256) + (t % 256)
  OBVIOUS
<1> QED
  BY <1>1, <1>2, <1>3

(* Every name that K has is in b, at its offset.                           *)
KnownAt(b, K) ==
  \A k \in K : /\ k[1] \in HeaderSize .. Len(b) - 1 /\ k[2] \in Seq(Labels) /\ k[2] # << >>
               /\ \E e \in 1 .. Len(b) : NameAt(b, K, k[1], k[2], e)

(* The first half of ReadName finds the octets of the name, through any    *)
(* number of pointers: each leads to a smaller offset.                     *)
LEMMA CollectIs ==
  ASSUME NEW o \in Nat, NEW name \in Seq(Labels), NEW e,
         Readable(name),
         buff \in Seq(Octets), KnownAt(buff, known), NameAt(buff, known, o, name, e)
  PROVE  o \in Places /\ Collect(o) = Wire(name)
<1> DEFINE all == Len(buff)
           P == [x \in Places |->
                   IF Link(x) = Lost THEN <<Lost>> ELSE SubSeq(buff, x + 1, Stop(x))]
           N == [x \in Places |-> Link(x)]
           Good(n, x, nm) == Follow(P, N, n)[x] = Wire(nm)
           T == {n \in Nat : \A x \in 0 .. n, nm \in Seq(Labels) :
                               Readable(nm) /\ (\E z : NameAt(buff, known, x, nm, z))
                                 => Good(n, x, nm)}
<1>1. all \in Nat /\ DOMAIN P = 0 .. all - 1 /\ Places = 0 .. all - 1
  BY DEF Places
<1>2. ASSUME NEW n \in Nat, NEW x \in 0 .. n, NEW nm \in Seq(Labels), NEW z,
             Readable(nm), NameAt(buff, known, x, nm, z),
             \A t \in 0 .. n - 1, r \in Seq(Labels) :
               Readable(r) /\ (\E y : NameAt(buff, known, t, r, y)) => Good(n - 1, t, r)
      PROVE  Good(n, x, nm)
  <2>1. PICK j \in 1 .. Len(nm) + 1 : Ends(buff, known, x, nm, z, j)
    BY <1>2 DEF NameAt
  <2> DEFINE w == Wire(Before(nm, j))
             q == MarkAt(x, nm, j)
             r == From(nm, j)
  <2>2. /\ q \in x .. all - 1 /\ Stop(x) = q
        /\ SubSeq(buff, x + 1, q) = w /\ z \in x + 1 .. all
    <3>1. x \in Nat
      OBVIOUS
    <3>2. /\ MarkAt(x, nm, j) \in x .. Len(buff) - 1 /\ Stop(x) = MarkAt(x, nm, j)
          /\ SubSeq(buff, x + 1, MarkAt(x, nm, j)) = Wire(Before(nm, j))
          /\ Count(x) = z - x /\ z \in x + 1 .. Len(buff)
      BY <1>2, <2>1, <3>1, StopIs
    <3> QED
      BY <3>2
  <2>3. /\ Before(nm, j) \in Seq(Labels) /\ r \in Seq(Labels) /\ Len(nm) \in Nat
        /\ Wire(nm) = w \o Wire(r)
    <3>1. Before(nm, j) \in Seq(Labels) /\ From(nm, j) \in Seq(Labels)
      BY Parted
    <3>2. Wire(nm) = Wire(Before(nm, j)) \o Wire(From(nm, j))
      BY WireSplit
    <3> QED
      BY <3>1, <3>2
  <2>4. w \in Seq(Written)
    BY <2>3, WireTyped
  <2>5. \/ j = Len(nm) + 1 /\ buff[q + 1] = 0 /\ z = q + 1
        \/ /\ j <= Len(nm) /\ z = q + 2
           /\ \E t \in 0 .. x - 1 : /\ <<t, r>> \in known
                                    /\ buff[q + 1] = 192 + t \div 256 /\ buff[q + 2] = t % 256
    BY <2>1 DEF Ends
  <2> HIDE DEF w, q, r
  <2>6. x \in 0 .. all - 1
    BY <1>1, <2>2
  <2>7. ASSUME At(q) \in {0} \cup Pointers, Link(x) # Lost
        PROVE  P[x] = w /\ N[x] = Link(x)
    BY <1>1, <2>2, <2>6, <2>7
  <2>12. ASSUME At(q) \in {0} \cup Pointers
         PROVE  Link(x) = IF At(q) = 0 THEN Nowhere
                          ELSE IF q + 1 \in Places /\ Offset(q) \in Places THEN Offset(q)
                          ELSE Lost
    <3>1. q \in x .. Len(buff) - 1
      BY <2>2
    <3>2. ~ \A y \in x .. Len(buff) - 1 : At(y) \notin {0} \cup Pointers
      BY <2>12, <3>1
    <3> QED
      BY <2>2, <3>2, Zenon DEF Link
  <2>8. Follow(P, N, n)[x] = P[x] \o Onward(P, N, n, x)
    <3>1. x \in DOMAIN P
      BY <1>1, <2>6
    <3> HIDE DEF P, N
    <3> QED
      BY <3>1, FollowIs, Zenon
  <2> HIDE DEF P, N
  <2>9. CASE j = Len(nm) + 1 /\ buff[q + 1] = 0
    <3>0. At(q) = 0
      BY <2>9 DEF At
    <3>1. Link(x) = Nowhere /\ Nowhere # Lost /\ Nowhere \notin DOMAIN P
      BY <1>1, <2>12, <3>0 DEF Nowhere, Lost
    <3>2. P[x] = w /\ N[x] = Nowhere
      BY <2>7, <3>0, <3>1
    <3>4. Follow(P, N, n)[x] = w \o << >>
      BY <2>8, <3>1, <3>2 DEF Onward
    <3>3. r = << >> /\ Wire(<< >>) = << >>
      BY <2>9, FromEnd, WireEmpty DEF r
    <3> QED
      BY <2>3, <3>3, <3>4, Zenon
  <2>10. ASSUME j <= Len(nm), z = q + 2, NEW t \in 0 .. x - 1, <<t, r>> \in known,
                buff[q + 1] = 192 + t \div 256, buff[q + 2] = t % 256
         PROVE  Good(n, x, nm)
    <3>1. t \in 0 .. n - 1 /\ t \in 0 .. all - 1 /\ n # 0 /\ t \in Nat
      BY <1>1, <2>2, <2>6
    <3>2. Readable(r) /\ \E y : NameAt(buff, known, t, r, y)
      <4> DEFINE k == <<t, r>>
      <4>1. k \in known /\ k[1] = t /\ k[2] = r
        BY <2>10
      <4> HIDE DEF k
      <4>2. \E y : NameAt(buff, known, k[1], k[2], y)
        BY <4>1 DEF KnownAt
      <4>3. Readable(r)
        BY <1>2, ReadableParts DEF r
      <4> QED
        BY <4>1, <4>2, <4>3
    <3>3. Good(n - 1, t, r)
      BY <1>2, <2>3, <3>1, <3>2
    <3>4. P[x] = w /\ N[x] = t
      <4>1. t = 256 * (t \div 256) + (t % 256) /\ t \div 256 \in Nat /\ t % 256 \in Nat
        BY <3>1, Divided DEF Octets
      <4>2. At(q) = 192 + t \div 256 /\ At(q + 1) = t % 256
        <5>1. q + 1 + 1 = q + 2
          BY <2>2
        <5> QED
          BY <2>10, <5>1 DEF At
      <4>3. At(q) # 0 /\ Offset(q) = t /\ At(q) \in Pointers
        <5>1. At(q) \in Octets
          BY <1>1, <2>2 DEF At
        <5> QED
          BY <4>1, <4>2, <5>1 DEF Offset, Octets, Pointers
      <4>4. q + 1 \in Places /\ t \in Places
        BY <1>1, <2>2, <2>10, <3>1
      <4>5. Link(x) = t /\ t # Lost
        BY <2>12, <3>1, <4>3, <4>4 DEF Lost
      <4> QED
        BY <2>7, <4>3, <4>5
    <3>5. Follow(P, N, n)[x] = w \o Follow(P, N, n - 1)[t]
      BY <1>1, <2>8, <3>1, <3>4 DEF Onward
    <3> QED
      BY <2>3, <3>3, <3>5, Zenon
  <2> QED
    BY <2>5, <2>9, <2>10
<1> HIDE DEF Good
<1>3. 0 \in T
  <2> SUFFICES ASSUME NEW x \in 0 .. 0, NEW nm \in Seq(Labels), NEW z,
                      Readable(nm), NameAt(buff, known, x, nm, z)
               PROVE  Good(0, x, nm)
    OBVIOUS
  <2>1. \A t \in 0 .. 0 - 1, r \in Seq(Labels) :
          Readable(r) /\ (\E y : NameAt(buff, known, t, r, y)) => Good(0 - 1, t, r)
    OBVIOUS
  <2> QED
    BY <1>2, <2>1
<1>4. ASSUME NEW n \in T PROVE n + 1 \in T
  <2> SUFFICES ASSUME NEW x \in 0 .. n + 1, NEW nm \in Seq(Labels), NEW z,
                      Readable(nm), NameAt(buff, known, x, nm, z)
               PROVE  Good(n + 1, x, nm)
    OBVIOUS
  <2>1. n \in Nat /\ n + 1 \in Nat /\ (n + 1) - 1 = n
    OBVIOUS
  <2>2. \A t \in 0 .. (n + 1) - 1, r \in Seq(Labels) :
          Readable(r) /\ (\E y : NameAt(buff, known, t, r, y)) => Good((n + 1) - 1, t, r)
    BY <2>1
  <2> QED
    BY <1>2, <2>1, <2>2
<1>5. T \in SUBSET Nat
  OBVIOUS
<1>6. Collect(o) = Follow(P, N, all)[o]
  BY DEF Collect
<1> HIDE DEF T
<1>7. T = Nat
  BY <1>3, <1>4, <1>5, Induct
<1>8. o \in 0 .. all - 1
  <2>1. PICK j \in 1 .. Len(name) + 1 : Ends(buff, known, o, name, e, j)
    BY DEF NameAt
  <2> DEFINE q == MarkAt(o, name, j)
  <2>2. q \in o .. Len(buff) - 1
    BY <2>1, StopIs
  <2> QED
    BY <1>1, <2>2
<1>9. Good(all, o, name)
  <2>1. all \in T
    BY <1>1, <1>7
  <2> QED
    BY <1>8, <2>1 DEF T
<1> QED
  BY <1>1, <1>6, <1>8, <1>9 DEF Good

(* So ReadName finds the text of the name, whose end Count then gives, and *)
(* what it reads is in the message and fits the room it has.               *)
LEMMA ReadNameIs ==
  ASSUME NEW o \in Nat, NEW name \in Names, NEW e,
         Readable(name),
         buff \in Seq(Octets), KnownAt(buff, known), NameAt(buff, known, o, name, e)
  PROVE  /\ ReadName(o) = Text(name) /\ Count(o) = e - o
         /\ e \in o + 1 .. Len(buff) /\ Legible(o)
<1>0. name \in Seq(Labels) /\ name # << >> /\ Len(Wire(name)) <= 254
  BY DEF Names
<1>1. o \in Places /\ Collect(o) = Wire(name)
  BY <1>0, CollectIs
<1>2. Undot(Wire(name)) = Dotted(name) /\ Text(name) = Front(Dotted(name))
  BY <1>0, UndotIs, WireIs
<1>3. ReadName(o) = Text(name)
  BY <1>1, <1>2, Zenon DEF ReadName
<1>4. PICK j \in 1 .. Len(name) + 1 : Ends(buff, known, o, name, e, j)
  BY DEF NameAt
<1>5. Count(o) = e - o /\ e \in o + 1 .. Len(buff)
  BY <1>0, <1>4, StopIs
<1>6. Legible(o)
  <2>1. /\ Wire(name) \in Seq(Written) /\ Dotted(name) \in Seq(Written)
        /\ Len(Wire(name)) \in Nat /\ Len(Wire(name)) >= 2
    BY <1>0, WireTyped, WireLong
  <2>2. Lost \notin ToSet(Wire(name)) /\ Lost \notin ToSet(Dotted(name))
    <3>1. Lost \notin Written
      BY DEF Lost, Written
    <3> QED
      BY <2>1, <3>1 DEF ToSet
  <2>3. Wire(name) # << >> /\ Len(Wire(name)) + 1 <= NameSize
    BY <1>0, <2>1 DEF NameSize
  <2> QED
    BY <1>1, <1>2, <2>2, <2>3, Zenon DEF Legible
<1> QED
  BY <1>3, <1>5, <1>6

-----------------------------------------------------------------------------
(* Writing the question: what changeToDnsNameFormat makes of a text is the *)
(* name in its wire form.                                                  *)

(* Where label j stands in the text of a name, with a dot behind it.       *)
LEMMA DotStands ==
  ASSUME NEW name \in Seq(Labels), NEW j \in 1 .. Len(name),
         NEW p, p = Len(Dotted(Before(name, j)))
  PROVE  /\ p \in Nat /\ name[j] \in Labels
         /\ Len(Dotted(Before(name, j + 1))) = p + Len(name[j]) + 1
         /\ p + Len(name[j]) + 1 <= Len(Dotted(name))
         /\ Dotted(name)[p + Len(name[j]) + 1] = Dot
         /\ \A i \in 1 .. Len(name[j]) : Dotted(name)[p + i] = name[j][i]
<1> DEFINE one == <<name[j]>>
           s == Before(name, j)
           t == From(name, j + 1)
           l == name[j]
           w == Dotted(s)
           e == Dots[l]
           z == Dotted(t)
<1>1. /\ Len(name) \in Nat /\ l \in Labels
      /\ j \in 1 .. Len(name) + 1 /\ j + 1 \in 1 .. Len(name) + 1
  OBVIOUS
<1>2. /\ one \in Seq(Labels) /\ s \in Seq(Labels) /\ t \in Seq(Labels)
      /\ From(name, j) = one \o t /\ Before(name, j + 1) = s \o one
      /\ name = s \o From(name, j)
  BY <1>1, Parts, Parted
<1>3. Dotted(one) = e
  BY <1>1, WireOne
<1>4. /\ w \in Seq(Written) /\ z \in Seq(Written) /\ e \in Seq(Written)
      /\ Len(e) = Len(l) + 1 /\ e[Len(l) + 1] = Dot /\ Len(l) \in 1 .. 63
      /\ \A i \in 1 .. Len(l) : e[i] = l[i]
  BY <1>1, <1>2, WireTyped, DotsAre, LabelIs
<1>5. Dotted(Before(name, j + 1)) = w \o e
  <2> HIDE DEF one, s, e
  <2>1. Dotted(s \o one) = Dotted(s) \o Dotted(one)
    BY <1>2, WireConcat
  <2> QED
    BY <1>2, <1>3, <2>1, Zenon
<1>6. Dotted(name) = w \o (e \o z)
  <2> HIDE DEF one, s, t, e
  <2>0. one \o t \in Seq(Labels)
    BY <1>2
  <2>1. Dotted(one \o t) = Dotted(one) \o Dotted(t)
    BY <1>2, WireConcat
  <2> DEFINE r == one \o t
  <2> HIDE DEF r
  <2>2. Dotted(s \o r) = Dotted(s) \o Dotted(r)
    BY <1>2, <2>0, WireConcat DEF r
  <2>3. name = s \o r
    BY <1>2 DEF r
  <2>4. Dotted(r) = e \o z
    BY <1>3, <2>1, Zenon DEF r
  <2> QED
    BY <2>2, <2>3, <2>4, Zenon
<1> HIDE DEF one, s, t, w, e, z
<1> DEFINE x == e \o z
<1>7. /\ x \in Seq(Written) /\ Len(x) = Len(e) + Len(z)
      /\ \A i \in 1 .. Len(e) : x[i] = e[i]
  BY <1>4, Joined
<1> HIDE DEF x
<1>8. /\ Len(w \o x) = Len(w) + Len(x)
      /\ \A i \in 1 .. Len(x) : (w \o x)[Len(w) + i] = x[i]
  <2>1. w \in Seq(Written) /\ x \in Seq(Written)
    BY <1>4, <1>7
  <2> QED
    BY <2>1, Joined
<1>14. Len(w \o e) = Len(w) + Len(e)
  BY <1>4, Joined
<1>9. p = Len(w) /\ p \in Nat /\ Dotted(name) = w \o x /\ Len(z) \in Nat
  BY <1>4, <1>6 DEF s, w, x
<1> DEFINE shorter == Len(w \o e)
           longer == Len(w \o x)
           size == Len(l)
<1>16. /\ shorter = p + size + 1 /\ p + size + 1 <= longer /\ size + 1 \in 1 .. Len(x)
       /\ size + 1 \in 1 .. Len(e) /\ Len(w) + (size + 1) = p + size + 1
  <2>1. /\ Len(e) = size + 1 /\ Len(x) = Len(e) + Len(z) /\ size \in 1 .. 63 /\ Len(w) = p
        /\ longer = p + Len(x) /\ shorter = p + Len(e) /\ p \in Nat /\ Len(z) \in Nat
    BY <1>4, <1>7, <1>8, <1>9, <1>14
  <2> HIDE DEF shorter, longer, size
  <2> QED
    BY <2>1
<1>10. Dotted(name)[p + Len(l) + 1] = Dot
  <2>2. (w \o x)[Len(w) + (size + 1)] = x[size + 1]
    BY <1>8, <1>16
  <2>3. x[size + 1] = e[size + 1] /\ e[size + 1] = Dot
    BY <1>4, <1>7, <1>16
  <2> QED
    BY <1>9, <1>16, <2>2, <2>3, Zenon
<1>11. ASSUME NEW i \in 1 .. Len(l) PROVE Dotted(name)[p + i] = l[i]
  <2>1. i \in 1 .. Len(e) /\ i \in 1 .. Len(x)
    BY <1>4, <1>7, <1>9
  <2>2. (w \o x)[Len(w) + i] = x[i] /\ x[i] = e[i] /\ e[i] = l[i]
    BY <1>4, <1>7, <1>8, <2>1
  <2> QED
    BY <1>9, <2>2, Zenon
<1>12. Len(Dotted(Before(name, j + 1))) = p + Len(l) + 1
  BY <1>5, <1>16, Zenon
<1>13. p + Len(l) + 1 <= Len(Dotted(name))
  BY <1>9, <1>16, Zenon
<1> QED
  BY <1>1, <1>9, <1>10, <1>11, <1>12, <1>13

(* What is written in a name are octets.                                   *)
LEMMA Wider == ASSUME NEW s \in Seq(Written) PROVE s \in Seq(Octets)
<1>1. \A c \in Written : c \in Octets
  BY DEF Written, Octets
<1>2. \A i \in 1 .. Len(s) : s[i] \in Written
  OBVIOUS
<1>3. \A i \in 1 .. Len(s) : s[i] \in Octets
  BY <1>1, <1>2
<1> QED
  BY <1>3

(* changeToDnsNameFormat writes the text of a name in the name's wire      *)
(* form, if no label has a dot.                                            *)
Undotted(name) == \A j \in 1 .. Len(name) : \A i \in 1 .. Len(name[j]) : name[j][i] # Dot

LEMMA ToDnsIs ==
  ASSUME NEW name \in Seq(Labels), name # << >>, Undotted(name)
  PROVE  ToDnsNameFormat(Text(name)) = Wire(name) \o <<0>>
<1> DEFINE D == Dotted(name)
           lock(i) == SelectLastInSubSeq(D, 1, i - 1, LAMBDA c : c = Dot)
           piece(i) == SubSeq(D, lock(i) + 1, i - 1)
           V == [i \in DOMAIN D |->
                   IF D[i] = Dot THEN <<Len(piece(i)) % 256>> \o piece(i) ELSE << >>]
           end(j) == Len(Dotted(Before(name, j)))
           N == Len(name)
<1>1. D \in Seq(Written) /\ N \in Nat /\ 1 \in 1 .. N /\ N \in 1 .. N
  BY WireTyped
<1>2. ASSUME NEW j \in 1 .. N
      PROVE  /\ end(j) \in Nat /\ name[j] \in Labels
             /\ end(j + 1) = end(j) + Len(name[j]) + 1 /\ end(j + 1) <= Len(D)
             /\ D[end(j + 1)] = Dot
             /\ \A i \in 1 .. Len(name[j]) : D[end(j) + i] = name[j][i]
  <2> DEFINE p == end(j)
  <2>1. /\ p \in Nat /\ name[j] \in Labels
        /\ end(j + 1) = p + Len(name[j]) + 1
        /\ p + Len(name[j]) + 1 <= Len(D)
        /\ D[p + Len(name[j]) + 1] = Dot
        /\ \A i \in 1 .. Len(name[j]) : D[p + i] = name[j][i]
    BY DotStands
  <2> HIDE DEF D, end
  <2> QED
    BY <2>1
<1>3. end(1) = 0 /\ end(N + 1) = Len(D)
  <2>1. Before(name, 1) = << >> /\ Before(name, N + 1) = name /\ Dotted(<< >>) = << >>
    BY SubSeqEmpty, FromEnd, WireEmpty DEF Before
  <2> QED
    BY <2>1
<1>4. ToDnsNameFormat(Text(name)) = FlattenSeq(V) \o <<0>>
  <2>1. Len(D) >= 1
    <3> HIDE DEF end, D
    <3>1. end(1 + 1) <= Len(D) /\ end(1 + 1) = end(1) + Len(name[1]) + 1 /\ name[1] \in Labels
      BY <1>1, <1>2
    <3>2. Len(name[1]) \in 1 .. 63
      BY <3>1, LabelIs
    <3> QED
      BY <1>1, <1>3, <3>1, <3>2
  <2>2. D[Len(D)] = Dot
    <3> HIDE DEF end, D
    <3>1. D[end(N + 1)] = Dot
      BY <1>1, <1>2
    <3> QED
      BY <1>3, <3>1
  <2>3. Text(name) = Front(D)
    BY WireIs
  <2>4. Append(Front(D), D[Len(D)]) = D
    <3> HIDE DEF D
    <3> QED
      BY <1>1, <2>1, FrontAndLast
  <2>5. Append(Text(name), Dot) = D
    BY <2>2, <2>3, <2>4, Zenon
  <2> HIDE DEF D
  <2> QED
    BY <2>5 DEF ToDnsNameFormat
<1>5. ASSUME NEW i \in 1 .. Len(D)
      PROVE  /\ lock(i) = IF {k \in 1 .. i - 1 : D[k] = Dot} # {}
                          THEN Max({k \in 1 .. i - 1 : D[k] = Dot}) ELSE 0
             /\ lock(i) \in 0 .. i - 1
  <2> DEFINE I == {k \in 1 .. i - 1 : D[k] = Dot}
  <2>1. lock(i) = IF I # {} THEN Max(I) ELSE 0
    BY DEF SelectLastInSubSeq
  <2>2. I # {} => Max(I) \in I
    <3>1. I \in SUBSET (0 .. i - 1) /\ i - 1 \in Nat
      OBVIOUS
    <3> HIDE DEF I
    <3> QED
      BY <3>1, MaxIs
  <2>3. \A k \in I : k \in 0 .. i - 1
    OBVIOUS
  <2> QED
    BY <2>1, <2>2, <2>3
<1> HIDE DEF lock
<1>6. ASSUME NEW j \in 1 .. N PROVE lock(end(j + 1)) = end(j)
  <2> DEFINE e == end(j)
             f == end(j + 1)
             size == Len(name[j])
             I == {k \in 1 .. f - 1 : D[k] = Dot}
  <2>1. /\ e \in Nat /\ f = e + size + 1 /\ f <= Len(D) /\ name[j] \in Labels
        /\ \A i \in 1 .. size : D[e + i] = name[j][i]
    BY <1>2
  <2>2. size \in 1 .. 63 /\ \A i \in 1 .. size : name[j][i] # Dot
    BY <2>1, LabelIs DEF Undotted
  <2> HIDE DEF e, f, size, D, end
  <2>3. f \in 1 .. Len(D) /\ Len(D) \in Nat
    BY <1>1, <2>1, <2>2
  <2>4. lock(f) = IF I # {} THEN Max(I) ELSE 0
    BY <1>5, <2>3
  <2>5. ASSUME NEW k \in I PROVE k <= e
    <3> SUFFICES ASSUME k > e PROVE FALSE
      BY <2>1
    <3> DEFINE i == k - e
    <3>1. i \in 1 .. size /\ k = e + i /\ D[k] = Dot
      BY <2>1, <2>2
    <3> HIDE DEF i, I
    <3>2. D[e + i] = name[j][i] /\ name[j][i] # Dot
      BY <2>1, <2>2, <3>1
    <3> QED
      BY <3>1, <3>2
  <2>6. CASE j = 1
    <3>1. e = 0
      BY <1>3, <2>6 DEF e
    <3>2. I = {}
      BY <2>5, <3>1
    <3> QED
      BY <2>4, <3>1, <3>2 DEF e, f
  <2>7. CASE j # 1
    <3> DEFINE i == j - 1
    <3>1. i \in 1 .. N /\ i + 1 = j
      BY <1>1, <2>7
    <3>2. name[i] \in Labels /\ end(i + 1) = end(i) + Len(name[i]) + 1 /\ D[end(i + 1)] = Dot
          /\ end(i) \in Nat
      <4> HIDE DEF i
      <4> QED
        BY <1>2, <3>1
    <3>3. Len(name[i]) \in 1 .. 63
      BY <3>2, LabelIs
    <3>4. e >= 1 /\ D[e] = Dot
      BY <3>1, <3>2, <3>3 DEF e
    <3>5. e \in I
      BY <2>1, <2>2, <3>4
    <3>6. I \in SUBSET (0 .. f - 1) /\ f - 1 \in Nat
      BY <2>3
    <3> HIDE DEF I
    <3>7. Max(I) \in I /\ e <= Max(I)
      BY <3>5, <3>6, MaxIs
    <3>8. Max(I) <= e
      BY <2>5, <3>7
    <3>10. Max(I) \in 0 .. f - 1
      BY <3>6, <3>7, Zenon
    <3>9. Max(I) = e
      <4> DEFINE m == Max(I)
      <4>1. m \in 0 .. f - 1 /\ m <= e /\ e <= m /\ e \in Nat
        BY <2>1, <3>7, <3>8, <3>10
      <4> HIDE DEF m
      <4>2. m = e
        BY <4>1
      <4> QED
        BY <4>2 DEF m
    <3> QED
      BY <2>4, <3>5, <3>9 DEF e, f
  <2> QED
    BY <2>6, <2>7
<1>7. V \in Seq(Seq(Octets)) /\ Len(V) = Len(D)
  <2>1. DOMAIN D = 1 .. Len(D) /\ Len(D) \in Nat
    BY <1>1
  <2>2. ASSUME NEW i \in 1 .. Len(D) PROVE <<Len(piece(i)) % 256>> \o piece(i) \in Seq(Octets)
    <3> DEFINE m == lock(i) + 1
               n == i - 1
               octet == Len(piece(i)) % 256
               one == <<octet>>
    <3>1. m \in Nat \ {0} /\ n \in 0 .. Len(D) /\ m <= n + 1
      <4>1. lock(i) \in 0 .. i - 1
        BY <1>5
      <4> HIDE DEF D
      <4> QED
        BY <2>1, <4>1
    <3>2. piece(i) = SubSeq(D, m, n)
      OBVIOUS
    <3> HIDE DEF m, n, piece, D
    <3>3. piece(i) \in Seq(Written)
      BY <1>1, <3>1, <3>2, Pieces
    <3>4. octet \in Octets
      <4>1. Len(piece(i)) \in Nat
        BY <3>3
      <4> QED
        BY <4>1, Divided
    <3>5. piece(i) \in Seq(Octets)
      BY <3>3, Wider
    <3>6. one \in Seq(Octets)
      <4> HIDE DEF octet
      <4> QED
        BY <3>4, One
    <3> HIDE DEF one
    <3>7. one \o piece(i) \in Seq(Octets)
      BY <3>5, <3>6, Joined
    <3> QED
      BY <3>7 DEF one
  <2> DEFINE W(i) == IF D[i] = Dot THEN <<Len(piece(i)) % 256>> \o piece(i) ELSE << >>
  <2>3. \A i \in 1 .. Len(D) : W(i) \in Seq(Octets)
    BY <2>2
  <2>4. V = [i \in 1 .. Len(D) |-> W(i)]
    BY <2>1
  <2> HIDE DEF W, V
  <2> QED
    BY <2>1, <2>3, <2>4
<1>8. ASSUME NEW j \in 1 .. N PROVE V[end(j + 1)] = Lengths[name[j]]
  <2> DEFINE e == end(j)
             f == end(j + 1)
             l == name[j]
             size == Len(l)
             s == SubSeq(D, e + 1, f - 1)
  <2>1. /\ e \in Nat /\ f = e + size + 1 /\ f <= Len(D) /\ l \in Labels /\ D[f] = Dot
        /\ \A i \in 1 .. size : D[e + i] = l[i]
    BY <1>2
  <2>2. size \in 1 .. 63 /\ l \in Seq(Written)
    BY <2>1, LabelIs
  <2>3. lock(f) = e
    BY <1>6
  <2>4. piece(f) = s
    BY <2>3
  <2>5. f \in DOMAIN D
    <3> HIDE DEF e, f, size, D, end
    <3> QED
      BY <1>1, <2>1, <2>2
  <2>6. V[f] = <<Len(piece(f)) % 256>> \o piece(f)
    <3> HIDE DEF f, piece, D
    <3> QED
      BY <2>1, <2>5
  <2> HIDE DEF e, f, size, D, end, l
  <2>7. s = l
    <3>1. /\ e + 1 \in Nat \ {0} /\ f - 1 \in 0 .. Len(D) /\ e + 1 <= (f - 1) + 1
          /\ (f - 1) - (e + 1) + 1 = size
      BY <1>1, <2>1, <2>2
    <3>2. /\ s \in Seq(Written) /\ Len(s) = (f - 1) - (e + 1) + 1
          /\ \A i \in 1 .. (f - 1) - (e + 1) + 1 : s[i] = D[e + 1 + i - 1]
      BY <1>1, <3>1, Pieces
    <3> HIDE DEF s
    <3>3. ASSUME NEW i \in 1 .. size PROVE s[i] = l[i]
      <4>1. i \in 1 .. (f - 1) - (e + 1) + 1 /\ e + 1 + i - 1 = e + i
        BY <2>1, <3>1
      <4>2. s[i] = D[e + 1 + i - 1] /\ D[e + i] = l[i]
        BY <2>1, <3>2, <4>1
      <4> QED
        BY <4>1, <4>2, Zenon
    <3>4. Len(s) = Len(l)
      BY <3>1, <3>2 DEF size
    <3> QED
      BY <2>2, <3>2, <3>3, <3>4, SeqEqual DEF size
  <2> HIDE DEF s, piece
  <2>8. Len(l) % 256 = Len(l)
    <3>1. \A x \in 1 .. 63 : x % 256 = x
      OBVIOUS
    <3> QED
      BY <2>2, <3>1 DEF size
  <2>9. Lengths[l] = <<Len(l)>> \o l
    BY <2>1 DEF Lengths
  <2>10. V[f] = <<Len(l) % 256>> \o l
    BY <2>4, <2>6, <2>7, Zenon
  <2> HIDE DEF V
  <2>11. V[f] = Lengths[l]
    BY <2>8, <2>9, <2>10, Zenon
  <2> QED
    BY <2>11 DEF f, l
<1>9. ASSUME NEW j \in 1 .. N, NEW i \in 1 .. Len(name[j]) PROVE V[end(j) + i] = << >>
  <2> DEFINE e == end(j)
             size == Len(name[j])
  <2>1. /\ e \in Nat /\ end(j + 1) = e + size + 1 /\ end(j + 1) <= Len(D) /\ name[j] \in Labels
        /\ D[e + i] = name[j][i]
    BY <1>2
  <2>2. size \in 1 .. 63 /\ name[j][i] # Dot
    BY <2>1, LabelIs DEF Undotted
  <2> HIDE DEF e, D, end, piece
  <2>3. e + i \in DOMAIN D
    <3> HIDE DEF size
    <3>1. i \in 1 .. size
      BY DEF size
    <3> QED
      BY <1>1, <2>1, <2>2, <3>1
  <2>4. D[e + i] # Dot
    BY <2>1, <2>2
  <2>5. V[e + i] = << >>
    BY <2>3, <2>4
  <2> QED
    BY <2>5 DEF e
<1> HIDE DEF V
<1> DEFINE Good(j) == FlattenSeq(SubSeq(V, 1, end(j))) = Wire(Before(name, j))
           T == {n \in Nat : n + 1 \in 1 .. N + 1 => Good(n + 1)}
<1>10. Good(1)
  <2>1. SubSeq(V, 1, 0) = << >>
    BY SubSeqEmpty
  <2>2. Before(name, 1) = << >>
    BY SubSeqEmpty DEF Before
  <2> HIDE DEF end
  <2> QED
    BY <1>3, <2>1, <2>2, FlattenEmpty, WireEmpty
<1>11. ASSUME NEW j \in 1 .. N, Good(j) PROVE Good(j + 1)
  <2> DEFINE e == end(j)
             f == end(j + 1)
             l == name[j]
             size == Len(l)
             a == SubSeq(V, 1, e)
             b == SubSeq(V, e + 1, f - 1)
             c == V[f]
  <2>1. /\ e \in Nat /\ f = e + size + 1 /\ f <= Len(V) /\ l \in Labels
    BY <1>2, <1>7
  <2>2. size \in 1 .. 63 /\ l \in Seq(Written)
    BY <2>1, LabelIs
  <2>3. c = Lengths[l]
    BY <1>8
  <2>4. \A i \in 1 .. size : V[e + i] = << >>
    BY <1>9
  <2> HIDE DEF e, f, l, size, end, D
  <2>5. /\ Len(V) \in Nat /\ e + 1 \in Nat \ {0} /\ f - 1 \in Nat /\ f - 1 \in 0 .. Len(V)
        /\ e <= f - 1 /\ f - 1 <= f /\ f \in Nat /\ (f - 1) + 1 = f
        /\ e \in 0 .. Len(V) /\ e + 1 <= (f - 1) + 1 /\ (f - 1) - (e + 1) + 1 = size
        /\ f \in 1 .. Len(V)
    BY <1>7, <2>1, <2>2
  <2>6. SubSeq(V, 1, f - 1) = a \o b
    <3>1. f - 1 <= Len(V)
      BY <2>5
    <3> QED
      BY <1>7, <2>1, <2>5, <3>1, SubSeqSplit
  <2>7. SubSeq(V, 1, f) = Append(SubSeq(V, 1, f - 1), c)
    BY <1>7, <2>5
  <2>8. b \in Seq(Seq(Octets)) /\ \A i \in 1 .. Len(b) : b[i] = << >>
    <3>1. /\ b \in Seq(Seq(Octets)) /\ Len(b) = (f - 1) - (e + 1) + 1
          /\ \A i \in 1 .. (f - 1) - (e + 1) + 1 : b[i] = V[e + 1 + i - 1]
      BY <1>7, <2>5, Pieces
    <3> HIDE DEF b
    <3>2. ASSUME NEW i \in 1 .. Len(b) PROVE b[i] = << >>
      <4>1. i \in 1 .. size /\ i \in 1 .. (f - 1) - (e + 1) + 1 /\ e + 1 + i - 1 = e + i
        BY <2>1, <2>5, <3>1
      <4>2. b[i] = V[e + 1 + i - 1] /\ V[e + i] = << >>
        BY <2>4, <3>1, <4>1
      <4> QED
        BY <4>1, <4>2, Zenon
    <3> QED
      BY <3>1, <3>2
  <2>9. a \in Seq(Seq(Octets))
    <3>1. 1 \in Nat \ {0} /\ 1 <= e + 1
      BY <2>1
    <3> QED
      BY <1>7, <2>5, <3>1, Pieces
  <2>10. FlattenSeq(a) = Wire(Before(name, j))
    BY <1>11 DEF e
  <2>11. c \in Seq(Octets)
    <3> HIDE DEF c
    <3>1. c \in Seq(Written)
      BY <2>1, <2>3, LengthsAre
    <3> QED
      BY <3>1, Wider
  <2> HIDE DEF a, b, c
  <2>12. FlattenSeq(b) = << >>
    BY <2>8, Empties
  <2>13. FlattenSeq(a \o b) = FlattenSeq(a) \o FlattenSeq(b)
    BY <2>8, <2>9, FlattenConcat
  <2>14. FlattenSeq(a) \o << >> = FlattenSeq(a)
    <3>1. FlattenSeq(a) \in Seq(Octets)
      BY <2>9, Flatten
    <3> QED
      BY <3>1, ConcatEmptySeq
  <2>15. FlattenSeq(a \o b) = Wire(Before(name, j))
    BY <2>10, <2>12, <2>13, <2>14, Zenon
  <2> DEFINE ab == a \o b
  <2>16. ab \in Seq(Seq(Octets))
    BY <2>8, <2>9
  <2> HIDE DEF ab
  <2>17. FlattenSeq(Append(ab, c)) = FlattenSeq(ab) \o c
    BY <2>11, <2>16, FlattenAppend
  <2>18. FlattenSeq(SubSeq(V, 1, f)) = Wire(Before(name, j)) \o Lengths[l]
    BY <2>3, <2>6, <2>7, <2>15, <2>17, Zenon DEF ab
  <2>19. Wire(Before(name, j + 1)) = Wire(Before(name, j)) \o Lengths[l]
    <3> DEFINE s == Before(name, j)
               one == <<l>>
    <3>1. s \in Seq(Labels) /\ one \in Seq(Labels) /\ Before(name, j + 1) = s \o one
      <4>1. j \in 1 .. Len(name) + 1
        OBVIOUS
      <4> QED
        BY <4>1, Parted, Parts DEF l
    <3>2. Wire(one) = Lengths[l]
      BY <2>1, WireOne
    <3> HIDE DEF s, one
    <3>3. Wire(s \o one) = Wire(s) \o Wire(one)
      BY <3>1, WireConcat
    <3> QED
      BY <3>1, <3>2, <3>3, Zenon DEF s
  <2>20. FlattenSeq(SubSeq(V, 1, f)) = Wire(Before(name, j + 1))
    BY <2>18, <2>19, Zenon
  <2> QED
    BY <2>20 DEF f
<1> HIDE DEF Good
<1>12. 0 \in T
  BY <1>10
<1>13. ASSUME NEW n \in T PROVE n + 1 \in T
  <2> SUFFICES ASSUME (n + 1) + 1 \in 1 .. N + 1 PROVE Good((n + 1) + 1)
    OBVIOUS
  <2>1. n \in Nat /\ n + 1 \in 1 .. N /\ n + 1 \in 1 .. N + 1
    BY <1>1
  <2> DEFINE j == n + 1
  <2>2. Good(j)
    BY <2>1
  <2> HIDE DEF j
  <2>3. Good(j + 1)
    BY <1>11, <2>1, <2>2 DEF j
  <2> QED
    BY <2>3 DEF j
<1>14. T \in SUBSET Nat
  OBVIOUS
<1> HIDE DEF T
<1>15. T = Nat
  BY <1>12, <1>13, <1>14, Induct
<1>16. Good(N + 1)
  <2>1. N \in T /\ N + 1 \in 1 .. N + 1
    BY <1>1, <1>15
  <2> QED
    BY <2>1 DEF T
<1>17. SubSeq(V, 1, end(N + 1)) = V /\ Before(name, N + 1) = name
  <2>1. SubSeq(V, 1, Len(V)) = V
    BY <1>7, SubSeqFull
  <2>2. end(N + 1) = Len(V)
    BY <1>3, <1>7
  <2>3. Before(name, N + 1) = name
    BY FromEnd
  <2> HIDE DEF end, D
  <2> QED
    BY <2>1, <2>2, <2>3
<1>18. FlattenSeq(V) = Wire(name)
  BY <1>16, <1>17, Zenon DEF Good
<1> QED
  BY <1>4, <1>18, Zenon

-----------------------------------------------------------------------------
(* A message grows: what is in it stays, and the names that are known with *)
(* their offsets can be pointed to from behind it.                         *)

(* Behind the header, c has what b has, and may have more.                 *)
Grows(b, c) ==
  /\ Len(b) \in Nat /\ Len(c) \in Nat /\ Len(b) <= Len(c)
  /\ \A i \in HeaderSize + 1 .. Len(b) : c[i] = b[i]

LEMMA StandsStill ==
  ASSUME NEW b, NEW c, Grows(b, c), NEW o \in Nat, o >= HeaderSize, NEW w, Len(w) \in Nat,
         Stands(b, o, w), o + Len(w) <= Len(b)
  PROVE  Stands(c, o, w)
<1>1. HeaderSize \in Nat
  BY DEF HeaderSize
<1> SUFFICES ASSUME NEW i \in 1 .. Len(w) PROVE c[o + i] = w[i]
  BY DEF Stands
<1>2. o + i \in HeaderSize + 1 .. Len(b)
  BY <1>1 DEF Grows
<1>3. c[o + i] = b[o + i] /\ b[o + i] = w[i]
  BY <1>2 DEF Grows, Stands
<1> QED
  BY <1>3, Zenon

(* A written name stays written.                                           *)
LEMMA NamesStay ==
  ASSUME NEW b, NEW c, Grows(b, c), NEW K, NEW J, K \subseteq J, NEW o \in Nat, o >= HeaderSize,
         NEW name \in Seq(Labels), NEW e, NameAt(b, K, o, name, e)
  PROVE  NameAt(c, J, o, name, e)
<1>1. PICK j \in 1 .. Len(name) + 1 : Ends(b, K, o, name, e, j)
  BY DEF NameAt
<1> DEFINE w == Wire(Before(name, j))
           q == MarkAt(o, name, j)
           rest == From(name, j)
<1>2. Len(w) \in Nat
  <2>1. Before(name, j) \in Seq(Labels)
    BY Parted
  <2> QED
    BY <2>1, WireTyped
<1>3. /\ Stands(b, o, w) /\ e <= Len(b) /\ q = o + Len(w)
      /\ \/ j = Len(name) + 1 /\ b[q + 1] = 0 /\ e = q + 1
         \/ /\ j <= Len(name) /\ e = q + 2
            /\ \E t \in 0 .. o - 1 : /\ <<t, rest>> \in K
                                     /\ b[q + 1] = 192 + t \div 256 /\ b[q + 2] = t % 256
  BY <1>1 DEF Ends, MarkAt
<1> HIDE DEF w, q, rest
<1>4. /\ q \in Nat /\ Len(b) \in Nat /\ Len(c) \in Nat /\ Len(b) <= Len(c)
      /\ \A i \in HeaderSize + 1 .. Len(b) : c[i] = b[i]
  BY <1>2, <1>3 DEF Grows
<1>5. q + 1 <= Len(b) /\ (e = q + 2 => q + 2 <= Len(b)) /\ e <= Len(c)
  BY <1>3, <1>4
<1>6. c[q + 1] = b[q + 1] /\ (e = q + 2 => c[q + 2] = b[q + 2])
  <2>1. q + 1 \in HeaderSize + 1 .. Len(b) /\ (e = q + 2 => q + 2 \in HeaderSize + 1 .. Len(b))
    BY <1>2, <1>3, <1>4, <1>5 DEF HeaderSize
  <2> QED
    BY <1>4, <2>1
<1>7. Stands(c, o, w)
  <2>1. o + Len(w) <= Len(b)
    BY <1>2, <1>3, <1>4, <1>5
  <2> QED
    BY <1>2, <1>3, <2>1, StandsStill
<1>8. /\ Stands(c, o, w) /\ e <= Len(c)
      /\ \/ j = Len(name) + 1 /\ c[q + 1] = 0 /\ e = q + 1
         \/ /\ j <= Len(name) /\ e = q + 2
            /\ \E t \in 0 .. o - 1 : /\ <<t, rest>> \in J
                                     /\ c[q + 1] = 192 + t \div 256 /\ c[q + 2] = t % 256
  <2>1. CASE j = Len(name) + 1 /\ b[q + 1] = 0 /\ e = q + 1
    BY <1>5, <1>6, <1>7, <2>1
  <2>2. CASE /\ j <= Len(name) /\ e = q + 2
             /\ \E t \in 0 .. o - 1 : /\ <<t, rest>> \in K
                                      /\ b[q + 1] = 192 + t \div 256 /\ b[q + 2] = t % 256
    <3>1. PICK t \in 0 .. o - 1 : /\ <<t, rest>> \in K
                                  /\ b[q + 1] = 192 + t \div 256 /\ b[q + 2] = t % 256
      BY <2>2
    <3>2. <<t, rest>> \in J /\ c[q + 1] = 192 + t \div 256 /\ c[q + 2] = t % 256
      BY <1>6, <2>2, <3>1
    <3> QED
      BY <1>5, <1>7, <2>2, <3>2
  <2> QED
    BY <1>3, <2>1, <2>2
<1>9. Ends(c, J, o, name, e, j)
  BY <1>8 DEF Ends, w, q, rest
<1> QED
  BY <1>9 DEF NameAt

(* A longer beginning of a name takes more octets.                         *)
Cut(name, i, j, s, r, k) ==
  /\ i \in 1 .. Len(name) + 1 /\ j \in i .. Len(name) + 1
  /\ s = Before(name, i) /\ r = From(name, i) /\ k = j - i + 1

LEMMA BeforeLonger ==
  ASSUME NEW name \in Seq(Labels), NEW i, NEW j, NEW s, NEW r, NEW k,
         Cut(name, i, j, s, r, k)
  PROVE  /\ k \in 1 .. Len(r) + 1 /\ r \in Seq(Labels) /\ Len(r) = Len(name) + 1 - i
         /\ Before(name, j) = s \o Before(r, k) /\ From(name, j) = From(r, k)
         /\ Wire(Before(name, j)) = Wire(s) \o Wire(Before(r, k))
         /\ Len(Wire(Before(name, j))) = Len(Wire(s)) + Len(Wire(Before(r, k)))
         /\ j > i => Len(Wire(Before(name, j))) >= Len(Wire(s)) + 2
<1>0. /\ i \in 1 .. Len(name) + 1 /\ j \in i .. Len(name) + 1
      /\ s = Before(name, i) /\ r = From(name, i) /\ k = j - i + 1
  BY DEF Cut
<1>1. /\ s \in Seq(Labels) /\ Len(s) = i - 1 /\ r \in Seq(Labels) /\ Len(r) = Len(name) + 1 - i
      /\ \A m \in 1 .. i - 1 : s[m] = name[m]
      /\ \A m \in 1 .. Len(name) + 1 - i : r[m] = name[i - 1 + m]
  BY <1>0, Parted
<1>2. k \in 1 .. Len(r) + 1 /\ Len(name) \in Nat
  BY <1>0, <1>1
<1> DEFINE a == Before(name, j)
           b == Before(r, k)
           c == From(name, j)
           d == From(r, k)
<1>3. /\ a \in Seq(Labels) /\ Len(a) = j - 1 /\ c \in Seq(Labels) /\ Len(c) = Len(name) + 1 - j
      /\ \A m \in 1 .. j - 1 : a[m] = name[m]
      /\ \A m \in 1 .. Len(name) + 1 - j : c[m] = name[j - 1 + m]
  <2>1. j \in 1 .. Len(name) + 1
    BY <1>0
  <2> QED
    BY <2>1, Parted
<1>4. /\ b \in Seq(Labels) /\ Len(b) = k - 1 /\ d \in Seq(Labels) /\ Len(d) = Len(r) + 1 - k
      /\ \A m \in 1 .. k - 1 : b[m] = r[m]
      /\ \A m \in 1 .. Len(r) + 1 - k : d[m] = r[k - 1 + m]
  BY <1>1, <1>2, Parted
<1> HIDE DEF a, b, c, d
<1>5. a = s \o b
  <2>1. Len(a) = Len(s) + Len(b)
    <3>1. Len(a) = j - 1 /\ Len(s) = i - 1 /\ Len(b) = k - 1
      BY <1>1, <1>3, <1>4
    <3> QED
      BY <1>0, <1>2, <3>1
  <2>2. ASSUME NEW m \in 1 .. Len(s) PROVE a[m] = s[m]
    <3>1. m \in 1 .. i - 1 /\ m \in 1 .. j - 1
      BY <1>0, <1>1
    <3> QED
      BY <1>1, <1>3, <3>1
  <2>3. ASSUME NEW m \in 1 .. Len(b) PROVE a[Len(s) + m] = b[m]
    <3>1. /\ m \in 1 .. k - 1 /\ m \in 1 .. Len(name) + 1 - i /\ i - 1 + m \in 1 .. j - 1
          /\ Len(s) + m = i - 1 + m
      <4>1. Len(s) = i - 1 /\ Len(b) = k - 1
        BY <1>1, <1>4
      <4> QED
        BY <1>0, <1>2, <4>1
    <3>2. a[i - 1 + m] = name[i - 1 + m]
      BY <1>3, <3>1
    <3>3. b[m] = r[m] /\ r[m] = name[i - 1 + m]
      BY <1>1, <1>4, <3>1
    <3> QED
      BY <3>1, <3>2, <3>3, Zenon
  <2> QED
    BY <1>1, <1>3, <1>4, <2>1, <2>2, <2>3, AreJoined, Zenon
<1>6. c = d
  <2>1. Len(c) = Len(d)
    <3>1. Len(c) = Len(name) + 1 - j /\ Len(d) = Len(r) + 1 - k /\ Len(r) = Len(name) + 1 - i
      BY <1>1, <1>3, <1>4
    <3> QED
      BY <1>0, <1>2, <3>1
  <2>2. ASSUME NEW m \in 1 .. Len(c) PROVE c[m] = d[m]
    <3>1. /\ m \in 1 .. Len(name) + 1 - j /\ m \in 1 .. Len(r) + 1 - k
          /\ k - 1 + m \in 1 .. Len(name) + 1 - i /\ i - 1 + (k - 1 + m) = j - 1 + m
      <4>1. Len(c) = Len(name) + 1 - j /\ Len(d) = Len(r) + 1 - k /\ Len(r) = Len(name) + 1 - i
        BY <1>1, <1>3, <1>4
      <4> QED
        BY <1>0, <1>2, <4>1
    <3>2. c[m] = name[j - 1 + m] /\ d[m] = r[k - 1 + m]
      BY <1>3, <1>4, <3>1
    <3>3. r[k - 1 + m] = name[i - 1 + (k - 1 + m)]
      BY <1>0, <1>1, <3>1
    <3> QED
      BY <3>1, <3>2, <3>3, Zenon
  <2> QED
    BY <1>3, <1>4, <2>1, <2>2, SeqEqual
<1>7. Wire(s \o b) = Wire(s) \o Wire(b)
  BY <1>1, <1>4, WireConcat
<1>8. Wire(s) \in Seq(Written) /\ Wire(b) \in Seq(Written)
  BY <1>1, <1>4, WireTyped
<1>9. Len(Wire(s) \o Wire(b)) = Len(Wire(s)) + Len(Wire(b))
  BY <1>8, Joined
<1>10. Wire(a) = Wire(s) \o Wire(b) /\ Len(Wire(a)) = Len(Wire(s)) + Len(Wire(b))
  BY <1>5, <1>7, <1>9, Zenon
<1>11. ASSUME j > i PROVE Len(Wire(a)) >= Len(Wire(s)) + 2
  <2>1. b # << >>
    BY <1>0, <1>2, <1>4, <1>11
  <2>2. Len(Wire(b)) >= 2
    BY <1>4, <2>1, WireLong
  <2>3. Len(Wire(b)) \in Nat /\ Len(Wire(s)) \in Nat
    BY <1>8
  <2> QED
    BY <1>10, <2>2, <2>3
<1> QED
  BY <1>1, <1>2, <1>5, <1>6, <1>10, <1>11 DEF a, b, c, d

(* Each of the rests of a written name is itself written there, up to the  *)
(* same end, as far as its labels are in front of the pointer.             *)
LEMMA RestAt ==
  ASSUME NEW b, NEW K, NEW o \in Nat, NEW name \in Seq(Labels), NEW e, NameAt(b, K, o, name, e),
         NEW i \in 1 .. Len(name), NEW p, p = o + Len(Wire(Before(name, i))), p + 2 <= e
  PROVE  NameAt(b, K, p, From(name, i), e)
<1>1. PICK j \in 1 .. Len(name) + 1 : Ends(b, K, o, name, e, j)
  BY DEF NameAt
<1> DEFINE w == Wire(Before(name, j))
           q == MarkAt(o, name, j)
           rest == From(name, j)
           s == Before(name, i)
           r == From(name, i)
           k == j - i + 1
<1>2. /\ Stands(b, o, w) /\ e <= Len(b) /\ q = o + Len(w)
      /\ \/ j = Len(name) + 1 /\ b[q + 1] = 0 /\ e = q + 1
         \/ /\ j <= Len(name) /\ e = q + 2
            /\ \E t \in 0 .. o - 1 : /\ <<t, rest>> \in K
                                     /\ b[q + 1] = 192 + t \div 256 /\ b[q + 2] = t % 256
  BY <1>1 DEF Ends, MarkAt
<1>3. s \in Seq(Labels) /\ r \in Seq(Labels) /\ Before(name, j) \in Seq(Labels)
  <2>1. i \in 1 .. Len(name) + 1
    OBVIOUS
  <2> QED
    BY <2>1, Parted
<1>4. Len(w) \in Nat /\ Len(Wire(s)) \in Nat /\ Len(name) \in Nat
  BY <1>3, WireTyped
<1>5. i <= j
  <2> SUFFICES ASSUME j < i PROVE FALSE
    BY <1>4
  <2>1. i \in j .. Len(name) + 1 /\ i > j
    BY <1>4
  <2> DEFINE kk == i - j + 1
             rr == From(name, j)
             ss == Before(name, j)
  <2>2. Len(Wire(Before(name, i))) >= Len(Wire(ss)) + 2
    <3>1. Cut(name, j, i, ss, rr, kk)
      BY <2>1 DEF Cut
    <3> HIDE DEF kk, rr, ss
    <3>2. i > j => Len(Wire(Before(name, i))) >= Len(Wire(ss)) + 2
      BY <3>1, BeforeLonger
    <3> QED
      BY <2>1, <3>2
  <2>3. p >= q + 2
    BY <1>2, <1>4, <2>2
  <2> HIDE DEF w, q, s, r, k
  <2> QED
    BY <1>2, <1>4, <2>3
<1>6. j \in i .. Len(name) + 1
  BY <1>4, <1>5
<1>7. /\ k \in 1 .. Len(r) + 1 /\ Len(r) = Len(name) + 1 - i /\ rest = From(r, k)
      /\ w = Wire(s) \o Wire(Before(r, k)) /\ Len(w) = Len(Wire(s)) + Len(Wire(Before(r, k)))
  <2>1. Cut(name, i, j, s, r, k)
    BY <1>6 DEF Cut
  <2> HIDE DEF k, s, r
  <2>2. /\ k \in 1 .. Len(r) + 1 /\ Len(r) = Len(name) + 1 - i /\ From(name, j) = From(r, k)
        /\ Wire(Before(name, j)) = Wire(s) \o Wire(Before(r, k))
        /\ Len(Wire(Before(name, j))) = Len(Wire(s)) + Len(Wire(Before(r, k)))
    <3>1. k \in 1 .. Len(r) + 1 /\ Len(r) = Len(name) + 1 - i
      <4>1. Len(r) = Len(name) + 1 - i
        BY Parted DEF r
      <4> HIDE DEF r
      <4> QED
        BY <1>4, <1>6, <4>1 DEF k
    <3>2. From(name, j) = From(r, k)
      BY <2>1, BeforeLonger
    <3>3. Wire(Before(name, j)) = Wire(s) \o Wire(Before(r, k))
      BY <2>1, BeforeLonger
    <3>4. Len(Wire(Before(name, j))) = Len(Wire(s)) + Len(Wire(Before(r, k)))
      BY <2>1, BeforeLonger
    <3> QED
      BY <3>1, <3>2, <3>3, <3>4
  <2> QED
    BY <2>2
<1> DEFINE v == Wire(Before(r, k))
           u == Wire(s)
           z == MarkAt(p, r, k)
<1>8. Before(r, k) \in Seq(Labels)
  <2> HIDE DEF r, k
  <2> QED
    BY <1>3, <1>7, Parted
<1>9. v \in Seq(Written) /\ u \in Seq(Written)
  BY <1>3, <1>8, WireTyped
<1>10. p = o + Len(u) /\ z = p + Len(v) /\ w = u \o v /\ Len(w) = Len(u) + Len(v)
  BY <1>7 DEF MarkAt
<1>11. (k = Len(r) + 1 <=> j = Len(name) + 1) /\ (k <= Len(r) <=> j <= Len(name))
  <2>1. k = j - i + 1 /\ Len(r) = Len(name) + 1 - i
    BY <1>7
  <2> HIDE DEF k, r
  <2> QED
    BY <1>4, <2>1
<1> HIDE DEF w, q, rest, s, r, k, v, u, z
<1>13. Len(u) \in Nat /\ Len(v) \in Nat /\ p \in Nat /\ q = z /\ o <= p
  BY <1>2, <1>9, <1>10
<1>14. Stands(b, p, v)
  <2> SUFFICES ASSUME NEW m \in 1 .. Len(v) PROVE b[p + m] = v[m]
    BY DEF Stands
  <2>1. (u \o v)[Len(u) + m] = v[m]
    BY <1>9, Joined
  <2>2. Len(u) + m \in 1 .. Len(w) /\ o + (Len(u) + m) = p + m
    <3>1. Len(w) = Len(u) + Len(v) /\ p = o + Len(u)
      BY <1>10
    <3> QED
      BY <1>13, <3>1
  <2>3. b[o + (Len(u) + m)] = w[Len(u) + m]
    BY <1>2, <2>2 DEF Stands
  <2> QED
    BY <1>10, <2>1, <2>2, <2>3, Zenon
<1>15. \A t \in 0 .. o - 1 : t \in 0 .. p - 1
  BY <1>13
<1>16. /\ Stands(b, p, v) /\ e <= Len(b)
       /\ \/ k = Len(r) + 1 /\ b[z + 1] = 0 /\ e = z + 1
          \/ /\ k <= Len(r) /\ e = z + 2
             /\ \E t \in 0 .. p - 1 : /\ <<t, From(r, k)>> \in K
                                      /\ b[z + 1] = 192 + t \div 256 /\ b[z + 2] = t % 256
  <2>1. CASE j = Len(name) + 1 /\ b[q + 1] = 0 /\ e = q + 1
    BY <1>2, <1>11, <1>13, <1>14, <2>1
  <2>2. CASE /\ j <= Len(name) /\ e = q + 2
             /\ \E t \in 0 .. o - 1 : /\ <<t, rest>> \in K
                                      /\ b[q + 1] = 192 + t \div 256 /\ b[q + 2] = t % 256
    <3>1. PICK t \in 0 .. o - 1 : /\ <<t, rest>> \in K
                                  /\ b[q + 1] = 192 + t \div 256 /\ b[q + 2] = t % 256
      BY <2>2
    <3>2. /\ t \in 0 .. p - 1 /\ <<t, From(r, k)>> \in K
          /\ b[z + 1] = 192 + t \div 256 /\ b[z + 2] = t % 256
      BY <1>7, <1>13, <1>15, <3>1
    <3> QED
      BY <1>2, <1>11, <1>13, <1>14, <2>2, <3>2
  <2> QED
    BY <1>2, <2>1, <2>2
<1>17. Ends(b, K, p, r, e, k)
  BY <1>16 DEF Ends, v, z
<1> QED
  BY <1>7, <1>17 DEF NameAt, r

(* So a message whose names are known can be extended by a written name.   *)
LEMMA KnownGrows ==
  ASSUME NEW b, NEW K, KnownAt(b, K), Len(b) \in Nat,
         NEW o \in Nat, o >= HeaderSize, NEW name \in Seq(Labels), NEW encoding,
         Len(encoding) \in Nat, NameAt(b, K, o, name, o + Len(encoding))
  PROVE  KnownAt(b, K \cup Occurrences(o, name, encoding))
<1> DEFINE J == K \cup Occurrences(o, name, encoding)
           e == o + Len(encoding)
<1>1. HeaderSize \in Nat /\ Len(name) \in Nat
  BY DEF HeaderSize
<1>2. e <= Len(b)
  BY DEF NameAt, Ends
<1>3. Grows(b, b) /\ K \subseteq J
  BY DEF Grows
<1> HIDE DEF J
<1>4. ASSUME NEW k \in K
      PROVE  /\ k[1] \in HeaderSize .. Len(b) - 1 /\ k[2] \in Seq(Labels) /\ k[2] # << >>
             /\ \E z \in 1 .. Len(b) : NameAt(b, J, k[1], k[2], z)
  <2>1. /\ k[1] \in HeaderSize .. Len(b) - 1 /\ k[2] \in Seq(Labels) /\ k[2] # << >>
        /\ \E z \in 1 .. Len(b) : NameAt(b, K, k[1], k[2], z)
    BY DEF KnownAt
  <2>2. PICK z \in 1 .. Len(b) : NameAt(b, K, k[1], k[2], z)
    BY <2>1
  <2>3. k[1] \in Nat /\ k[1] >= HeaderSize
    BY <1>1, <2>1
  <2>4. NameAt(b, J, k[1], k[2], z)
    BY <1>3, <2>1, <2>2, <2>3, NamesStay
  <2> QED
    BY <2>1, <2>4
<1>5. ASSUME NEW k \in Occurrences(o, name, encoding)
      PROVE  /\ k[1] \in HeaderSize .. Len(b) - 1 /\ k[2] \in Seq(Labels) /\ k[2] # << >>
             /\ \E z \in 1 .. Len(b) : NameAt(b, J, k[1], k[2], z)
  <2>1. PICK i \in 1 .. Len(name) :
          k = <<o + Len(Wire(Before(name, i))), From(name, i)>> /\ k[1] <= o + Len(encoding) - 2
    <3>1. DOMAIN name = 1 .. Len(name)
      OBVIOUS
    <3> QED
      BY <3>1 DEF Occurrences, Before, From
  <2> DEFINE p == o + Len(Wire(Before(name, i)))
             r == From(name, i)
  <2>2. k[1] = p /\ k[2] = r
    BY <2>1
  <2>3. /\ Before(name, i) \in Seq(Labels) /\ r \in Seq(Labels)
        /\ Len(r) = Len(name) + 1 - i
    <3>1. i \in 1 .. Len(name) + 1
      OBVIOUS
    <3> QED
      BY <3>1, Parted
  <2>4. Len(Wire(Before(name, i))) \in Nat
    BY <2>3, WireTyped
  <2>5. p + 2 <= e /\ e \in Nat /\ p \in Nat /\ p >= o
    BY <2>1, <2>2, <2>4
  <2>6. NameAt(b, K, p, r, e)
    <3>1. p = o + Len(Wire(Before(name, i)))
      OBVIOUS
    <3> HIDE DEF p
    <3> QED
      BY <2>5, <3>1, RestAt
  <2>7. r # << >>
    BY <1>1, <2>3
  <2> HIDE DEF p, r, e
  <2>8. p \in HeaderSize .. Len(b) - 1
    BY <1>1, <1>2, <2>5
  <2>10. e \in 1 .. Len(b)
    BY <1>1, <1>2, <2>5 DEF e
  <2>9. NameAt(b, J, p, r, e)
    BY <1>1, <1>3, <2>3, <2>5, <2>6, <2>8, NamesStay
  <2> QED
    BY <2>2, <2>3, <2>7, <2>8, <2>9, <2>10
<1>6. J = K \cup Occurrences(o, name, encoding)
  BY DEF J
<1> QED
  BY <1>4, <1>5, <1>6 DEF KnownAt

-----------------------------------------------------------------------------
(* The inductive invariant.  A message is the question, its records one    *)
(* behind the other, and the names that are known, whatever their labels   *)
(* are; of readable records as many are read as there are answers, and the *)
(* reader is in front of the next one.                                     *)

(* What the name server means by one record, and what is read of it.       *)
Records ==
  [owner : Hosts \cup Targets, type : {"A"}, data : Addresses]
    \cup [owner : Hosts \cup Targets, type : {"CNAME"}, data : Targets]

Answer(r) ==
  IF r.type = "A" THEN [name |-> Text(r.owner), type |-> 1, rdata |-> r.data]
  ELSE [name |-> Text(r.owner), type |-> 5, rdata |-> Text(r.data)]

(* Record r is in b, from offset o up to e: the owner's name, the fixed    *)
(* part from f on, and the data.                                           *)
FixedPart(b, f, r) ==
  /\ b[f + 1] = 0 /\ b[f + 2] = IF r.type = "A" THEN 1 ELSE 5
  /\ r.type = "A" => b[f + 9] = 0 /\ b[f + 10] = 4

RecordAt(b, K, o, r, e) ==
  \E f \in o .. Len(b) :
    /\ NameAt(b, K, o, r.owner, f)
    /\ FixedPart(b, f, r)
    /\ f + DataSize <= e /\ e <= Len(b)
    /\ IF r.type = "A" THEN e = f + DataSize + 4 /\ Stands(b, f + DataSize, r.data)
       ELSE NameAt(b, K, f + DataSize, r.data, e)

(* The first record is behind the question, each other behind the one      *)
(* before it.                                                              *)
Behind(name) == HeaderSize + Len(Wire(name)) + 1 + Len(Qinfo)
Begin(i) == IF i = 1 THEN Behind(asked) ELSE ends[i - 1]

(* A message has room for this much, a pointer for offsets below 16384.    *)
Room(n) == 271 + 520 * n

Question ==
  /\ asked \in Hosts
  /\ Stands(buff, HeaderSize, Wire(asked))
  /\ buff[HeaderSize + Len(Wire(asked)) + 1] = 0
  /\ Behind(asked) <= Len(buff)

Sizes ==
  /\ buff \in Seq(Octets) /\ Len(buff) <= Room(Len(meant))
  /\ meant \in Seq(Records) /\ Len(meant) <= MaxAnswers
  /\ ends \in Seq(Nat) /\ Len(ends) = Len(meant)
  /\ \A i \in 1 .. Len(ends) : ends[i] >= HeaderSize
  /\ buff[8] = Len(meant)
  /\ Len(buff) = Begin(Len(meant) + 1)

Laid == \A i \in 1 .. Len(meant) : RecordAt(buff, known, Begin(i), meant[i], ends[i])

Message == Question /\ Sizes /\ KnownAt(buff, known) /\ Laid

Read ==
  /\ Len(answers) <= Len(meant)
  /\ answers \in Seq({Answer(r) : r \in Records})
  /\ \A i \in 1 .. Len(answers) : answers[i] = Answer(meant[i])
  /\ reader = Begin(Len(answers) + 1)

Blank ==
  /\ pc = "query"
  /\ asked = << >> /\ buff = << >> /\ meant = << >> /\ ends = << >>
  /\ known = {} /\ reader = 0 /\ answers = << >> /\ aResult = << >>

(* How far readable records are read.                                      *)
Reading ==
  /\ Read
  /\ \/ pc = "parse" /\ aResult = << >>
     \/ pc = "done" /\ Len(answers) = Len(meant) /\ aResult = Recorded

IInv ==
  \/ Blank
  \/ pc = "reply" /\ Message /\ reader = 0 /\ answers = << >> /\ aResult = << >>
  \/ /\ pc \in {"parse", "done", "undefined"} /\ Message
     /\ AllReadable => Reading

-----------------------------------------------------------------------------
(* The name server's encodings.                                            *)

(* What the assumption on the constants says of names.                     *)
LEMMA NameIs ==
  ASSUME NEW name \in Names
  PROVE  name \in Seq(Labels) /\ name # << >> /\ Len(Wire(name)) <= 254
BY DEF Names

LEMMA NamesAre ==
  /\ \A name \in Hosts : name \in Names
  /\ \A name \in Targets : name \in Names
  /\ \A a \in Addresses : a \in Seq(Octets) /\ Len(a) = 4
  /\ MaxAnswers \in 0 .. 20
<1>1. /\ Hosts \cup Targets \subseteq Names
      /\ Addresses \subseteq {a \in Seq(Octets) : Len(a) = 4} /\ MaxAnswers \in 0 .. 20
  BY MessageAssumption
<1>2. \A a \in Addresses : a \in {b \in Seq(Octets) : Len(b) = 4}
  BY <1>1
<1> QED
  BY <1>1, <1>2

(* What it says of the octets of the hosts.                                *)
LEMMA HostIs ==
  ASSUME NEW h \in Hosts
  PROVE  Undotted(h) /\ Within(h, 1 .. 255)
<1>1. \A i \in DOMAIN h : ToSet(h[i]) \cap {0, Dot} = {}
  BY MessageAssumption
<1>2. h \in Seq(Labels)
  BY NamesAre, NameIs
<1>3. ASSUME NEW i \in 1 .. Len(h)
      PROVE  h[i] \in Seq(1 .. 255) /\ \A k \in 1 .. Len(h[i]) : h[i][k] # Dot
  <2> DEFINE l == h[i]
  <2>1. l \in Labels /\ i \in DOMAIN h
    BY <1>2
  <2>2. ToSet(l) \cap {0, Dot} = {}
    BY <1>1, <2>1
  <2>3. l \in Seq(Written)
    BY <2>1, LabelIs
  <2> HIDE DEF l
  <2>4. DOMAIN l = 1 .. Len(l) /\ \A k \in 1 .. Len(l) : l[k] \in Written
    BY <2>3
  <2>5. \A k \in 1 .. Len(l) : l[k] \in ToSet(l)
    BY <2>4, Zenon DEF ToSet
  <2>6. \A k \in 1 .. Len(l) : l[k] # 0 /\ l[k] # Dot
    BY <2>2, <2>5, Zenon
  <2>7. \A c \in Written : c # 0 => c \in 1 .. 255
    BY DEF Written
  <2>8. \A k \in 1 .. Len(l) : l[k] \in 1 .. 255
    BY <2>4, <2>6, <2>7, Zenon
  <2>9. l \in Seq(1 .. 255)
    BY <2>3, <2>8, Narrowed, Zenon
  <2> QED
    BY <2>6, <2>9 DEF l
<1> QED
  BY <1>3, Zenon DEF Undotted, Within

(* A name in full, with the 0 at its end, and a beginning of one with a    *)
(* pointer.                                                                *)
Full(name) == Wire(name) \o <<0>>
Pointed(name, j, t) == Wire(Before(name, j)) \o <<192 + t \div 256, t % 256>>

(* The octets of a name in full.                                           *)
LEMMA InFull ==
  ASSUME NEW name \in Names
  PROVE  /\ Full(name) \in Seq(Octets) /\ Len(Full(name)) = Len(Wire(name)) + 1
         /\ Len(Full(name)) \in 2 .. 255
         /\ \A i \in 1 .. Len(Wire(name)) : Full(name)[i] = Wire(name)[i]
         /\ Full(name)[Len(Wire(name)) + 1] = 0
<1> DEFINE w == Wire(name)
           z == <<0>>
<1>1. name \in Seq(Labels) /\ name # << >> /\ Len(w) <= 254
  BY NameIs
<1>2. w \in Seq(Written) /\ Len(w) >= 2
  BY <1>1, WireTyped, WireLong
<1>3. w \in Seq(Octets)
  BY <1>2, Wider
<1>4. z \in Seq(Octets) /\ Len(z) = 1 /\ z[1] = 0
  <2>1. 0 \in Octets
    BY DEF Octets
  <2> QED
    BY <2>1, One
<1>0. Len(w) \in Nat
  BY <1>2
<1> HIDE DEF w, z
<1>5. /\ w \o z \in Seq(Octets) /\ Len(w \o z) = Len(w) + Len(z)
      /\ \A i \in 1 .. Len(w) : (w \o z)[i] = w[i]
      /\ \A i \in 1 .. Len(z) : (w \o z)[Len(w) + i] = z[i]
  <2>1. w \in Seq(Octets) /\ z \in Seq(Octets)
    BY <1>3, <1>4
  <2> QED
    BY <2>1, Joined
<1>6. Full(name) = w \o z
  BY DEF w, z, Full
<1>7. Full(name)[Len(w) + 1] = 0
  <2>1. 1 \in 1 .. Len(z)
    BY <1>4
  <2> QED
    BY <1>4, <1>5, <1>6, <2>1
<1>8. Len(Full(name)) = Len(w) + 1 /\ Len(w) \in Nat
  BY <1>2, <1>4, <1>5, <1>6
<1>9. Len(Full(name)) \in 2 .. 255
  <2> DEFINE n == Len(w)
             f == Len(Full(name))
  <2>1. n \in Nat /\ n >= 2 /\ n <= 254 /\ f = n + 1
    BY <1>0, <1>1, <1>2, <1>8
  <2> HIDE DEF n, f
  <2>2. f \in 2 .. 255
    BY <2>1
  <2> QED
    BY <2>2 DEF f
<1> QED
  BY <1>5, <1>6, <1>7, <1>8, <1>9 DEF w

(* The pointer stands for the labels from j on, at an offset t that it can *)
(* hold; there K has them.                                                 *)
Aims(name, j, t) == name \in Names /\ j \in 1 .. Len(name) /\ t \in 0 .. 16383

(* The octets of a name with a pointer.                                    *)
LEMMA Pointing ==
  ASSUME NEW name, NEW j, NEW t, Aims(name, j, t)
  PROVE  /\ Pointed(name, j, t) \in Seq(Octets)
         /\ Len(Pointed(name, j, t)) = Len(Wire(Before(name, j))) + 2
         /\ Len(Pointed(name, j, t)) \in 2 .. 255
         /\ \A i \in 1 .. Len(Wire(Before(name, j))) :
              Pointed(name, j, t)[i] = Wire(Before(name, j))[i]
         /\ Pointed(name, j, t)[Len(Wire(Before(name, j))) + 1] = 192 + t \div 256
         /\ Pointed(name, j, t)[Len(Wire(Before(name, j))) + 2] = t % 256
<1> DEFINE w == Wire(Before(name, j))
           high == 192 + t \div 256
           low == t % 256
           z == <<high, low>>
<1>0. name \in Names /\ j \in 1 .. Len(name) /\ t \in 0 .. 16383
  BY DEF Aims
<1>1. name \in Seq(Labels) /\ name # << >> /\ Len(Wire(name)) <= 254
  BY <1>0, NameIs
<1>2. Before(name, j) \in Seq(Labels) /\ From(name, j) \in Seq(Labels) /\ From(name, j) # << >>
  <2>1. j \in 1 .. Len(name) + 1
    BY <1>0, <1>1
  <2>2. /\ Before(name, j) \in Seq(Labels) /\ From(name, j) \in Seq(Labels)
        /\ Len(From(name, j)) = Len(name) + 1 - j
    BY <1>1, <2>1, Parted
  <2> QED
    BY <1>0, <1>1, <2>2
<1>3. w \in Seq(Written) /\ Len(w) \in Nat
  BY <1>2, WireTyped
<1>4. Len(w) + 2 <= 254
  <2>1. Len(Wire(name)) = Len(w) + Len(Wire(From(name, j)))
    <3>1. j \in 1 .. Len(name) + 1
      BY <1>0, <1>1
    <3> QED
      BY <1>1, <3>1, WireSplit
  <2>2. Len(Wire(From(name, j))) >= 2 /\ Len(Wire(From(name, j))) \in Nat
    BY <1>2, WireLong, WireTyped
  <2> HIDE DEF w
  <2> QED
    BY <1>1, <1>3, <2>1, <2>2
<1>5. w \in Seq(Octets)
  BY <1>3, Wider
<1>6. high \in Octets /\ low \in Octets
  <2>1. t \in Nat /\ t \div 256 \in 0 .. 63
    BY <1>0
  <2> QED
    BY <2>1, Divided DEF Octets
<1> HIDE DEF w, high, low
<1>7. z \in Seq(Octets) /\ Len(z) = 2 /\ z[1] = high /\ z[2] = low
  BY <1>6, Two
<1> HIDE DEF z
<1>8. /\ w \o z \in Seq(Octets) /\ Len(w \o z) = Len(w) + Len(z)
      /\ \A i \in 1 .. Len(w) : (w \o z)[i] = w[i]
      /\ \A i \in 1 .. Len(z) : (w \o z)[Len(w) + i] = z[i]
  <2>1. z \in Seq(Octets)
    BY <1>7
  <2> QED
    BY <1>5, <2>1, Joined
<1>9. Pointed(name, j, t) = w \o z
  BY DEF w, z, high, low, Pointed
<1>10. Pointed(name, j, t)[Len(w) + 1] = high /\ Pointed(name, j, t)[Len(w) + 2] = low
  <2>1. 1 \in 1 .. Len(z) /\ 2 \in 1 .. Len(z)
    BY <1>7
  <2>2. (w \o z)[Len(w) + 1] = z[1] /\ (w \o z)[Len(w) + 2] = z[2]
    BY <1>8, <2>1
  <2> QED
    BY <1>7, <1>9, <2>2
<1>11. Len(Pointed(name, j, t)) = Len(w) + 2
  BY <1>7, <1>8, <1>9
<1>12. Len(Pointed(name, j, t)) \in 2 .. 255
  <2> DEFINE n == Len(w)
             f == Len(Pointed(name, j, t))
  <2>1. n \in Nat /\ n + 2 <= 254 /\ f = n + 2
    BY <1>3, <1>4, <1>11
  <2> HIDE DEF n, f
  <2>2. f \in 2 .. 255
    BY <2>1
  <2> QED
    BY <2>2 DEF f
<1> QED
  BY <1>8, <1>9, <1>10, <1>11, <1>12 DEF w, high, low

(* Where such octets stand, the name is written.                           *)
LEMMA FullAt ==
  ASSUME NEW name \in Names, NEW m, NEW K, NEW o \in Nat, Len(m) \in Nat,
         Stands(m, o, Full(name)), o + Len(Full(name)) <= Len(m)
  PROVE  NameAt(m, K, o, name, o + Len(Full(name)))
<1> DEFINE w == Wire(name)
           code == Full(name)
           j == Len(name) + 1
<1>1. name \in Seq(Labels) /\ Len(name) \in Nat
  BY NameIs
<1>2. /\ Len(code) = Len(w) + 1 /\ code[Len(w) + 1] = 0
      /\ \A i \in 1 .. Len(w) : code[i] = w[i]
  BY InFull
<1>3. Len(w) \in Nat
  BY <1>1, WireTyped
<1>4. Before(name, j) = name /\ j \in 1 .. Len(name) + 1
  BY <1>1, FromEnd
<1> HIDE DEF w, j, code
<1>5. Stands(m, o, code) /\ o + Len(code) <= Len(m)
  BY DEF code
<1>6. ASSUME NEW i \in 1 .. Len(w) PROVE m[o + i] = w[i]
  <2>1. i \in 1 .. Len(code)
    BY <1>2, <1>3
  <2>2. m[o + i] = code[i] /\ code[i] = w[i]
    BY <1>2, <1>5, <2>1 DEF Stands
  <2> QED
    BY <2>2
<1>7. m[o + Len(w) + 1] = 0
  <2>1. Len(w) + 1 \in 1 .. Len(code) /\ o + (Len(w) + 1) = o + Len(w) + 1
    BY <1>2, <1>3
  <2>2. m[o + (Len(w) + 1)] = code[Len(w) + 1]
    BY <1>5, <2>1 DEF Stands
  <2> QED
    BY <1>2, <2>1, <2>2
<1>8. Ends(m, K, o, name, o + Len(code), j)
  <2>1. MarkAt(o, name, j) = o + Len(w) /\ Wire(Before(name, j)) = w
    BY <1>4 DEF MarkAt, w
  <2>2. o + Len(code) = (o + Len(w)) + 1
    BY <1>2, <1>3
  <2> QED
    BY <1>5, <1>6, <1>7, <2>1, <2>2 DEF Ends, j, Stands
<1> QED
  BY <1>4, <1>8 DEF NameAt, code

Holds(K, t, rest) == <<t, rest>> \in K

LEMMA PointedAt ==
  ASSUME NEW name, NEW j, NEW t, Aims(name, j, t), NEW m, NEW K,
         Holds(K, t, From(name, j)), NEW o \in Nat, t < o, Len(m) \in Nat,
         Stands(m, o, Pointed(name, j, t)), o + Len(Pointed(name, j, t)) <= Len(m)
  PROVE  NameAt(m, K, o, name, o + Len(Pointed(name, j, t)))
<1> DEFINE w == Wire(Before(name, j))
           code == Pointed(name, j, t)
           q == MarkAt(o, name, j)
           rest == From(name, j)
           e == o + Len(code)
<1>0. name \in Names /\ j \in 1 .. Len(name) /\ t \in 0 .. 16383
  BY DEF Aims
<1>1. name \in Seq(Labels) /\ Len(name) \in Nat
  BY <1>0, NameIs
<1>2. j \in 1 .. Len(name) + 1 /\ j <= Len(name) /\ t \in 0 .. o - 1
  BY <1>0, <1>1
<1>3. Before(name, j) \in Seq(Labels)
  BY <1>1, <1>2, Parted
<1>4. Len(w) \in Nat
  BY <1>3, WireTyped
<1>5. /\ Len(code) = Len(w) + 2
      /\ \A i \in 1 .. Len(w) : code[i] = w[i]
      /\ code[Len(w) + 1] = 192 + t \div 256 /\ code[Len(w) + 2] = t % 256
  BY Pointing
<1>6. Stands(m, o, code) /\ e <= Len(m) /\ q = o + Len(w) /\ Holds(K, t, rest)
  BY DEF MarkAt
<1> HIDE DEF w, code, q, rest
<1>7. ASSUME NEW i \in 1 .. Len(w) PROVE m[o + i] = w[i]
  <2>1. i \in 1 .. Len(code)
    BY <1>4, <1>5
  <2>2. m[o + i] = code[i] /\ code[i] = w[i]
    BY <1>5, <1>6, <2>1 DEF Stands
  <2> QED
    BY <2>2
<1>8. m[q + 1] = 192 + t \div 256 /\ m[q + 2] = t % 256 /\ e = q + 2
  <2>1. /\ Len(w) + 1 \in 1 .. Len(code) /\ o + (Len(w) + 1) = q + 1
        /\ Len(w) + 2 \in 1 .. Len(code) /\ o + (Len(w) + 2) = q + 2
        /\ e = q + 2
    BY <1>4, <1>5, <1>6
  <2>2. m[o + (Len(w) + 1)] = code[Len(w) + 1] /\ m[o + (Len(w) + 2)] = code[Len(w) + 2]
    BY <1>6, <2>1 DEF Stands
  <2> QED
    BY <1>5, <2>1, <2>2
<1> HIDE DEF e
<1>9. /\ Stands(m, o, w) /\ e <= Len(m)
      /\ \/ j = Len(name) + 1 /\ m[q + 1] = 0 /\ e = q + 1
         \/ /\ j <= Len(name) /\ e = q + 2
            /\ \E tt \in 0 .. o - 1 : /\ <<tt, rest>> \in K
                                      /\ m[q + 1] = 192 + tt \div 256 /\ m[q + 2] = tt % 256
  <2>1. Stands(m, o, w) /\ e <= Len(m)
    BY <1>6, <1>7 DEF Stands
  <2>2. <<t, rest>> \in K
    BY <1>6 DEF Holds
  <2>3. m[q + 1] = 192 + t \div 256 /\ m[q + 2] = t % 256
    BY <1>8
  <2>4. \E tt \in 0 .. o - 1 : /\ <<tt, rest>> \in K
                              /\ m[q + 1] = 192 + tt \div 256 /\ m[q + 2] = tt % 256
    BY <1>2, <2>2, <2>3
  <2> QED
    BY <1>2, <1>8, <2>1, <2>4
<1>10. Ends(m, K, o, name, e, j)
  BY <1>9 DEF Ends, w, q, rest
<1> QED
  BY <1>2, <1>10 DEF NameAt, code, e

(* However a name is encoded behind the names that are known, it is        *)
(* written in full, or up to a pointer into what is there.                 *)
LEMMA EncodingsAre ==
  ASSUME NEW name, name \in Names, KnownAt(buff, known), Len(buff) \in Nat, Len(buff) <= 16384,
         NEW code, code \in Encodings(name)
  PROVE  \/ code = Full(name)
         \/ \E j, t : /\ Aims(name, j, t) /\ Holds(known, t, From(name, j)) /\ t < Len(buff)
                      /\ code = Pointed(name, j, t)
<1>1. name \in Seq(Labels) /\ DOMAIN name = 1 .. Len(name) /\ Len(name) \in Nat
  BY NameIs
<1>2. SUFFICES ASSUME code # Full(name)
               PROVE  \E j, t : /\ Aims(name, j, t) /\ Holds(known, t, From(name, j))
                                /\ t < Len(buff) /\ code = Pointed(name, j, t)
  OBVIOUS
<1> DEFINE K == {k \in {kn[1] : kn \in known} \X DOMAIN name :
                   <<k[1], SubSeq(name, k[2], Len(name))>> \in known}
           C(k) == Wire(SubSeq(name, 1, k[2] - 1)) \o <<192 + k[1] \div 256, k[1] % 256>>
<1>3. code \in {C(k) : k \in K}
  <2>1. Encodings(name) = {Full(name)} \cup {C(k) : k \in K}
    BY DEF Encodings, Full
  <2> HIDE DEF C, K
  <2> QED
    BY <1>2, <2>1
<1> HIDE DEF C, K
<1>4. PICK k \in K : code = C(k)
  BY <1>3
<1> DEFINE t == k[1]
           j == k[2]
<1>5. j \in 1 .. Len(name) /\ <<t, SubSeq(name, j, Len(name))>> \in known
  BY <1>1, <1>4 DEF K
<1>6. code = Pointed(name, j, t) /\ Holds(known, t, From(name, j))
  BY <1>4, <1>5 DEF C, Pointed, Holds, From, Before
<1> HIDE DEF t, j
<1>7. t \in HeaderSize .. Len(buff) - 1
  <2> DEFINE kn == <<t, From(name, j)>>
  <2>1. kn \in known
    BY <1>6 DEF Holds
  <2>2. kn[1] \in HeaderSize .. Len(buff) - 1
    BY <2>1 DEF KnownAt
  <2> QED
    BY <2>2
<1>8. HeaderSize \in Nat
  BY DEF HeaderSize
<1>9. t \in 0 .. 16383 /\ t < Len(buff)
  BY <1>7, <1>8
<1>10. Aims(name, j, t)
  BY <1>5, <1>9 DEF Aims
<1> QED
  BY <1>6, <1>9, <1>10

(* The octets of any encoding, and that it can be read behind the message. *)
LEMMA Encoded ==
  ASSUME NEW name, name \in Names, KnownAt(buff, known), Len(buff) \in Nat, Len(buff) <= 16384,
         NEW code, code \in Encodings(name)
  PROVE  code \in Seq(Octets) /\ Len(code) \in Nat /\ 2 <= Len(code) /\ Len(code) <= 255
<1>1. ASSUME NEW j, NEW t, Aims(name, j, t), code = Pointed(name, j, t)
      PROVE  code \in Seq(Octets) /\ Len(code) \in 2 .. 255
  BY <1>1, Pointing
<1>2. ASSUME code = Full(name)
      PROVE  code \in Seq(Octets) /\ Len(code) \in 2 .. 255
  BY <1>2, InFull
<1>3. code \in Seq(Octets) /\ Len(code) \in 2 .. 255
  BY <1>1, <1>2, EncodingsAre
<1> DEFINE size == Len(code)
<1>5. size \in 2 .. 255
  BY <1>3
<1> HIDE DEF size
<1>4. size \in Nat /\ 2 <= size /\ size <= 255
  BY <1>5
<1> QED
  BY <1>3, <1>4 DEF size

LEMMA EncodedAt ==
  ASSUME NEW name, name \in Names, KnownAt(buff, known), Len(buff) \in Nat, Len(buff) <= 16384,
         NEW code, code \in Encodings(name),
         NEW m, NEW o, o \in Nat, Len(buff) <= o, Len(m) \in Nat,
         Stands(m, o, code), o + Len(code) <= Len(m)
  PROVE  NameAt(m, known, o, name, o + Len(code))
<1>1. ASSUME NEW j, NEW t, Aims(name, j, t), Holds(known, t, From(name, j)), t < Len(buff),
             code = Pointed(name, j, t)
      PROVE  NameAt(m, known, o, name, o + Len(code))
  <2>1. t < o
    BY <1>1 DEF Aims
  <2> QED
    BY <1>1, <2>1, PointedAt
<1>2. CASE code = Full(name)
  BY <1>2, FullAt
<1> QED
  BY <1>1, <1>2, EncodingsAre

-----------------------------------------------------------------------------
(* A message with one record more.                                         *)

(* One message put behind another: what stands where.                      *)
LEMMA Placed ==
  ASSUME NEW b \in Seq(Octets), NEW p \in Seq(Octets), Len(b) >= HeaderSize
  PROVE  /\ b \o p \in Seq(Octets) /\ Len(b \o p) = Len(b) + Len(p) /\ Len(b \o p) >= HeaderSize
         /\ Grows(b, b \o p) /\ Stands(b \o p, Len(b), p)
<1>1. /\ b \o p \in Seq(Octets) /\ Len(b \o p) = Len(b) + Len(p)
      /\ \A i \in 1 .. Len(b) : (b \o p)[i] = b[i]
      /\ \A i \in 1 .. Len(p) : (b \o p)[Len(b) + i] = p[i]
  BY Joined
<1> DEFINE m == b \o p
<1> HIDE DEF m
<1>2. Len(b) \in Nat /\ Len(p) \in Nat /\ HeaderSize \in Nat
  BY DEF HeaderSize
<1>3. /\ m \in Seq(Octets) /\ Len(m) = Len(b) + Len(p)
      /\ \A i \in 1 .. Len(b) : m[i] = b[i]
      /\ \A i \in 1 .. Len(p) : m[Len(b) + i] = p[i]
  BY <1>1 DEF m
<1>4. Len(m) \in Nat /\ Len(b) <= Len(m) /\ Len(m) >= HeaderSize
  BY <1>2, <1>3
<1>5. Grows(b, m)
  <2>1. ASSUME NEW i \in HeaderSize + 1 .. Len(b) PROVE m[i] = b[i]
    <3>1. i \in 1 .. Len(b)
      BY <1>2
    <3> QED
      BY <1>3, <3>1
  <2> QED
    BY <1>2, <1>4, <2>1 DEF Grows
<1>6. Stands(m, Len(b), p)
  BY <1>3 DEF Stands
<1> QED
  BY <1>3, <1>4, <1>5, <1>6 DEF m

(* Growing twice, and setting the number of answers.                       *)
LEMMA GrowsOn ==
  ASSUME NEW b, NEW c, NEW d, Grows(b, c), Grows(c, d)
  PROVE  Grows(b, d)
<1>1. /\ Len(b) \in Nat /\ Len(c) \in Nat /\ Len(d) \in Nat
      /\ Len(b) <= Len(c) /\ Len(c) <= Len(d) /\ HeaderSize \in Nat
  BY DEF Grows, HeaderSize
<1>2. ASSUME NEW i \in HeaderSize + 1 .. Len(b) PROVE d[i] = b[i]
  <2>1. i \in HeaderSize + 1 .. Len(c)
    BY <1>1
  <2>2. c[i] = b[i] /\ d[i] = c[i]
    BY <2>1 DEF Grows
  <2> QED
    BY <2>2
<1> QED
  BY <1>1, <1>2 DEF Grows

LEMMA Counted ==
  ASSUME NEW m \in Seq(Octets), Len(m) >= HeaderSize, NEW v \in Octets
  PROVE  /\ [m EXCEPT ![8] = v] \in Seq(Octets) /\ Len([m EXCEPT ![8] = v]) = Len(m)
         /\ [m EXCEPT ![8] = v][8] = v /\ Grows(m, [m EXCEPT ![8] = v])
<1> DEFINE c == [m EXCEPT ![8] = v]
<1>1. Len(m) \in Nat /\ Len(m) >= 12 /\ 8 \in 1 .. Len(m)
  BY DEF HeaderSize
<1>2. c \in Seq(Octets) /\ Len(c) = Len(m) /\ c[8] = v
  BY <1>1
<1>3. \A i \in 1 .. Len(m) : i # 8 => c[i] = m[i]
  BY <1>1
<1> HIDE DEF c
<1>4. Grows(m, c)
  <2>1. ASSUME NEW i \in HeaderSize + 1 .. Len(m) PROVE c[i] = m[i]
    <3>1. i \in 1 .. Len(m) /\ i # 8
      BY DEF HeaderSize
    <3> QED
      BY <1>3, <3>1
  <2> QED
    BY <1>1, <1>2, <2>1 DEF Grows
<1> QED
  BY <1>2, <1>4 DEF c

(* A record behind a message, with the number of answers in the header.    *)
Assembles(c, b, owner, fixed, rdata, v) == c = [b \o owner \o fixed \o rdata EXCEPT ![8] = v]

LEMMA Assembled ==
  ASSUME NEW b \in Seq(Octets), NEW owner \in Seq(Octets), NEW fixed \in Seq(Octets),
         NEW rdata \in Seq(Octets), NEW v \in Octets, NEW c, Len(b) >= HeaderSize,
         Assembles(c, b, owner, fixed, rdata, v)
  PROVE  /\ c \in Seq(Octets) /\ Grows(b, c) /\ c[8] = v
         /\ Len(c) = Len(b) + Len(owner) + Len(fixed) + Len(rdata)
         /\ Len(b \o owner \o fixed \o rdata) = Len(c)
         /\ Stands(c, Len(b), owner) /\ Stands(c, Len(b) + Len(owner), fixed)
         /\ Stands(c, Len(b) + Len(owner) + Len(fixed), rdata)
<1> DEFINE m == b \o owner
           n == m \o fixed
           z == n \o rdata
<1>1. /\ m \in Seq(Octets) /\ Len(m) = Len(b) + Len(owner) /\ Len(m) >= HeaderSize
      /\ Grows(b, m) /\ Stands(m, Len(b), owner)
  BY Placed
<1> HIDE DEF m
<1>2. /\ n \in Seq(Octets) /\ Len(n) = Len(m) + Len(fixed) /\ Len(n) >= HeaderSize
      /\ Grows(m, n) /\ Stands(n, Len(m), fixed)
  BY <1>1, Placed
<1> HIDE DEF n
<1>3. /\ z \in Seq(Octets) /\ Len(z) = Len(n) + Len(rdata) /\ Len(z) >= HeaderSize
      /\ Grows(n, z) /\ Stands(z, Len(n), rdata)
  BY <1>2, Placed
<1> HIDE DEF z
<1>4. c = [z EXCEPT ![8] = v]
  BY DEF Assembles, z, n, m
<1>5. c \in Seq(Octets) /\ Len(c) = Len(z) /\ c[8] = v /\ Grows(z, c)
  BY <1>3, <1>4, Counted, Zenon
<1>6. Grows(n, c) /\ Grows(m, c) /\ Grows(b, c)
  <2>1. Grows(n, c)
    BY <1>3, <1>5, GrowsOn
  <2>2. Grows(m, c)
    BY <1>2, <2>1, GrowsOn
  <2> QED
    BY <1>1, <2>1, <2>2, GrowsOn
<1>7. /\ Len(b) \in Nat /\ Len(owner) \in Nat /\ Len(fixed) \in Nat /\ Len(rdata) \in Nat
      /\ Len(m) \in Nat /\ Len(n) \in Nat /\ Len(z) \in Nat
      /\ Len(m) >= HeaderSize /\ Len(n) >= HeaderSize
      /\ Len(m) = Len(b) + Len(owner) /\ Len(n) = Len(m) + Len(fixed)
      /\ Len(z) = Len(n) + Len(rdata)
  BY <1>1, <1>2, <1>3
<1>8. Stands(c, Len(b), owner)
  <2>1. Len(b) + Len(owner) <= Len(m)
    BY <1>7
  <2> QED
    BY <1>1, <1>6, <1>7, <2>1, StandsStill
<1>9. Stands(c, Len(m), fixed)
  <2>1. Len(m) + Len(fixed) <= Len(n)
    BY <1>7
  <2> QED
    BY <1>2, <1>6, <1>7, <2>1, StandsStill
<1>10. Stands(c, Len(n), rdata)
  <2>1. Len(n) + Len(rdata) <= Len(z)
    BY <1>7
  <2> QED
    BY <1>3, <1>5, <1>7, <2>1, StandsStill
<1>11. Len(z) = Len(b) + Len(owner) + Len(fixed) + Len(rdata)
  BY <1>7
<1>12. Len(n) = Len(b) + Len(owner) + Len(fixed)
  BY <1>7
<1>13. Len(b \o owner \o fixed \o rdata) = Len(z)
  BY DEF z, n, m
<1> QED
  BY <1>5, <1>6, <1>7, <1>8, <1>9, <1>10, <1>11, <1>12, <1>13

(* The owner and the data of a record.                                     *)
LEMMA RecordIs ==
  ASSUME NEW r \in Records
  PROVE  /\ r.owner \in Hosts \cup Targets /\ r.owner \in Names
         /\ \/ r.type = "A" /\ r.data \in Addresses /\ r.data \in Seq(Octets) /\ Len(r.data) = 4
            \/ r.type = "CNAME" /\ r.type # "A" /\ r.data \in Targets /\ r.data \in Names
<1>1. /\ r.owner \in Hosts \cup Targets
      /\ \/ r.type = "A" /\ r.data \in Addresses
         \/ r.type = "CNAME" /\ r.data \in Targets
  <2>1. CASE r \in [owner : Hosts \cup Targets, type : {"A"}, data : Addresses]
    BY <2>1
  <2>2. CASE r \in [owner : Hosts \cup Targets, type : {"CNAME"}, data : Targets]
    BY <2>2
  <2> QED
    BY <2>1, <2>2 DEF Records
<1> QED
  BY <1>1, NamesAre

(* Where a written name ends.                                              *)
LEMMA EndIs ==
  ASSUME NEW b, NEW K, NEW o \in Nat, NEW name \in Seq(Labels), NEW e, NameAt(b, K, o, name, e)
  PROVE  e \in Nat /\ e <= Len(b)
<1>1. PICK j \in 1 .. Len(name) + 1 : Ends(b, K, o, name, e, j)
  BY DEF NameAt
<1> DEFINE w == Wire(Before(name, j))
           q == MarkAt(o, name, j)
<1>2. q = o + Len(w) /\ (e = q + 1 \/ e = q + 2) /\ e <= Len(b)
  BY <1>1 DEF Ends, MarkAt
<1>3. Before(name, j) \in Seq(Labels)
  BY Parted
<1>4. Len(w) \in Nat
  BY <1>3, WireTyped
<1> HIDE DEF w, q
<1> QED
  BY <1>2, <1>4

(* What is known of a message stays known, and its records stay there.     *)
LEMMA KnownStays ==
  ASSUME NEW b, NEW c, Grows(b, c), NEW K, KnownAt(b, K)
  PROVE  KnownAt(c, K)
<1>1. Len(b) \in Nat /\ Len(c) \in Nat /\ Len(b) <= Len(c) /\ HeaderSize \in Nat
  BY DEF Grows, HeaderSize
<1>2. ASSUME NEW k \in K
      PROVE  /\ k[1] \in HeaderSize .. Len(c) - 1 /\ k[2] \in Seq(Labels) /\ k[2] # << >>
             /\ \E e \in 1 .. Len(c) : NameAt(c, K, k[1], k[2], e)
  <2>1. /\ k[1] \in HeaderSize .. Len(b) - 1 /\ k[2] \in Seq(Labels) /\ k[2] # << >>
        /\ \E e \in 1 .. Len(b) : NameAt(b, K, k[1], k[2], e)
    BY DEF KnownAt
  <2>2. PICK e \in 1 .. Len(b) : NameAt(b, K, k[1], k[2], e)
    BY <2>1
  <2>3. k[1] \in Nat /\ k[1] >= HeaderSize /\ k[1] \in HeaderSize .. Len(c) - 1 /\ e \in 1 .. Len(c)
    BY <1>1, <2>1
  <2>4. K \subseteq K
    OBVIOUS
  <2>5. NameAt(c, K, k[1], k[2], e)
    BY <2>1, <2>2, <2>3, <2>4, NamesStay
  <2> QED
    BY <2>1, <2>3, <2>5
<1> QED
  BY <1>2 DEF KnownAt

LEMMA RecordStays ==
  ASSUME NEW b, NEW c, Grows(b, c), NEW K, NEW J, K \subseteq J, NEW o \in Nat, o >= HeaderSize,
         NEW r \in Records, NEW e, RecordAt(b, K, o, r, e)
  PROVE  RecordAt(c, J, o, r, e)
<1>1. /\ Len(b) \in Nat /\ Len(c) \in Nat /\ Len(b) <= Len(c)
      /\ \A i \in HeaderSize + 1 .. Len(b) : c[i] = b[i]
  BY DEF Grows
<1>2. HeaderSize \in Nat /\ DataSize = 10
  BY DEF HeaderSize, DataSize
<1>3. PICK f \in o .. Len(b) :
        /\ NameAt(b, K, o, r.owner, f)
        /\ FixedPart(b, f, r)
        /\ f + DataSize <= e /\ e <= Len(b)
        /\ IF r.type = "A" THEN e = f + DataSize + 4 /\ Stands(b, f + DataSize, r.data)
           ELSE NameAt(b, K, f + DataSize, r.data, e)
  BY DEF RecordAt
<1>4. r.owner \in Seq(Labels)
  BY RecordIs, NameIs
<1>10. f \in Nat /\ e \in Nat
  <2>1. f \in Nat
    BY <1>3
  <2>2. CASE r.type = "A"
    BY <1>2, <1>3, <2>1, <2>2
  <2>3. CASE r.type # "A"
    <3>1. NameAt(b, K, f + DataSize, r.data, e) /\ r.data \in Seq(Labels)
      BY <1>3, <2>3, RecordIs, NameIs
    <3>2. f + DataSize \in Nat
      BY <1>2, <2>1
    <3> QED
      BY <2>1, <3>1, <3>2, EndIs
  <2> QED
    BY <2>2, <2>3
<1>5. f \in o .. Len(c) /\ f \in Nat /\ f + 10 <= e /\ e <= Len(b) /\ e <= Len(c) /\ f >= HeaderSize
  BY <1>1, <1>2, <1>3, <1>10
<1>6. NameAt(c, J, o, r.owner, f)
  BY <1>3, <1>4, NamesStay
<1>7. FixedPart(c, f, r)
  <2>1. /\ f + 1 \in HeaderSize + 1 .. Len(b) /\ f + 2 \in HeaderSize + 1 .. Len(b)
        /\ f + 9 \in HeaderSize + 1 .. Len(b) /\ f + 10 \in HeaderSize + 1 .. Len(b)
    BY <1>1, <1>2, <1>5, <1>10
  <2>2. c[f + 1] = b[f + 1] /\ c[f + 2] = b[f + 2] /\ c[f + 9] = b[f + 9] /\ c[f + 10] = b[f + 10]
    BY <1>1, <2>1
  <2>3. /\ b[f + 1] = 0 /\ b[f + 2] = (IF r.type = "A" THEN 1 ELSE 5)
        /\ (r.type = "A" => b[f + 9] = 0 /\ b[f + 10] = 4)
    BY <1>3 DEF FixedPart
  <2> QED
    BY <2>2, <2>3 DEF FixedPart
<1>8. CASE r.type = "A"
  <2>1. e = f + DataSize + 4 /\ Stands(b, f + DataSize, r.data) /\ Len(r.data) = 4
    BY <1>3, <1>8, RecordIs
  <2>2. f + DataSize \in Nat /\ f + DataSize >= HeaderSize /\ (f + DataSize) + Len(r.data) <= Len(b)
        /\ Len(r.data) \in Nat
    BY <1>1, <1>2, <1>5, <2>1
  <2>3. Stands(c, f + DataSize, r.data)
    BY <2>1, <2>2, StandsStill
  <2> QED
    BY <1>3, <1>5, <1>6, <1>7, <1>8, <2>1, <2>3 DEF RecordAt
<1>9. CASE r.type # "A"
  <2>1. NameAt(b, K, f + DataSize, r.data, e) /\ r.data \in Seq(Labels)
    BY <1>3, <1>9, RecordIs, NameIs
  <2>2. f + DataSize \in Nat /\ f + DataSize >= HeaderSize
    BY <1>2, <1>5
  <2>3. NameAt(c, J, f + DataSize, r.data, e)
    BY <2>1, <2>2, NamesStay
  <2> QED
    BY <1>3, <1>5, <1>6, <1>7, <1>9, <2>3 DEF RecordAt
<1> QED
  BY <1>8, <1>9

(* The fixed part of a record, as AddRecord writes it.                     *)
FixedOctets(type, size) ==
  <<0, IF type = "A" THEN 1 ELSE 5, 0, 1, 0, 0, 0, 60, size \div 256, size % 256>>

LEMMA FixedIs ==
  ASSUME NEW type, NEW size \in Nat, size <= 255
  PROVE  /\ FixedOctets(type, size) \in Seq(Octets) /\ Len(FixedOctets(type, size)) = DataSize
         /\ FixedOctets(type, size)[1] = 0 /\ FixedOctets(type, size)[2] = (IF type = "A" THEN 1 ELSE 5)
         /\ FixedOctets(type, size)[9] = 0 /\ FixedOctets(type, size)[10] = size
<1> DEFINE t == IF type = "A" THEN 1 ELSE 5
           high == size \div 256
           low == size % 256
<1>1. high = 0 /\ low = size
  OBVIOUS
<1>2. /\ t \in Octets /\ high \in Octets /\ low \in Octets /\ 0 \in Octets /\ 1 \in Octets
      /\ 60 \in Octets
  BY <1>1 DEF Octets
<1>3. FixedOctets(type, size) = <<0, t, 0, 1, 0, 0, 0, 60, high, low>>
  BY DEF FixedOctets
<1> HIDE DEF t, high, low
<1> DEFINE z == <<0, t, 0, 1, 0, 0, 0, 60, high, low>>
<1>4. z \in Seq(Octets) /\ Len(z) = 10 /\ z[1] = 0 /\ z[2] = t /\ z[9] = high /\ z[10] = low
  BY <1>2, Ten
<1> HIDE DEF z
<1> QED
  BY <1>1, <1>3, <1>4 DEF DataSize, t, z

(* The record that is put behind a message is there.                       *)
LEMMA NewRecord ==
  ASSUME buff \in Seq(Octets), HeaderSize <= Len(buff), Len(buff) <= 15000, KnownAt(buff, known),
         NEW r \in Records, NEW owner, owner \in Encodings(r.owner),
         NEW rdata, r.type = "A" => rdata = r.data, r.type # "A" => rdata \in Encodings(r.data),
         NEW v \in Octets, NEW c,
         Assembles(c, buff, owner, FixedOctets(r.type, Len(rdata)), rdata, v)
  PROVE  /\ c \in Seq(Octets) /\ Grows(buff, c) /\ c[8] = v
         /\ rdata \in Seq(Octets) /\ Len(rdata) \in Nat /\ 2 <= Len(rdata)
         /\ Len(buff \o owner \o FixedOctets(r.type, Len(rdata)) \o rdata) = Len(c)
         /\ Len(c) <= Len(buff) + 520 /\ Len(buff) <= Len(c) - Len(rdata)
         /\ RecordAt(c, known, Len(buff), r, Len(c))
         /\ r.type # "A" => NameAt(c, known, Len(c) - Len(rdata), r.data, Len(c))
<1> DEFINE n == Len(buff)
           size == Len(rdata)
           fixed == FixedOctets(r.type, size)
           p == n + Len(owner)
           q == p + DataSize
           all == Len(c)
<1>0. n \in Nat /\ n <= 16384 /\ HeaderSize \in Nat /\ DataSize = 10
  BY DEF HeaderSize, DataSize
<1>1. r.owner \in Names /\ owner \in Seq(Octets)
      /\ Len(owner) \in Nat /\ 2 <= Len(owner) /\ Len(owner) <= 255
  <2>1. r.owner \in Names
    BY RecordIs
  <2> QED
    BY <1>0, <2>1, Encoded
<1>2. /\ rdata \in Seq(Octets) /\ size \in Nat /\ 2 <= size /\ size <= 255
      /\ r.type = "A" => size = 4
  <2>1. CASE r.type = "A"
    <3>1. rdata = r.data /\ r.data \in Seq(Octets) /\ Len(r.data) = 4
      BY <2>1, RecordIs
    <3>2. rdata \in Seq(Octets) /\ size = 4
      BY <3>1
    <3> QED
      BY <3>2
  <2>2. CASE r.type # "A"
    <3>1. r.data \in Names /\ rdata \in Encodings(r.data)
      BY <2>2, RecordIs
    <3> QED
      BY <1>0, <2>2, <3>1, Encoded
  <2> QED
    BY <2>1, <2>2
<1>3. /\ fixed \in Seq(Octets) /\ Len(fixed) = DataSize
      /\ fixed[1] = 0 /\ fixed[2] = (IF r.type = "A" THEN 1 ELSE 5)
      /\ fixed[9] = 0 /\ fixed[10] = size
  <2>1. size \in Nat /\ size <= 255
    BY <1>2
  <2> HIDE DEF size
  <2> QED
    BY <2>1, FixedIs
<1>4. Assembles(c, buff, owner, fixed, rdata, v)
  OBVIOUS
<1> HIDE DEF size, fixed
<1>5. /\ c \in Seq(Octets) /\ Grows(buff, c) /\ c[8] = v
      /\ Len(c) = Len(buff) + Len(owner) + Len(fixed) + Len(rdata)
      /\ Len(buff \o owner \o fixed \o rdata) = Len(c)
      /\ Stands(c, Len(buff), owner) /\ Stands(c, Len(buff) + Len(owner), fixed)
      /\ Stands(c, Len(buff) + Len(owner) + Len(fixed), rdata)
  <2>1. /\ owner \in Seq(Octets) /\ fixed \in Seq(Octets) /\ rdata \in Seq(Octets)
        /\ Len(buff) >= HeaderSize
    BY <1>0, <1>1, <1>2, <1>3
  <2> HIDE DEF n, p, q, all
  <2> QED
    BY <1>4, <2>1, Assembled
<1>6. all = n + Len(owner) + 10 + size /\ Len(owner) \in Nat /\ size \in Nat /\ all \in Nat
  BY <1>0, <1>1, <1>2, <1>3, <1>5 DEF size
<1>7. /\ Stands(c, n, owner) /\ Stands(c, p, fixed) /\ Stands(c, q, rdata)
      /\ q + size = all /\ p \in Nat /\ n <= p /\ n <= q /\ q \in Nat /\ n + Len(owner) <= all
      /\ q = all - size /\ p \in n .. all
  BY <1>0, <1>3, <1>5, <1>6
<1>8. all <= n + 520
  <2> DEFINE k == Len(owner)
  <2>1. k \in Nat /\ k <= 255 /\ size \in Nat /\ size <= 255 /\ all = n + k + 10 + size
    BY <1>1, <1>2, <1>6 DEF size
  <2> HIDE DEF k, n, all
  <2> QED
    BY <1>0, <2>1
<1>9. NameAt(c, known, n, r.owner, p)
  <2>1. /\ r.owner \in Names /\ Len(buff) \in Nat /\ Len(buff) <= 16384 /\ Len(c) \in Nat
        /\ Len(buff) <= Len(buff) /\ Stands(c, Len(buff), owner) /\ Len(buff) + Len(owner) <= Len(c)
    BY <1>0, <1>1, <1>6, <1>7
  <2> HIDE DEF n, q, all
  <2>2. NameAt(c, known, Len(buff), r.owner, Len(buff) + Len(owner))
    BY <2>1, EncodedAt
  <2> QED
    BY <2>2 DEF n
<1>10. FixedPart(c, p, r)
  <2>1. /\ 1 \in 1 .. Len(fixed) /\ 2 \in 1 .. Len(fixed)
        /\ 9 \in 1 .. Len(fixed) /\ 10 \in 1 .. Len(fixed)
    BY <1>0, <1>3
  <2>2. /\ c[p + 1] = fixed[1] /\ c[p + 2] = fixed[2]
        /\ c[p + 9] = fixed[9] /\ c[p + 10] = fixed[10]
    BY <1>7, <2>1 DEF Stands
  <2> QED
    BY <1>2, <1>3, <2>2 DEF FixedPart
<1>11. CASE r.type = "A"
  <2>1. rdata = r.data /\ size = 4
    BY <1>2, <1>11
  <2>2. all = p + DataSize + 4 /\ Stands(c, p + DataSize, r.data)
    BY <1>7, <2>1
  <2>3. RecordAt(c, known, n, r, all)
    BY <1>0, <1>6, <1>7, <1>9, <1>10, <1>11, <2>2 DEF RecordAt
  <2> QED
    BY <1>2, <1>5, <1>7, <1>8, <1>11, <2>3 DEF size, fixed
<1>12. CASE r.type # "A"
  <2>1. r.data \in Names /\ rdata \in Encodings(r.data)
    BY <1>12, RecordIs
  <2>2. NameAt(c, known, q, r.data, q + Len(rdata))
    BY <1>0, <1>5, <1>6, <1>7, <2>1, EncodedAt DEF size
  <2>3. NameAt(c, known, q, r.data, all)
    BY <1>7, <2>2 DEF size
  <2>4. RecordAt(c, known, n, r, all)
    BY <1>0, <1>6, <1>7, <1>9, <1>10, <1>12, <2>3 DEF RecordAt
  <2> QED
    BY <1>2, <1>5, <1>7, <1>8, <2>3, <2>4 DEF size, fixed
<1> QED
  BY <1>11, <1>12

(* The name that the next record is about.                                 *)
LEMMA CurrentIs ==
  ASSUME meant \in Seq(Records), asked \in Hosts
  PROVE  Current \in Hosts \cup Targets
<1> DEFINE I == {i \in 1 .. Len(meant) : meant[i].type = "CNAME"}
           alias == IF I # {} THEN Max(I) ELSE 0
<1>1. SelectLastInSeq(meant, LAMBDA r : r.type = "CNAME") = alias
  BY DEF SelectLastInSeq
<1>2. Current = IF alias = 0 THEN asked ELSE meant[alias].data
  BY <1>1 DEF Current
<1>3. CASE I = {}
  BY <1>2, <1>3
<1>4. CASE I # {}
  <2>1. I \in SUBSET (0 .. Len(meant)) /\ Len(meant) \in Nat
    OBVIOUS
  <2> DEFINE m == Max(I)
  <2>2. m \in I
    <3> HIDE DEF I
    <3> QED
      BY <1>4, <2>1, MaxIs
  <2>3. alias = m
    BY <1>4
  <2> HIDE DEF m
  <2>4. m \in 1 .. Len(meant) /\ meant[m].type = "CNAME" /\ meant[m] \in Records
    BY <2>2
  <2>5. meant[m].data \in Targets
    <3>1. "CNAME" # "A"
      OBVIOUS
    <3> QED
      BY <2>4, <3>1, RecordIs
  <2>6. alias # 0 /\ meant[alias].data \in Targets
    BY <2>3, <2>4, <2>5
  <2> HIDE DEF alias
  <2> QED
    BY <1>2, <2>6
<1> QED
  BY <1>3, <1>4

(* What a message has, in numbers.                                         *)
LEMMA Bounds ==
  ASSUME Question, Sizes
  PROVE  /\ Len(meant) \in 0 .. 20 /\ Len(buff) \in Nat /\ HeaderSize <= Len(buff)
         /\ Len(buff) <= 15000 /\ Behind(asked) \in Nat /\ Behind(asked) >= HeaderSize
         /\ Len(Wire(asked)) \in Nat /\ Behind(asked) = HeaderSize + Len(Wire(asked)) + 5
         /\ asked \in Hosts /\ asked \in Names /\ asked \in Seq(Labels) /\ asked # << >>
<1> DEFINE n == Len(meant)
           size == Len(buff)
           w == Len(Wire(asked))
           b == Behind(asked)
<1>1. /\ n \in Nat /\ n <= MaxAnswers /\ MaxAnswers \in 0 .. 20
      /\ size \in Nat /\ size <= Room(n) /\ b <= size
  BY NamesAre DEF Question, Sizes
<1>2. asked \in Hosts /\ asked \in Names /\ asked \in Seq(Labels) /\ asked # << >>
  BY NamesAre, NameIs DEF Question
<1>3. w \in Nat
  BY <1>2, WireTyped
<1>4. Len(Qinfo) = 4
  BY DEF Qinfo
<1>5. b = HeaderSize + w + 5
  BY <1>3, <1>4 DEF Behind, HeaderSize
<1> HIDE DEF n, size, w, b
<1>6. HeaderSize \in Nat
  BY DEF HeaderSize
<1>7. n \in 0 .. 20 /\ b \in Nat /\ b >= HeaderSize /\ HeaderSize <= size
  BY <1>1, <1>3, <1>5, <1>6
<1>8. size <= 15000
  BY <1>1, <1>7 DEF Room
<1> QED
  BY <1>1, <1>2, <1>3, <1>5, <1>7, <1>8 DEF n, size, w, b

(* A record is added while the reply is put together.                      *)
New(r) == /\ meant' = Append(meant, r) /\ r \in Records
          /\ pc = "reply" /\ Len(meant) < MaxAnswers
          /\ pc' = pc /\ asked' = asked /\ reader' = reader
          /\ answers' = answers /\ aResult' = aResult

(* What AddRecord does, with the owner's name and the data that it writes. *)
Writes(r, owner, rdata) ==
  /\ owner \in Encodings(r.owner)
  /\ r.type = "A" => rdata = r.data
  /\ r.type # "A" => rdata \in Encodings(r.data)
  /\ Assembles(buff', buff, owner, FixedOctets(r.type, Len(rdata)), rdata, Len(meant) + 1)
  /\ ends' = Append(ends, Len(buff \o owner \o FixedOctets(r.type, Len(rdata)) \o rdata))
  /\ known' =
       IF r.type = "A" THEN known
       ELSE known \cup
              Occurrences(Len(buff \o owner \o FixedOctets(r.type, Len(rdata)) \o rdata) - Len(rdata),
                          r.data, rdata)

(* Both kinds of records are written so.                                   *)
LEMMA AddressWrites ==
  ASSUME Question, Sizes, AddAddress
  PROVE  \E r, owner, rdata : New(r) /\ Writes(r, owner, rdata)
<1>1. PICK a \in Addresses : AddRecord("A", a, a)
  BY DEF AddAddress
<1> DEFINE r == [owner |-> Current, type |-> "A", data |-> a]
<1>2. meant \in Seq(Records) /\ asked \in Hosts
  BY DEF Question, Sizes
<1>3. r \in Records /\ r.owner = Current /\ r.type = "A" /\ r.data = a
  <2>1. Current \in Hosts \cup Targets
    BY <1>2, CurrentIs
  <2> QED
    BY <2>1 DEF Records
<1>4. New(r)
  BY <1>1, <1>3 DEF AddRecord, New
<1>5. PICK owner \in Encodings(Current) :
        LET message == buff \o owner \o FixedOctets("A", Len(a)) \o a
        IN  /\ buff' = [message EXCEPT ![8] = Len(meant) + 1]
            /\ ends' = Append(ends, Len(message))
            /\ known' = known
  BY <1>1 DEF AddRecord, FixedOctets
<1>6. Writes(r, owner, a)
  BY <1>3, <1>5 DEF Writes, Assembles
<1> QED
  BY <1>4, <1>6

LEMMA AliasWrites ==
  ASSUME Question, Sizes, AddAlias
  PROVE  \E r, owner, rdata : New(r) /\ Writes(r, owner, rdata)
<1>1. PICK n \in Targets : \E rdata \in Encodings(n) : AddRecord("CNAME", n, rdata)
  BY DEF AddAlias
<1>2. PICK rdata \in Encodings(n) : AddRecord("CNAME", n, rdata)
  BY <1>1
<1> DEFINE r == [owner |-> Current, type |-> "CNAME", data |-> n]
<1>3. meant \in Seq(Records) /\ asked \in Hosts
  BY DEF Question, Sizes
<1>4. r \in Records /\ r.owner = Current /\ r.type = "CNAME" /\ r.data = n /\ "CNAME" # "A"
  <2>1. Current \in Hosts \cup Targets
    BY <1>3, CurrentIs
  <2> QED
    BY <2>1 DEF Records
<1>5. New(r)
  BY <1>2, <1>4 DEF AddRecord, New
<1>6. PICK owner \in Encodings(Current) :
        LET message == buff \o owner \o FixedOctets("CNAME", Len(rdata)) \o rdata
        IN  /\ buff' = [message EXCEPT ![8] = Len(meant) + 1]
            /\ ends' = Append(ends, Len(message))
            /\ known' = known \cup Occurrences(Len(message) - Len(rdata), n, rdata)
  BY <1>2 DEF AddRecord, FixedOctets
<1>7. Writes(r, owner, rdata)
  BY <1>4, <1>6 DEF Writes, Assembles
<1> QED
  BY <1>5, <1>7

(* A record more: the message is still one.                                *)
LEMMA Added ==
  ASSUME Message, NEW r, NEW owner, NEW rdata, New(r), Writes(r, owner, rdata)
  PROVE  /\ buff' \in Seq(Octets) /\ Grows(buff, buff') /\ buff'[8] = Len(meant) + 1
         /\ Len(buff') \in Nat /\ Len(buff') <= Len(buff) + 520
         /\ ends' = Append(ends, Len(buff'))
         /\ known \subseteq known' /\ KnownAt(buff', known')
         /\ RecordAt(buff', known', Len(buff), r, Len(buff'))
<1> DEFINE c == buff'
           size == Len(rdata)
           v == Len(meant) + 1
           message == buff \o owner \o FixedOctets(r.type, Len(rdata)) \o rdata
<1>1. /\ Len(meant) \in 0 .. 20 /\ HeaderSize <= Len(buff) /\ Len(buff) <= 15000
      /\ Len(buff) \in Nat
  BY Bounds DEF Message
<1>2. /\ buff \in Seq(Octets) /\ KnownAt(buff, known) /\ r \in Records
  BY DEF Message, Sizes, New
<1>3. v \in Octets
  <2> DEFINE n == Len(meant)
  <2>1. n \in 0 .. 20
    BY <1>1
  <2> HIDE DEF n
  <2>2. n + 1 \in 0 .. 255
    BY <2>1
  <2> QED
    BY <2>2 DEF Octets, n
<1>4. /\ owner \in Encodings(r.owner)
      /\ r.type = "A" => rdata = r.data
      /\ r.type # "A" => rdata \in Encodings(r.data)
      /\ Assembles(c, buff, owner, FixedOctets(r.type, Len(rdata)), rdata, v)
      /\ ends' = Append(ends, Len(message))
      /\ known' = IF r.type = "A" THEN known
                  ELSE known \cup Occurrences(Len(message) - Len(rdata), r.data, rdata)
  BY DEF Writes
<1> HIDE DEF c, v
<1>5. /\ c \in Seq(Octets) /\ Grows(buff, c) /\ c[8] = v
      /\ rdata \in Seq(Octets) /\ Len(rdata) \in Nat /\ 2 <= Len(rdata)
      /\ Len(message) = Len(c)
      /\ Len(c) <= Len(buff) + 520 /\ Len(buff) <= Len(c) - Len(rdata)
      /\ RecordAt(c, known, Len(buff), r, Len(c))
      /\ r.type # "A" => NameAt(c, known, Len(c) - Len(rdata), r.data, Len(c))
  BY <1>1, <1>2, <1>3, <1>4, NewRecord
<1> HIDE DEF message
<1>6. KnownAt(c, known) /\ Len(c) \in Nat
  BY <1>2, <1>5, KnownStays
<1>7. known \subseteq known' /\ KnownAt(c, known')
  <2>1. CASE r.type = "A"
    BY <1>4, <1>6, <2>1
  <2>2. CASE r.type # "A"
    <3> DEFINE o == Len(c) - Len(rdata)
               K == known \cup Occurrences(o, r.data, rdata)
    <3>1. known' = K
      BY <1>4, <1>5, <2>2
    <3>2. r.data \in Seq(Labels)
      BY <1>2, <2>2, RecordIs, NameIs
    <3>3. NameAt(c, known, o, r.data, Len(c))
      BY <1>5, <2>2
    <3>4. o \in Nat /\ o >= HeaderSize /\ o + Len(rdata) = Len(c)
      <4> DEFINE all == Len(c)
                 b == Len(buff)
      <4>1. /\ all \in Nat /\ b \in Nat /\ size \in Nat /\ b <= all - size /\ HeaderSize <= b
            /\ o = all - size
        BY <1>1, <1>5, <1>6
      <4>2. HeaderSize \in Nat
        BY DEF HeaderSize
      <4> HIDE DEF all, b, size, o
      <4>3. o \in Nat /\ o >= HeaderSize /\ o + size = all
        BY <4>1, <4>2
      <4> QED
        BY <4>3 DEF all, size
    <3> HIDE DEF o
    <3>5. KnownAt(c, K)
      BY <1>5, <1>6, <3>2, <3>3, <3>4, KnownGrows
    <3> QED
      BY <3>1, <3>5
  <2> QED
    BY <2>1, <2>2
<1>8. RecordAt(c, known', Len(buff), r, Len(c))
  <2>1. Grows(c, c)
    BY <1>6 DEF Grows
  <2> QED
    BY <1>1, <1>2, <1>5, <1>7, <2>1, RecordStays
<1>9. ends' = Append(ends, Len(c))
  BY <1>4, <1>5
<1> QED
  BY <1>5, <1>6, <1>7, <1>8, <1>9 DEF c, v

(* With one record more, the message is still one.                         *)
LEMMA MessageGrows ==
  ASSUME Message, NEW r, NEW owner, NEW rdata, New(r), Writes(r, owner, rdata)
  PROVE  Message'
<1> DEFINE c == buff'
           K == known'
           n == Len(meant)
           w == Wire(asked)
           P(i) == IF i = 1 THEN Behind(asked) ELSE ends[i - 1]
           Q(i) == IF i = 1 THEN Behind(asked') ELSE ends'[i - 1]
<1>1. /\ n \in 0 .. 20 /\ HeaderSize <= Len(buff) /\ Len(buff) \in Nat
      /\ Behind(asked) \in Nat /\ Behind(asked) >= HeaderSize
      /\ Len(w) \in Nat /\ Behind(asked) = HeaderSize + Len(w) + 5
      /\ asked \in Hosts
  BY Bounds DEF Message
<1>2. /\ c \in Seq(Octets) /\ Grows(buff, c) /\ c[8] = n + 1
      /\ Len(c) \in Nat /\ Len(c) <= Len(buff) + 520
      /\ ends' = Append(ends, Len(c))
      /\ known \subseteq K /\ KnownAt(c, K)
      /\ RecordAt(c, K, Len(buff), r, Len(c))
  BY Added
<1>3. meant' = Append(meant, r) /\ r \in Records /\ n < MaxAnswers /\ asked' = asked
  BY DEF New
<1>4. /\ Stands(buff, HeaderSize, w) /\ buff[HeaderSize + Len(w) + 1] = 0
      /\ Behind(asked) <= Len(buff)
      /\ buff \in Seq(Octets) /\ Len(buff) <= Room(n)
      /\ meant \in Seq(Records) /\ ends \in Seq(Nat) /\ Len(ends) = n
      /\ \A i \in 1 .. Len(ends) : ends[i] >= HeaderSize
      /\ Len(buff) = P(n + 1)
      /\ \A i \in 1 .. n : RecordAt(buff, known, P(i), meant[i], ends[i])
  BY DEF Message, Question, Sizes, Laid, Begin
<1>5. HeaderSize \in Nat /\ Len(buff) <= Len(c)
  BY <1>2 DEF HeaderSize, Grows
<1>6. /\ meant' \in Seq(Records) /\ Len(meant') = n + 1
      /\ \A i \in 1 .. n : meant'[i] = meant[i]
  BY <1>3, <1>4, AppendProperties
<1>7. /\ ends' \in Seq(Nat) /\ Len(ends') = n + 1
      /\ \A i \in 1 .. n : ends'[i] = ends[i]
      /\ ends'[n + 1] = Len(c)
  BY <1>2, <1>4, AppendProperties
<1>8. meant'[n + 1] = r
  BY <1>3, <1>4, AppendProperties
<1> HIDE DEF c, K, n, w, P, Q
<1>9. Question'
  <2>1. Stands(c, HeaderSize, w)
    <3>1. HeaderSize + Len(w) <= Len(buff)
      BY <1>1, <1>4, <1>5
    <3> QED
      BY <1>1, <1>2, <1>4, <1>5, <3>1, StandsStill
  <2>2. c[HeaderSize + Len(w) + 1] = 0
    <3>1. HeaderSize + Len(w) + 1 \in HeaderSize + 1 .. Len(buff)
      BY <1>1, <1>4, <1>5
    <3>2. c[HeaderSize + Len(w) + 1] = buff[HeaderSize + Len(w) + 1]
      BY <1>2, <3>1 DEF Grows
    <3> QED
      BY <1>4, <3>2
  <2>3. Behind(asked) <= Len(c)
    BY <1>1, <1>2, <1>4, <1>5
  <2> QED
    BY <1>1, <1>3, <2>1, <2>2, <2>3 DEF Question, c, w
<1>10. /\ Q(1) = Behind(asked)
       /\ \A i \in 2 .. n + 2 : Q(i) = ends'[i - 1]
       /\ \A i \in 1 .. n + 1 : Q(i) = P(i) /\ P(i) \in Nat /\ P(i) >= HeaderSize
  <2>1. Q(1) = Behind(asked) /\ P(1) = Behind(asked)
    BY <1>3 DEF P, Q
  <2>2. ASSUME NEW i \in 2 .. n + 2 PROVE Q(i) = ends'[i - 1]
    BY <1>1 DEF P, Q
  <2>3. ASSUME NEW i \in 2 .. n + 1
        PROVE  Q(i) = P(i) /\ P(i) \in Nat /\ P(i) >= HeaderSize
    <3>1. i - 1 \in 1 .. n /\ i # 1
      BY <1>1
    <3>2. P(i) = ends[i - 1] /\ Q(i) = ends'[i - 1]
      BY <3>1 DEF P, Q
    <3>3. ends'[i - 1] = ends[i - 1] /\ ends[i - 1] \in Nat /\ ends[i - 1] >= HeaderSize
      BY <1>4, <1>7, <3>1
    <3> QED
      BY <3>2, <3>3
  <2>4. \A i \in 1 .. n + 1 : i = 1 \/ i \in 2 .. n + 1
    BY <1>1
  <2> QED
    BY <1>1, <2>1, <2>2, <2>3, <2>4
<1>11. Sizes'
  <2>1. Len(c) <= Room(n + 1)
    <3> DEFINE a == Len(buff)
               b == Len(c)
    <3>1. a \in Nat /\ b \in Nat /\ b <= a + 520 /\ a <= Room(n) /\ n \in Nat
      BY <1>1, <1>2, <1>4
    <3> HIDE DEF a, b
    <3>2. b <= Room(n + 1)
      BY <3>1 DEF Room
    <3> QED
      BY <3>2 DEF b
  <2>2. n + 1 <= MaxAnswers
    BY <1>1, <1>3, NamesAre
  <2>3. \A i \in 1 .. n + 1 : ends'[i] >= HeaderSize
    <3>1. \A i \in 1 .. n : ends'[i] >= HeaderSize
      BY <1>4, <1>7
    <3>2. ends'[n + 1] >= HeaderSize
      BY <1>1, <1>2, <1>5, <1>7
    <3>3. \A i \in 1 .. n + 1 : i \in 1 .. n \/ i = n + 1
      BY <1>1
    <3> QED
      BY <3>1, <3>2, <3>3
  <2>4. Len(c) = Q(n + 2)
    <3>1. n + 2 \in 2 .. n + 2 /\ (n + 2) - 1 = n + 1
      BY <1>1
    <3> QED
      BY <1>7, <1>10, <3>1
  <2>5. (n + 1) + 1 = n + 2
    BY <1>1
  <2> QED
    BY <1>2, <1>6, <1>7, <2>1, <2>2, <2>3, <2>4, <2>5 DEF Sizes, Begin, c, Q
<1>12. Laid'
  <2>1. ASSUME NEW i \in 1 .. n PROVE RecordAt(c, K, Q(i), meant'[i], ends'[i])
    <3>1. i \in 1 .. n + 1
      BY <1>1
    <3>2. Q(i) = P(i) /\ P(i) \in Nat /\ P(i) >= HeaderSize
      BY <1>10, <3>1
    <3>3. meant'[i] = meant[i] /\ ends'[i] = ends[i] /\ meant[i] \in Records
      BY <1>4, <1>6, <1>7 DEF n
    <3>4. RecordAt(c, K, P(i), meant[i], ends[i])
      BY <1>2, <1>4, <3>2, <3>3, RecordStays
    <3> QED
      BY <3>2, <3>3, <3>4
  <2>2. RecordAt(c, K, Q(n + 1), meant'[n + 1], ends'[n + 1])
    <3>1. n + 1 \in 1 .. n + 1
      BY <1>1
    <3>2. Q(n + 1) = Len(buff)
      BY <1>4, <1>10, <3>1
    <3> QED
      BY <1>2, <1>7, <1>8, <3>2
  <2>3. \A i \in 1 .. n + 1 : i \in 1 .. n \/ i = n + 1
    BY <1>1
  <2>4. \A i \in 1 .. n + 1 : RecordAt(c, K, Q(i), meant'[i], ends'[i])
    BY <2>1, <2>2, <2>3
  <2> QED
    BY <1>6, <2>4 DEF Laid, Begin, c, K, Q
<1> QED
  BY <1>2, <1>9, <1>11, <1>12 DEF Message, c, K

(* The header and the fixed part of the question.                          *)
LEMMA HeaderIs ==
  /\ Header(0) \in Seq(Octets) /\ Len(Header(0)) = HeaderSize /\ Header(0)[8] = 0
  /\ Qinfo \in Seq(Octets) /\ Len(Qinfo) = 4
<1> DEFINE z == <<0, 0, 0, 0, 0, 1, 0, 0, 0, 0, 0, 0>>
<1>1. 0 \in Octets /\ 1 \in Octets
  BY DEF Octets
<1>2. z \in Seq(Octets) /\ Len(z) = 12 /\ z[8] = 0
  BY <1>1
<1>3. Header(0) = z
  BY DEF Header
<1> HIDE DEF z
<1>4. Qinfo \in Seq(Octets) /\ Len(Qinfo) = 4
  BY <1>1 DEF Qinfo
<1> QED
  BY <1>2, <1>3, <1>4 DEF HeaderSize

(* The query is a message without records.                                 *)
LEMMA QueryIs ==
  ASSUME NEW h, h \in Hosts, NEW c, c = Header(0) \o ToDnsNameFormat(Text(h)) \o Qinfo
  PROVE  /\ c \in Seq(Octets) /\ Len(c) = Behind(h) /\ Len(c) <= Room(0) /\ c[8] = 0
         /\ Stands(c, HeaderSize, Wire(h)) /\ c[HeaderSize + Len(Wire(h)) + 1] = 0
         /\ KnownAt(c, Occurrences(HeaderSize, h, Full(h)))
<1> DEFINE head == Header(0)
           w == Wire(h)
           full == Full(h)
           b == head \o full
           d == b \o Qinfo
<1>1. h \in Names /\ h \in Seq(Labels) /\ h # << >> /\ Len(w) <= 254
  BY NamesAre, NameIs
<1>2. ToDnsNameFormat(Text(h)) = full
  BY <1>1, HostIs, ToDnsIs DEF Full
<1>3. c = d
  BY <1>2
<1>4. /\ head \in Seq(Octets) /\ Len(head) = HeaderSize /\ head[8] = 0
      /\ Qinfo \in Seq(Octets) /\ Len(Qinfo) = 4
  BY HeaderIs
<1>5. /\ full \in Seq(Octets) /\ Len(full) = Len(w) + 1 /\ full[Len(w) + 1] = 0
      /\ \A i \in 1 .. Len(w) : full[i] = w[i]
  BY <1>1, InFull
<1>6. Len(w) \in Nat /\ HeaderSize \in Nat /\ HeaderSize = 12
  BY <1>1, WireTyped DEF HeaderSize
<1> HIDE DEF head, w, full
<1>7. Len(head) >= HeaderSize
  BY <1>4, <1>6
<1>8. /\ b \in Seq(Octets) /\ Len(b) = Len(head) + Len(full) /\ Len(b) >= HeaderSize
      /\ Stands(b, Len(head), full)
  BY <1>4, <1>5, <1>7, Placed
<1>9. b[8] = 0
  <2>1. 8 \in 1 .. Len(head)
    BY <1>4, <1>6
  <2>2. \A i \in 1 .. Len(head) : (head \o full)[i] = head[i]
    BY <1>4, <1>5, Joined
  <2> QED
    BY <1>4, <2>1, <2>2
<1> HIDE DEF b
<1>10. /\ d \in Seq(Octets) /\ Len(d) = Len(b) + Len(Qinfo) /\ Grows(b, d)
  BY <1>4, <1>8, Placed
<1>11. d[8] = 0
  <2>1. 8 \in 1 .. Len(b)
    BY <1>6, <1>8
  <2>2. \A i \in 1 .. Len(b) : (b \o Qinfo)[i] = b[i]
    BY <1>4, <1>8, Joined
  <2> QED
    BY <1>9, <2>1, <2>2
<1> HIDE DEF d
<1>12. /\ Len(full) \in Nat /\ Len(b) \in Nat /\ Len(d) \in Nat
       /\ Len(b) = HeaderSize + Len(full) /\ Len(d) = HeaderSize + Len(w) + 1 + Len(Qinfo)
       /\ HeaderSize + Len(full) <= Len(d)
  BY <1>4, <1>5, <1>6, <1>8, <1>10
<1>13. Stands(d, HeaderSize, full)
  <2>1. HeaderSize + Len(full) <= Len(b)
    BY <1>6, <1>12
  <2>2. Stands(b, HeaderSize, full)
    BY <1>4, <1>8
  <2> QED
    BY <1>6, <1>10, <1>12, <2>1, <2>2, StandsStill
<1>14. Stands(d, HeaderSize, w) /\ d[HeaderSize + Len(w) + 1] = 0
  <2>1. \A i \in 1 .. Len(w) : i \in 1 .. Len(full)
    BY <1>5, <1>6
  <2>2. Stands(d, HeaderSize, w)
    BY <1>5, <1>13, <2>1 DEF Stands
  <2>3. Len(w) + 1 \in 1 .. Len(full) /\ HeaderSize + (Len(w) + 1) = HeaderSize + Len(w) + 1
    BY <1>5, <1>6
  <2>4. d[HeaderSize + (Len(w) + 1)] = full[Len(w) + 1]
    BY <1>13, <2>3 DEF Stands
  <2> QED
    BY <1>5, <2>2, <2>3, <2>4
<1>15. KnownAt(d, Occurrences(HeaderSize, h, full))
  <2> DEFINE K == {}
  <2>1. NameAt(d, K, HeaderSize, h, HeaderSize + Len(full))
    BY <1>1, <1>6, <1>12, <1>13, FullAt DEF full
  <2>2. KnownAt(d, K)
    BY DEF KnownAt
  <2>3. KnownAt(d, K \cup Occurrences(HeaderSize, h, full))
    <3>1. /\ HeaderSize \in Nat /\ HeaderSize >= HeaderSize /\ h \in Seq(Labels)
          /\ Len(d) \in Nat /\ Len(full) \in Nat
      BY <1>1, <1>6, <1>12
    <3> HIDE DEF K
    <3> QED
      BY <2>1, <2>2, <3>1, KnownGrows
  <2> QED
    BY <2>3
<1>16. Len(d) <= Room(0)
  <2> DEFINE n == Len(w)
             a == Len(d)
  <2>1. n \in Nat /\ n <= 254 /\ a = n + 17
    BY <1>1, <1>4, <1>6, <1>12 DEF w
  <2> HIDE DEF n, a
  <2>2. a <= Room(0)
    BY <2>1 DEF Room
  <2> QED
    BY <2>2 DEF a
<1>17. Len(d) = Behind(h)
  BY <1>12 DEF Behind, w
<1> QED
  BY <1>3, <1>10, <1>11, <1>14, <1>15, <1>16, <1>17 DEF w, full

(* Query establishes the invariant of a message.                           *)
LEMMA QueryStep ==
  ASSUME Blank, Query
  PROVE  IInv'
<1>1. PICK h \in Hosts :
        /\ asked' = h
        /\ buff' = Header(0) \o ToDnsNameFormat(Text(h)) \o Qinfo
        /\ known' = Occurrences(HeaderSize, h, Full(h))
  BY DEF Query, Full
<1>2. /\ pc' = "reply" /\ meant' = << >> /\ ends' = << >> /\ reader' = 0
      /\ answers' = << >> /\ aResult' = << >>
  BY DEF Blank, Query
<1> DEFINE c == buff'
           K == known'
<1>3. /\ c \in Seq(Octets) /\ Len(c) = Behind(h) /\ Len(c) <= Room(0) /\ c[8] = 0
      /\ Stands(c, HeaderSize, Wire(h)) /\ c[HeaderSize + Len(Wire(h)) + 1] = 0
      /\ KnownAt(c, K)
  BY <1>1, QueryIs
<1>4. Behind(h) \in Nat /\ Behind(h) <= Len(c)
  <2>1. h \in Seq(Labels)
    BY NamesAre, NameIs
  <2>2. Len(Wire(h)) \in Nat
    BY <2>1, WireTyped
  <2> QED
    BY <1>3
<1> HIDE DEF c, K
<1>5. Question'
  BY <1>1, <1>3, <1>4 DEF Question, c
<1>6. Sizes'
  <2>1. 0 <= MaxAnswers
    BY NamesAre
  <2>2. Begin(1)' = Behind(h)
    BY <1>1 DEF Begin
  <2> QED
    BY <1>2, <1>3, <2>1, <2>2 DEF Sizes, c
<1>7. Laid'
  BY <1>2 DEF Laid
<1> QED
  BY <1>2, <1>3, <1>5, <1>6, <1>7 DEF IInv, Message, c, K

-----------------------------------------------------------------------------
(* Reading the answers.                                                    *)

(* What ParseAnswer makes of the octets at offset o, and whether it can.   *)
FixedAt(o) == o + Count(o)
TypeAt(o) == At(FixedAt(o)) * 256 + At(FixedAt(o) + 1)
SizeAt(o) == At(FixedAt(o) + 8) * 256 + At(FixedAt(o) + 9)
DataAt(o) == FixedAt(o) + DataSize
WholeAt(o) ==
  /\ Legible(o)
  /\ DataAt(o) <= Len(buff)
  /\ IF TypeAt(o) = 1 THEN DataAt(o) + SizeAt(o) <= Len(buff) ELSE Legible(DataAt(o))
Parsed(o) ==
  [name |-> ReadName(o), type |-> TypeAt(o),
   rdata |-> IF TypeAt(o) = 1 THEN SubSeq(buff, DataAt(o) + 1, DataAt(o) + SizeAt(o))
             ELSE ReadName(DataAt(o))]

(* Every readable record can be read, is read as it was meant, and the     *)
(* reader put behind it.                                                   *)
ReadableRecord(r) == Readable(r.owner) /\ (r.type = "CNAME" => Readable(r.data))

LEMMA ReadRecord ==
  ASSUME buff \in Seq(Octets), KnownAt(buff, known), NEW o \in Nat,
         NEW r \in Records, ReadableRecord(r), NEW e, RecordAt(buff, known, o, r, e)
  PROVE  /\ Parsed(o) = Answer(r) /\ AfterData(DataAt(o), TypeAt(o), SizeAt(o)) = e
         /\ WholeAt(o)
<1>1. PICK f \in o .. Len(buff) :
        /\ NameAt(buff, known, o, r.owner, f)
        /\ FixedPart(buff, f, r)
        /\ f + DataSize <= e /\ e <= Len(buff)
        /\ IF r.type = "A" THEN e = f + DataSize + 4 /\ Stands(buff, f + DataSize, r.data)
           ELSE NameAt(buff, known, f + DataSize, r.data, e)
  BY DEF RecordAt
<1>2. r.owner \in Names /\ Readable(r.owner)
  BY RecordIs DEF ReadableRecord
<1>3. ReadName(o) = Text(r.owner) /\ Count(o) = f - o /\ Legible(o)
  BY <1>1, <1>2, ReadNameIs
<1>4. Len(buff) \in Nat /\ f \in Nat /\ DataSize = 10
  BY <1>1 DEF DataSize
<1>5. FixedAt(o) = f /\ DataAt(o) = f + DataSize
  BY <1>3, <1>4 DEF FixedAt, DataAt
<1>6. /\ buff[f + 1] = 0 /\ buff[f + 2] = (IF r.type = "A" THEN 1 ELSE 5)
      /\ r.type = "A" => buff[f + 9] = 0 /\ buff[f + 10] = 4
  BY <1>1 DEF FixedPart
<1>7. TypeAt(o) = IF r.type = "A" THEN 1 ELSE 5
  <2>1. At(f) = buff[f + 1] /\ At(f + 1) = buff[f + 2]
    BY <1>4 DEF At
  <2> QED
    BY <1>5, <1>6, <2>1 DEF TypeAt
<1>8. CASE r.type = "A"
  <2>1. e = f + DataSize + 4 /\ Stands(buff, f + DataSize, r.data) /\ e <= Len(buff)
    BY <1>1, <1>8
  <2>2. r.data \in Seq(Octets) /\ Len(r.data) = 4
    BY <1>8, RecordIs
  <2>3. SizeAt(o) = 4
    <3>1. At(f + 8) = buff[f + 9] /\ At(f + 9) = buff[f + 10]
      BY <1>4 DEF At
    <3> QED
      BY <1>5, <1>6, <1>8, <3>1 DEF SizeAt
  <2> DEFINE d == f + DataSize
             s == SubSeq(buff, d + 1, d + 4)
             a == r.data
  <2>4. d \in Nat /\ d + 4 <= Len(buff) /\ e = d + 4
    BY <1>4, <2>1
  <2>5. s \in Seq(Octets) /\ Len(s) = 4 /\ \A i \in 1 .. 4 : s[i] = buff[d + i]
    <3>1. /\ d + 1 \in Nat \ {0} /\ d + 4 \in 0 .. Len(buff) /\ d + 1 <= (d + 4) + 1
          /\ (d + 4) - (d + 1) + 1 = 4
          /\ \A i \in 1 .. 4 : (d + 1) + i - 1 = d + i
      BY <1>4, <2>4
    <3> HIDE DEF d
    <3>2. /\ SubSeq(buff, d + 1, d + 4) \in Seq(Octets)
          /\ Len(SubSeq(buff, d + 1, d + 4)) = (d + 4) - (d + 1) + 1
          /\ \A i \in 1 .. (d + 4) - (d + 1) + 1 :
               SubSeq(buff, d + 1, d + 4)[i] = buff[(d + 1) + i - 1]
      BY <3>1, Pieces
    <3> QED
      BY <3>1, <3>2
  <2>6. Stands(buff, d, a) /\ a \in Seq(Octets) /\ Len(a) = 4
    BY <2>1, <2>2
  <2> HIDE DEF s, d, a
  <2>7. s = a
    <3>1. Len(s) = Len(a)
      BY <2>5, <2>6
    <3>2. \A i \in 1 .. Len(s) : s[i] = a[i]
      BY <2>5, <2>6 DEF Stands
    <3> QED
      BY <2>5, <2>6, <3>1, <3>2, SeqEqual
  <2>8. Parsed(o) = [name |-> Text(r.owner), type |-> 1, rdata |-> r.data]
    BY <1>3, <1>5, <1>7, <1>8, <2>3, <2>7 DEF Parsed, s, d, a
  <2>9. AfterData(DataAt(o), TypeAt(o), SizeAt(o)) = e
    BY <1>5, <1>7, <1>8, <2>3, <2>4 DEF AfterData, d
  <2>10. WholeAt(o)
    BY <1>3, <1>4, <1>5, <1>7, <1>8, <2>1, <2>3 DEF WholeAt
  <2> QED
    BY <1>8, <2>8, <2>9, <2>10 DEF Answer
<1>9. CASE r.type # "A"
  <2>1. NameAt(buff, known, f + DataSize, r.data, e) /\ e <= Len(buff)
    BY <1>1, <1>9
  <2>2. r.data \in Names /\ Readable(r.data)
    BY <1>9, RecordIs DEF ReadableRecord
  <2>3. f + DataSize \in Nat
    BY <1>4
  <2> DEFINE d == f + DataSize
  <2> HIDE DEF d
  <2>4. /\ ReadName(d) = Text(r.data) /\ Count(d) = e - d /\ e \in d + 1 .. Len(buff)
        /\ Legible(d)
    BY <2>1, <2>2, <2>3, ReadNameIs DEF d
  <2>5. AfterData(DataAt(o), TypeAt(o), SizeAt(o)) = e
    <3>1. TypeAt(o) # 1 /\ DataAt(o) = d
      BY <1>5, <1>7, <1>9 DEF d
    <3>2. AfterData(DataAt(o), TypeAt(o), SizeAt(o)) = d + Count(d)
      BY <3>1 DEF AfterData
    <3>3. d + (e - d) = e
      BY <1>4, <2>3, <2>4 DEF d
    <3> QED
      BY <2>4, <3>2, <3>3
  <2>6. Parsed(o) = [name |-> Text(r.owner), type |-> 5, rdata |-> Text(r.data)]
    BY <1>3, <1>5, <1>7, <1>9, <2>4 DEF Parsed, d
  <2>7. WholeAt(o)
    BY <1>3, <1>4, <1>5, <1>7, <1>9, <2>1, <2>4 DEF WholeAt, d
  <2> QED
    BY <1>9, <2>5, <2>6, <2>7 DEF Answer
<1> QED
  BY <1>8, <1>9

(* That is what ParseAnswer does.                                          *)
LEMMA ParseIs ==
  ASSUME ParseAnswer
  PROVE  answers' = Append(answers, Parsed(reader))
         /\ reader' = AfterData(DataAt(reader), TypeAt(reader), SizeAt(reader))
BY DEF ParseAnswer, Parsed, FixedAt, TypeAt, SizeAt, DataAt, Fixed, Type, DataLen, Data

LEMMA WholeIs == Whole <=> WholeAt(reader)
BY DEF Whole, WholeAt, FixedAt, TypeAt, SizeAt, DataAt, Fixed, Type, DataLen, Data

-----------------------------------------------------------------------------
(* The invariant is inductive.                                             *)

(* The message does not change while it is read.                           *)
LEMMA MessageStays ==
  ASSUME Message, UNCHANGED <<asked, buff, meant, ends, known>>
  PROVE  Message' /\ (AllReadable' <=> AllReadable) /\ \A i : Begin(i)' = Begin(i)
BY DEF Message, Question, Sizes, Laid, Begin, AllReadable

(* The reader is put behind the question.                                  *)
LEMMA DeliverStep ==
  ASSUME pc = "reply", Message, answers = << >>, aResult = << >>, Deliver
  PROVE  IInv'
<1> DEFINE w == Wire(asked)
<1>1. /\ asked \in Seq(Labels) /\ Len(w) \in Nat /\ Behind(asked) <= Len(buff)
      /\ Behind(asked) = HeaderSize + Len(w) + 5 /\ buff \in Seq(Octets)
      /\ Stands(buff, HeaderSize, w) /\ buff[HeaderSize + Len(w) + 1] = 0
  BY Bounds DEF Message, Question, Sizes
<1>2. w \in Seq(Written)
  BY <1>1, WireTyped
<1>9. w \in Seq(1 .. 255)
  <2>1. 1 .. 63 \subseteq 1 .. 255
    OBVIOUS
  <2>2. Within(asked, 1 .. 255)
    BY HostIs DEF Message, Question
  <2> QED
    BY <1>1, <2>1, <2>2, WireWithin
<1> HIDE DEF w
<1>3. HeaderSize \in Nat /\ Len(buff) \in Nat /\ Len(Qinfo) = 4
  BY <1>1, HeaderIs DEF HeaderSize
<1>4. Span(HeaderSize, {0}) = Len(w)
  <2> DEFINE Marks == {0}
  <2>1. buff[HeaderSize + Len(w) + 1] \in Marks /\ \A c \in 1 .. 255 : c \notin Marks
    BY <1>1
  <2>4. \A i \in 1 .. Len(w) : w[i] \notin Marks
    BY <1>9, <2>1, Narrowed, Zenon
  <2>2. HeaderSize + Len(w) + 1 <= Len(buff)
    BY <1>1, <1>3
  <2> HIDE DEF Marks
  <2>3. Span(HeaderSize, Marks) = Len(w)
    BY <1>1, <1>2, <1>3, <2>1, <2>2, <2>4, SpanIs
  <2> QED
    BY <2>3 DEF Marks
<1>5. reader' = Behind(asked)
  BY <1>1, <1>3, <1>4 DEF Deliver
<1>6. /\ pc' = "parse" /\ answers' = << >> /\ aResult' = << >>
      /\ UNCHANGED <<asked, buff, meant, ends, known>>
  BY DEF Deliver
<1>7. Message'
  BY <1>6, MessageStays
<1>8. Read'
  <2>1. Begin(1)' = Behind(asked)
    BY <1>6 DEF Begin
  <2>2. 0 <= Len(meant')
    BY <1>7 DEF Message, Sizes
  <2> QED
    BY <1>5, <1>6, <2>1, <2>2 DEF Read
<1> QED
  BY <1>6, <1>7, <1>8 DEF IInv, Reading

(* The next record that was not read yet.                                  *)
LEMMA NextRecord ==
  ASSUME Message, Read, AllReadable, Len(answers) < Len(meant)
  PROVE  /\ buff \in Seq(Octets) /\ KnownAt(buff, known) /\ reader \in Nat
         /\ Len(answers) + 1 \in 1 .. Len(meant) /\ meant[Len(answers) + 1] \in Records
         /\ ReadableRecord(meant[Len(answers) + 1])
         /\ RecordAt(buff, known, reader, meant[Len(answers) + 1], ends[Len(answers) + 1])
<1> DEFINE i == Len(answers) + 1
<1>1. /\ Len(answers) \in Nat /\ Len(meant) \in Nat /\ reader = Begin(i)
      /\ buff \in Seq(Octets) /\ KnownAt(buff, known) /\ meant \in Seq(Records)
      /\ ends \in Seq(Nat) /\ Len(ends) = Len(meant) /\ Behind(asked) \in Nat
  BY Bounds DEF Message, Read, Sizes
<1>2. i \in 1 .. Len(meant)
  BY <1>1
<1> HIDE DEF i
<1>3. meant[i] \in Records /\ RecordAt(buff, known, Begin(i), meant[i], ends[i])
  BY <1>1, <1>2 DEF Message, Laid
<1>4. Begin(i) \in Nat
  <2>1. CASE i = 1
    BY <1>1, <2>1 DEF Begin
  <2>2. CASE i # 1
    <3>1. i - 1 \in 1 .. Len(ends)
      BY <1>1, <1>2, <2>2
    <3> QED
      BY <1>1, <2>2, <3>1 DEF Begin
  <2> QED
    BY <2>1, <2>2
<1>5. ReadableRecord(meant[i])
  <2>1. DOMAIN meant = 1 .. Len(meant)
    BY <1>1
  <2>2. meant[i] \in ToSet(meant)
    BY <1>2, <2>1, Zenon DEF ToSet
  <2> QED
    BY <2>2, Zenon DEF AllReadable, ReadableRecord
<1> QED
  BY <1>1, <1>2, <1>3, <1>4, <1>5 DEF i

(* One pass of the loop over ans_count reads the next record.              *)
LEMMA ParseStep ==
  ASSUME pc = "parse", Message, AllReadable, Read, aResult = << >>, ParseAnswer
  PROVE  Reading'
<1> DEFINE i == Len(answers) + 1
           r == meant[i]
<1>1. /\ pc' = "parse" /\ aResult' = << >> /\ UNCHANGED <<asked, buff, meant, ends, known>>
      /\ Len(answers) < buff[8]
  BY DEF ParseAnswer, At
<1>2. Message' /\ \A k : Begin(k)' = Begin(k)
  BY <1>1, MessageStays
<1>3. /\ Len(answers) < Len(meant) /\ answers \in Seq({Answer(x) : x \in Records})
      /\ \A k \in 1 .. Len(answers) : answers[k] = Answer(meant[k])
      /\ Len(answers) \in Nat /\ Len(meant) \in Nat
  BY <1>1 DEF Message, Sizes, Read
<1>4. /\ buff \in Seq(Octets) /\ KnownAt(buff, known) /\ reader \in Nat
      /\ i \in 1 .. Len(meant) /\ r \in Records /\ ReadableRecord(r)
      /\ RecordAt(buff, known, reader, r, ends[i])
  BY <1>3, NextRecord
<1> HIDE DEF i, r
<1>5. /\ Parsed(reader) = Answer(r)
      /\ AfterData(DataAt(reader), TypeAt(reader), SizeAt(reader)) = ends[i]
  BY <1>4, ReadRecord
<1>6. answers' = Append(answers, Answer(r)) /\ reader' = ends[i]
  BY <1>5, ParseIs
<1>7. /\ answers' \in Seq({Answer(x) : x \in Records}) /\ Len(answers') = i
      /\ \A k \in 1 .. Len(answers) : answers'[k] = answers[k]
      /\ answers'[i] = Answer(r)
  <2> DEFINE S == {Answer(x) : x \in Records}
             a == Answer(r)
  <2>1. a \in S /\ answers \in Seq(S)
    BY <1>3, <1>4
  <2> HIDE DEF S, a
  <2>2. /\ Append(answers, a) \in Seq(S) /\ Len(Append(answers, a)) = Len(answers) + 1
        /\ \A k \in 1 .. Len(answers) : Append(answers, a)[k] = answers[k]
        /\ Append(answers, a)[Len(answers) + 1] = a
    BY <2>1, AppendProperties
  <2> QED
    BY <1>6, <2>2 DEF i, S, a
<1>8. Read'
  <2>1. \A k \in 1 .. i : answers'[k] = Answer(meant'[k])
    <3>1. \A k \in 1 .. i : k \in 1 .. Len(answers) \/ k = i
      BY <1>3 DEF i
    <3> QED
      BY <1>1, <1>3, <1>7, <3>1 DEF r
  <2>2. reader' = IF i + 1 = 1 THEN Behind(asked') ELSE ends'[(i + 1) - 1]
    <3>1. (i + 1) - 1 = i /\ i + 1 # 1
      BY <1>3, <1>4
    <3>2. ends' = ends
      BY <1>1
    <3> QED
      BY <1>6, <3>1, <3>2
  <2>3. i <= Len(meant')
    BY <1>1, <1>4
  <2> QED
    BY <1>7, <2>1, <2>2, <2>3 DEF Read, Begin
<1> QED
  BY <1>1, <1>8 DEF Reading

(* Readable records never take it out of the message or of its room.       *)
LEMMA AstrayStep ==
  ASSUME pc = "parse", Message, AllReadable, Read
  PROVE  ~ParseAstray
<1> SUFFICES ASSUME Len(answers) < At(7) PROVE Whole
  BY DEF ParseAstray
<1>1. Len(answers) < Len(meant)
  BY DEF At, Message, Sizes
<1> DEFINE i == Len(answers) + 1
           r == meant[i]
<1>2. /\ buff \in Seq(Octets) /\ KnownAt(buff, known) /\ reader \in Nat
      /\ r \in Records /\ ReadableRecord(r)
      /\ RecordAt(buff, known, reader, r, ends[i])
  BY <1>1, NextRecord
<1> HIDE DEF i, r
<1>3. WholeAt(reader)
  BY <1>2, ReadRecord
<1> QED
  BY <1>3, WholeIs

(* What is recorded are the answers that were read.                        *)
LEMMA RecordStep ==
  ASSUME pc = "parse", Message, Read, Record
  PROVE  Reading'
<1>1. /\ pc' = "done" /\ UNCHANGED <<asked, buff, meant, ends, known, reader, answers>>
      /\ Len(answers) = buff[8] /\ aResult' = Recorded
  BY DEF Record, At
<1>2. Message' /\ \A k : Begin(k)' = Begin(k)
  BY <1>1, MessageStays
<1>3. Len(answers') = Len(meant')
  BY <1>1 DEF Message, Sizes
<1>4. Read'
  BY <1>1 DEF Read, Begin
<1>5. aResult' = Recorded'
  BY <1>1 DEF Recorded
<1> QED
  BY <1>1, <1>3, <1>4, <1>5 DEF Reading

(* Every action preserves the invariant.                                   *)
LEMMA Inductive == IInv /\ [Next]_vars => IInv'
<1> SUFFICES ASSUME IInv, [Next]_vars PROVE IInv'
  OBVIOUS
<1>1. CASE Query
  <2>1. Blank
    BY <1>1 DEF Query, IInv
  <2> QED
    BY <1>1, <2>1, QueryStep
<1>2. ASSUME AddAddress \/ AddAlias PROVE IInv'
  <2>1. pc = "reply" /\ Message /\ reader = 0 /\ answers = << >> /\ aResult = << >>
    BY <1>2 DEF AddAddress, AddAlias, AddRecord, IInv, Blank
  <2>2. Question /\ Sizes
    BY <2>1 DEF Message
  <2>3. PICK r, owner, rdata : New(r) /\ Writes(r, owner, rdata)
    BY <1>2, <2>2, AddressWrites, AliasWrites
  <2>4. Message'
    BY <2>1, <2>3, MessageGrows
  <2>5. pc' = pc /\ reader' = reader /\ answers' = answers /\ aResult' = aResult
    BY <2>3 DEF New
  <2> QED
    BY <2>1, <2>4, <2>5 DEF IInv
<1>3. CASE Deliver
  <2>1. pc = "reply" /\ Message /\ answers = << >> /\ aResult = << >>
    BY <1>3 DEF Deliver, IInv, Blank
  <2> QED
    BY <1>3, <2>1, DeliverStep
<1>4. ASSUME ParseAnswer \/ ParseAstray \/ Record PROVE IInv'
  <2>1. /\ pc = "parse" /\ Message /\ pc' \in {"parse", "done", "undefined"}
        /\ UNCHANGED <<asked, buff, meant, ends, known>>
    BY <1>4 DEF ParseAnswer, ParseAstray, Record, IInv, Blank
  <2>2. Message' /\ (AllReadable' <=> AllReadable)
    BY <2>1, MessageStays
  <2>3. ASSUME AllReadable PROVE Reading'
    <3>1. Read /\ aResult = << >>
      BY <2>1, <2>3 DEF IInv, Blank, Reading
    <3>2. CASE ParseAnswer
      BY <2>1, <2>3, <3>1, <3>2, ParseStep
    <3>3. CASE ParseAstray
      BY <2>1, <2>3, <3>1, <3>3, AstrayStep
    <3>4. CASE Record
      BY <2>1, <3>1, <3>4, RecordStep
    <3> QED
      BY <1>4, <3>2, <3>3, <3>4
  <2> QED
    BY <2>1, <2>2, <2>3 DEF IInv
<1>5. CASE UNCHANGED vars
  BY <1>5 DEF IInv, Blank, Message, Question, Sizes, Laid, Read, Reading, Begin, Recorded,
              AllReadable, vars
<1> QED
  BY <1>1, <1>2, <1>3, <1>4, <1>5 DEF Next, Ended

LEMMA Invariant == Spec => []IInv
<1>1. Init => IInv
  BY DEF Init, IInv, Blank
<1> QED
  BY <1>1, Inductive, PTL DEF Spec

-----------------------------------------------------------------------------
(* What the invariant means for the program.                               *)

(* Either nothing was asked yet, or there is a message.                    *)
LEMMA MessageThen == IInv => Blank \/ (Message /\ pc # "query")
BY DEF IInv

LEMMA ReadThen ==
  ASSUME IInv, AllReadable
  PROVE  /\ pc \in {"parse", "done"} => Message /\ Reading
         /\ pc \notin {"parse", "done"} => answers = << >> /\ aResult = << >> /\ reader = 0
BY DEF IInv, Blank, Reading

(* One lemma for each property: the invariant implies it.                  *)
LEMMA InStepHolds == IInv => InStep
<1> SUFFICES ASSUME IInv, AllReadable, pc \in {"parse", "done"}
             PROVE  reader = IF answers = << >> THEN HeaderSize + Len(Wire(asked)) + 1 + Len(Qinfo)
                             ELSE ends[Len(answers)]
  BY DEF InStep
<1>1. /\ reader = Begin(Len(answers) + 1) /\ answers \in Seq({Answer(r) : r \in Records})
  BY ReadThen DEF Reading, Read
<1>2. CASE answers = << >>
  <2>1. Len(answers) + 1 = 1
    BY <1>2
  <2> QED
    BY <1>1, <1>2, <2>1 DEF Begin, Behind
<1>3. CASE answers # << >>
  <2> DEFINE n == Len(answers)
  <2>1. n + 1 # 1 /\ (n + 1) - 1 = n
    <3> DEFINE S == {Answer(r) : r \in Records}
    <3>1. answers \in Seq(S)
      BY <1>1
    <3> HIDE DEF S
    <3> QED
      BY <1>3, <3>1
  <2> HIDE DEF n
  <2>2. reader = Begin(n + 1)
    BY <1>1 DEF n
  <2>3. reader = ends[n]
    BY <2>1, <2>2 DEF Begin
  <2> QED
    BY <1>3, <2>3 DEF n
<1> QED
  BY <1>2, <1>3

LEMMA ReadHolds == IInv => ReadAsMeant
<1> SUFFICES ASSUME IInv, AllReadable, NEW i \in DOMAIN answers
             PROVE  /\ answers[i].name = Text(meant[i].owner)
                    /\ answers[i].rdata = IF meant[i].type = "A" THEN meant[i].data
                                          ELSE Text(meant[i].data)
  BY DEF ReadAsMeant, NamesAreRead
<1>1. answers # << >>
  OBVIOUS
<1>2. Read
  BY <1>1, ReadThen DEF Reading
<1>3. i \in 1 .. Len(answers)
  <2> DEFINE S == {Answer(r) : r \in Records}
  <2>1. answers \in Seq(S)
    BY <1>2 DEF Read
  <2> HIDE DEF S
  <2> QED
    BY <2>1
<1>4. answers[i] = Answer(meant[i])
  BY <1>2, <1>3 DEF Read
<1> QED
  BY <1>4 DEF Answer

LEMMA FoundHolds == IInv => AddressesFound
<1> SUFFICES ASSUME IInv, AllReadable, pc = "done"
             PROVE  aResult = FlattenSeq([i \in DOMAIN meant |->
                                            IF meant[i].type = "A" THEN <<meant[i].data>> ELSE << >>])
  BY DEF AddressesFound
<1>1. /\ meant \in Seq(Records) /\ Len(answers) = Len(meant) /\ aResult = Recorded
      /\ answers \in Seq({Answer(r) : r \in Records})
      /\ \A i \in 1 .. Len(answers) : answers[i] = Answer(meant[i])
  BY ReadThen DEF Message, Sizes, Reading, Read
<1> DEFINE n == Len(meant)
<1>2. DOMAIN meant = 1 .. n /\ DOMAIN answers = 1 .. n
  <2> DEFINE S == {Answer(r) : r \in Records}
  <2>1. answers \in Seq(S) /\ meant \in Seq(Records)
    BY <1>1
  <2> HIDE DEF S
  <2> QED
    BY <1>1, <2>1
<1>3. ASSUME NEW i \in 1 .. n
      PROVE  (IF answers[i].type = 1 THEN <<answers[i].rdata>> ELSE << >>)
               = IF meant[i].type = "A" THEN <<meant[i].data>> ELSE << >>
  <2>1. answers[i] = Answer(meant[i])
    BY <1>1
  <2>2. CASE meant[i].type = "A"
    BY <2>1, <2>2 DEF Answer
  <2>3. CASE meant[i].type # "A"
    BY <2>1, <2>3 DEF Answer
  <2> QED
    BY <2>2, <2>3
<1> HIDE DEF n
<1>4. [i \in DOMAIN answers |-> IF answers[i].type = 1 THEN <<answers[i].rdata>> ELSE << >>]
        = [i \in DOMAIN meant |-> IF meant[i].type = "A" THEN <<meant[i].data>> ELSE << >>]
  BY <1>2, <1>3
<1> QED
  BY <1>1, <1>4, Zenon DEF Recorded

LEMMA FitHolds == IInv => NeverAstray
BY ReadThen DEF NeverAstray, IInv, Blank, Reading

LEMMA QuestionHolds == IInv => QuestionIsAsked
<1> SUFFICES ASSUME IInv, pc # "query"
             PROVE  SubSeq(buff, HeaderSize + 1, HeaderSize + Len(Wire(asked)) + 1) = Full(asked)
  BY DEF QuestionIsAsked, Full
<1> DEFINE w == Wire(asked)
           full == Full(asked)
           s == SubSeq(buff, HeaderSize + 1, HeaderSize + Len(w) + 1)
<1>1. Message
  BY MessageThen DEF Blank
<1>2. /\ Len(w) \in Nat /\ asked \in Names /\ Behind(asked) <= Len(buff)
      /\ Behind(asked) = HeaderSize + Len(w) + 5 /\ buff \in Seq(Octets) /\ Len(buff) \in Nat
      /\ Stands(buff, HeaderSize, w) /\ buff[HeaderSize + Len(w) + 1] = 0
  BY <1>1, Bounds DEF Message, Question, Sizes
<1>3. /\ full \in Seq(Octets) /\ Len(full) = Len(w) + 1
      /\ \A i \in 1 .. Len(w) : full[i] = w[i]
      /\ full[Len(w) + 1] = 0
  BY <1>2, InFull
<1> HIDE DEF w, full
<1>4. HeaderSize \in Nat
  BY DEF HeaderSize
<1>5. /\ s \in Seq(Octets) /\ Len(s) = Len(w) + 1
      /\ \A i \in 1 .. Len(w) + 1 : s[i] = buff[HeaderSize + i]
  <2> DEFINE a == HeaderSize + 1
             b == HeaderSize + Len(w) + 1
  <2>1. /\ a \in Nat \ {0} /\ b \in 0 .. Len(buff) /\ a <= b + 1 /\ b - a + 1 = Len(w) + 1
        /\ \A i \in 1 .. Len(w) + 1 : a + i - 1 = HeaderSize + i
    BY <1>2, <1>4
  <2> HIDE DEF a, b
  <2>2. /\ SubSeq(buff, a, b) \in Seq(Octets) /\ Len(SubSeq(buff, a, b)) = b - a + 1
        /\ \A i \in 1 .. b - a + 1 : SubSeq(buff, a, b)[i] = buff[a + i - 1]
    BY <1>2, <2>1, Pieces
  <2>3. s = SubSeq(buff, a, b)
    BY DEF a, b
  <2> HIDE DEF s
  <2> QED
    BY <2>1, <2>2, <2>3
<1> HIDE DEF s
<1>6. \A i \in 1 .. Len(w) + 1 : s[i] = full[i]
  <2>1. \A i \in 1 .. Len(w) : buff[HeaderSize + i] = full[i]
    BY <1>2, <1>3 DEF Stands
  <2>2. buff[HeaderSize + (Len(w) + 1)] = full[Len(w) + 1]
    <3>1. HeaderSize + (Len(w) + 1) = HeaderSize + Len(w) + 1
      BY <1>2, <1>4
    <3> QED
      BY <1>2, <1>3, <3>1
  <2>3. \A i \in 1 .. Len(w) + 1 : i \in 1 .. Len(w) \/ i = Len(w) + 1
    BY <1>2
  <2> QED
    BY <1>5, <2>1, <2>2, <2>3
<1>7. s = full
  <2>1. Len(s) = Len(full) /\ \A i \in 1 .. Len(s) : s[i] = full[i]
    BY <1>3, <1>5, <1>6
  <2> QED
    BY <1>3, <1>5, <2>1, SeqEqual
<1> QED
  BY <1>7 DEF s, full, w

(* The parts of the type invariant.                                        *)
LEMMA KnownTyped ==
  ASSUME KnownAt(buff, known), Len(buff) \in Nat, NEW k, k \in known
  PROVE  k[1] \in HeaderSize .. Len(buff) /\ k[2] \in Seq(Seq(Octets))
<1>1. k[1] \in HeaderSize .. Len(buff) - 1 /\ k[2] \in Seq(Labels)
  BY DEF KnownAt
<1> DEFINE name == k[2]
<1> HIDE DEF name
<1>2. name \in Seq(Labels)
  BY <1>1 DEF name
<1>3. \A i \in 1 .. Len(name) : name[i] \in Seq(Octets)
  BY <1>2, LabelIs, Wider
<1>4. name \in Seq(Seq(Octets))
  BY <1>2, <1>3
<1>5. HeaderSize \in Nat
  BY DEF HeaderSize
<1> QED
  BY <1>1, <1>4, <1>5 DEF name

LEMMA ReaderTyped == ASSUME Message, Read PROVE reader \in 0 .. Len(buff)
<1> DEFINE n == Len(answers)
           S == {Answer(r) : r \in Records}
<1>1. /\ n <= Len(meant) /\ answers \in Seq(S) /\ reader = Begin(n + 1) /\ Len(buff) \in Nat
      /\ Behind(asked) \in Nat /\ Behind(asked) <= Len(buff) /\ Len(meant) \in Nat
      /\ ends \in Seq(Nat) /\ Len(ends) = Len(meant) /\ meant \in Seq(Records)
  BY Bounds DEF Message, Question, Sizes, Read
<1> HIDE DEF S
<1>2. n \in Nat
  BY <1>1
<1> HIDE DEF n
<1>3. CASE n = 0
  BY <1>1, <1>3 DEF Begin
<1>4. CASE n # 0
  <2>1. n \in 1 .. Len(meant) /\ (n + 1) - 1 = n /\ n + 1 # 1 /\ n \in 1 .. Len(ends)
    BY <1>1, <1>2, <1>4
  <2>2. reader = ends[n]
    BY <1>1, <2>1 DEF Begin
  <2>3. RecordAt(buff, known, Begin(n), meant[n], ends[n])
    BY <2>1 DEF Message, Laid
  <2>4. ends[n] <= Len(buff)
    BY <2>3 DEF RecordAt
  <2>5. ends[n] \in Nat
    BY <1>1, <2>1
  <2> QED
    BY <1>1, <2>2, <2>4, <2>5
<1> QED
  BY <1>3, <1>4

LEMMA AnswerTyped ==
  ASSUME NEW r \in Records
  PROVE  /\ Answer(r).name \in Texts /\ Answer(r).rdata \in Addresses \cup Texts
         /\ Answer(r).type = 1 => Answer(r).rdata \in Addresses
<1>1. \A n \in Hosts \cup Targets : Text(n) \in Texts
  BY DEF Texts
<1>2. CASE r.type = "A"
  <2>1. r.owner \in Hosts \cup Targets /\ r.data \in Addresses
    BY <1>2, RecordIs
  <2>2. Answer(r) = [name |-> Text(r.owner), type |-> 1, rdata |-> r.data]
    BY <1>2 DEF Answer
  <2> QED
    BY <1>1, <2>1, <2>2
<1>3. CASE r.type # "A"
  <2>1. r.owner \in Hosts \cup Targets /\ r.data \in Targets
    BY <1>3, RecordIs
  <2>2. Answer(r) = [name |-> Text(r.owner), type |-> 5, rdata |-> Text(r.data)]
    BY <1>3 DEF Answer
  <2> QED
    BY <1>1, <2>1, <2>2
<1> QED
  BY <1>2, <1>3

LEMMA RecordedTyped ==
  ASSUME Message, Read
  PROVE  /\ \A a \in ToSet(answers) : a.name \in Texts /\ a.rdata \in Addresses \cup Texts
         /\ Recorded \in Seq(Addresses)
<1> DEFINE S == {Answer(r) : r \in Records}
           n == Len(answers)
           V == [i \in DOMAIN answers |->
                   IF answers[i].type = 1 THEN <<answers[i].rdata>> ELSE << >>]
<1>1. answers \in Seq(S)
  BY DEF Read
<1>2. \A a \in S : /\ a.name \in Texts /\ a.rdata \in Addresses \cup Texts
                   /\ a.type = 1 => a.rdata \in Addresses
  BY AnswerTyped
<1> HIDE DEF S
<1>3. n \in Nat /\ DOMAIN answers = 1 .. n /\ \A i \in 1 .. n : answers[i] \in S
  BY <1>1
<1>4. \A a \in ToSet(answers) : a \in S
  BY <1>3 DEF ToSet
<1>5. ASSUME NEW i \in 1 .. n
      PROVE  (IF answers[i].type = 1 THEN <<answers[i].rdata>> ELSE << >>) \in Seq(Addresses)
  <2>1. CASE answers[i].type = 1
    <3>1. answers[i].rdata \in Addresses
      BY <1>2, <1>3, <2>1
    <3>2. <<answers[i].rdata>> \in Seq(Addresses)
      BY <3>1, One
    <3> QED
      BY <2>1, <3>2
  <2>2. CASE answers[i].type # 1
    BY <2>2
  <2> QED
    BY <2>1, <2>2
<1>6. V \in Seq(Seq(Addresses))
  BY <1>3, <1>5
<1> HIDE DEF V
<1>7. FlattenSeq(V) \in Seq(Addresses)
  BY <1>6, Flatten
<1>8. Recorded = FlattenSeq(V)
  BY DEF Recorded, V
<1> QED
  BY <1>2, <1>4, <1>7, <1>8

LEMMA MeantTyped ==
  ASSUME meant \in Seq(Records), NEW r, r \in ToSet(meant)
  PROVE  /\ r.owner \in Hosts \cup Targets
         /\ \/ r.type = "A" /\ r.data \in Addresses
            \/ r.type = "CNAME" /\ r.data \in Targets
<1>1. r \in Records
  BY DEF ToSet
<1> QED
  BY <1>1, RecordIs

LEMMA TypesHold == IInv => TypeOK
<1> SUFFICES ASSUME IInv PROVE TypeOK
  OBVIOUS
<1>1. CASE Blank
  BY <1>1 DEF Blank, TypeOK, ToSet
<1>2. CASE Message /\ pc # "query"
  <2>1. /\ buff \in Seq(Octets) /\ meant \in Seq(Records) /\ ends \in Seq(Nat)
        /\ asked \in Hosts /\ KnownAt(buff, known) /\ Len(buff) \in Nat
    BY <1>2 DEF Message, Question, Sizes
  <2>2. pc \in {"query", "reply", "parse", "done", "undefined"}
    BY DEF IInv, Blank
  <2>3. \A k \in known : k[1] \in HeaderSize .. Len(buff) /\ k[2] \in Seq(Seq(Octets))
    BY <2>1, KnownTyped
  <2>4. \A r \in ToSet(meant) : /\ r.owner \in Hosts \cup Targets
                                /\ \/ r.type = "A" /\ r.data \in Addresses
                                   \/ r.type = "CNAME" /\ r.data \in Targets
    BY <2>1, MeantTyped
  <2>5. ASSUME AllReadable
        PROVE  /\ reader \in 0 .. Len(buff)
               /\ \A a \in ToSet(answers) : a.name \in Texts /\ a.rdata \in Addresses \cup Texts
               /\ aResult \in Seq(Addresses)
    <3>1. CASE pc \in {"parse", "done"}
      <4>1. Read /\ (aResult = << >> \/ aResult = Recorded)
        BY <2>5, <3>1, ReadThen DEF Reading
      <4>2. /\ \A a \in ToSet(answers) : a.name \in Texts /\ a.rdata \in Addresses \cup Texts
            /\ Recorded \in Seq(Addresses) /\ reader \in 0 .. Len(buff)
        BY <1>2, <4>1, RecordedTyped, ReaderTyped
      <4>3. CASE aResult = << >>
        BY <4>2, <4>3
      <4>4. CASE aResult = Recorded
        BY <4>2, <4>4
      <4> QED
        BY <4>1, <4>3, <4>4
    <3>2. CASE pc \notin {"parse", "done"}
      <4>1. answers = << >> /\ aResult = << >> /\ reader = 0
        BY <2>5, <3>2, ReadThen
      <4> QED
        BY <2>1, <4>1 DEF ToSet
    <3> QED
      BY <3>1, <3>2
  <2> QED
    BY <2>1, <2>2, <2>3, <2>4, <2>5 DEF TypeOK
<1> QED
  BY <1>1, <1>2, MessageThen

(* Type correctness: the offsets of the names stay inside the message, and *)
(* with readable names the reader too; what is recorded are addresses.     *)
THEOREM MessageTypes == Spec => []TypeOK
  BY Invariant, TypesHold, PTL

(* setQname and changeToDnsNameFormat: the question is the wire form of    *)
(* the host that is asked for, whatever octets its labels have: the        *)
(* assumption keeps out only the 0 that ends the host's text and the dot   *)
(* that separates its labels.                                              *)
THEOREM QuestionIsTheName == Spec => []QuestionIsAsked
  BY Invariant, QuestionHolds, PTL

(* threadRequest: after every answer _reader is at the end of that record, *)
(* the pointers in its names notwithstanding, as long as no label in the   *)
(* records has a 0 or an octet of 192 and above, which ReadName takes for  *)
(* the end of the name or for a pointer.                                   *)
THEOREM ReaderInStep == Spec => []InStep
  BY Invariant, InStepHolds, PTL

(* ReadName and the loop over ans_count: under the same condition, every   *)
(* name and every address is read as it was meant, for any number of       *)
(* records and any chain of pointers.                                      *)
THEOREM AnswersAreMeant == Spec => []ReadAsMeant
  BY Invariant, ReadHolds, PTL

(* The second loop of threadRequest: under the same condition, the         *)
(* addresses of the reply are recorded, all of them, in their order, and   *)
(* nothing else.                                                           *)
THEOREM AllAddresses == Spec => []AddressesFound
  BY Invariant, FoundHolds, PTL

(* ReadName: under the same condition, names of up to 255 octets, owners   *)
(* and what aliases lead to, fit the 256 octets it allocates, and nothing  *)
(* is read from outside of the message.                                    *)
THEOREM RoomForNames == Spec => []NeverAstray
  BY Invariant, FitHolds, PTL
=============================================================================

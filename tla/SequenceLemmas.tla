--------------------------- MODULE SequenceLemmas ---------------------------
(***************************************************************************)
(* The elements of sequences: what the operators that the specifications   *)
(* use on queues do to them; pieces of texts; the least number of a set;   *)
(* induction, and the tables that folds build.                             *)
(***************************************************************************)
EXTENDS Integers, Sequences, SequencesExt, SequenceTheorems, WellFoundedInduction, TLAPS

LEMMA ElementsOf ==
  ASSUME NEW S, NEW s \in Seq(S)
  PROVE  /\ ToSet(s) \subseteq S /\ s \in Seq(ToSet(s))
         /\ \A x : x \in ToSet(s) <=> \E i \in 1 .. Len(s) : s[i] = x
<1>1. DOMAIN s = 1 .. Len(s) /\ Len(s) \in Nat /\ \A i \in 1 .. Len(s) : s[i] \in S
  BY LenProperties, ElementOfSeq
<1>2. \A x : x \in ToSet(s) <=> \E i \in 1 .. Len(s) : s[i] = x
  BY <1>1 DEF ToSet
<1>3. ToSet(s) \subseteq S
  BY <1>1, <1>2
<1>4. s \in Seq(ToSet(s))
  <2>1. \A i \in 1 .. Len(s) : s[i] \in ToSet(s)
    BY <1>2
  <2>2. SubSeq(s, 1, Len(s)) \in Seq(ToSet(s))
    BY <1>1, <2>1, SubSeqProperties
  <2> QED
    BY <2>2, SubSeqFull
<1> QED
  BY <1>2, <1>3, <1>4

LEMMA SequenceOfElements ==
  ASSUME NEW S, NEW s \in Seq(S), NEW T, ToSet(s) \subseteq T
  PROVE  s \in Seq(T)
<1>1. Len(s) \in Nat /\ \A i \in 1 .. Len(s) : s[i] \in T
  BY LenProperties, ElementsOf
<1>2. SubSeq(s, 1, Len(s)) \in Seq(T)
  BY <1>1, SubSeqProperties
<1> QED
  BY <1>2, SubSeqFull

LEMMA ElementsOfEmpty == ToSet(<<>>) = {}
BY DEF ToSet

LEMMA ElementsOfConcat ==
  ASSUME NEW S, NEW s \in Seq(S), NEW t \in Seq(S)
  PROVE  s \o t \in Seq(S) /\ ToSet(s \o t) = ToSet(s) \cup ToSet(t)
<1>1. /\ s \o t \in Seq(S) /\ Len(s \o t) = Len(s) + Len(t)
      /\ \A i \in 1 .. Len(s) + Len(t) :
           (s \o t)[i] = IF i <= Len(s) THEN s[i] ELSE t[i - Len(s)]
  BY ConcatProperties
<1>2. Len(s) \in Nat /\ Len(t) \in Nat
  BY LenProperties
<1>3. ASSUME NEW x \in ToSet(s)
      PROVE  x \in ToSet(s \o t)
  <2>1. PICK i \in 1 .. Len(s) : s[i] = x
    BY ElementsOf
  <2>2. i \in 1 .. Len(s \o t) /\ (s \o t)[i] = x
    BY <1>1, <1>2, <2>1
  <2> QED
    BY <1>1, <2>2, ElementsOf
<1>4. ASSUME NEW x \in ToSet(t)
      PROVE  x \in ToSet(s \o t)
  <2>1. PICK i \in 1 .. Len(t) : t[i] = x
    BY ElementsOf
  <2>2. /\ Len(s) + i \in 1 .. Len(s) + Len(t)
        /\ ~(Len(s) + i <= Len(s)) /\ (Len(s) + i) - Len(s) = i
    BY <1>2
  <2>3. (s \o t)[Len(s) + i] = x
    BY <1>1, <2>1, <2>2
  <2> QED
    BY <1>1, <2>2, <2>3, ElementsOf
<1>5. ASSUME NEW x \in ToSet(s \o t)
      PROVE  x \in ToSet(s) \cup ToSet(t)
  <2>1. PICK i \in 1 .. Len(s) + Len(t) : (s \o t)[i] = x
    BY <1>1, ElementsOf
  <2>2. CASE i <= Len(s)
    <3>1. i \in 1 .. Len(s) /\ s[i] = x
      BY <1>1, <1>2, <2>1, <2>2
    <3> QED
      BY <3>1, ElementsOf
  <2>3. CASE ~(i <= Len(s))
    <3>1. i - Len(s) \in 1 .. Len(t) /\ t[i - Len(s)] = x
      BY <1>1, <1>2, <2>1, <2>3
    <3> QED
      BY <3>1, ElementsOf
  <2> QED
    BY <2>2, <2>3
<1> QED
  BY <1>1, <1>3, <1>4, <1>5

LEMMA ElementsOfOne ==
  ASSUME NEW S, NEW x \in S
  PROVE  <<x>> \in Seq(S) /\ ToSet(<<x>>) = {x}
<1>1. <<x>> \in Seq(S) /\ Len(<<x>>) = 1 /\ <<x>>[1] = x
  OBVIOUS
<1>2. \A y : y \in ToSet(<<x>>) <=> \E i \in 1 .. 1 : <<x>>[i] = y
  BY <1>1, ElementsOf
<1> QED
  BY <1>1, <1>2

LEMMA ElementsOfAppend ==
  ASSUME NEW S, NEW s \in Seq(S), NEW x \in S
  PROVE  Append(s, x) \in Seq(S) /\ ToSet(Append(s, x)) = ToSet(s) \cup {x}
<1>1. <<x>> \in Seq(S) /\ ToSet(<<x>>) = {x}
  BY ElementsOfOne
<1>2. s \o <<x>> \in Seq(S) /\ ToSet(s \o <<x>>) = ToSet(s) \cup ToSet(<<x>>)
  <2> DEFINE t == <<x>>
  <2>1. t \in Seq(S)
    BY <1>1
  <2> HIDE DEF t
  <2>2. s \o t \in Seq(S) /\ ToSet(s \o t) = ToSet(s) \cup ToSet(t)
    BY <2>1, ElementsOfConcat
  <2> QED
    BY <2>2 DEF t
<1>3. Append(s, x) = s \o <<x>>
  BY AppendIsConcat
<1> QED
  BY <1>1, <1>2, <1>3, Zenon

LEMMA ElementsOfTail ==
  ASSUME NEW S, NEW s \in Seq(S), s # <<>>
  PROVE  /\ Head(s) \in S /\ Tail(s) \in Seq(S)
         /\ ToSet(s) = {Head(s)} \cup ToSet(Tail(s))
<1>1. /\ Head(s) \in S /\ Tail(s) \in Seq(S) /\ Len(Tail(s)) = Len(s) - 1
      /\ \A i \in 1 .. Len(Tail(s)) : Tail(s)[i] = s[i + 1]
  BY HeadTailProperties
<1>2. Len(s) \in Nat \ {0} /\ Head(s) = s[1]
  BY EmptySeq
<1>3. ASSUME NEW x \in ToSet(Tail(s))
      PROVE  x \in ToSet(s)
  <2>1. PICK i \in 1 .. Len(Tail(s)) : Tail(s)[i] = x
    BY <1>1, ElementsOf
  <2>2. i + 1 \in 1 .. Len(s) /\ s[i + 1] = x
    BY <1>1, <1>2, <2>1
  <2> QED
    BY <2>2, ElementsOf
<1>4. ASSUME NEW x \in ToSet(s), x # Head(s)
      PROVE  x \in ToSet(Tail(s))
  <2>1. PICK i \in 1 .. Len(s) : s[i] = x
    BY ElementsOf
  <2>2. i # 1
    BY <1>2, <1>4, <2>1
  <2>3. i - 1 \in 1 .. Len(Tail(s)) /\ (i - 1) + 1 = i
    BY <1>1, <1>2, <2>2
  <2>4. Tail(s)[i - 1] = x
    BY <1>1, <2>1, <2>3
  <2> QED
    BY <1>1, <2>3, <2>4, ElementsOf
<1>5. Head(s) \in ToSet(s)
  <2>1. 1 \in 1 .. Len(s)
    BY <1>2
  <2> QED
    BY <1>2, <2>1, ElementsOf
<1> QED
  BY <1>1, <1>3, <1>4, <1>5

LEMMA ElementsOfReverse ==
  ASSUME NEW S, NEW s \in Seq(S)
  PROVE  Reverse(s) \in Seq(S) /\ ToSet(Reverse(s)) = ToSet(s)
<1>1. Len(s) \in Nat /\ \A i \in 1 .. Len(s) : s[i] \in S
  BY LenProperties, ElementOfSeq
<1>2. \A i \in 1 .. Len(s) : (Len(s) - i) + 1 \in 1 .. Len(s)
  BY <1>1
<1>3. Reverse(s) \in Seq(S) /\ Len(Reverse(s)) = Len(s)
  BY <1>1, <1>2 DEF Reverse
<1>4. \A i \in 1 .. Len(s) : Reverse(s)[i] = s[(Len(s) - i) + 1]
  BY DEF Reverse
<1>5. ASSUME NEW x \in ToSet(Reverse(s))
      PROVE  x \in ToSet(s)
  <2>1. PICK i \in 1 .. Len(s) : Reverse(s)[i] = x
    BY <1>3, ElementsOf
  <2>2. (Len(s) - i) + 1 \in 1 .. Len(s) /\ s[(Len(s) - i) + 1] = x
    BY <1>2, <1>4, <2>1
  <2> QED
    BY <2>2, ElementsOf
<1>6. ASSUME NEW x \in ToSet(s)
      PROVE  x \in ToSet(Reverse(s))
  <2>1. PICK i \in 1 .. Len(s) : s[i] = x
    BY ElementsOf
  <2> DEFINE j == (Len(s) - i) + 1
  <2>2. j \in 1 .. Len(s) /\ (Len(s) - j) + 1 = i
    BY <1>1, <1>2
  <2>3. Reverse(s)[j] = x
    BY <1>4, <2>1, <2>2
  <2> QED
    BY <1>3, <2>2, <2>3, ElementsOf
<1> QED
  BY <1>3, <1>5, <1>6

\* The head of a sequence may as well be appended to the sequence before it.
LEMMA FrontOfTheRest ==
  ASSUME NEW S, NEW s \in Seq(S), NEW t \in Seq(S), t # <<>>
  PROVE  Append(s, Head(t)) \o Tail(t) = s \o t
<1> DEFINE h == Head(t)
           r == Tail(t)
           one == <<h>>
<1>1. h \in S /\ r \in Seq(S) /\ one \in Seq(S)
  BY ElementsOfTail
<1>2. Append(s, h) = s \o one
  BY <1>1, AppendIsConcat
<1>3. one \o r = t
  OBVIOUS
<1> HIDE DEF h, r, one
<1>4. (s \o one) \o r = s \o (one \o r)
  BY <1>1, ConcatAssociative
<1> QED
  BY <1>2, <1>3, <1>4, Zenon DEF h, r
-----------------------------------------------------------------------------
\* The piece of a text between two positions.
LEMMA PieceOf ==
  ASSUME NEW S, NEW d \in Seq(S), NEW p \in Nat, NEW q \in Nat, q <= Len(d)
  PROVE  /\ SubSeq(d, p + 1, q) \in Seq(S)
         /\ Len(SubSeq(d, p + 1, q)) = IF p < q THEN q - p ELSE 0
         /\ SubSeq(d, p + 1, q) = SubSeq(d, p + 1, p + Len(SubSeq(d, p + 1, q)))
<1> DEFINE m == p + 1
<1>1. Len(d) \in Nat /\ \A i \in 1 .. Len(d) : d[i] \in S
  BY LenProperties
<1>2. m \in Int /\ q \in Int /\ \A i \in m .. q : d[i] \in S
  BY <1>1
<1>3. SubSeq(d, m, q) \in Seq(S) /\ Len(SubSeq(d, m, q)) = IF m <= q THEN q - m + 1 ELSE 0
  <2> HIDE DEF m
  <2> QED
    BY <1>2, SubSeqProperties
<1>4. Len(SubSeq(d, m, q)) = IF p < q THEN q - p ELSE 0
  BY <1>2, <1>3
<1>5. CASE p < q
  <2>1. p + Len(SubSeq(d, m, q)) = q
    BY <1>4, <1>5
  <2> QED
    BY <1>3, <1>4, <2>1
<1>6. CASE ~(p < q)
  <2>1. p + Len(SubSeq(d, m, q)) = p /\ q < m /\ p < m /\ p \in Int
    BY <1>2, <1>4, <1>6
  <2>2. SubSeq(d, m, q) = <<>> /\ SubSeq(d, m, p) = <<>>
    <3> HIDE DEF m
    <3> QED
      BY <1>2, <2>1, SubSeqEmpty
  <2> QED
    BY <1>3, <1>4, <2>1, <2>2
<1> QED
  BY <1>3, <1>4, <1>5, <1>6

\* Two pieces that meet.
LEMMA PiecesMeet ==
  ASSUME NEW S, NEW d \in Seq(S), NEW p \in Nat, NEW q \in Nat, NEW k \in Nat,
         p <= q, q <= Len(d) \/ p = q, k = 0 \/ q + k <= Len(d)
  PROVE  SubSeq(d, p + 1, q) \o SubSeq(d, q + 1, q + k) = SubSeq(d, p + 1, q + k)
<1>1. Len(d) \in Nat
  BY LenProperties
<1>2. CASE k = 0 /\ p = q
  <2>1. q < q + 1 /\ q \in Int /\ q + 1 \in Int
    OBVIOUS
  <2>2. SubSeq(d, q + 1, q) = <<>>
    BY <2>1, SubSeqEmpty
  <2>3. <<>> \in Seq(S) /\ <<>> \o <<>> = <<>>
    BY ConcatEmptySeq
  <2> QED
    BY <1>2, <2>2, <2>3
<1>3. CASE q + k <= Len(d) /\ q <= Len(d)
  <2>1. /\ p + 1 \in 1 .. Len(d) + 1 /\ q \in (p + 1) - 1 .. Len(d)
        /\ q + k \in q .. Len(d)
    BY <1>1, <1>3
  <2> QED
    BY <2>1, ConcatAdjacentSubSeq
<1> QED
  BY <1>1, <1>2, <1>3

\* c is the text d between the positions f and p, and more the k characters after p.
Covers(d, f, p, c) == p = f + Len(c) /\ c = SubSeq(d, f + 1, p) /\ (p > f => p <= Len(d))
Follows(d, p, k, more) ==
  k = Len(more) /\ more = SubSeq(d, p + 1, p + k) /\ (k = 0 \/ p + k <= Len(d))

LEMMA PieceContinues ==
  ASSUME NEW S, NEW d \in Seq(S), NEW f \in Nat, NEW p \in Nat, NEW k \in Nat,
         NEW c \in Seq(S), NEW more \in Seq(S), Covers(d, f, p, c), Follows(d, p, k, more)
  PROVE  Covers(d, f, p + k, c \o more)
<1>1. ASSUME p = f + Len(c), p > f => p <= Len(d), k = Len(more), k = 0 \/ p + k <= Len(d)
      PROVE  /\ f <= p /\ (p <= Len(d) \/ f = p) /\ p + k = f + Len(c \o more)
             /\ p + k > f => p + k <= Len(d)
  <2> DEFINE m == Len(c)
             e == Len(d)
             n == Len(c \o more)
  <2>1. m \in Nat /\ e \in Nat /\ n = m + k
    BY <1>1, LenProperties, ConcatProperties
  <2>2. p = f + m /\ (p > f => p <= e) /\ (k = 0 \/ p + k <= e)
    BY <1>1
  <2> HIDE DEF m, e, n
  <2>3. /\ f <= p /\ (p <= e \/ f = p) /\ p + k = f + n
        /\ p + k > f => p + k <= e
    BY <2>1, <2>2
  <2> QED
    BY <2>3, Zenon DEF m, e, n
<1>2. ASSUME f <= p, p <= Len(d) \/ f = p, k = 0 \/ p + k <= Len(d)
      PROVE  SubSeq(d, f + 1, p) \o SubSeq(d, p + 1, p + k) = SubSeq(d, f + 1, p + k)
  BY <1>2, PiecesMeet
<1>3. ASSUME c = SubSeq(d, f + 1, p), more = SubSeq(d, p + 1, p + k),
             f <= p, p <= Len(d) \/ f = p, k = 0 \/ p + k <= Len(d)
      PROVE  c \o more = SubSeq(d, f + 1, p + k)
  BY <1>2, <1>3, Zenon
<1> QED
  BY <1>1, <1>3, Zenon DEF Covers, Follows

\* What is appended to a text changes no piece of it.
LEMMA PieceKept ==
  ASSUME NEW S, NEW d \in Seq(S), NEW e \in Seq(S), NEW f \in Nat, NEW p \in Nat,
         NEW c \in Seq(S), Covers(d, f, p, c)
  PROVE  Covers(d \o e, f, p, c)
<1>1. p = f + Len(c) /\ c = SubSeq(d, f + 1, p) /\ (p > f => p <= Len(d))
  BY DEF Covers
<1>2. Len(c) \in Nat /\ Len(d) \in Nat /\ Len(e) \in Nat /\ Len(d \o e) = Len(d) + Len(e)
  BY LenProperties, ConcatProperties
<1>3. ASSUME p > f
      PROVE  SubSeq(d \o e, f + 1, p) = SubSeq(d, f + 1, p)
  <2>1. f + 1 \in 1 .. Len(d) /\ p \in 1 .. Len(d)
    BY <1>1, <1>2, <1>3
  <2> QED
    BY <2>1, SubSeqOfConcat1
<1>4. ASSUME p = f
      PROVE  SubSeq(d \o e, f + 1, p) = SubSeq(d, f + 1, p)
  <2>1. p < f + 1 /\ p \in Int /\ f + 1 \in Int
    BY <1>4
  <2>2. SubSeq(d \o e, f + 1, p) = <<>> /\ SubSeq(d, f + 1, p) = <<>>
    BY <2>1, SubSeqEmpty
  <2> QED
    BY <2>2
<1>5. p > f \/ p = f
  <2> DEFINE m == Len(c)
  <2>1. m \in Nat /\ p = f + m
    BY <1>1, <1>2
  <2> HIDE DEF m
  <2> QED
    BY <2>1
<1>6. p > f => p <= Len(d \o e)
  <2> DEFINE m == Len(d)
             n == Len(e)
  <2>1. (p > f => p <= m) /\ m \in Nat /\ n \in Nat /\ Len(d \o e) = m + n
    BY <1>1, <1>2
  <2> HIDE DEF m, n
  <2>2. p > f => p <= m + n
    BY <2>1
  <2> QED
    BY <2>1, <2>2
<1>7. SubSeq(d \o e, f + 1, p) = SubSeq(d, f + 1, p)
  BY <1>3, <1>4, <1>5, Zenon
<1> QED
  BY <1>1, <1>6, <1>7, Zenon DEF Covers

\* A set of numbers has a least one.
LEMMA LeastOf ==
  ASSUME NEW I \in SUBSET Nat, I # {}
  PROVE  \E x \in I : \A y \in I : x <= y
<1> DEFINE Below == {ss \in Nat \X Nat : ss[1] < ss[2]}
<1>1. IsWellFoundedOn(Below, Nat)
  <2>1. OpToRel(<, Nat) = Below
    BY DEF OpToRel
  <2> HIDE DEF Below
  <2> QED
    BY <2>1, NatLessThanWellFounded, Zenon
<1>2. PICK x \in I : \A y \in I : <<y, x>> \notin Below
  <2> HIDE DEF Below
  <2> QED
    BY <1>1, WFMin
<1>3. ASSUME NEW y \in I
      PROVE  x <= y
  <2>1. x \in Nat /\ y \in Nat
    OBVIOUS
  <2>2. y < x => <<y, x>> \in Below
    BY <2>1
  <2> QED
    BY <1>2, <2>1, <2>2
<1> QED
  BY <1>3
-----------------------------------------------------------------------------
\* Induction, with a set in the place of a predicate.
LEMMA Upward ==
  ASSUME NEW n \in Nat, NEW S, 0 \in S, \A k \in 1 .. n : k - 1 \in S => k \in S
  PROVE  0 .. n \subseteq S
<1> SUFFICES ASSUME 0 .. n \ S # {}
             PROVE  FALSE
  OBVIOUS
<1>1. PICK k \in 0 .. n \ S : \A j \in 0 .. n \ S : k <= j
  <2>1. 0 .. n \ S \in SUBSET Nat
    OBVIOUS
  <2> QED
    BY <2>1, LeastOf
<1>2. k \in 1 .. n /\ k - 1 \in 0 .. n /\ ~(k <= k - 1)
  BY <1>1
<1>3. k - 1 \in S
  BY <1>1, <1>2
<1> QED
  BY <1>1, <1>2, <1>3

LEMMA MaxOf ==
  ASSUME NEW n \in Nat, NEW s \in SUBSET (1 .. n), s # {}
  PROVE  Max(s) \in s /\ \A y \in s : Max(s) >= y
<1> DEFINE I == {n - y : y \in s}
<1>1. I \in SUBSET Nat /\ I # {}
  OBVIOUS
<1>2. PICK x \in I : \A z \in I : x <= z
  <2> HIDE DEF I
  <2> QED
    BY <1>1, LeastOf
<1>3. PICK y \in s : x = n - y
  BY <1>2
<1>4. \A z \in s : n - y <= n - z
  BY <1>2, <1>3
<1>5. \A z \in s : y >= z
  BY <1>4
<1> QED
  BY <1>5 DEF Max

LEMMA MaxUpTo ==
  ASSUME NEW n \in Nat, NEW k \in 1 .. n
  PROVE  Max(1 .. k) = k /\ (1 .. k) \ {k} = 1 .. k - 1 /\ 1 .. k # {} /\ 1 .. k \in SUBSET (1 .. n)
<1>1. 1 .. k \in SUBSET (1 .. n) /\ 1 .. k # {} /\ k \in 1 .. k
  OBVIOUS
<1>2. Max(1 .. k) \in 1 .. k /\ Max(1 .. k) >= k
  BY <1>1, MaxOf
<1> QED
  BY <1>1, <1>2

\* The table that FoldLeft builds exists, and has the type that it should have.
FoldTable(g, A, step, base, p, n) ==
  /\ g \in [SUBSET (1 .. n) -> A]
  /\ \A s \in SUBSET (1 .. n) : g[s] = IF s = {} THEN base ELSE step[<<g[s \ {Max(s)}], p[Max(s)]>>]

LEMMA TableExists ==
  ASSUME NEW A, NEW B, NEW step \in [A \X B -> A], NEW base \in A, NEW n \in Nat, NEW p \in [1 .. n -> B]
  PROVE  \E g : FoldTable(g, A, step, base, p, n)
<1> DEFINE Table(g, k) == FoldTable(g, A, step, base, p, k)
           S == {k \in 0 .. n : \E g : Table(g, k)}
<1>1. 0 \in S
  <2> DEFINE g == [s \in SUBSET (1 .. 0) |-> base]
  <2>1. SUBSET (1 .. 0) = {{}}
    OBVIOUS
  <2>2. Table(g, 0)
    BY <2>1 DEF FoldTable
  <2>3. \E f : Table(f, 0)
    <3> HIDE DEF Table, g
    <3> QED
      BY <2>2
  <2> HIDE DEF Table, g
  <2> QED
    BY <2>3
<1>2. ASSUME NEW k \in 1 .. n, k - 1 \in S
      PROVE  k \in S
  <2>1. PICK g : Table(g, k - 1)
    BY <1>2
  <2> DEFINE h == [s \in SUBSET (1 .. k) |-> IF k \in s THEN step[<<g[s \ {k}], p[k]>>] ELSE g[s]]
  <2> USE DEF FoldTable
  <2>2. \A s \in SUBSET (1 .. k) : /\ s \ {k} \in SUBSET (1 .. k - 1)
                                   /\ k \notin s => s \in SUBSET (1 .. k - 1)
    OBVIOUS
  <2>3. p[k] \in B
    OBVIOUS
  <2>4. ASSUME NEW s \in SUBSET (1 .. k)
        PROVE  h[s] \in A /\ h[s] = IF s = {} THEN base ELSE step[<<h[s \ {Max(s)}], p[Max(s)]>>]
    <3>1. h[s] = (IF k \in s THEN step[<<g[s \ {k}], p[k]>>] ELSE g[s])
      OBVIOUS
    <3>2. CASE k \in s
      <4>1. Max(s) = k
        <5>1. Max(s) \in s /\ Max(s) >= k
          BY <3>2, MaxOf, k \in Nat, s # {}
        <5>2. Max(s) \in 1 .. k
          BY <5>1
        <5> QED
          BY <5>1, <5>2
      <4>2. h[s \ {k}] = g[s \ {k}]
        BY <2>2
      <4>3. g[s \ {k}] \in A
        BY <2>1, <2>2
      <4> QED
        BY <2>3, <3>1, <3>2, <4>1, <4>2, <4>3
    <3>3. CASE k \notin s
      <4>1. h[s] = g[s] /\ s \in SUBSET (1 .. k - 1)
        BY <2>2, <3>1, <3>3
      <4>2. s # {} => h[s \ {Max(s)}] = g[s \ {Max(s)}]
        <5>1. s \ {Max(s)} \in SUBSET (1 .. k) /\ k \notin s \ {Max(s)}
          BY <3>3
        <5> QED
          BY <5>1
      <4> QED
        BY <2>1, <4>1, <4>2
    <3> QED
      BY <3>2, <3>3
  <2>5. h \in [SUBSET (1 .. k) -> A]
    BY <2>4
  <2> HIDE DEF h
  <2>6. Table(h, k)
    BY <2>4, <2>5
  <2>7. \E f : Table(f, k)
    <3> HIDE DEF Table
    <3> QED
      BY <2>6
  <2> HIDE DEF Table
  <2> QED
    BY <2>7
<1>3. n \in S
  <2> HIDE DEF S
  <2>1. 0 .. n \subseteq S
    BY <1>1, <1>2, Upward
  <2> QED
    BY <2>1
<1> QED
  BY <1>3
=============================================================================

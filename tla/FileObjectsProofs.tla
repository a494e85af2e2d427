-------------------------- MODULE FileObjectsProofs --------------------------
(***************************************************************************)
(* Objects lead to the entries that they were made for, iterations give    *)
(* all that is there from their beginning to their end, and only stale     *)
(* directory objects break, for all trees, paths, links and calls.         *)
(*                                                                         *)
(* The invariant says of the entries that they are a tree of unique        *)
(* identities; of an object that is not astray that its path leads to its  *)
(* entry; of an iteration that whatever is there all along and was not     *)
(* given is listed, or is below a listed directory where the iteration's   *)
(* path still leads.  What a call does to the tree is summed up by the     *)
(* entries it takes away (Alters): a path that uses none of them leads     *)
(* where it led (LandingKept), and this is all that the objects and the    *)
(* iterations need to know of the call.                                    *)
(***************************************************************************)
EXTENDS FileObjects, SequenceLemmas, TLAPS

\* Paths.
Path == Seq(Names)
Rest(p, n) == SubSeq(p, n + 1, Len(p))

\* The first steps of a path and the rest of it.
LEMMA FirstStepsOf ==
  ASSUME NEW p \in Path, NEW n \in 0 .. Len(p)
  PROVE  /\ FirstSteps(p, n) \in Path /\ Len(FirstSteps(p, n)) = n
         /\ \A i \in 1 .. n : FirstSteps(p, n)[i] = p[i]
         /\ Rest(p, n) \in Path /\ Len(Rest(p, n)) = Len(p) - n
         /\ \A i \in 1 .. Len(p) - n : Rest(p, n)[i] = p[n + i]
         /\ FirstSteps(p, n) \o Rest(p, n) = p
<1>1. Len(p) \in Nat /\ n \in Int /\ \A i \in 1 .. Len(p) : p[i] \in Names
  BY LenProperties, ElementOfSeq DEF Path
<1>2. /\ FirstSteps(p, n) \in Path /\ Len(FirstSteps(p, n)) = n
      /\ \A i \in 1 .. n : FirstSteps(p, n)[i] = p[i]
  <2>1. \A i \in 1 .. n : p[i] \in Names
    BY <1>1
  <2>2. /\ SubSeq(p, 1, n) \in Seq(Names)
        /\ Len(SubSeq(p, 1, n)) = IF 1 <= n THEN n - 1 + 1 ELSE 0
        /\ \A i \in 1 .. n - 1 + 1 : SubSeq(p, 1, n)[i] = p[1 + i - 1]
    BY <1>1, <2>1, SubSeqProperties
  <2> QED
    BY <1>1, <2>2 DEF FirstSteps, Path
<1>3. /\ Rest(p, n) \in Path /\ Len(Rest(p, n)) = Len(p) - n
      /\ \A i \in 1 .. Len(p) - n : Rest(p, n)[i] = p[n + i]
  <2> DEFINE m == n + 1
             l == Len(p)
  <2>1. m \in Int /\ l \in Int /\ \A i \in m .. l : p[i] \in Names
    BY <1>1
  <2>2. /\ SubSeq(p, m, l) \in Seq(Names)
        /\ Len(SubSeq(p, m, l)) = IF m <= l THEN l - m + 1 ELSE 0
        /\ \A i \in 1 .. l - m + 1 : SubSeq(p, m, l)[i] = p[m + i - 1]
    <3> HIDE DEF m, l
    <3> QED
      BY <2>1, SubSeqProperties
  <2> QED
    BY <1>1, <2>2 DEF Rest, Path
<1>4. FirstSteps(p, n) \o Rest(p, n) = p
  <2> DEFINE a == FirstSteps(p, n)
             b == Rest(p, n)
  <2>1. /\ a \o b \in Path /\ Len(a \o b) = Len(a) + Len(b)
        /\ \A i \in 1 .. Len(a) + Len(b) : (a \o b)[i] = IF i <= Len(a) THEN a[i] ELSE b[i - Len(a)]
    <3> HIDE DEF a, b
    <3>1. a \in Path /\ b \in Path
      BY <1>2, <1>3 DEF a, b
    <3> QED
      BY <3>1, ConcatProperties DEF Path
  <2>2. Len(a \o b) = Len(p)
    BY <1>1, <1>2, <1>3, <2>1
  <2>3. ASSUME NEW i \in 1 .. Len(p)
        PROVE  (a \o b)[i] = p[i]
    <3>1. CASE i <= n
      BY <1>1, <1>2, <1>3, <2>1, <3>1
    <3>2. CASE i > n
      <4>1. i - n \in 1 .. Len(p) - n /\ n + (i - n) = i
        BY <1>1, <3>2
      <4>2. b[i - n] = p[i]
        BY <1>3, <4>1
      <4> QED
        BY <1>1, <1>2, <1>3, <2>1, <3>2, <4>2
    <3>3. i <= n \/ i > n
      BY <1>1
    <3> QED
      BY <3>1, <3>2, <3>3
  <2> HIDE DEF a, b
  <2>4. a \o b = p
    BY <2>1, <2>2, <2>3, SeqEqual DEF Path
  <2> QED
    BY <2>4 DEF a, b
<1> QED
  BY <1>2, <1>3, <1>4

LEMMA AllSteps ==
  ASSUME NEW p \in Path
  PROVE  FirstSteps(p, Len(p)) = p /\ FirstSteps(p, 0) = <<>>
BY SubSeqFull, SubSeqEmpty DEF FirstSteps, Path

\* One path behind another.
LEMMA Concat ==
  ASSUME NEW p \in Path, NEW s \in Path
  PROVE  /\ p \o s \in Path /\ Len(p \o s) = Len(p) + Len(s)
         /\ \A i \in 1 .. Len(p) : (p \o s)[i] = p[i]
         /\ \A i \in 1 .. Len(s) : (p \o s)[Len(p) + i] = s[i]
         /\ Len(p) \in Nat /\ Len(s) \in Nat
         /\ p \o <<>> = p /\ <<>> \o p = p
<1>1. Len(p) \in Nat /\ Len(s) \in Nat
  BY LenProperties DEF Path
<1>2. /\ p \o s \in Path /\ Len(p \o s) = Len(p) + Len(s)
      /\ \A i \in 1 .. Len(p) + Len(s) : (p \o s)[i] = IF i <= Len(p) THEN p[i] ELSE s[i - Len(p)]
  BY ConcatProperties DEF Path
<1>3. \A i \in 1 .. Len(p) : (p \o s)[i] = p[i]
  BY <1>1, <1>2
<1>4. \A i \in 1 .. Len(s) : (p \o s)[Len(p) + i] = s[i]
  <2> SUFFICES ASSUME NEW i \in 1 .. Len(s)
               PROVE  (p \o s)[Len(p) + i] = s[i]
    OBVIOUS
  <2> DEFINE k == Len(p) + i
  <2>1. k \in 1 .. Len(p) + Len(s) /\ ~(k <= Len(p)) /\ k - Len(p) = i
    BY <1>1
  <2> HIDE DEF k
  <2>2. (p \o s)[k] = s[i]
    BY <1>2, <2>1
  <2> QED
    BY <2>2 DEF k
<1>5. p \o <<>> = p /\ <<>> \o p = p
  BY ConcatEmptySeq DEF Path
<1> QED
  BY <1>1, <1>2, <1>3, <1>4, <1>5

LEMMA FirstStepsOfConcat ==
  ASSUME NEW p \in Path, NEW s \in Path, NEW n \in 0 .. Len(p)
  PROVE  FirstSteps(p \o s, n) = FirstSteps(p, n) /\ Rest(p \o s, n) = Rest(p, n) \o s
<1> DEFINE t == p \o s
           a == FirstSteps(p, n)
           b == Rest(p, n)
<1>1. /\ t \in Path /\ Len(t) = Len(p) + Len(s) /\ Len(p) \in Nat /\ Len(s) \in Nat
      /\ \A i \in 1 .. Len(p) : t[i] = p[i]
  BY Concat
<1>2. /\ a \in Path /\ b \in Path /\ a \o b = p /\ Len(a) = n
      /\ \A i \in 1 .. n : a[i] = p[i]
  BY FirstStepsOf
<1>3. n \in 0 .. Len(t)
  BY <1>1
<1> HIDE DEF t, a, b
<1>4. /\ FirstSteps(t, n) \in Path /\ Len(FirstSteps(t, n)) = n /\ Rest(t, n) \in Path
      /\ \A i \in 1 .. n : FirstSteps(t, n)[i] = t[i]
      /\ FirstSteps(t, n) \o Rest(t, n) = t
  BY <1>1, <1>3, FirstStepsOf
<1>5. FirstSteps(t, n) = a
  <2>1. \A i \in 1 .. n : FirstSteps(t, n)[i] = a[i]
    <3> SUFFICES ASSUME NEW i \in 1 .. n
                 PROVE  FirstSteps(t, n)[i] = a[i]
      OBVIOUS
    <3>1. i \in 1 .. Len(p)
      BY <1>1
    <3> QED
      BY <1>1, <1>2, <1>4, <3>1
  <2> QED
    BY <1>2, <1>4, <2>1, SeqEqual DEF Path
<1>6. Rest(t, n) = b \o s
  <2>1. b \o s \in Path
    BY <1>2, Concat
  <2>2. a \o (b \o s) = t
    <3>1. a \in Seq(Names) /\ b \in Seq(Names) /\ s \in Seq(Names)
      BY <1>2 DEF Path
    <3>2. (a \o b) \o s = a \o (b \o s)
      BY <3>1, ConcatAssociative
    <3> QED
      BY <1>2, <3>2 DEF t
  <2>3. a \o Rest(t, n) = t
    BY <1>4, <1>5
  <2> QED
    BY <1>2, <1>4, <2>1, <2>2, <2>3, ConcatSimplifications DEF Path
<1> QED
  BY <1>5, <1>6 DEF t, a, b

\* Prefixes are first steps.
LEMMA PrefixIs ==
  ASSUME NEW q \in Path, NEW p \in Path
  PROVE  IsPrefix(q, p) <=> Len(q) \in 0 .. Len(p) /\ q = FirstSteps(p, Len(q))
BY SubSeqFull, LenProperties DEF IsPrefix, FirstSteps, Path

LEMMA PrefixOfConcat ==
  ASSUME NEW q \in Path, NEW s \in Path
  PROVE  /\ IsPrefix(q, q \o s) /\ FirstSteps(q \o s, Len(q)) = q /\ Rest(q \o s, Len(q)) = s
<1>1. Len(q) \in Nat /\ Len(s) \in Nat /\ q \o s \in Path /\ Len(q \o s) = Len(q) + Len(s)
  BY Concat
<1>2. Len(q) \in 0 .. Len(q) /\ Len(q) \in 0 .. Len(q \o s)
  BY <1>1
<1>3. FirstSteps(q \o s, Len(q)) = q
  BY <1>2, FirstStepsOfConcat, AllSteps
<1>4. Rest(q \o s, Len(q)) = s
  <2>1. Rest(q \o s, Len(q)) = Rest(q, Len(q)) \o s
    BY <1>2, FirstStepsOfConcat
  <2>2. Rest(q, Len(q)) = <<>>
    BY <1>1, SubSeqEmpty DEF Rest
  <2> QED
    BY <2>1, <2>2, Concat
<1> QED
  BY <1>1, <1>2, <1>3, <1>4, PrefixIs

LEMMA FirstStepsTwice ==
  ASSUME NEW p \in Path, NEW n \in 0 .. Len(p), NEW m \in 0 .. n
  PROVE  FirstSteps(FirstSteps(p, n), m) = FirstSteps(p, m)
<1> DEFINE a == FirstSteps(p, n)
           b == Rest(p, n)
<1>1. a \in Path /\ b \in Path /\ a \o b = p /\ Len(a) = n
  BY FirstStepsOf
<1> HIDE DEF a, b
<1>2. FirstSteps(a \o b, m) = FirstSteps(a, m)
  BY <1>1, FirstStepsOfConcat
<1> QED
  BY <1>1, <1>2 DEF a

\* The last name of a path and what is before it.
LEMMA FrontAndLast ==
  ASSUME NEW p \in Path, p # <<>>
  PROVE  /\ Front(p) \in Path /\ Last(p) \in Names /\ p = Append(Front(p), Last(p))
         /\ Len(p) \in Nat \ {0} /\ Len(Front(p)) = Len(p) - 1 /\ Front(p) = FirstSteps(p, Len(p) - 1)
<1>1. Len(p) \in Nat \ {0} /\ Len(p) - 1 \in 0 .. Len(p)
  BY EmptySeq DEF Path
<1>2. Last(p) \in Names
  BY <1>1, ElementOfSeq DEF Last, Path
<1> DEFINE n == Len(p) - 1
<1>3. Front(p) = FirstSteps(p, n)
  BY DEF Front, FirstSteps
<1>4. FirstSteps(p, n) \in Path /\ Len(FirstSteps(p, n)) = n
  BY <1>1, FirstStepsOf
<1>5. p = Append(FirstSteps(p, n), Last(p))
  <2>1. /\ Append(FirstSteps(p, n), Last(p)) \in Path
        /\ Len(Append(FirstSteps(p, n), Last(p))) = n + 1
        /\ \A i \in 1 .. n : Append(FirstSteps(p, n), Last(p))[i] = FirstSteps(p, n)[i]
        /\ Append(FirstSteps(p, n), Last(p))[n + 1] = Last(p)
    BY <1>2, <1>4, AppendProperties DEF Path
  <2>2. \A i \in 1 .. n : FirstSteps(p, n)[i] = p[i]
    BY <1>1, FirstStepsOf
  <2>3. \A i \in 1 .. Len(p) : p[i] = Append(FirstSteps(p, n), Last(p))[i]
    BY <1>1, <2>1, <2>2 DEF Last
  <2> QED
    BY <1>1, <2>1, <2>3, SeqEqual DEF Path
<1> QED
  BY <1>1, <1>2, <1>3, <1>4, <1>5

LEMMA Appended ==
  ASSUME NEW p \in Path, NEW x \in Names
  PROVE  /\ Append(p, x) \in Path /\ Append(p, x) # <<>> /\ Len(Append(p, x)) = Len(p) + 1
         /\ Front(Append(p, x)) = p /\ Last(Append(p, x)) = x
         /\ <<x>> \in Path /\ <<x>> # <<>> /\ Append(p, x) = p \o <<x>>
<1>1. /\ Append(p, x) \in Path /\ Append(p, x) # <<>> /\ Len(Append(p, x)) = Len(p) + 1
      /\ Append(p, x)[Len(p) + 1] = x
  BY AppendProperties DEF Path
<1>2. <<x>> \in Path /\ <<x>> # <<>> /\ Append(p, x) = p \o <<x>>
  BY AppendIsConcat DEF Path
<1>3. Front(Append(p, x)) = p
  <2>1. Append(Front(Append(p, x)), Last(Append(p, x))) = Append(p, x) /\ Front(Append(p, x)) \in Path
        /\ Last(Append(p, x)) \in Names
    BY <1>1, FrontAndLast
  <2> QED
    BY <2>1, AppendInjective DEF Path
<1> QED
  BY <1>1, <1>2, <1>3 DEF Last

-----------------------------------------------------------------------------
\* The tree.
Iteration(h, step, a, n) == h = [k \in 0 .. n |-> IF k = 0 THEN a ELSE step[h[k - 1]]]

\* A function may be defined step by step up to a bound.
LEMMA IterationExists ==
  ASSUME NEW A, NEW step \in [A -> A], NEW a \in A, NEW n \in Nat
  PROVE  \E h : Iteration(h, step, a, n) /\ h \in [0 .. n -> A]
<1> DEFINE Iterates(h, m) == /\ h \in [0 .. m -> A] /\ h[0] = a
                             /\ \A k \in 1 .. m : h[k] = step[h[k - 1]]
           S == {m \in 0 .. n : \E h : Iterates(h, m)}
<1>1. 0 \in S
  <2> DEFINE h == [k \in 0 .. 0 |-> a]
  <2>1. Iterates(h, 0)
    OBVIOUS
  <2> HIDE DEF h, Iterates
  <2>2. \E g : Iterates(g, 0)
    BY <2>1
  <2> QED
    BY <2>2
<1>2. ASSUME NEW k \in 1 .. n, k - 1 \in S
      PROVE  k \in S
  <2>1. PICK g : Iterates(g, k - 1)
    BY <1>2
  <2> DEFINE h == [j \in 0 .. k |-> IF j = k THEN step[g[k - 1]] ELSE g[j]]
  <2>2. Iterates(h, k)
    <3>1. g[k - 1] \in A /\ \A j \in 0 .. k : j # k => j \in 0 .. k - 1
      BY <2>1
    <3>2. h \in [0 .. k -> A] /\ h[0] = a
      BY <2>1, <3>1
    <3>3. ASSUME NEW j \in 1 .. k
          PROVE  h[j] = step[h[j - 1]]
      <4>1. h[j - 1] = g[j - 1] /\ j - 1 \in 0 .. k /\ j \in 0 .. k
        OBVIOUS
      <4>2. j # k => j \in 1 .. k - 1
        OBVIOUS
      <4> QED
        BY <2>1, <4>1, <4>2
    <3> QED
      BY <3>2, <3>3
  <2> HIDE DEF h, Iterates
  <2>3. \E f : Iterates(f, k)
    BY <2>2
  <2> QED
    BY <2>3
<1>3. n \in S
  <2> HIDE DEF S
  <2>1. 0 .. n \subseteq S
    BY <1>1, <1>2, Upward
  <2> QED
    BY <2>1
<1>4. PICK h : Iterates(h, n)
  BY <1>3
<1>5. h = [k \in 0 .. n |-> IF k = 0 THEN a ELSE step[h[k - 1]]] /\ h \in [0 .. n -> A]
  <2>1. \A k \in 0 .. n : h[k] = IF k = 0 THEN a ELSE step[h[k - 1]]
    BY <1>4
  <2> QED
    BY <1>4, <2>1
<1> QED
  BY <1>5 DEF Iteration
-----------------------------------------------------------------------------
Closed ==
  /\ DOMAIN tree \subseteq Path /\ <<>> \in DOMAIN tree
  /\ \A q \in DOMAIN tree : IsDirectory(Front(q))
  /\ \A q \in DOMAIN tree : tree[q].target.steps \in Path

\* What is above an entry is a directory.
LEMMA FoundAbove ==
  Closed =>
    \A p \in Path : \A n \in 0 .. Len(p) : Found(FirstSteps(p, n)) =>
      \A m \in 0 .. n : /\ Found(FirstSteps(p, m))
                        /\ m < n => IsDirectory(FirstSteps(p, m))
<1> SUFFICES ASSUME Closed, NEW p \in Path, NEW n \in 0 .. Len(p), Found(FirstSteps(p, n))
             PROVE  \A m \in 0 .. n : /\ Found(FirstSteps(p, m))
                                      /\ m < n => IsDirectory(FirstSteps(p, m))
  OBVIOUS
<1> DEFINE S == {k \in 0 .. n : Found(FirstSteps(p, n - k)) /\ (k > 0 => IsDirectory(FirstSteps(p, n - k)))}
<1>1. Len(p) \in Nat
  BY LenProperties DEF Path
<1>2. 0 \in S
  <2>1. n - 0 = n /\ 0 \in 0 .. n
    BY <1>1
  <2> QED
    BY <2>1
<1>3. ASSUME NEW k \in 1 .. n, k - 1 \in S
      PROVE  k \in S
  <2> DEFINE m == n - (k - 1)
             q == FirstSteps(p, m)
  <2>1. m \in 1 .. n /\ m \in 0 .. Len(p) /\ m - 1 = n - k /\ m - 1 \in 0 .. m /\ Found(q)
    BY <1>1, <1>3
  <2> HIDE DEF m
  <2>2. q \in Path /\ Len(q) = m /\ q # <<>>
    <3>1. q \in Path /\ Len(q) = m
      BY <2>1, FirstStepsOf
    <3> QED
      BY <2>1, <3>1, EmptySeq
  <2>3. Front(q) = FirstSteps(p, m - 1)
    <3>1. Front(q) = FirstSteps(q, m - 1)
      BY <2>2, FrontAndLast
    <3>2. FirstSteps(q, m - 1) = FirstSteps(p, m - 1)
      BY <2>1, FirstStepsTwice
    <3> QED
      BY <3>1, <3>2
  <2>4. IsDirectory(Front(q))
    BY <2>1 DEF Found, Closed
  <2>5. IsDirectory(FirstSteps(p, n - k))
    BY <2>1, <2>3, <2>4
  <2> QED
    BY <1>1, <2>5 DEF IsDirectory
<1>4. 0 .. n \subseteq S
  <2>1. n \in Nat
    BY <1>1
  <2> HIDE DEF S
  <2> QED
    BY <1>2, <1>3, <2>1, Upward
<1> SUFFICES ASSUME NEW m \in 0 .. n
             PROVE  Found(FirstSteps(p, m)) /\ (m < n => IsDirectory(FirstSteps(p, m)))
  OBVIOUS
<1>5. n - m \in S /\ n - (n - m) = m /\ (m < n => n - m > 0)
  BY <1>1, <1>4
<1> QED
  BY <1>5

-----------------------------------------------------------------------------
\* Links.
\* The first link on a path, and the hop through it.
FirstLink(p, n) == n \in LinksOn(p) /\ \A k \in LinksOn(p) : n <= k

\* If there are links on a path, there is a first one.
LEMMA LinkPositions ==
  ASSUME NEW p \in Path
  PROVE  /\ LinksOn(p) \in SUBSET (1 .. Len(p))
         /\ LinksOn(p) # {} => \E n \in 1 .. Len(p) : FirstLink(p, n)
<1>1. Len(p) \in Nat
  BY LenProperties DEF Path
<1>2. LinksOn(p) \in SUBSET (1 .. Len(p))
  BY DEF LinksOn
<1>3. LinksOn(p) # {} => \E n \in LinksOn(p) : \A k \in LinksOn(p) : n <= k
  <2>1. LinksOn(p) \in SUBSET Nat
    BY <1>1, <1>2
  <2> QED
    BY <2>1, LeastOf
<1> QED
  BY <1>2, <1>3 DEF FirstLink

\* A hop goes through the first link.
LEMMA HopThrough ==
  \A p \in Path : \A n \in 1 .. Len(p) :
    FirstLink(p, n) => Hop(p) = Target(FirstSteps(p, n)) \o Rest(p, n)
<1> SUFFICES ASSUME NEW p \in Path, NEW n \in 1 .. Len(p), FirstLink(p, n)
             PROVE  Hop(p) = Target(FirstSteps(p, n)) \o Rest(p, n)
  OBVIOUS
<1>1. /\ LinksOn(p) # {} /\ LinksOn(p) \in SUBSET (1 .. Len(p)) /\ Len(p) \in Nat
  BY LinkPositions, LenProperties DEF FirstLink, Path
<1>2. n = CHOOSE m \in LinksOn(p) : \A k \in LinksOn(p) : m <= k
  <2> DEFINE c == CHOOSE m \in LinksOn(p) : \A k \in LinksOn(p) : m <= k
  <2>1. c \in LinksOn(p) /\ \A k \in LinksOn(p) : c <= k
    BY DEF FirstLink
  <2> HIDE DEF c
  <2>2. c <= n /\ n <= c /\ c \in 1 .. Len(p)
    BY <1>1, <2>1 DEF FirstLink
  <2>3. n = c
    BY <1>1, <2>2
  <2> QED
    BY <2>3 DEF c
<1> QED
  BY <1>1, <1>2 DEF Hop, Rest

LEMMA TargetIsPath ==
  Closed => \A q \in Path : Found(q) => Target(q) \in Path
<1> SUFFICES ASSUME Closed, NEW q \in Path, Found(q)
             PROVE  Target(q) \in Path
  OBVIOUS
<1>1. tree[q].target.steps \in Path
  BY DEF Closed, Found
<1>2. Front(q) \in Path
  <2>1. CASE q = <<>>
    <3>1. Front(q) = <<>>
      <4>1. Len(q) - 1 \in Int /\ Len(q) - 1 < 1
        BY <2>1, EmptySeq
      <4> QED
        BY <4>1, SubSeqEmpty DEF Front
    <3> QED
      BY <3>1, EmptySeq DEF Path
  <2> QED
    BY <2>1, FrontAndLast
<1> QED
  BY <1>1, <1>2, Concat DEF Target

LEMMA HopIsPath ==
  Closed => \A p \in Path : Hop(p) \in Path /\ (LinksOn(p) = {} => Hop(p) = p)
<1> SUFFICES ASSUME Closed, NEW p \in Path
             PROVE  Hop(p) \in Path /\ (LinksOn(p) = {} => Hop(p) = p)
  OBVIOUS
<1>1. CASE LinksOn(p) = {}
  BY <1>1 DEF Hop
<1>2. CASE LinksOn(p) # {}
  <2>1. PICK n \in 1 .. Len(p) : FirstLink(p, n)
    BY <1>2, LinkPositions
  <2>2. n \in 0 .. Len(p)
    BY LenProperties DEF Path
  <2>3. FirstSteps(p, n) \in Path /\ Rest(p, n) \in Path
    BY <2>2, FirstStepsOf
  <2>4. Target(FirstSteps(p, n)) \in Path
    BY <2>1, <2>3, TargetIsPath DEF FirstLink, LinksOn, Found
  <2> QED
    BY <1>2, <2>1, <2>3, <2>4, HopThrough, Concat
<1> QED
  BY <1>1, <1>2

\* The paths on the way to where a path leads.
HopsFrom(h, p) ==
  h \in [0 .. MaxHops -> Path] /\ h[0] = p /\ \A n \in 1 .. MaxHops : h[n] = Hop(h[n - 1])

\* The hops from a path are paths, each a hop from the one before.
LEMMA HopsOfPath ==
  Closed => \A p \in Path : HopsFrom(Hops(p), p) /\ Landing(p) \in Path
<1> SUFFICES ASSUME Closed, NEW p \in Path
             PROVE  HopsFrom(Hops(p), p) /\ Landing(p) \in Path
  OBVIOUS
<1> DEFINE step == [q \in Path |-> Hop(q)]
           IsHops(h) == h = [n \in 0 .. MaxHops |-> IF n = 0 THEN p ELSE Hop(h[n - 1])]
           f == CHOOSE h : IsHops(h)
<1>1. step \in [Path -> Path] /\ MaxHops \in Nat
  BY HopIsPath, FileObjectsAssumption
<1>2. PICK h : Iteration(h, step, p, MaxHops) /\ h \in [0 .. MaxHops -> Path]
  <2> HIDE DEF step
  <2> QED
    BY <1>1, IterationExists
<1>3. \A n \in 1 .. MaxHops : n - 1 \in 0 .. MaxHops
  BY <1>1
<1>4. IsHops(h)
  <2>1. ASSUME NEW n \in 0 .. MaxHops, n # 0
        PROVE  step[h[n - 1]] = Hop(h[n - 1])
    <3>1. n - 1 \in 0 .. MaxHops
      BY <1>1, <2>1
    <3>2. h[n - 1] \in Path
      BY <1>2, <3>1
    <3> QED
      BY <3>2
  <2> QED
    BY <1>2, <2>1 DEF Iteration
<1>5. IsHops(f)
  BY <1>4
<1>6. Hops(p) = f
  BY DEF Hops
<1> HIDE DEF f
<1>7. f[0] = p /\ \A n \in 1 .. MaxHops : f[n] = Hop(f[n - 1])
  <2>1. 0 \in 0 .. MaxHops /\ \A n \in 1 .. MaxHops : n \in 0 .. MaxHops /\ n # 0
    BY <1>1
  <2> QED
    BY <1>5, <2>1
<1>8. DOMAIN f = 0 .. MaxHops /\ f = [n \in 0 .. MaxHops |-> f[n]]
  BY <1>5
<1>9. \A n \in 0 .. MaxHops : f[n] \in Path
  <2> DEFINE S == {n \in 0 .. MaxHops : f[n] \in Path}
  <2>1. 0 \in S
    BY <1>1, <1>7
  <2>2. \A n \in 1 .. MaxHops : n - 1 \in S => n \in S
    BY <1>1, <1>7, HopIsPath
  <2>3. 0 .. MaxHops \subseteq S
    <3> HIDE DEF S
    <3> QED
      BY <1>1, <2>1, <2>2, Upward
  <2> QED
    BY <2>3
<1>10. f \in [0 .. MaxHops -> Path]
  BY <1>8, <1>9
<1>11. Landing(p) \in Path
  <2>1. MaxHops \in 0 .. MaxHops
    BY <1>1
  <2> QED
    BY <1>6, <1>9, <2>1 DEF Landing
<1> QED
  BY <1>6, <1>7, <1>10, <1>11 DEF HopsFrom

\* Once there is no link on the way, it has come to its end.
LEMMA Settled ==
  Closed =>
    \A p \in Path : \A h : HopsFrom(h, p) =>
      \A i \in 0 .. MaxHops : LinksOn(h[i]) = {} => \A j \in i .. MaxHops : h[j] = h[i]
<1> SUFFICES ASSUME Closed, NEW p \in Path, NEW h, HopsFrom(h, p),
                    NEW i \in 0 .. MaxHops, LinksOn(h[i]) = {}
             PROVE  \A j \in i .. MaxHops : h[j] = h[i]
  OBVIOUS
<1> DEFINE n == MaxHops - i
           S == {k \in 0 .. n : h[i + k] = h[i]}
<1>1. MaxHops \in Nat /\ i \in Nat /\ n \in Nat
  BY FileObjectsAssumption
<1>2. 0 \in S
  BY <1>1
<1>3. ASSUME NEW k \in 1 .. n, k - 1 \in S
      PROVE  k \in S
  <2>1. i + k \in 1 .. MaxHops /\ (i + k) - 1 = i + (k - 1)
    BY <1>1
  <2>2. h[i + k] = Hop(h[i + (k - 1)])
    BY <2>1 DEF HopsFrom
  <2>3. h[i + (k - 1)] = h[i] /\ h[i] \in Path
    BY <1>3 DEF HopsFrom
  <2> QED
    BY <2>2, <2>3, HopIsPath
<1>4. 0 .. n \subseteq S
  <2> HIDE DEF S, n
  <2> QED
    BY <1>1, <1>2, <1>3, Upward
<1> SUFFICES ASSUME NEW j \in i .. MaxHops
             PROVE  h[j] = h[i]
  OBVIOUS
<1>5. j - i \in S /\ i + (j - i) = j
  BY <1>1, <1>4
<1> QED
  BY <1>5

\* A path without links that is hopped to is where the hops land.
LEMMA LandingIs ==
  Closed =>
    \A p \in Path : \A h : HopsFrom(h, p) /\ h = Hops(p) =>
      \A i \in 0 .. MaxHops : LinksOn(h[i]) = {} => h[i] = Landing(p)
<1> SUFFICES ASSUME Closed, NEW p \in Path, NEW h, HopsFrom(h, p), h = Hops(p),
                    NEW i \in 0 .. MaxHops, LinksOn(h[i]) = {}
             PROVE  h[i] = Landing(p)
  OBVIOUS
<1>1. MaxHops \in i .. MaxHops
  BY FileObjectsAssumption
<1> QED
  BY <1>1, Settled DEF Landing

IsLink(q) == Found(q) /\ tree[q].kind = "symlink"

\* A name in a directory is a path without links, but for itself.
LEMMA InDirectory ==
  Closed => \A q \in Path :
    (q = <<>> \/ IsDirectory(Front(q))) /\ ~IsLink(q) => LinksOn(q) = {}
<1> SUFFICES ASSUME Closed, NEW q \in Path, q = <<>> \/ IsDirectory(Front(q)), ~IsLink(q),
                    NEW n \in LinksOn(q)
             PROVE  FALSE
  OBVIOUS
<1>1. Len(q) \in Nat /\ n \in 1 .. Len(q) /\ IsLink(FirstSteps(q, n))
  BY LenProperties DEF LinksOn, IsLink, Found, Path
<1>2. q # <<>>
  BY <1>1, EmptySeq
<1>3. Front(q) \in Path /\ Front(q) = FirstSteps(q, Len(q) - 1) /\ Found(Front(q))
      /\ tree[Front(q)].kind = "directory"
  BY <1>2, FrontAndLast DEF IsDirectory
<1>4. CASE n = Len(q)
  BY <1>1, <1>4, AllSteps
<1>5. CASE n = Len(q) - 1
  BY <1>1, <1>3, <1>5 DEF IsLink
<1>6. CASE n < Len(q) - 1
  <2> DEFINE m == Len(q) - 1
  <2>1. m \in 0 .. Len(q) /\ n \in 0 .. m /\ n < m
    BY <1>1, <1>6
  <2>2. Found(FirstSteps(q, m))
    BY <1>3
  <2> HIDE DEF m
  <2>3. IsDirectory(FirstSteps(q, n))
    BY <2>1, <2>2, FoundAbove
  <2> QED
    BY <1>1, <2>3 DEF IsLink, IsDirectory
<1> QED
  BY <1>1, <1>4, <1>5, <1>6

LEMMA NoLinksTo ==
  Closed => \A q \in Path : Found(q) /\ ~IsLink(q) => LinksOn(q) = {}
BY InDirectory DEF Closed, Found

\* Links are on a path wherever it goes on.
LEMMA NoLinksBefore ==
  Closed => \A p, s \in Path : LinksOn(p \o s) = {} => LinksOn(p) = {}
<1> SUFFICES ASSUME Closed, NEW p \in Path, NEW s \in Path, NEW n \in LinksOn(p)
             PROVE  n \in LinksOn(p \o s)
  OBVIOUS
<1>1. n \in 1 .. Len(p) /\ Len(p) \in Nat /\ Len(s) \in Nat /\ Len(p \o s) = Len(p) + Len(s)
  BY Concat DEF LinksOn
<1>2. n \in 0 .. Len(p) /\ n \in 1 .. Len(p \o s)
  BY <1>1
<1>3. FirstSteps(p \o s, n) = FirstSteps(p, n)
  BY <1>2, FirstStepsOfConcat
<1> QED
  BY <1>2, <1>3 DEF LinksOn

LEMMA HopBefore ==
  Closed => \A p, s \in Path : LinksOn(p) # {} => Hop(p \o s) = Hop(p) \o s
<1> SUFFICES ASSUME Closed, NEW p \in Path, NEW s \in Path, LinksOn(p) # {}
             PROVE  Hop(p \o s) = Hop(p) \o s
  OBVIOUS
<1> DEFINE t == p \o s
<1>1. Len(p) \in Nat /\ Len(s) \in Nat /\ t \in Path /\ Len(t) = Len(p) + Len(s)
  BY Concat
<1>2. PICK n \in 1 .. Len(p) : FirstLink(p, n)
  BY LinkPositions
<1>3. \A k \in 0 .. Len(p) : FirstSteps(t, k) = FirstSteps(p, k) /\ Rest(t, k) = Rest(p, k) \o s
  BY FirstStepsOfConcat
<1> HIDE DEF t
<1>4. n \in 1 .. Len(t) /\ n \in 0 .. Len(p)
  BY <1>1
<1>5. FirstLink(t, n)
  <2>1. n \in LinksOn(t)
    BY <1>2, <1>3, <1>4 DEF FirstLink, LinksOn
  <2>2. ASSUME NEW k \in LinksOn(t)
        PROVE  n <= k
    <3>1. k \in 1 .. Len(t)
      BY DEF LinksOn
    <3>2. CASE k <= Len(p)
      <4>1. k \in 1 .. Len(p) /\ k \in 0 .. Len(p)
        BY <1>1, <3>1, <3>2
      <4>2. k \in LinksOn(p)
        BY <1>3, <4>1 DEF LinksOn
      <4> QED
        BY <1>2, <4>2 DEF FirstLink
    <3> QED
      BY <1>1, <3>1, <3>2
  <2> QED
    BY <2>1, <2>2 DEF FirstLink
<1>6. Hop(t) = Target(FirstSteps(p, n)) \o (Rest(p, n) \o s)
  <2>1. Hop(t) = Target(FirstSteps(t, n)) \o Rest(t, n)
    BY <1>1, <1>4, <1>5, HopThrough
  <2> QED
    BY <1>3, <1>4, <2>1
<1>7. Hop(p) = Target(FirstSteps(p, n)) \o Rest(p, n)
  BY <1>2, HopThrough
<1>8. Target(FirstSteps(p, n)) \in Path /\ Rest(p, n) \in Path
  <2>1. FirstSteps(p, n) \in Path /\ Rest(p, n) \in Path
    BY <1>4, FirstStepsOf
  <2>2. Found(FirstSteps(p, n))
    BY <1>2 DEF FirstLink, LinksOn, Found
  <2> QED
    BY <2>1, <2>2, TargetIsPath
<1> DEFINE a == Target(FirstSteps(p, n))
           b == Rest(p, n)
<1>9. a \in Seq(Names) /\ b \in Seq(Names) /\ s \in Seq(Names)
  BY <1>8 DEF Path
<1>10. Hop(t) = a \o (b \o s) /\ Hop(p) = a \o b
  BY <1>6, <1>7
<1> HIDE DEF a, b
<1>11. (a \o b) \o s = a \o (b \o s)
  BY <1>9, ConcatAssociative
<1>12. Hop(t) = Hop(p) \o s
  BY <1>10, <1>11
<1> QED
  BY <1>12 DEF t

\* What is below a path that leads to a directory leads below the directory.
LEMMA LandingBelow ==
  Closed => \A p, s \in Path :
    LinksOn(Landing(p) \o s) = {} => Landing(p \o s) = Landing(p) \o s
<1> SUFFICES ASSUME Closed, NEW p \in Path, NEW s \in Path, LinksOn(Landing(p) \o s) = {}
             PROVE  Landing(p \o s) = Landing(p) \o s
  OBVIOUS
<1>1. p \o s \in Path /\ MaxHops \in Nat
  BY Concat, FileObjectsAssumption
<1>2. PICK h : h = Hops(p) /\ HopsFrom(h, p)
  BY HopsOfPath
<1>3. PICK g : g = Hops(p \o s) /\ HopsFrom(g, p \o s)
  BY <1>1, HopsOfPath
<1> DEFINE S == {n \in 0 .. MaxHops : g[n] = h[n] \o s}
<1>4. 0 \in S
  BY <1>1, <1>2, <1>3 DEF HopsFrom
<1>5. ASSUME NEW n \in 1 .. MaxHops, n - 1 \in S
      PROVE  n \in S
  <2>1. /\ n \in 0 .. MaxHops /\ n - 1 \in 0 .. MaxHops
        /\ h[n - 1] \in Path /\ g[n - 1] = h[n - 1] \o s
    BY <1>1, <1>2, <1>5 DEF HopsFrom
  <2>2. g[n] = Hop(h[n - 1] \o s) /\ h[n] = Hop(h[n - 1])
    BY <1>2, <1>3, <2>1 DEF HopsFrom
  <2>3. CASE LinksOn(h[n - 1]) # {}
    BY <2>1, <2>2, <2>3, HopBefore
  <2>4. CASE LinksOn(h[n - 1]) = {}
    <3>1. h[n - 1] = Landing(p)
      BY <1>2, <2>1, <2>4, LandingIs
    <3>2. Hop(h[n - 1] \o s) = h[n - 1] \o s /\ Hop(h[n - 1]) = h[n - 1]
      <4>1. h[n - 1] \o s \in Path
        BY <2>1, Concat
      <4> QED
        BY <2>1, <2>4, <3>1, <4>1, HopIsPath
    <3> QED
      BY <2>1, <2>2, <3>2
  <2> QED
    BY <2>3, <2>4
<1>6. 0 .. MaxHops \subseteq S
  <2> HIDE DEF S
  <2> QED
    BY <1>1, <1>4, <1>5, Upward
<1>7. MaxHops \in S
  BY <1>1, <1>6
<1> QED
  BY <1>2, <1>3, <1>7 DEF Landing

\* The place of a path, and where it leads if no link is there.
LEMMA PlaceOfPath ==
  Closed => \A p \in Path :
    /\ Place(p) \in Path
    /\ p # <<>> => /\ Place(p) # <<>> /\ Front(Place(p)) = Landing(Front(p))
                   /\ Last(Place(p)) = Last(p)
    /\ LinksOn(Place(p)) = {} => Landing(p) = Place(p)
<1> SUFFICES ASSUME Closed, NEW p \in Path
             PROVE  /\ Place(p) \in Path
                    /\ p # <<>> => /\ Place(p) # <<>> /\ Front(Place(p)) = Landing(Front(p))
                                   /\ Last(Place(p)) = Last(p)
                    /\ LinksOn(Place(p)) = {} => Landing(p) = Place(p)
  OBVIOUS
<1>1. CASE p = <<>>
  <2>1. LinksOn(p) = {}
    BY <1>1, LinkPositions, EmptySeq
  <2>2. PICK h : h = Hops(p) /\ HopsFrom(h, p)
    BY HopsOfPath
  <2>3. 0 \in 0 .. MaxHops /\ h[0] = p
    BY <2>2, FileObjectsAssumption DEF HopsFrom
  <2>4. Landing(p) = p
    BY <2>1, <2>2, <2>3, LandingIs
  <2> QED
    BY <1>1, <2>4 DEF Place
<1>2. CASE p # <<>>
  <2> DEFINE f == Front(p)
             x == Last(p)
             d == Landing(f)
  <2>1. f \in Path /\ x \in Names /\ p = Append(f, x)
    BY <1>2, FrontAndLast
  <2>2. d \in Path
    BY <2>1, HopsOfPath
  <2>3. Place(p) = Append(d, x)
    BY <1>2 DEF Place
  <2> HIDE DEF f, x
  <2>4. p = f \o <<x>> /\ <<x>> \in Path
    BY <2>1, Appended
  <2> HIDE DEF d
  <2>5. /\ Append(d, x) \in Path /\ Append(d, x) # <<>> /\ Front(Append(d, x)) = d
        /\ Last(Append(d, x)) = x /\ Append(d, x) = d \o <<x>>
    BY <2>1, <2>2, Appended
  <2>6. LinksOn(d \o <<x>>) = {} => Landing(f \o <<x>>) = d \o <<x>>
    BY <2>1, <2>4, LandingBelow DEF d
  <2> QED
    BY <1>2, <2>3, <2>4, <2>5, <2>6 DEF f, x, d
<1> QED
  BY <1>1, <1>2

\* A path that leads to an entry leads there through the directory that the entry is in.
LEMMA ParentIsDirectory ==
  Closed => \A p \in Path :
    p # <<>> /\ (Found(Landing(p)) \/ Found(Place(p))) => IsDirectory(Landing(Front(p)))
<1> SUFFICES ASSUME Closed, NEW p \in Path, p # <<>>, Found(Landing(p)) \/ Found(Place(p))
             PROVE  IsDirectory(Landing(Front(p)))
  OBVIOUS
<1> DEFINE f == Front(p)
           s == <<Last(p)>>
<1>1. f \in Path /\ s \in Path /\ p = f \o s /\ s # <<>> /\ Last(p) \in Names /\ MaxHops \in Nat
  BY FrontAndLast, Appended, FileObjectsAssumption
<1>2. PICK h : h = Hops(f) /\ HopsFrom(h, f)
  BY <1>1, HopsOfPath
<1>3. PICK g : g = Hops(p) /\ HopsFrom(g, p)
  BY HopsOfPath
<1>4. h[MaxHops] = Landing(f) /\ g[MaxHops] = Landing(p) /\ Landing(f) \in Path
      /\ MaxHops \in 0 .. MaxHops
  BY <1>1, <1>2, <1>3, HopsOfPath DEF Landing
<1>5. Place(p) = Landing(f) \o s
  BY <1>1, <1>4, Appended DEF Place
<1>6. \A q \in Path : Found(q \o s) => IsDirectory(q)
  <2> SUFFICES ASSUME NEW q \in Path, Found(q \o s)
               PROVE  IsDirectory(q)
    OBVIOUS
  <2>1. Front(q \o s) = q
    BY <1>1, Appended
  <2> QED
    BY <2>1 DEF Closed, Found
<1>7. CASE Found(Place(p))
  BY <1>4, <1>5, <1>6, <1>7
<1>8. CASE Found(Landing(p)) /\ ~Found(Place(p))
  <2>1. LinksOn(Landing(f)) # {}
    <3> SUFFICES ASSUME LinksOn(Landing(f)) = {}
                 PROVE  FALSE
      OBVIOUS
    <3>1. LinksOn(Landing(f) \o s) = {}
      <4> SUFFICES ASSUME NEW n \in LinksOn(Landing(f) \o s)
                   PROVE  FALSE
        OBVIOUS
      <4> DEFINE d == Landing(f)
      <4>1. Len(d) \in Nat /\ d \o s \in Path /\ Len(d \o s) = Len(d) + 1
        BY <1>1, <1>4, Appended, Concat
      <4>2. /\ n \in 1 .. Len(d \o s) /\ Found(FirstSteps(d \o s, n))
            /\ tree[FirstSteps(d \o s, n)].kind = "symlink"
        BY DEF LinksOn, Found
      <4>3. CASE n = Len(d) + 1
        BY <1>5, <1>8, <4>1, <4>2, <4>3, AllSteps
      <4>4. CASE n # Len(d) + 1
        <5>1. n \in 1 .. Len(d) /\ n \in 0 .. Len(d)
          BY <4>1, <4>2, <4>4
        <5>2. FirstSteps(d \o s, n) = FirstSteps(d, n)
          BY <1>1, <1>4, <5>1, FirstStepsOfConcat
        <5> QED
          BY <4>2, <5>1, <5>2 DEF LinksOn, Found
      <4> QED
        BY <4>3, <4>4
    <3>2. Landing(p) = Place(p)
      BY <1>1, <1>5, <3>1, LandingBelow
    <3> QED
      BY <1>8, <3>2
  <2>2. \A n \in 0 .. MaxHops : LinksOn(h[n]) # {}
    BY <1>1, <1>2, <2>1, LandingIs
  <2> DEFINE S == {n \in 0 .. MaxHops : g[n] = h[n] \o s}
  <2>3. 0 \in S
    BY <1>1, <1>2, <1>3 DEF HopsFrom
  <2>4. ASSUME NEW n \in 1 .. MaxHops, n - 1 \in S
        PROVE  n \in S
    <3>1. /\ n \in 0 .. MaxHops /\ n - 1 \in 0 .. MaxHops
          /\ h[n - 1] \in Path /\ g[n - 1] = h[n - 1] \o s
      BY <1>1, <1>2, <2>4 DEF HopsFrom
    <3>2. g[n] = Hop(h[n - 1] \o s) /\ h[n] = Hop(h[n - 1])
      BY <1>2, <1>3, <3>1 DEF HopsFrom
    <3>3. Hop(h[n - 1] \o s) = Hop(h[n - 1]) \o s
      BY <1>1, <2>2, <3>1, HopBefore
    <3> QED
      BY <3>1, <3>2, <3>3
  <2>5. 0 .. MaxHops \subseteq S
    <3> HIDE DEF S
    <3> QED
      BY <1>1, <2>3, <2>4, Upward
  <2>6. Landing(p) = Landing(f) \o s
    BY <1>4, <2>5
  <2> QED
    BY <1>5, <1>8, <2>6
<1> QED
  BY <1>7, <1>8
-----------------------------------------------------------------------------
\* What a step leaves alone, for the paths that use nothing of what it takes away.
Kept(gone) == \A q \in DOMAIN tree \ gone : q \in DOMAIN tree' /\ tree'[q] = tree[q]
Spared(p, gone) == \A n \in 0 .. Len(p) : FirstSteps(p, n) \notin gone

\* The same in the next state, as for all that is proved of every state.
LEMMA HopThroughNext ==
  (\A p \in Path : \A n \in 1 .. Len(p) :
     FirstLink(p, n) => Hop(p) = Target(FirstSteps(p, n)) \o Rest(p, n))'
BY HopThrough, PTL

\* A hop goes as before if no entry on its way is taken away.
LEMMA HopKept ==
  ASSUME Closed, Closed', NEW gone, Kept(gone),
         NEW p \in Path, Spared(p, gone), LinksOn(p) # {} \/ Found(p)
  PROVE  Hop(p)' = Hop(p) /\ (LinksOn(p)' = {} <=> LinksOn(p) = {})
<1>1. Len(p) \in Nat
  BY LenProperties DEF Path
<1>2. ASSUME NEW n \in 0 .. Len(p), Found(FirstSteps(p, n))
      PROVE  \A m \in 0 .. n : /\ Found(FirstSteps(p, m))' /\ tree'[FirstSteps(p, m)] = tree[FirstSteps(p, m)]
                               /\ m < n => tree[FirstSteps(p, m)].kind = "directory"
  <2> SUFFICES ASSUME NEW m \in 0 .. n
               PROVE  /\ Found(FirstSteps(p, m))' /\ tree'[FirstSteps(p, m)] = tree[FirstSteps(p, m)]
                      /\ m < n => tree[FirstSteps(p, m)].kind = "directory"
    OBVIOUS
  <2>1. Found(FirstSteps(p, m)) /\ (m < n => IsDirectory(FirstSteps(p, m)))
    BY <1>2, FoundAbove
  <2>2. m \in 0 .. Len(p)
    BY <1>1
  <2>3. FirstSteps(p, m) \in DOMAIN tree \ gone
    BY <2>1, <2>2 DEF Spared, Found
  <2> QED
    BY <2>1, <2>3 DEF Kept, Found, IsDirectory
<1>3. CASE LinksOn(p) = {}
  <2>1. Found(FirstSteps(p, Len(p))) /\ Len(p) \in 0 .. Len(p)
    BY <1>1, <1>3, AllSteps
  <2>2. \A m \in 0 .. Len(p) : Found(FirstSteps(p, m)) /\ tree'[FirstSteps(p, m)] = tree[FirstSteps(p, m)]
    BY <1>1, <1>2, <2>1, FoundAbove
  <2>3. LinksOn(p)' = {}
    <3> SUFFICES ASSUME NEW n \in LinksOn(p)'
                 PROVE  FALSE
      OBVIOUS
    <3>1. n \in 1 .. Len(p) /\ tree'[FirstSteps(p, n)].kind = "symlink" /\ n \in 0 .. Len(p)
      BY <1>1 DEF LinksOn, FirstSteps
    <3>2. n \in LinksOn(p)
      BY <2>2, <3>1 DEF LinksOn, Found
    <3> QED
      BY <1>3, <3>2
  <2> QED
    BY <1>3, <2>3 DEF Hop
<1>4. CASE LinksOn(p) # {}
  <2>1. PICK n \in 1 .. Len(p) : FirstLink(p, n)
    BY <1>4, LinkPositions
  <2>2. n \in 0 .. Len(p) /\ n \in 0 .. n /\ n \in LinksOn(p) /\ Found(FirstSteps(p, n))
    BY <1>1, <2>1 DEF FirstLink, LinksOn, Found
  <2>3. FirstLink(p, n)'
    <3>1. n \in LinksOn(p)'
      <4>1. Found(FirstSteps(p, n))' /\ tree'[FirstSteps(p, n)] = tree[FirstSteps(p, n)]
        BY <1>2, <2>2
      <4> QED
        BY <2>2, <4>1 DEF LinksOn, Found, FirstSteps
    <3>2. ASSUME NEW k \in LinksOn(p)'
          PROVE  n <= k
      <4>1. k \in 1 .. Len(p) /\ tree'[FirstSteps(p, k)].kind = "symlink"
        BY DEF LinksOn, FirstSteps
      <4>2. CASE k < n
        <5>1. k \in 0 .. n
          BY <1>1, <2>2, <4>1, <4>2
        <5> QED
          BY <1>2, <2>2, <4>1, <4>2, <5>1
      <4> QED
        BY <1>1, <2>2, <4>1, <4>2
    <3> QED
      BY <3>1, <3>2 DEF FirstLink
  <2>4. Hop(p) = Target(FirstSteps(p, n)) \o Rest(p, n)
    BY <2>1, HopThrough
  <2>5. (Hop(p) = Target(FirstSteps(p, n)) \o Rest(p, n))'
    BY <2>3, HopThroughNext DEF Path
  <2>7. LinksOn(p)' # {}
    BY <2>3 DEF FirstLink
  <2>6. Target(FirstSteps(p, n))' = Target(FirstSteps(p, n))
    BY <1>2, <2>2 DEF Target, FirstSteps
  <2>8. Rest(p, n)' = Rest(p, n)
    BY DEF Rest
  <2>9. Hop(p)' = Hop(p)
    BY <2>4, <2>5, <2>6, <2>8
  <2> QED
    BY <1>4, <2>7, <2>9
<1> QED
  BY <1>3, <1>4

\* The hops from a path are determined by it.
LEMMA HopsUnique ==
  Closed => \A p \in Path : \A g, h : HopsFrom(g, p) /\ HopsFrom(h, p) => g = h
<1> SUFFICES ASSUME Closed, NEW p \in Path, NEW g, NEW h, HopsFrom(g, p), HopsFrom(h, p)
             PROVE  g = h
  OBVIOUS
<1> DEFINE S == {n \in 0 .. MaxHops : g[n] = h[n]}
<1>1. MaxHops \in Nat
  BY FileObjectsAssumption
<1>2. 0 \in S
  BY <1>1 DEF HopsFrom
<1>3. \A n \in 1 .. MaxHops : n - 1 \in S => n \in S
  BY <1>1 DEF HopsFrom
<1>4. 0 .. MaxHops \subseteq S
  <2> HIDE DEF S
  <2> QED
    BY <1>1, <1>2, <1>3, Upward
<1>5. \A n \in 0 .. MaxHops : g[n] = h[n]
  BY <1>4
<1>6. g \in [0 .. MaxHops -> Path] /\ h \in [0 .. MaxHops -> Path]
  BY DEF HopsFrom
<1>7. g = [n \in 0 .. MaxHops |-> g[n]] /\ h = [n \in 0 .. MaxHops |-> h[n]]
  BY <1>6
<1>8. [n \in 0 .. MaxHops |-> g[n]] = [n \in 0 .. MaxHops |-> h[n]]
  BY <1>5
<1> QED
  BY <1>7, <1>8

LEMMA HopsUniqueNext ==
  (Closed => \A p \in Path : \A g, h : HopsFrom(g, p) /\ HopsFrom(h, p) => g = h)'
BY HopsUnique, PTL

LEMMA HopsOfPathNext ==
  (Closed => \A p \in Path : HopsFrom(Hops(p), p) /\ Landing(p) \in Path)'
BY HopsOfPath, PTL

\* The same hops lead from a path if none of them is changed.
LEMMA HopsKept ==
  ASSUME Closed, Closed', NEW p \in Path, NEW h, h = Hops(p),
         \A n \in 1 .. MaxHops : Hop(h[n - 1])' = Hop(h[n - 1])
  PROVE  Hops(p)' = Hops(p) /\ Landing(p)' = Landing(p)
<1>1. HopsFrom(h, p)
  BY HopsOfPath
<1>2. HopsFrom(h, p)'
  BY <1>1 DEF HopsFrom, Path
<1>3. p \in Path' /\ HopsFrom(Hops(p), p)'
  BY HopsOfPathNext DEF Path
<1>4. Hops(p)' = h
  BY <1>2, <1>3, HopsUniqueNext
<1> QED
  BY <1>4 DEF Landing

\* A path that leads to an entry still leads there if none of the entries that it uses is
\* taken away, whatever is made meanwhile.
LEMMA LandingKept ==
  ASSUME Closed, Closed', NEW gone, gone \subseteq DOMAIN tree, Kept(gone),
         NEW p \in Path, Uses(p) \cap gone = {}, Found(Landing(p))
  PROVE  /\ Hops(p)' = Hops(p) /\ Landing(p)' = Landing(p)
         /\ Landing(p) \notin gone /\ Landing(p) \in DOMAIN tree'
         /\ tree'[Landing(p)] = tree[Landing(p)]
<1>1. PICK h : h = Hops(p) /\ HopsFrom(h, p)
  BY HopsOfPath
<1>2. ASSUME NEW i \in 0 .. MaxHops
      PROVE  h[i] \in Path /\ Spared(h[i], gone)
  <2>1. h[i] \in Path
    BY <1>1 DEF HopsFrom
  <2>2. ASSUME NEW n \in 0 .. Len(h[i]), FirstSteps(h[i], n) \in gone
        PROVE  FALSE
    <3> DEFINE q == FirstSteps(h[i], n)
    <3>1. q \in Path /\ Len(q) = n
      BY <2>1, FirstStepsOf
    <3>2. q \in DOMAIN tree
      BY <2>2
    <3>3. q = FirstSteps(h[i], Len(q)) /\ Len(q) \in 0 .. Len(h[i])
      BY <3>1
    <3> HIDE DEF q
    <3>4. IsPrefix(q, h[i])
      BY <2>1, <3>1, <3>3, PrefixIs
    <3>5. q \in Uses(p)
      BY <1>1, <3>2, <3>4 DEF Uses
    <3> QED
      BY <2>2, <3>5 DEF q
  <2> QED
    BY <2>1, <2>2 DEF Spared
<1>3. ASSUME NEW n \in 1 .. MaxHops
      PROVE  Hop(h[n - 1])' = Hop(h[n - 1])
  <2> DEFINE i == n - 1
  <2>1. i \in 0 .. MaxHops
    BY FileObjectsAssumption
  <2> HIDE DEF i
  <2>2. h[i] \in Path /\ Spared(h[i], gone)
    BY <1>2, <2>1
  <2>3. LinksOn(h[i]) = {} => Found(h[i])
    BY <1>1, <2>1, LandingIs
  <2>4. Hop(h[i])' = Hop(h[i])
    BY <2>2, <2>3, HopKept
  <2> QED
    BY <2>4 DEF i
<1>4. Hops(p)' = Hops(p) /\ Landing(p)' = Landing(p)
  BY <1>1, <1>3, HopsKept
<1>5. Landing(p) \notin gone
  <2>1. MaxHops \in 0 .. MaxHops /\ Landing(p) = h[MaxHops]
    BY <1>1, FileObjectsAssumption DEF Landing
  <2>2. Landing(p) \in Path /\ Spared(Landing(p), gone)
    BY <1>2, <2>1
  <2>3. Len(Landing(p)) \in 0 .. Len(Landing(p))
    BY <2>2, LenProperties DEF Path
  <2> QED
    BY <2>2, <2>3, AllSteps DEF Spared
<1>6. Landing(p) \in DOMAIN tree \ gone
  BY <1>5 DEF Found
<1> QED
  BY <1>4, <1>5, <1>6 DEF Kept

\* Files and directories that are made lead no path astray.
LEMMA NoNewLinks ==
  ASSUME Closed, Closed', Kept({}),
         \A q \in DOMAIN tree' \ DOMAIN tree : tree'[q].kind # "symlink"
  PROVE  \A p \in Path : /\ Hops(p)' = Hops(p) /\ Landing(p)' = Landing(p)
                         /\ Place(p)' = Place(p)
<1>1. ASSUME NEW p \in Path
      PROVE  Hop(p)' = Hop(p)
  <2>1. \A q : q \in DOMAIN tree' /\ tree'[q].kind = "symlink" <=>
               q \in DOMAIN tree /\ tree[q].kind = "symlink"
    BY DEF Kept
  <2>2. LinksOn(p)' = LinksOn(p)
    BY <2>1 DEF LinksOn, FirstSteps
  <2>3. CASE LinksOn(p) = {}
    BY <2>2, <2>3 DEF Hop
  <2>4. CASE LinksOn(p) # {}
    <3>1. PICK n \in 1 .. Len(p) : FirstLink(p, n)
      BY <2>4, LinkPositions
    <3>2. FirstLink(p, n)'
      BY <2>2, <3>1 DEF FirstLink
    <3>3. Hop(p) = Target(FirstSteps(p, n)) \o Rest(p, n)
      BY <3>1, HopThrough
    <3>4. (Hop(p) = Target(FirstSteps(p, n)) \o Rest(p, n))'
      BY <3>2, HopThroughNext DEF Path
    <3>5. tree'[FirstSteps(p, n)] = tree[FirstSteps(p, n)]
      BY <3>1 DEF FirstLink, LinksOn, Kept
    <3>6. Target(FirstSteps(p, n))' = Target(FirstSteps(p, n)) /\ Rest(p, n)' = Rest(p, n)
      BY <3>5 DEF Target, FirstSteps, Rest
    <3> QED
      BY <3>3, <3>4, <3>6
  <2> QED
    BY <2>3, <2>4
<1>2. ASSUME NEW p \in Path
      PROVE  Hops(p)' = Hops(p) /\ Landing(p)' = Landing(p)
  <2>1. PICK h : h = Hops(p) /\ HopsFrom(h, p)
    BY HopsOfPath
  <2>2. ASSUME NEW n \in 1 .. MaxHops
        PROVE  Hop(h[n - 1])' = Hop(h[n - 1])
    <3> DEFINE i == n - 1
    <3>1. i \in 0 .. MaxHops
      BY FileObjectsAssumption
    <3> HIDE DEF i
    <3>2. h[i] \in Path
      BY <2>1, <3>1 DEF HopsFrom
    <3>3. Hop(h[i])' = Hop(h[i])
      BY <1>1, <3>2
    <3> QED
      BY <3>3 DEF i
  <2> QED
    BY <2>1, <2>2, HopsKept
<1>3. ASSUME NEW p \in Path
      PROVE  Place(p)' = Place(p)
  <2>1. CASE p = <<>>
    BY <2>1 DEF Place
  <2>2. CASE p # <<>>
    <3>1. Front(p) \in Path
      BY <2>2, FrontAndLast
    <3> DEFINE f == Front(p)
    <3>2. Landing(f)' = Landing(f)
      BY <1>2, <3>1
    <3> QED
      BY <2>2, <3>2 DEF Place
  <2> QED
    BY <2>1, <2>2
<1> QED
  BY <1>2, <1>3

-----------------------------------------------------------------------------
\* The tree as an invariant, and what each call does to it.
EntriesOf(n) == [kind : Kinds, id : [call : 0 .. n, path : Paths], target : Targets]
TreeInv ==
  /\ Closed /\ calls \in 0 .. MaxCalls
  /\ \A q \in DOMAIN tree : q \in Paths /\ tree[q] \in EntriesOf(calls)
  /\ \A q, r \in DOMAIN tree : tree[q].id = tree[r].id => q = r

\* What a step that takes `gone` away may do.
Alters(gone) ==
  /\ gone \subseteq DOMAIN tree /\ Kept(gone)
  /\ \A q \in gone : Under(q) \subseteq gone
  /\ \A q \in DOMAIN tree' : \/ q \in DOMAIN tree \ gone
                             \/ \E r \in gone : tree'[q] = tree[r]
                             \/ tree'[q].id.call = calls'

\* The paths of entries are the short ones.
LEMMA PathsAre == Paths \subseteq Path /\ \A q \in Path : Len(q) <= MaxDepth => q \in Paths
<1>1. MaxDepth \in Nat
  BY FileObjectsAssumption
<1>2. \A q \in Paths : q \in Path
  <2> SUFFICES ASSUME NEW n \in 0 .. MaxDepth, NEW q \in [1 .. n -> Names]
               PROVE  q \in Seq(Names)
    BY DEF Paths, Path
  <2>1. n \in Nat
    BY <1>1
  <2> QED
    BY <2>1, SeqDef
<1>3. \A q \in Path : Len(q) <= MaxDepth => q \in Paths
  <2> SUFFICES ASSUME NEW q \in Path, Len(q) <= MaxDepth
               PROVE  q \in Paths
    OBVIOUS
  <2>1. Len(q) \in 0 .. MaxDepth /\ q \in [1 .. Len(q) -> Names]
    BY <1>1, LenProperties DEF Path
  <2> QED
    BY <2>1 DEF Paths
<1> QED
  BY <1>2, <1>3

LEMMA NoTargetIsTarget == NoTarget \in Targets
<1>1. <<>> \in Paths
  <2>1. <<>> \in Path /\ Len(<<>>) = 0
    BY EmptySeq DEF Path
  <2>2. Len(<<>>) <= MaxDepth
    BY <2>1, FileObjectsAssumption
  <2> QED
    BY <2>1, <2>2, PathsAre
<1> QED
  BY <1>1 DEF NoTarget, Targets

\* What may be there at first is a tree.
LEMMA InitialTree == Init => TreeInv
<1> SUFFICES ASSUME Init
             PROVE  TreeInv
  OBVIOUS
<1>1. /\ DOMAIN tree \subseteq Paths /\ <<>> \in DOMAIN tree /\ tree[<<>>].kind = "directory"
      /\ \A q \in DOMAIN tree :
           /\ tree[q] \in [kind : Kinds, id : {[call |-> 0, path |-> q]}, target : Targets]
           /\ q # <<>> => Front(q) \in DOMAIN tree /\ tree[Front(q)].kind = "directory"
      /\ calls = 0 /\ MaxCalls \in Nat
  BY FileObjectsAssumption DEF Init
<1>2. Closed
  <2>1. Front(<<>>) = <<>>
    BY SubSeqEmpty, EmptySeq DEF Front
  <2>2. \A q \in DOMAIN tree : IsDirectory(Front(q))
    BY <1>1, <2>1 DEF IsDirectory, Found
  <2>3. \A q \in DOMAIN tree : tree[q].target.steps \in Path
    BY <1>1, PathsAre DEF Targets
  <2> QED
    BY <1>1, <2>2, <2>3, PathsAre DEF Closed
<1>3. \A q \in DOMAIN tree : q \in Paths /\ tree[q] \in EntriesOf(calls)
  <2> SUFFICES ASSUME NEW q \in DOMAIN tree
               PROVE  q \in Paths /\ tree[q] \in EntriesOf(calls)
    OBVIOUS
  <2>1. q \in Paths /\ 0 \in 0 .. calls
    BY <1>1
  <2>2. [call |-> 0, path |-> q] \in [call : 0 .. calls, path : Paths]
    BY <2>1
  <2> QED
    BY <1>1, <2>1, <2>2 DEF EntriesOf
<1>4. \A q, r \in DOMAIN tree : tree[q].id = tree[r].id => q = r
  <2>1. ASSUME NEW q \in DOMAIN tree
        PROVE  tree[q].id.path = q
    <3>1. tree[q].id = [call |-> 0, path |-> q]
      BY <1>1
    <3> QED
      BY <3>1
  <2> QED
    BY <2>1
<1> QED
  BY <1>1, <1>2, <1>3, <1>4 DEF TreeInv
-----------------------------------------------------------------------------
\* New entries, in directories that are there or that are made with them.
Makes(places) ==
  /\ DOMAIN tree' = DOMAIN tree \cup places
  /\ \A q \in DOMAIN tree : tree'[q] = tree[q]
  /\ \A q \in places : q \notin DOMAIN tree =>
       /\ q \in Paths /\ tree'[q] \in EntriesOf(calls')
       /\ tree'[q].id = [call |-> calls', path |-> q]
       /\ \E r \in DOMAIN tree' : r = Front(q) /\ tree'[r].kind = "directory"

\* Making entries in directories leaves a tree.
LEMMA MakesTree ==
  ASSUME TreeInv, calls' = calls + 1, calls < MaxCalls, NEW places, Makes(places)
  PROVE  TreeInv' /\ Alters({})
<1>1. calls \in Nat /\ MaxCalls \in Nat /\ calls' \in 0 .. MaxCalls /\ 0 .. calls \subseteq 0 .. calls'
  BY FileObjectsAssumption DEF TreeInv
<1>2. \A q \in DOMAIN tree' : q \notin DOMAIN tree => q \in places
  <2>1. DOMAIN tree' = DOMAIN tree \cup places
    BY DEF Makes
  <2> QED
    BY <2>1, Zenon
<1>3. EntriesOf(calls) \subseteq EntriesOf(calls')
  BY <1>1 DEF EntriesOf
<1>4. \A q \in DOMAIN tree' : q \in Paths /\ tree'[q] \in EntriesOf(calls')
  BY <1>2, <1>3 DEF TreeInv, Makes
<1>5. Closed'
  <2>1. DOMAIN tree' \subseteq Path /\ <<>> \in DOMAIN tree'
    BY <1>4, PathsAre DEF TreeInv, Closed, Makes
  <2>2. ASSUME NEW q \in DOMAIN tree'
        PROVE  IsDirectory(Front(q))'
    <3>1. CASE q \in DOMAIN tree
      BY <3>1 DEF TreeInv, Closed, Makes, IsDirectory, Found
    <3>2. CASE q \notin DOMAIN tree
      BY <1>2, <3>2 DEF Makes, IsDirectory, Found
    <3> QED
      BY <3>1, <3>2
  <2>3. \A q \in DOMAIN tree' : tree'[q].target.steps \in Path
    BY <1>4, PathsAre DEF EntriesOf, Targets
  <2> QED
    BY <2>1, <2>2, <2>3 DEF Closed, Path
<1>6. ASSUME NEW q \in DOMAIN tree', NEW r \in DOMAIN tree', tree'[q].id = tree'[r].id
      PROVE  q = r
  <2>1. \A p \in DOMAIN tree : tree'[p].id = tree[p].id /\ tree'[p].id.call \in 0 .. calls
    BY DEF TreeInv, Makes, EntriesOf
  <2>6. ASSUME NEW p \in DOMAIN tree', p \notin DOMAIN tree
        PROVE  tree'[p].id.call = calls' /\ tree'[p].id.path = p
    <3>1. tree'[p].id = [call |-> calls', path |-> p]
      BY <1>2, <2>6 DEF Makes
    <3> QED
      BY <3>1
  <2>3. calls' \notin 0 .. calls
    BY <1>1
  <2>4. CASE q \in DOMAIN tree /\ r \in DOMAIN tree
    BY <1>6, <2>1, <2>4 DEF TreeInv
  <2>5. CASE q \notin DOMAIN tree /\ r \notin DOMAIN tree
    <3>1. tree'[q].id.path = q /\ tree'[r].id.path = r
      BY <2>5, <2>6
    <3> QED
      BY <1>6, <3>1
  <2> QED
    BY <1>6, <2>1, <2>3, <2>4, <2>5, <2>6
<1>7. Alters({})
  <2>1. ASSUME NEW q \in DOMAIN tree', q \notin DOMAIN tree
        PROVE  tree'[q].id.call = calls'
    <3>1. tree'[q].id = [call |-> calls', path |-> q]
      BY <1>2, <2>1 DEF Makes
    <3> QED
      BY <3>1
  <2>2. Kept({})
    BY DEF Kept, Makes
  <2> QED
    BY <2>1, <2>2 DEF Alters
<1> QED
  BY <1>1, <1>4, <1>5, <1>6, <1>7 DEF TreeInv

\* So does making one.
LEMMA PutTree ==
  ASSUME TreeInv, calls' = calls + 1, calls < MaxCalls, NEW q \in Path, Free(q),
         NEW kind \in Kinds, NEW target \in Targets, Put(q, Entry(kind, q, target))
  PROVE  /\ TreeInv' /\ Alters({}) /\ q \notin DOMAIN tree /\ DOMAIN tree' = DOMAIN tree \cup {q}
         /\ tree'[q] = Entry(kind, q, target)
<1>1. /\ DOMAIN tree' = DOMAIN tree \cup {q} /\ q \notin DOMAIN tree
      /\ \A p \in DOMAIN tree : tree'[p] = tree[p]
      /\ tree'[q] = Entry(kind, q, target)
  BY DEF Put, Free, Found
<1>2. q \in Paths /\ calls \in Nat
  BY PathsAre, FileObjectsAssumption DEF Free, TreeInv
<1>3. /\ Entry(kind, q, target) \in EntriesOf(calls')
      /\ Entry(kind, q, target).id = [call |-> calls', path |-> q]
  <2>1. calls + 1 \in 0 .. calls'
    BY <1>2
  <2> QED
    BY <1>2, <2>1 DEF Entry, EntriesOf
<1>4. Makes({q})
  <2>1. Front(q) \in DOMAIN tree' /\ tree'[Front(q)].kind = "directory"
    BY <1>1 DEF Free, IsDirectory, Found
  <2> QED
    BY <1>1, <1>2, <1>3, <2>1 DEF Makes
<1> QED
  BY <1>1, <1>4, MakesTree

\* What is under a path goes on from it.
LEMMA UnderIs ==
  Closed => \A p \in Path : \A q : q \in Under(p) <=>
    q \in DOMAIN tree /\ \E s \in Path : q = p \o s /\ s = Rest(q, Len(p))
<1> SUFFICES ASSUME Closed, NEW p \in Path, NEW q
             PROVE  q \in Under(p) <=>
                      q \in DOMAIN tree /\ \E s \in Path : q = p \o s /\ s = Rest(q, Len(p))
  OBVIOUS
<1>1. ASSUME q \in Under(p)
      PROVE  q \in DOMAIN tree /\ \E s \in Path : q = p \o s /\ s = Rest(q, Len(p))
  <2>1. q \in DOMAIN tree /\ IsPrefix(p, q) /\ q \in Path
    BY <1>1 DEF Under, Closed
  <2>2. Len(p) \in 0 .. Len(q) /\ p = FirstSteps(q, Len(p))
    BY <2>1, PrefixIs
  <2>3. Rest(q, Len(p)) \in Path /\ FirstSteps(q, Len(p)) \o Rest(q, Len(p)) = q
    BY <2>1, <2>2, FirstStepsOf
  <2> QED
    BY <2>1, <2>2, <2>3
<1>2. ASSUME q \in DOMAIN tree, NEW s \in Path, q = p \o s
      PROVE  q \in Under(p)
  BY <1>2, PrefixOfConcat DEF Under
<1> QED
  BY <1>1, <1>2

LEMMA UnderItsDirectory ==
  Closed => \A q \in DOMAIN tree : q \in Path /\ Front(q) \in DOMAIN tree /\ q \in Under(Front(q)) /\ q \in Under(q)
<1> SUFFICES ASSUME Closed, NEW q \in DOMAIN tree
             PROVE  q \in Path /\ Front(q) \in DOMAIN tree /\ q \in Under(Front(q)) /\ q \in Under(q)
  OBVIOUS
<1>1. q \in Path /\ Front(q) \in DOMAIN tree
  BY DEF Closed, IsDirectory, Found
<1>2. q \in Under(q)
  <2>1. q = q \o <<>> /\ <<>> \in Path
    BY <1>1, Concat, EmptySeq DEF Path
  <2>2. IsPrefix(q, q \o <<>>)
    BY <1>1, <2>1, PrefixOfConcat
  <2> QED
    BY <2>1, <2>2 DEF Under
<1>3. q \in Under(Front(q))
  <2>1. CASE q = <<>>
    <3>1. Front(q) = q
      BY <2>1, SubSeqEmpty, EmptySeq DEF Front
    <3> QED
      BY <1>2, <3>1
  <2>2. CASE q # <<>>
    <3>1. /\ Front(q) \in Path /\ Len(Front(q)) = Len(q) - 1 /\ Front(q) = FirstSteps(q, Len(q) - 1)
          /\ Len(q) \in Nat \ {0}
      BY <1>1, <2>2, FrontAndLast
    <3>2. IsPrefix(Front(q), q)
      BY <1>1, <3>1, PrefixIs
    <3> QED
      BY <3>2 DEF Under
  <2> QED
    BY <2>1, <2>2
<1> QED
  BY <1>1, <1>2, <1>3

\* Taking entries away with all that is under them leaves a tree.
LEMMA DropTree ==
  ASSUME TreeInv, calls' = calls + 1, calls < MaxCalls, NEW gone, gone \subseteq DOMAIN tree,
         <<>> \notin gone, \A q \in gone : Under(q) \subseteq gone, Drop(gone)
  PROVE  TreeInv' /\ Alters(gone)
<1>1. calls \in Nat /\ MaxCalls \in Nat /\ calls' \in 0 .. MaxCalls /\ 0 .. calls \subseteq 0 .. calls'
  BY FileObjectsAssumption DEF TreeInv
<1>2. DOMAIN tree' = DOMAIN tree \ gone /\ \A q \in DOMAIN tree' : tree'[q] = tree[q]
  BY DEF Drop
<1>3. EntriesOf(calls) \subseteq EntriesOf(calls')
  BY <1>1 DEF EntriesOf
<1>4. Closed'
  <2>1. DOMAIN tree' \subseteq Path /\ <<>> \in DOMAIN tree'
    BY <1>2 DEF TreeInv, Closed
  <2>2. ASSUME NEW q \in DOMAIN tree'
        PROVE  IsDirectory(Front(q))'
    <3>1. q \in DOMAIN tree /\ q \notin gone /\ tree[Front(q)].kind = "directory"
      BY <1>2 DEF TreeInv, Closed, IsDirectory
    <3>2. Front(q) \in DOMAIN tree /\ q \in Under(Front(q))
      BY <3>1, UnderItsDirectory DEF TreeInv
    <3>3. Front(q) \in DOMAIN tree'
      BY <1>2, <3>1, <3>2
    <3> QED
      BY <1>2, <3>1, <3>3 DEF IsDirectory, Found
  <2>3. \A q \in DOMAIN tree' : tree'[q].target.steps \in Path
    BY <1>2 DEF TreeInv, Closed
  <2> QED
    BY <2>1, <2>2, <2>3 DEF Closed, Path
<1>5. \A q \in DOMAIN tree' : q \in Paths /\ tree'[q] \in EntriesOf(calls')
  BY <1>2, <1>3 DEF TreeInv
<1>6. \A q, r \in DOMAIN tree' : tree'[q].id = tree'[r].id => q = r
  BY <1>2 DEF TreeInv
<1>7. Alters(gone)
  BY <1>2 DEF Alters, Kept
<1> QED
  BY <1>1, <1>4, <1>5, <1>6, <1>7 DEF TreeInv
-----------------------------------------------------------------------------
\* Where the entries go when one is moved, with all that is in it.
MovedTo(from, to, p) == \E s \in Path : p = to \o s /\ from \o s \in DOMAIN tree /\ tree'[p] = tree[from \o s]

\* What is where after a move.
LEMMA MoveIs ==
  ASSUME Closed, NEW from \in Path, NEW to \in Path, Move(from, to)
  PROVE  /\ \A s \in Path : from \o s \in DOMAIN tree =>
              to \o s \in DOMAIN tree' /\ tree'[to \o s] = tree[from \o s]
         /\ \A p \in DOMAIN tree' :
              \/ MovedTo(from, to, p)
              \/ p \in DOMAIN tree \ Under(from) /\ tree'[p] = tree[p]
         /\ \A p \in DOMAIN tree \ Under(from) :
              /\ p \in DOMAIN tree'
              /\ tree'[p] = tree[p] \/ \E s \in Path : p = to \o s /\ from \o s \in DOMAIN tree
<1> DEFINE below == {SubSeq(q, Len(from) + 1, Len(q)) : q \in Under(from)}
           stay == DOMAIN tree \ Under(from)
           Comes(p) == IsPrefix(to, p) /\ Rest(p, Len(to)) \in below
<1>1. /\ DOMAIN tree' = stay \cup {to \o s : s \in below}
      /\ \A p \in DOMAIN tree' :
           tree'[p] = IF Comes(p) THEN tree[from \o Rest(p, Len(to))] ELSE tree[p]
  BY DEF Move, Rest
<1>2. \A s : s \in below <=> s \in Path /\ from \o s \in DOMAIN tree
  <2>1. ASSUME NEW q \in Under(from)
        PROVE  /\ Rest(q, Len(from)) \in Path /\ from \o Rest(q, Len(from)) = q
               /\ q \in DOMAIN tree
    BY UnderIs
  <2>2. ASSUME NEW s \in Path, from \o s \in DOMAIN tree
        PROVE  s \in below
    <3>1. from \o s \in Under(from)
      BY <2>2, UnderIs, PrefixOfConcat
    <3>2. Rest(from \o s, Len(from)) = s
      BY PrefixOfConcat
    <3> QED
      BY <3>1, <3>2 DEF Rest
  <2> QED
    BY <2>1, <2>2 DEF Rest
<1> HIDE DEF below
<1>3. \A s \in Path : s \in below => Comes(to \o s) /\ Rest(to \o s, Len(to)) = s
  BY PrefixOfConcat
<1>4. \A p \in Path : Comes(p) =>
        \E s \in Path : s = Rest(p, Len(to)) /\ s \in below /\ p = to \o s
  <2> SUFFICES ASSUME NEW p \in Path, Comes(p)
               PROVE  \E s \in Path : s = Rest(p, Len(to)) /\ s \in below /\ p = to \o s
    OBVIOUS
  <2>1. Len(to) \in 0 .. Len(p) /\ to = FirstSteps(p, Len(to))
    BY PrefixIs
  <2>2. Rest(p, Len(to)) \in Path /\ FirstSteps(p, Len(to)) \o Rest(p, Len(to)) = p
    BY <2>1, FirstStepsOf
  <2> QED
    BY <2>1, <2>2
<1>5. \A p \in DOMAIN tree' : p \in Path
  <2>1. stay \subseteq Path
    BY DEF Closed
  <2>2. \A s \in below : to \o s \in Path
    BY <1>2, Concat
  <2> HIDE DEF stay
  <2> QED
    BY <1>1, <2>1, <2>2
<1> HIDE DEF Comes, stay
<1>6. \A s \in Path : from \o s \in DOMAIN tree =>
        to \o s \in DOMAIN tree' /\ tree'[to \o s] = tree[from \o s]
  BY <1>1, <1>2, <1>3
<1>7. ASSUME NEW p \in DOMAIN tree'
      PROVE  MovedTo(from, to, p) \/ (p \in stay /\ tree'[p] = tree[p])
  <2>1. CASE Comes(p)
    <3>1. PICK s \in Path : s = Rest(p, Len(to)) /\ s \in below /\ p = to \o s
      BY <1>4, <1>5, <2>1
    <3> QED
      BY <1>2, <1>6, <3>1 DEF MovedTo
  <2>2. CASE ~Comes(p)
    <3>1. p \in stay
      BY <1>1, <1>2, <1>3, <2>2
    <3> QED
      BY <1>1, <2>2, <3>1
  <2> QED
    BY <2>1, <2>2
<1>8. ASSUME NEW p \in stay
      PROVE  /\ p \in DOMAIN tree'
             /\ tree'[p] = tree[p] \/ \E s \in Path : p = to \o s /\ from \o s \in DOMAIN tree
  <2>1. p \in DOMAIN tree' /\ p \in Path
    BY <1>1, <1>5
  <2>2. CASE Comes(p)
    BY <1>2, <1>4, <2>1, <2>2
  <2>3. CASE ~Comes(p)
    BY <1>1, <2>1, <2>3
  <2> QED
    BY <2>1, <2>2, <2>3
<1> QED
  BY <1>6, <1>7, <1>8 DEF stay

LEMMA UnderOfUnder ==
  Closed => \A p \in Path : \A q \in Under(p) : Under(q) \subseteq Under(p)
<1> SUFFICES ASSUME Closed, NEW p \in Path, NEW q \in Under(p), NEW r \in Under(q)
             PROVE  r \in Under(p)
  OBVIOUS
<1>1. PICK s \in Path : q = p \o s /\ q \in DOMAIN tree
  BY UnderIs
<1>2. q \in Path /\ r \in DOMAIN tree
  BY <1>1 DEF Closed, Under
<1>3. PICK t \in Path : r = q \o t
  BY <1>2, UnderIs
<1>4. r = p \o (s \o t) /\ s \o t \in Path
  <2>1. p \in Seq(Names) /\ s \in Seq(Names) /\ t \in Seq(Names)
    BY DEF Path
  <2>2. (p \o s) \o t = p \o (s \o t)
    BY <2>1, ConcatAssociative
  <2> QED
    BY <1>1, <1>3, <2>2, Concat
<1>5. IsPrefix(p, p \o (s \o t))
  BY <1>4, PrefixOfConcat
<1> QED
  BY <1>2, <1>4, <1>5 DEF Under

LEMMA NothingBelow ==
  Closed => \A p, s \in Path : p \o s \in DOMAIN tree /\ s # <<>> => IsDirectory(p)
<1> SUFFICES ASSUME Closed, NEW p \in Path, NEW s \in Path, p \o s \in DOMAIN tree, s # <<>>
             PROVE  IsDirectory(p)
  OBVIOUS
<1> DEFINE q == p \o s
<1>1. q \in Path /\ Len(p) \in Nat /\ Len(q) = Len(p) + Len(s) /\ Len(s) \in Nat \ {0}
      /\ FirstSteps(q, Len(p)) = p
  BY Concat, PrefixOfConcat, EmptySeq DEF Path
<1> HIDE DEF q
<1>2. Len(q) \in 0 .. Len(q) /\ Len(p) \in 0 .. Len(q) /\ Len(p) < Len(q)
  BY <1>1
<1>3. Found(FirstSteps(q, Len(q)))
  BY <1>1, AllSteps DEF Found, q
<1>4. IsDirectory(FirstSteps(q, Len(p)))
  BY <1>1, <1>2, <1>3, FoundAbove
<1> QED
  BY <1>1, <1>4

\* What may be moved is apart from where it goes.
LEMMA MovableIs ==
  ASSUME Closed, NEW from \in Path, NEW to \in Path, Movable(from, to)
  PROVE  /\ from \in DOMAIN tree /\ from # <<>> /\ to # <<>> /\ IsDirectory(Front(to))
         /\ <<>> \notin Under(from) /\ Front(to) \notin Under(from) /\ from \in Under(from)
         /\ from # to => \A s \in Path : to \o s \in DOMAIN tree => s = <<>>
<1>1. /\ from \in DOMAIN tree /\ from # <<>> /\ to # <<>> /\ IsDirectory(Front(to))
      /\ ~IsStrictPrefix(from, to)
  BY DEF Movable, Found
<1>2. <<>> \notin Under(from)
  <2> SUFFICES ASSUME <<>> \in Under(from)
               PROVE  FALSE
    OBVIOUS
  <2>1. PICK s \in Path : <<>> = from \o s
    BY UnderIs
  <2>3. Len(from \o s) = Len(from) + Len(s) /\ Len(from) \in Nat /\ Len(s) \in Nat
    BY Concat
  <2>4. Len(from \o s) = 0
    <3>1. Len(<<>>) = 0
      OBVIOUS
    <3> QED
      BY <2>1, <3>1
  <2>2. Len(from) = 0
    BY <2>3, <2>4
  <2> QED
    BY <1>1, <2>2, EmptySeq DEF Path
<1>3. Front(to) \notin Under(from)
  <2> SUFFICES ASSUME Front(to) \in Under(from)
               PROVE  FALSE
    OBVIOUS
  <2>1. /\ Front(to) \in Path /\ to = Append(Front(to), Last(to)) /\ Last(to) \in Names
        /\ Len(to) \in Nat /\ Len(Front(to)) = Len(to) - 1
    BY <1>1, FrontAndLast
  <2> DEFINE f == Front(to)
             x == Last(to)
  <2>2. PICK s \in Path : f = from \o s
    BY UnderIs
  <2>3. Append(f, x) = f \o <<x>> /\ <<x>> \in Path
    BY <2>1, Appended
  <2>4. to = f \o <<x>>
    BY <2>1, <2>3
  <2>5. f \in Path
    BY <2>1
  <2> HIDE DEF f, x
  <2>6. to = from \o (s \o <<x>>) /\ s \o <<x>> \in Path
    <3>1. from \in Seq(Names) /\ s \in Seq(Names) /\ <<x>> \in Seq(Names)
      BY <2>3 DEF Path
    <3>2. (from \o s) \o <<x>> = from \o (s \o <<x>>)
      BY <3>1, ConcatAssociative
    <3> QED
      BY <2>2, <2>3, <2>4, <3>2, Concat
  <2>7. IsPrefix(from, from \o (s \o <<x>>))
    BY <2>6, PrefixOfConcat
  <2>8. from # to
    <3>1. Len(f) = Len(from) + Len(s) /\ Len(from) \in Nat /\ Len(s) \in Nat
      BY <2>2, Concat
    <3>2. Len(f) = Len(to) - 1
      BY <2>1 DEF f
    <3> QED
      BY <2>1, <3>1, <3>2
  <2> QED
    BY <1>1, <2>6, <2>7, <2>8 DEF IsStrictPrefix
<1>4. ASSUME from # to, NEW s \in Path, to \o s \in DOMAIN tree, s # <<>>
      PROVE  FALSE
  <2>1. IsDirectory(to)
    BY <1>4, NothingBelow
  <2> QED
    BY <1>4, <2>1 DEF Movable, IsDirectory
<1>5. from \in Under(from)
  BY <1>1, UnderItsDirectory
<1> QED
  BY <1>1, <1>2, <1>3, <1>4, <1>5

\* A move takes away what is moved, and what it replaces.
LEMMA MoveAlters ==
  ASSUME Closed, NEW from \in Path, NEW to \in Path, Movable(from, to), Move(from, to)
  PROVE  Alters(Replaced(from, to))
<1> DEFINE gone == Replaced(from, to)
<1>1. gone = IF from = to THEN {} ELSE Under(from) \cup ({to} \cap DOMAIN tree)
  BY DEF Replaced
<1> HIDE DEF gone
<1>2. gone \subseteq DOMAIN tree
  BY <1>1 DEF Under
<1>3. Kept(gone)
  <2> SUFFICES ASSUME NEW q \in DOMAIN tree \ gone
               PROVE  q \in DOMAIN tree' /\ tree'[q] = tree[q]
    BY DEF Kept
  <2>1. CASE q \in Under(from)
    <3>1. from = to
      BY <1>1, <2>1
    <3>2. PICK s \in Path : q = from \o s
      BY <2>1, UnderIs
    <3> QED
      BY <3>1, <3>2, MoveIs
  <2>2. CASE q \notin Under(from)
    <3>1. q \in DOMAIN tree'
      BY <2>2, MoveIs
    <3>2. ASSUME NEW s \in Path, q = to \o s, from \o s \in DOMAIN tree
          PROVE  tree'[q] = tree[q]
      <4>1. CASE from = to
        BY <3>2, <4>1, MoveIs
      <4>2. CASE from # to
        <5>1. s = <<>>
          BY <3>2, <4>2, MovableIs
        <5>2. q = to
          BY <3>2, <5>1, Concat
        <5> QED
          BY <1>1, <4>2, <5>2
      <4> QED
        BY <4>1, <4>2
    <3> QED
      BY <2>2, <3>1, <3>2, MoveIs
  <2> QED
    BY <2>1, <2>2
<1>4. ASSUME NEW q \in gone
      PROVE  Under(q) \subseteq gone
  <2>1. from # to
    BY <1>1
  <2>2. CASE q \in Under(from)
    BY <1>1, <2>1, <2>2, UnderOfUnder
  <2>3. CASE q = to
    <3> SUFFICES ASSUME NEW r \in Under(to)
                 PROVE  r = to
      BY <2>3
    <3>1. PICK s \in Path : r = to \o s /\ r \in DOMAIN tree
      BY UnderIs
    <3>2. s = <<>>
      BY <2>1, <3>1, MovableIs
    <3> QED
      BY <3>1, <3>2, Concat
  <2> QED
    BY <1>1, <2>1, <2>2, <2>3
<1>5. ASSUME NEW p \in DOMAIN tree'
      PROVE  p \in DOMAIN tree \ gone \/ \E r \in gone : tree'[p] = tree[r]
  <2>3. \/ MovedTo(from, to, p)
        \/ p \in DOMAIN tree \ Under(from) /\ tree'[p] = tree[p]
    BY MoveIs
  <2>1. CASE MovedTo(from, to, p)
    <3>1. PICK s \in Path : p = to \o s /\ from \o s \in DOMAIN tree /\ tree'[p] = tree[from \o s]
      BY <2>1 DEF MovedTo
    <3>2. from \o s \in Under(from)
      BY <3>1, PrefixOfConcat DEF Under
    <3> QED
      BY <1>1, <3>1, <3>2
  <2>2. CASE p \in DOMAIN tree \ Under(from) /\ tree'[p] = tree[p]
    BY <2>2
  <2> QED
    BY <2>1, <2>2, <2>3
<1> QED
  BY <1>2, <1>3, <1>4, <1>5 DEF Alters, gone

\* A move leaves a tree.
LEMMA MoveTree ==
  ASSUME TreeInv, calls' = calls + 1, calls < MaxCalls,
         NEW from \in Path, NEW to \in Path, Movable(from, to), Move(from, to)
  PROVE  /\ TreeInv' /\ Alters(Replaced(from, to))
         /\ from \in DOMAIN tree /\ to \in DOMAIN tree' /\ tree'[to] = tree[from]
<1> USE DEF TreeInv
<1>1. calls \in Nat /\ MaxCalls \in Nat /\ calls' \in 0 .. MaxCalls /\ 0 .. calls \subseteq 0 .. calls'
  BY FileObjectsAssumption
<1>2. EntriesOf(calls) \subseteq EntriesOf(calls')
  BY <1>1 DEF EntriesOf
<1>3. Alters(Replaced(from, to)) /\ Closed
  BY MoveAlters
<1>4. \A p \in DOMAIN tree' : \/ MovedTo(from, to, p)
                              \/ p \in DOMAIN tree \ Under(from) /\ tree'[p] = tree[p]
  BY MoveIs
<1>5. from \in DOMAIN tree /\ to \in DOMAIN tree' /\ tree'[to] = tree[from]
  <2>1. from \o <<>> = from /\ to \o <<>> = to /\ <<>> \in Path
    BY Concat, EmptySeq DEF Path
  <2>2. from \in DOMAIN tree
    BY <1>3, MovableIs
  <2>3. \A s \in Path : from \o s \in DOMAIN tree =>
           to \o s \in DOMAIN tree' /\ tree'[to \o s] = tree[from \o s]
    BY <1>3, MoveIs
  <2>4. from \o <<>> \in DOMAIN tree => to \o <<>> \in DOMAIN tree' /\ tree'[to \o <<>>] = tree[from \o <<>>]
    BY <2>1, <2>3
  <2> QED
    BY <2>1, <2>2, <2>4
<1>6. ASSUME NEW q \in DOMAIN tree, IsDirectory(q), q \notin Under(from)
      PROVE  IsDirectory(q)'
  <2>1. q \notin Replaced(from, to)
    BY <1>6 DEF Replaced, Movable, IsDirectory, Found
  <2> QED
    BY <1>3, <1>6, <2>1 DEF Alters, Kept, IsDirectory, Found
<1>7. Closed'
  <2>1. ASSUME NEW p \in DOMAIN tree'
        PROVE  p \in Path /\ tree'[p].target.steps \in Path
    <3>1. CASE MovedTo(from, to, p)
      BY <3>1, Concat DEF MovedTo, Closed
    <3>2. CASE p \in DOMAIN tree /\ tree'[p] = tree[p]
      BY <3>2 DEF Closed
    <3> QED
      BY <1>4, <3>1, <3>2
  <2>2. <<>> \in DOMAIN tree'
    <3>1. <<>> \in DOMAIN tree \ Replaced(from, to)
      BY MovableIs DEF Replaced, Closed
    <3> QED
      BY <1>3, <3>1 DEF Alters, Kept
  <2>3. ASSUME NEW p \in DOMAIN tree'
        PROVE  IsDirectory(Front(p))'
    <3>1. ASSUME NEW s \in Path, p = to \o s, from \o s \in DOMAIN tree, s = <<>>
          PROVE  IsDirectory(Front(p))'
      <4>1. p = to /\ IsDirectory(Front(to)) /\ Front(to) \notin Under(from)
        BY <3>1, Concat, MovableIs
      <4>2. Front(to) \in DOMAIN tree
        BY <4>1 DEF IsDirectory, Found
      <4> DEFINE f == Front(to)
      <4>3. f \in DOMAIN tree /\ IsDirectory(f) /\ f \notin Under(from)
        BY <4>1, <4>2
      <4> HIDE DEF f
      <4>4. IsDirectory(f)'
        BY <1>6, <4>3
      <4> QED
        BY <4>1, <4>4 DEF f
    <3>2. ASSUME NEW s \in Path, p = to \o s, from \o s \in DOMAIN tree, s # <<>>
          PROVE  IsDirectory(Front(p))'
      <4> DEFINE t == Front(s)
                 x == Last(s)
      <4>1. t \in Path /\ x \in Names /\ s = Append(t, x)
        BY <3>2, FrontAndLast
      <4> HIDE DEF t, x
      <4>2. s = t \o <<x>> /\ <<x>> \in Path
        BY <4>1, Appended
      <4>3. \A q \in Path : q \o t \in Path /\ q \o s = Append(q \o t, x) /\ Front(q \o s) = q \o t
        <5> SUFFICES ASSUME NEW q \in Path
                     PROVE  q \o t \in Path /\ q \o s = Append(q \o t, x) /\ Front(q \o s) = q \o t
          OBVIOUS
        <5>1. q \in Seq(Names) /\ t \in Seq(Names) /\ <<x>> \in Seq(Names)
          BY <4>1, <4>2 DEF Path
        <5>2. (q \o t) \o <<x>> = q \o (t \o <<x>>)
          BY <5>1, ConcatAssociative
        <5>3. q \o t \in Path
          BY <4>1, Concat
        <5>4. Append(q \o t, x) = (q \o t) \o <<x>> /\ Front(Append(q \o t, x)) = q \o t
          BY <4>1, <5>3, Appended
        <5> QED
          BY <4>2, <5>2, <5>3, <5>4
      <4>4. Front(from \o s) = from \o t /\ Front(p) = to \o t
        BY <3>2, <4>3
      <4>5. from \o t \in DOMAIN tree /\ tree[from \o t].kind = "directory"
        BY <3>2, <4>4 DEF Closed, IsDirectory, Found
      <4>6. to \o t \in DOMAIN tree' /\ tree'[to \o t] = tree[from \o t]
        BY <4>1, <4>5, MoveIs
      <4> QED
        BY <4>4, <4>5, <4>6 DEF IsDirectory, Found
    <3>3. ASSUME p \in DOMAIN tree \ Under(from)
          PROVE  IsDirectory(Front(p))'
      <4>1. IsDirectory(Front(p)) /\ Front(p) \in Path /\ Front(p) \in DOMAIN tree /\ p \in Under(Front(p))
        BY <3>3, UnderItsDirectory DEF Closed
      <4>2. Front(p) \notin Under(from)
        BY <3>3, <4>1, UnderOfUnder
      <4> DEFINE f == Front(p)
      <4>3. f \in DOMAIN tree /\ IsDirectory(f) /\ f \notin Under(from)
        BY <4>1, <4>2
      <4> HIDE DEF f
      <4>4. IsDirectory(f)'
        BY <1>6, <4>3
      <4> QED
        BY <4>4 DEF f
    <3> QED
      BY <1>4, <3>1, <3>2, <3>3 DEF MovedTo
  <2> QED
    BY <2>1, <2>2, <2>3 DEF Closed, Path
<1>8. ASSUME NEW p \in DOMAIN tree'
      PROVE  p \in Paths /\ tree'[p] \in EntriesOf(calls')
  <2>1. CASE MovedTo(from, to, p)
    <3>1. PICK s \in Path : p = to \o s /\ from \o s \in DOMAIN tree /\ tree'[p] = tree[from \o s]
      BY <2>1 DEF MovedTo
    <3>2. from \o s \in Under(from)
      BY <3>1, PrefixOfConcat DEF Under
    <3>3. Len(to) + Len(from \o s) - Len(from) <= MaxDepth
      BY <3>2 DEF Movable
    <3>4. /\ Len(from \o s) = Len(from) + Len(s) /\ Len(from) \in Nat /\ Len(s) \in Nat
          /\ Len(p) = Len(to) + Len(s) /\ Len(to) \in Nat /\ p \in Path
      BY <3>1, Concat
    <3>5. Len(p) <= MaxDepth
      BY <3>3, <3>4, FileObjectsAssumption
    <3> QED
      BY <1>2, <3>1, <3>4, <3>5, PathsAre
  <2>2. CASE p \in DOMAIN tree /\ tree'[p] = tree[p]
    BY <1>2, <2>2
  <2> QED
    BY <1>4, <2>1, <2>2
<1>9. ASSUME NEW p \in DOMAIN tree', NEW r \in DOMAIN tree', tree'[p].id = tree'[r].id
      PROVE  p = r
  <2>1. \A s \in Path : from \o s \in DOMAIN tree => from \o s \in Under(from)
    BY PrefixOfConcat DEF Under
  <2>2. CASE MovedTo(from, to, p) /\ MovedTo(from, to, r)
    <3>1. PICK s \in Path : p = to \o s /\ from \o s \in DOMAIN tree /\ tree'[p] = tree[from \o s]
      BY <2>2 DEF MovedTo
    <3>2. PICK t \in Path : r = to \o t /\ from \o t \in DOMAIN tree /\ tree'[r] = tree[from \o t]
      BY <2>2 DEF MovedTo
    <3>3. from \o s = from \o t
      BY <1>9, <3>1, <3>2
    <3>4. s = t
      BY <3>3, ConcatSimplifications DEF Path
    <3> QED
      BY <3>1, <3>2, <3>4
  <2>3. CASE MovedTo(from, to, p) /\ r \in DOMAIN tree \ Under(from) /\ tree'[r] = tree[r]
    BY <1>9, <2>1, <2>3 DEF MovedTo
  <2>4. CASE MovedTo(from, to, r) /\ p \in DOMAIN tree \ Under(from) /\ tree'[p] = tree[p]
    BY <1>9, <2>1, <2>4 DEF MovedTo
  <2>5. CASE p \in DOMAIN tree /\ r \in DOMAIN tree /\ tree'[p] = tree[p] /\ tree'[r] = tree[r]
    BY <1>9, <2>5
  <2> QED
    BY <1>4, <2>2, <2>3, <2>4, <2>5
<1> QED
  BY <1>1, <1>3, <1>5, <1>7, <1>8, <1>9

\* What there is to copy: each place from one source, a file or a directory.
GoodPairs(pairs) ==
  /\ \A pair \in pairs :
       /\ pair[1] \in DOMAIN tree /\ pair[2] \in Path
       /\ tree[pair[1]].kind \in {"file", "directory"}
       /\ ~Differ(pair) /\ ~TooDeep(pair)
  /\ \A x, y \in pairs : x[2] = y[2] => x[1] = y[1]

\* What is where after a copy.
LEMMA PutAllIs ==
  ASSUME TreeInv, calls' = calls + 1, calls < MaxCalls, NEW pairs, GoodPairs(pairs), PutAll(pairs)
  PROVE  /\ DOMAIN tree' = DOMAIN tree \cup {pair[2] : pair \in pairs}
         /\ \A q \in DOMAIN tree : tree'[q] = tree[q]
         /\ \A pair \in pairs : ~Found(pair[2]) =>
              tree'[pair[2]] = Entry(tree[pair[1]].kind, pair[2], NoTarget)
<1> DEFINE new == {pair \in pairs : ~Found(pair[2])}
           places == {pair[2] : pair \in new}
           source == [q \in places |-> (CHOOSE pair \in new : pair[2] = q)[1]]
<1>1. tree' = [q \in DOMAIN tree \cup places |->
                 IF Found(q) THEN tree[q] ELSE Entry(tree[source[q]].kind, q, NoTarget)]
  BY DEF PutAll
<1>2. ASSUME NEW q \in places
      PROVE  \E pair \in new : pair[2] = q /\ source[q] = pair[1]
  <2> DEFINE c == CHOOSE pair \in new : pair[2] = q
  <2>1. \E pair \in new : pair[2] = q
    OBVIOUS
  <2>2. c \in new /\ c[2] = q
    BY <2>1
  <2>3. source[q] = c[1]
    OBVIOUS
  <2> HIDE DEF c, new, places, source
  <2> QED
    BY <2>2, <2>3
<1>3. /\ \A pair \in new : pair \in pairs /\ ~Found(pair[2]) /\ pair[2] \in places
      /\ \A q \in places : \E pair \in pairs : q = pair[2] /\ ~Found(q)
      /\ \A pair \in pairs : Found(pair[2]) \/ pair \in new
  OBVIOUS
<1> HIDE DEF new, places, source
<1>4. DOMAIN tree' = DOMAIN tree \cup places
  BY <1>1
<1>5. \A q \in DOMAIN tree : tree'[q] = tree[q]
  BY <1>1 DEF Found
<1>6. ASSUME NEW pair \in pairs, ~Found(pair[2])
      PROVE  tree'[pair[2]] = Entry(tree[pair[1]].kind, pair[2], NoTarget)
  <2>1. pair[2] \in places
    BY <1>3, <1>6
  <2>2. PICK x \in new : x[2] = pair[2] /\ source[pair[2]] = x[1]
    BY <1>2, <2>1
  <2>3. x[1] = pair[1]
    BY <1>3, <2>2 DEF GoodPairs
  <2>4. tree'[pair[2]] = Entry(tree[source[pair[2]]].kind, pair[2], NoTarget)
    BY <1>1, <1>6, <2>1
  <2> QED
    BY <2>2, <2>3, <2>4
<1>7. DOMAIN tree \cup places = DOMAIN tree \cup {pair[2] : pair \in pairs}
  <2>1. \A pair \in pairs : pair[2] \in DOMAIN tree \/ pair[2] \in places
    BY <1>3 DEF Found
  <2>2. \A q \in places : \E pair \in pairs : q = pair[2]
    BY <1>3
  <2> QED
    BY <2>1, <2>2
<1> QED
  BY <1>4, <1>5, <1>6, <1>7

\* A copy, or a part of it whose directories are there, leaves a tree.
LEMMA PutAllTree ==
  ASSUME TreeInv, calls' = calls + 1, calls < MaxCalls, NEW pairs,
         GoodPairs(pairs), HaveDirectories(pairs), PutAll(pairs)
  PROVE  /\ TreeInv' /\ Alters({})
         /\ \A q \in DOMAIN tree' \ DOMAIN tree : tree'[q].kind # "symlink"
         /\ \A pair \in pairs : pair[2] \in DOMAIN tree'
         /\ \A pair \in pairs : ~Found(pair[2]) =>
              tree'[pair[2]] = Entry(tree[pair[1]].kind, pair[2], NoTarget)
<1> DEFINE places == {pair[2] : pair \in pairs}
<1>1. /\ DOMAIN tree' = DOMAIN tree \cup places
      /\ \A q \in DOMAIN tree : tree'[q] = tree[q]
      /\ \A pair \in pairs : ~Found(pair[2]) =>
           tree'[pair[2]] = Entry(tree[pair[1]].kind, pair[2], NoTarget)
  BY PutAllIs
<1>2. \A q \in places : \E pair \in pairs : q = pair[2]
  OBVIOUS
<1>3. \A pair \in pairs : pair[2] \in places
  OBVIOUS
<1> HIDE DEF places
<1>4. \A pair \in pairs : pair[2] \in DOMAIN tree'
  BY <1>1, <1>3
<1>5. \A pair \in pairs : tree'[pair[2]].kind = tree[pair[1]].kind
  <2> SUFFICES ASSUME NEW pair \in pairs
               PROVE  tree'[pair[2]].kind = tree[pair[1]].kind
    OBVIOUS
  <2>1. CASE Found(pair[2])
    BY <1>1, <2>1 DEF Found, GoodPairs, Differ
  <2>2. CASE ~Found(pair[2])
    <3>1. tree'[pair[2]] = Entry(tree[pair[1]].kind, pair[2], NoTarget)
      BY <1>1, <2>2
    <3>2. Entry(tree[pair[1]].kind, pair[2], NoTarget).kind = tree[pair[1]].kind
      BY DEF Entry
    <3> QED
      BY <3>1, <3>2
  <2> QED
    BY <2>1, <2>2
<1>6. ASSUME NEW q \in places, q \notin DOMAIN tree
      PROVE  /\ q \in Paths /\ tree'[q] \in EntriesOf(calls')
             /\ tree'[q].id = [call |-> calls', path |-> q]
             /\ \E r \in DOMAIN tree' : r = Front(q) /\ tree'[r].kind = "directory"
             /\ tree'[q].kind # "symlink"
  <2>1. PICK pair \in pairs : q = pair[2]
    BY <1>2
  <2>2. tree'[q] = Entry(tree[pair[1]].kind, q, NoTarget) /\ tree[pair[1]].kind \in {"file", "directory"}
    BY <1>1, <1>6, <2>1 DEF Found, GoodPairs
  <2>3. q \in Paths
    <3>1. q \in Path /\ ~(Len(q) > MaxDepth)
      BY <1>6, <2>1 DEF GoodPairs, TooDeep, Found
    <3>2. Len(q) \in Nat
      BY <3>1, LenProperties DEF Path
    <3> QED
      BY <3>1, <3>2, PathsAre, FileObjectsAssumption
  <2>4. calls' \in 0 .. calls'
    BY FileObjectsAssumption DEF TreeInv
  <2>5. tree'[q] \in EntriesOf(calls') /\ tree'[q].id = [call |-> calls', path |-> q]
        /\ tree'[q].kind # "symlink"
    BY <2>2, <2>3, <2>4, NoTargetIsTarget DEF Entry, EntriesOf, Kinds
  <2>6. \E r \in DOMAIN tree' : r = Front(q) /\ tree'[r].kind = "directory"
    <3>1. CASE IsDirectory(Front(q))
      BY <1>1, <3>1 DEF IsDirectory, Found
    <3>2. CASE \E above \in pairs : above[2] = Front(q) /\ IsDirectory(above[1])
      BY <1>4, <1>5, <3>2 DEF IsDirectory
    <3> QED
      BY <2>1, <3>1, <3>2 DEF HaveDirectories
  <2> QED
    BY <2>3, <2>5, <2>6
<1>7. Makes(places)
  BY <1>1, <1>6 DEF Makes
<1>8. TreeInv' /\ Alters({})
  BY <1>7, MakesTree
<1>9. \A q \in DOMAIN tree' \ DOMAIN tree : tree'[q].kind # "symlink"
  BY <1>1, <1>6
<1> QED
  BY <1>1, <1>4, <1>8, <1>9

LEMMA SomePairs ==
  ASSUME NEW pairs, GoodPairs(pairs), NEW part \in SUBSET pairs
  PROVE  GoodPairs(part)
BY DEF GoodPairs

\* What copy collects has one source for each place, and its destination among the places.
LEMMA PairsAreGood ==
  ASSUME TreeInv, NEW from \in Path, NEW to \in Path, NEW options, Copyable(from, to),
         \A pair \in PairsOf(from, to, options) : ~(Differ(pair) \/ TooDeep(pair))
  PROVE  /\ GoodPairs(PairsOf(from, to, options))
         /\ PairsOf(from, to, options) # {} /\ ~Found(Landing(to)) =>
              \E pair \in PairsOf(from, to, options) :
                pair[1] = Landing(from) /\ pair[2] = Landing(to)
<1> DEFINE pairs == PairsOf(from, to, options)
           f == Landing(from)
           t == Landing(to)
<1>1. f \in Path /\ t \in Path /\ Closed
  BY HopsOfPath DEF TreeInv
<1>2. /\ Kind(from) \in {"file", "directory"} /\ Found(f) /\ tree[f].kind = Kind(from)
  BY DEF Copyable, Kind, Exists
<1>3. CASE Kind(from) = "file"
  <2> DEFINE b == Landing(CopiedFile(from, to))
  <2>1. pairs = {<<f, b>>}
    BY <1>3 DEF PairsOf
  <2>2. Last(from) \in Names
    BY FrontAndLast DEF Copyable
  <2>3. CopiedFile(from, to) \in Path
    BY <2>2, Appended DEF CopiedFile
  <2>4. b \in Path
    BY <1>1, <2>3, HopsOfPath
  <2>5. ~Found(t) => b = t
    BY DEF CopiedFile, Kind, Exists
  <2> HIDE DEF b
  <2>6. <<f, b>>[1] = f /\ <<f, b>>[2] = b
    OBVIOUS
  <2>7. f \in DOMAIN tree
    BY <1>2 DEF Found
  <2>8. \A pair \in pairs : pair = <<f, b>> /\ ~Differ(pair) /\ ~TooDeep(pair)
    BY <2>1
  <2> HIDE DEF f, t, pairs
  <2>9. GoodPairs(pairs)
    BY <1>2, <1>3, <2>4, <2>6, <2>7, <2>8 DEF GoodPairs
  <2>10. pairs # {} /\ ~Found(t) => \E pair \in pairs : pair[1] = f /\ pair[2] = t
    BY <2>5, <2>6, <2>8
  <2> QED
    BY <2>9, <2>10 DEF f, t, pairs
<1>4. CASE Kind(from) = "directory" /\ options \notin {{}, {"recursive"}, {"recursive", "skip existing"}}
  <2>1. pairs = {}
    BY <1>4 DEF PairsOf
  <2> QED
    BY <2>1 DEF GoodPairs
<1>5. CASE Kind(from) = "directory" /\ options \in {{}, {"recursive"}, {"recursive", "skip existing"}}
  <2> DEFINE R == {r \in Under(f) : \/ r = f \/ "recursive" \in options
                                    \/ r \in Children(f) /\ tree[r].kind = "file"}
  <2>1. pairs = {<<q, t \o SubSeq(q, Len(f) + 1, Len(q))>> : q \in R}
    BY <1>5 DEF PairsOf
  <2>2. \A q \in R : q \in Under(f) /\ q \in DOMAIN tree
    BY DEF Under
  <2>3. f \in R
    <3>1. f \in Under(f)
      BY <1>1, <1>2, UnderItsDirectory DEF Found
    <3> QED
      BY <3>1
  <2>4. \A pair \in pairs : ~Differ(pair) /\ ~TooDeep(pair)
    OBVIOUS
  <2>5. \A q \in Under(f) : tree[q].kind \in {"file", "directory"}
    BY <1>5 DEF Copyable
  <2> HIDE DEF f, t, pairs, R
  <2>6. ASSUME NEW q \in R
        PROVE  \E s \in Path : q = f \o s /\ SubSeq(q, Len(f) + 1, Len(q)) = s
    <3>1. q \in DOMAIN tree /\ \E s \in Path : q = f \o s /\ s = Rest(q, Len(f))
      BY <1>1, <2>2, UnderIs
    <3> QED
      BY <3>1 DEF Rest
  <2>7. ASSUME NEW pair \in pairs
        PROVE  \E s \in Path : pair[1] = f \o s /\ pair[2] = t \o s /\ pair[1] \in R
    <3>1. PICK q \in R : pair = <<q, t \o SubSeq(q, Len(f) + 1, Len(q))>>
      BY <2>1
    <3> QED
      BY <2>6, <3>1
  <2>8. ASSUME NEW pair \in pairs
        PROVE  pair[1] \in DOMAIN tree /\ pair[2] \in Path /\ tree[pair[1]].kind \in {"file", "directory"}
    <3>1. PICK s \in Path : pair[1] = f \o s /\ pair[2] = t \o s /\ pair[1] \in R
      BY <2>7
    <3> QED
      BY <1>1, <2>2, <2>5, <3>1, Concat
  <2>9. ASSUME NEW x \in pairs, NEW y \in pairs, x[2] = y[2]
        PROVE  x[1] = y[1]
    <3>1. PICK s \in Path : x[1] = f \o s /\ x[2] = t \o s
      BY <2>7
    <3>2. PICK u \in Path : y[1] = f \o u /\ y[2] = t \o u
      BY <2>7
    <3>3. t \o s = t \o u
      BY <2>9, <3>1, <3>2
    <3>4. s = u
      BY <1>1, <3>3, ConcatSimplifications DEF Path
    <3> QED
      BY <3>1, <3>2, <3>4
  <2>10. GoodPairs(pairs)
    BY <2>4, <2>8, <2>9 DEF GoodPairs
  <2>11. \E pair \in pairs : pair[1] = f /\ pair[2] = t
    <3>1. PICK s \in Path : f = f \o s /\ SubSeq(f, Len(f) + 1, Len(f)) = s
      BY <2>3, <2>6
    <3>2. s = <<>>
      <4>1. Len(f) = Len(f) + Len(s) /\ Len(f) \in Nat /\ Len(s) \in Nat
        BY <1>1, <3>1, Concat
      <4>2. Len(s) = 0
        BY <4>1
      <4> QED
        BY <4>2, EmptySeq DEF Path
    <3>3. t \o s = t
      BY <1>1, <3>2, Concat
    <3>4. <<f, t>> \in pairs
      BY <2>1, <2>3, <3>1, <3>3
    <3> QED
      BY <3>4
  <2> QED
    BY <2>10, <2>11 DEF f, t, pairs
<1> QED
  BY <1>2, <1>3, <1>4, <1>5

-----------------------------------------------------------------------------
\* The objects.
Types == {"file", "directory", "symlink"}
Objects == [type : Types, path : Path]
Origins == [id : Ids, astray : SUBSET {"moved", "unseen", "relative"}]
HistoryOK ==
  /\ objects \in Seq(Objects) /\ origin \in Seq(Origins)
  /\ Len(origin) = Len(objects) /\ Len(objects) <= MaxObjects

HomeOf(type, p, id) ==
  IsAt(id, EntryOf(type, p)) /\ tree[EntryOf(type, p)].kind = type
UsedFor(type, p) ==
  IF type = "symlink" /\ p # <<>> THEN Uses(Front(p)) \cup {Place(p)} ELSE Uses(p)

LEMMA SameTree ==
  ASSUME TreeInv, tree' = tree, calls' \in 0 .. MaxCalls, calls <= calls'
  PROVE  TreeInv' /\ Alters({}) /\ \A p \in Path : Landing(p)' = Landing(p) /\ Place(p)' = Place(p)
<1>1. calls \in Nat /\ calls' \in Nat /\ 0 .. calls \subseteq 0 .. calls'
  BY FileObjectsAssumption DEF TreeInv
<1>2. EntriesOf(calls) \subseteq EntriesOf(calls')
  BY <1>1 DEF EntriesOf
<1>3. Closed'
  BY DEF TreeInv, Closed, IsDirectory, Found
<1>4. TreeInv'
  BY <1>2, <1>3 DEF TreeInv
<1>5. Alters({})
  BY DEF Alters, Kept
<1>6. Kept({}) /\ Closed /\ \A q \in DOMAIN tree' \ DOMAIN tree : tree'[q].kind # "symlink"
  BY DEF Kept, TreeInv
<1> QED
  BY <1>3, <1>4, <1>5, <1>6, NoNewLinks

LEMMA RootIsDirectory ==
  Closed => tree[<<>>].kind = "directory"
<1> DEFINE r == Front(<<>>)
<1>1. r = SubSeq(<<>>, 1, Len(<<>>) - 1)
  BY DEF Front
<1>2. Len(<<>>) - 1 < 1 /\ Len(<<>>) - 1 \in Int
  OBVIOUS
<1>3. r = <<>>
  BY <1>1, <1>2, SubSeqEmpty
<1> QED
  BY <1>3 DEF Closed, IsDirectory

\* An object leads home as long as the entries that it uses are there.
LEMMA HomeKept ==
  ASSUME TreeInv, TreeInv', NEW gone, Alters(gone),
         NEW type, NEW p \in Path, NEW id,
         HomeOf(type, p, id), UsedFor(type, p) \cap gone = {}
  PROVE  HomeOf(type, p, id)'
<1>1. Closed /\ Closed' /\ gone \subseteq DOMAIN tree /\ Kept(gone)
  BY DEF TreeInv, Alters
<1>2. CASE type # "symlink"
  <2>1. Uses(p) \cap gone = {} /\ Found(Landing(p)) /\ tree[Landing(p)].id = id
        /\ tree[Landing(p)].kind = type
    BY <1>2 DEF UsedFor, HomeOf, EntryOf, IsAt
  <2>2. /\ Landing(p)' = Landing(p) /\ Landing(p) \in DOMAIN tree'
        /\ tree'[Landing(p)] = tree[Landing(p)]
    BY <1>1, <2>1, LandingKept
  <2> QED
    BY <1>2, <2>1, <2>2 DEF HomeOf, EntryOf, IsAt, Found
<1>3. CASE type = "symlink"
  <2> DEFINE q == Place(p)
  <2>1. q \in DOMAIN tree /\ tree[q].id = id /\ tree[q].kind = "symlink"
    BY <1>3 DEF HomeOf, EntryOf, IsAt, Found
  <2>2. p # <<>>
    <3> SUFFICES ASSUME p = <<>>
                 PROVE  FALSE
      OBVIOUS
    <3>1. Place(p) = <<>>
      BY DEF Place
    <3>2. tree[<<>>].kind = "directory"
      BY <1>1, RootIsDirectory
    <3> QED
      BY <2>1, <3>1, <3>2
  <2> DEFINE f == Front(p)
  <2>3. f \in Path
    BY <2>2, FrontAndLast
  <2>4. Uses(f) \cap gone = {} /\ q \notin gone
    BY <1>3, <2>2 DEF UsedFor
  <2>5. Found(Landing(f))
    BY <1>1, <2>1, <2>2, ParentIsDirectory DEF Found, IsDirectory
  <2> HIDE DEF f
  <2>6. Landing(f)' = Landing(f)
    BY <1>1, <2>3, <2>4, <2>5, LandingKept
  <2>7. Place(p)' = Place(p)
    BY <2>2, <2>6 DEF Place, f
  <2>8. q \in DOMAIN tree' /\ tree'[q] = tree[q]
    BY <1>1, <2>1, <2>4 DEF Kept
  <2> QED
    BY <1>3, <2>1, <2>7, <2>8 DEF HomeOf, EntryOf, IsAt, Found
<1> QED
  BY <1>2, <1>3

\* The property, object by object.
LEMMA HomesAre ==
  ObjectsLeadHome <=>
    \A o \in DOMAIN objects : \A type, p, id :
      type = objects[o].type /\ p = objects[o].path /\ id = origin[o].id /\ origin[o].astray = {}
        => HomeOf(type, p, id)
BY DEF ObjectsLeadHome, IsAstray, PathOf, HomeOf

LEMMA HomesAreNext ==
  (ObjectsLeadHome <=>
    \A o \in DOMAIN objects : \A type, p, id :
      type = objects[o].type /\ p = objects[o].path /\ id = origin[o].id /\ origin[o].astray = {}
        => HomeOf(type, p, id))'
BY HomesAre, PTL

\* Objects lead home if those that stay are disturbed or led to what is still there, and
\* those that are made or moved lead to what they are for, or are astray.
Stays(o, gone) ==
  /\ o \in DOMAIN objects /\ objects'[o] = objects[o] /\ origin'[o].id = origin[o].id
  /\ origin'[o].astray = {} =>
       origin[o].astray = {} /\ UsedFor(objects[o].type, objects[o].path) \cap gone = {}

LEMMA HomesKept ==
  ASSUME TreeInv, TreeInv', HistoryOK, ObjectsLeadHome, NEW gone, Alters(gone),
         \A o \in DOMAIN objects' :
           \/ Stays(o, gone)
           \/ origin'[o].astray # {}
           \/ \E type, p, id : /\ type = objects'[o].type /\ p = objects'[o].path
                               /\ id = origin'[o].id /\ HomeOf(type, p, id)'
  PROVE  ObjectsLeadHome'
<1> SUFFICES ASSUME NEW o \in DOMAIN objects', NEW type, NEW p, NEW id,
                    type = objects'[o].type, p = objects'[o].path, id = origin'[o].id,
                    origin'[o].astray = {}
             PROVE  HomeOf(type, p, id)'
  BY HomesAreNext
<1>1. CASE Stays(o, gone)
  <2>1. /\ type = objects[o].type /\ p = objects[o].path /\ id = origin[o].id
        /\ origin[o].astray = {} /\ UsedFor(type, p) \cap gone = {} /\ o \in DOMAIN objects
    BY <1>1 DEF Stays
  <2>2. HomeOf(type, p, id)
    BY <2>1, HomesAre
  <2>3. p \in Path
    <3>1. o \in 1 .. Len(objects) /\ objects[o] \in Objects
      BY <2>1, ElementOfSeq DEF HistoryOK
    <3> QED
      BY <2>1, <3>1 DEF Objects
  <2> QED
    BY <2>1, <2>2, <2>3, HomeKept
<1>2. CASE \E u, r, k : /\ u = objects'[o].type /\ r = objects'[o].path
                        /\ k = origin'[o].id /\ HomeOf(u, r, k)'
  <2>1. PICK u, r, k : /\ u = objects'[o].type /\ r = objects'[o].path
                        /\ k = origin'[o].id /\ HomeOf(u, r, k)'
    BY <1>2
  <2>2. u = type /\ r = p /\ k = id
    BY <2>1
  <2>3. HomeOf(u, r, k)'
    BY <2>1
  <2> QED
    BY <2>2, <2>3
<1> QED
  BY <1>1, <1>2

\* An object that is made.
LEMMA MadeIs ==
  ASSUME HistoryOK, NEW type \in Types, NEW p \in Path, NEW id \in Ids,
         NEW astray \in SUBSET {"moved", "unseen", "relative"}, Made(type, p, id, astray)
  PROVE  /\ HistoryOK' /\ DOMAIN objects' = DOMAIN objects \cup {Len(objects) + 1}
         /\ \A o \in DOMAIN objects : objects'[o] = objects[o] /\ origin'[o] = origin[o]
         /\ objects'[Len(objects) + 1] = [type |-> type, path |-> p]
         /\ origin'[Len(objects) + 1] = [id |-> id, astray |-> astray]
<1> DEFINE x == [type |-> type, path |-> p]
           y == [id |-> id, astray |-> astray]
<1>1. x \in Objects /\ y \in Origins
  BY DEF Objects, Origins
<1>2. objects' = Append(objects, x) /\ origin' = Append(origin, y) /\ Len(objects) < MaxObjects
  BY DEF Made
<1> HIDE DEF x, y
<1>3. Len(objects) \in Nat /\ Len(origin) = Len(objects)
  BY LenProperties DEF HistoryOK
<1>4. /\ objects' \in Seq(Objects) /\ Len(objects') = Len(objects) + 1
      /\ \A o \in 1 .. Len(objects) : objects'[o] = objects[o]
      /\ objects'[Len(objects) + 1] = x
  BY <1>1, <1>2, AppendProperties DEF HistoryOK
<1>5. /\ origin' \in Seq(Origins) /\ Len(origin') = Len(origin) + 1
      /\ \A o \in 1 .. Len(origin) : origin'[o] = origin[o]
      /\ origin'[Len(origin) + 1] = y
  BY <1>1, <1>2, AppendProperties DEF HistoryOK
<1>6. HistoryOK'
  BY <1>2, <1>3, <1>4, <1>5, FileObjectsAssumption DEF HistoryOK
<1>7. DOMAIN objects = 1 .. Len(objects) /\ DOMAIN objects' = 1 .. Len(objects) + 1
  BY <1>4, LenProperties DEF HistoryOK
<1> QED
  BY <1>3, <1>4, <1>5, <1>6, <1>7 DEF x, y

LEMMA MadeLeadsHome ==
  ASSUME TreeInv, TreeInv', Alters({}), HistoryOK, ObjectsLeadHome,
         NEW type \in Types, NEW p \in Path, NEW id \in Ids,
         NEW astray \in SUBSET {"moved", "unseen", "relative"}, Made(type, p, id, astray),
         astray # {} \/ HomeOf(type, p, id)'
  PROVE  HistoryOK' /\ ObjectsLeadHome'
<1>1. /\ HistoryOK' /\ DOMAIN objects' = DOMAIN objects \cup {Len(objects) + 1}
      /\ \A o \in DOMAIN objects : objects'[o] = objects[o] /\ origin'[o] = origin[o]
      /\ objects'[Len(objects) + 1] = [type |-> type, path |-> p]
      /\ origin'[Len(objects) + 1] = [id |-> id, astray |-> astray]
  BY MadeIs
<1>2. ASSUME NEW o \in DOMAIN objects
      PROVE  Stays(o, {})
  BY <1>1 DEF Stays
<1>3. ASSUME NEW o \in DOMAIN objects', o \notin DOMAIN objects
      PROVE  \/ origin'[o].astray # {}
             \/ \E u, r, k : /\ u = objects'[o].type /\ r = objects'[o].path
                             /\ k = origin'[o].id /\ HomeOf(u, r, k)'
  <2>1. o = Len(objects) + 1
    BY <1>1, <1>3
  <2>2. objects'[o] = [type |-> type, path |-> p] /\ origin'[o] = [id |-> id, astray |-> astray]
    BY <1>1, <2>1
  <2>3. type = objects'[o].type /\ p = objects'[o].path /\ id = origin'[o].id /\ origin'[o].astray = astray
    BY <2>2
  <2> QED
    BY <2>3
<1> QED
  BY <1>1, <1>2, <1>3, HomesKept

\* A step that leaves the objects as they are, but for those that it disturbs.
LEMMA SameHomes ==
  ASSUME TreeInv, TreeInv', Alters({}), HistoryOK, ObjectsLeadHome,
         objects' = objects, origin' = origin
  PROVE  HistoryOK' /\ ObjectsLeadHome'
<1>1. HistoryOK'
  BY DEF HistoryOK
<1>2. \A o \in DOMAIN objects' : Stays(o, {})
  BY DEF Stays
<1> QED
  BY <1>1, <1>2, HomesKept

\* What the history is after entries were taken away.
LEMMA DisturbIs ==
  ASSUME HistoryOK, NEW gone, Disturb(gone)
  PROVE  /\ origin' \in Seq(Origins) /\ Len(origin') = Len(origin)
         /\ \A o \in DOMAIN origin : origin'[o].id = origin[o].id /\
              (origin'[o].astray = {} => origin[o].astray = {} /\ ~Disturbed(o, gone))
<1> DEFINE Then(o) == IF Disturbed(o, gone) THEN Astray(o, "moved") ELSE origin[o]
<1>1. origin' = [o \in DOMAIN origin |-> Then(o)]
  BY DEF Disturb
<1>2. DOMAIN origin = 1 .. Len(origin) /\ Len(origin) \in Nat
  BY LenProperties DEF HistoryOK
<1>3. ASSUME NEW o \in DOMAIN origin
      PROVE  /\ Then(o) \in Origins /\ Then(o).id = origin[o].id
             /\ Then(o).astray = {} => origin[o].astray = {} /\ ~Disturbed(o, gone)
  <2>1. origin[o] \in Origins
    BY <1>2, <1>3, ElementOfSeq DEF HistoryOK
  <2>2. Astray(o, "moved") = [origin[o] EXCEPT !.astray = origin[o].astray \cup {"moved"}]
    BY DEF Astray
  <2>3. /\ Astray(o, "moved") \in Origins /\ Astray(o, "moved").id = origin[o].id
        /\ Astray(o, "moved").astray # {}
    BY <2>1, <2>2 DEF Origins
  <2> QED
    BY <2>1, <2>3
<1> HIDE DEF Then
<1>4. origin' \in Seq(Origins) /\ Len(origin') = Len(origin)
  <2>1. DOMAIN origin' = 1 .. Len(origin) /\ \A o \in 1 .. Len(origin) : origin'[o] \in Origins
    BY <1>1, <1>2, <1>3
  <2>2. origin' \in [1 .. Len(origin) -> Origins]
    BY <1>1, <1>2, <1>3
  <2> QED
    BY <1>2, <2>2, SeqDef
<1> QED
  BY <1>1, <1>3, <1>4

-----------------------------------------------------------------------------
\* The iterations.
Listed == [path : Path, kind : Kinds, id : Ids]
Iterators ==
  [path : Path, deep : BOOLEAN, todo : SUBSET Listed, state : {"open", "ended", "failed"},
   given : SUBSET Ids, there : SUBSET Ids]

\* What is listed is of the kind that it was listed with, wherever it is now.
ListedKinds(it) ==
  \A e \in it.todo : e.id.call <= calls /\ \A q \in DOMAIN tree : tree[q].id = e.id => tree[q].kind = e.kind

\* What is there all along and was not given yet is listed, or is below a directory that is
\* listed, where the path of the iteration leads.
Above(it, e, q) ==
  /\ it.deep /\ e.kind = "directory"
  /\ \E s, t \in Path :
       /\ s # <<>> /\ t # <<>> /\ e.path = it.path \o s
       /\ q = Landing(it.path) \o (s \o t)
       /\ Landing(it.path) \o s \in DOMAIN tree /\ tree[Landing(it.path) \o s].id = e.id
Awaited(it, q) ==
  \E e \in it.todo : /\ e.kind # "other" /\ e.id \in it.there
                     /\ e.id = tree[q].id \/ Above(it, e, q)
ThereIsFound(it) == \A id \in it.there : \E q \in DOMAIN tree : tree[q].id = id
ThereIsSupported(it) == \A q \in DOMAIN tree : tree[q].id \in it.there => tree[q].kind # "other"
DeepIsThere(it) ==
  it.deep /\ it.there # {} =>
    /\ IsDirectory(Landing(it.path))
    /\ \A s, t \in Path :
         LET q == Landing(it.path) \o (s \o t)
         IN s # <<>> /\ q \in DOMAIN tree /\ tree[q].id \in it.there =>
              tree[Landing(it.path) \o s].id \in it.there
AllAwaited(it) ==
  \A q \in DOMAIN tree : tree[q].id \in it.there \ it.given => Awaited(it, q)
OpenInv(it) ==
  ThereIsFound(it) /\ ThereIsSupported(it) /\ DeepIsThere(it) /\ AllAwaited(it)
IterationInv(it) ==
  /\ ListedKinds(it)
  /\ it.state = "ended" => it.there \subseteq it.given
  /\ it.state = "open" => OpenInv(it)

Passes(gone) == calls' = calls + 1 \/ (calls' = calls /\ tree' = tree /\ gone = {})

\* An entry was there before, was moved, or was made in this call.
LEMMA EntriesAfter ==
  ASSUME TreeInv, NEW gone, Alters(gone), Passes(gone)
  PROVE  /\ \A q \in DOMAIN tree' : \/ q \in DOMAIN tree \ gone /\ tree'[q] = tree[q]
                                    \/ \E r \in gone : r \in DOMAIN tree /\ tree'[q] = tree[r]
                                    \/ ~(tree'[q].id.call <= calls)
         /\ \A q \in DOMAIN tree : tree[q].id.call <= calls
         /\ \A q \in DOMAIN tree \ gone : q \in DOMAIN tree' /\ tree'[q] = tree[q]
         /\ calls \in Nat /\ calls <= calls' /\ calls' \in Int
<1>1. calls \in Nat /\ calls <= calls' /\ calls' \in Int
  <2>1. calls \in Nat
    BY FileObjectsAssumption DEF TreeInv
  <2> QED
    BY <2>1 DEF Passes
<1>2. ASSUME NEW q \in DOMAIN tree
      PROVE  tree[q].id.call <= calls
  <2>1. tree[q].id.call \in 0 .. calls
    BY DEF TreeInv, EntriesOf
  <2> QED
    BY <1>1, <2>1
<1>3. \A q \in DOMAIN tree \ gone : q \in DOMAIN tree' /\ tree'[q] = tree[q]
  BY DEF Alters, Kept
<1>4. ASSUME NEW q \in DOMAIN tree'
      PROVE  \/ q \in DOMAIN tree \ gone /\ tree'[q] = tree[q]
             \/ \E r \in gone : r \in DOMAIN tree /\ tree'[q] = tree[r]
             \/ ~(tree'[q].id.call <= calls)
  <2>1. CASE calls' = calls + 1 /\ tree'[q].id.call = calls'
    BY <1>1, <2>1
  <2>2. CASE tree' = tree /\ gone = {}
    BY <2>2
  <2>3. CASE q \in DOMAIN tree \ gone \/ \E r \in gone : tree'[q] = tree[r]
    BY <1>3, <2>3 DEF Alters
  <2> QED
    BY <2>1, <2>2, <2>3 DEF Passes, Alters
<1> QED
  BY <1>1, <1>2, <1>3, <1>4

\* What is listed stays of its kind.
LEMMA ListedKept ==
  ASSUME TreeInv, NEW gone, Alters(gone), Passes(gone), NEW it, NEW todo \in SUBSET it.todo,
         it.todo \in SUBSET Listed, ListedKinds(it)
  PROVE  \A e \in todo : /\ e.id.call <= calls'
                         /\ \A q \in DOMAIN tree' : tree'[q].id = e.id => tree'[q].kind = e.kind
<1> SUFFICES ASSUME NEW e \in todo
             PROVE  /\ e.id.call <= calls'
                    /\ \A q \in DOMAIN tree' : tree'[q].id = e.id => tree'[q].kind = e.kind
  OBVIOUS
<1>1. e \in it.todo /\ e.id.call <= calls /\ \A q \in DOMAIN tree : tree[q].id = e.id => tree[q].kind = e.kind
  BY DEF ListedKinds
<1>2. e.id.call \in Int
  BY <1>1, FileObjectsAssumption DEF Listed, Ids
<1>3. e.id.call <= calls'
  BY <1>1, <1>2, EntriesAfter
<1>4. ASSUME NEW q \in DOMAIN tree', tree'[q].id = e.id
      PROVE  tree'[q].kind = e.kind
  BY <1>1, <1>4, EntriesAfter
<1> QED
  BY <1>3, <1>4

\* What is still there was there before, in the same place.
LEMMA StillIs ==
  ASSUME TreeInv, NEW gone, Alters(gone), Passes(gone)
  PROVE  \A q \in DOMAIN tree : tree[q].id \notin IdsOf(gone) =>
           /\ q \notin gone /\ q \in DOMAIN tree' /\ tree'[q] = tree[q]
           /\ \A r \in DOMAIN tree' : tree'[r].id = tree[q].id => r = q
<1> SUFFICES ASSUME NEW q \in DOMAIN tree, tree[q].id \notin IdsOf(gone)
             PROVE  /\ q \notin gone /\ q \in DOMAIN tree' /\ tree'[q] = tree[q]
                    /\ \A r \in DOMAIN tree' : tree'[r].id = tree[q].id => r = q
  OBVIOUS
<1>1. \A r \in gone : tree[r].id \in IdsOf(gone)
  BY DEF IdsOf
<1>2. q \notin gone /\ q \in DOMAIN tree' /\ tree'[q] = tree[q] /\ tree[q].id.call <= calls
  BY <1>1, EntriesAfter
<1>3. ASSUME NEW r \in DOMAIN tree', tree'[r].id = tree[q].id
      PROVE  r = q
  <2>1. r \in DOMAIN tree /\ tree'[r] = tree[r]
    BY <1>1, <1>2, <1>3, EntriesAfter
  <2> QED
    BY <1>3, <2>1 DEF TreeInv
<1> QED
  BY <1>2, <1>3

\* What is between an entry and a directory above it.
LEMMA FoundBetween ==
  Closed => \A d, s, t \in Path : d \o (s \o t) \in DOMAIN tree =>
    /\ d \o s \in DOMAIN tree /\ d \o (s \o t) \in Under(d \o s)
    /\ t # <<>> => tree[d \o s].kind = "directory"
<1> SUFFICES ASSUME Closed, NEW d \in Path, NEW s \in Path, NEW t \in Path,
                    d \o (s \o t) \in DOMAIN tree
             PROVE  /\ d \o s \in DOMAIN tree /\ d \o (s \o t) \in Under(d \o s)
                    /\ t # <<>> => tree[d \o s].kind = "directory"
  OBVIOUS
<1>1. d \o (s \o t) = (d \o s) \o t
  <2>1. d \in Seq(Names) /\ s \in Seq(Names) /\ t \in Seq(Names)
    BY DEF Path
  <2> QED
    BY <2>1, ConcatAssociative
<1>2. d \o s \in Path
  BY Concat
<1> DEFINE r == d \o s
<1>3. r \in Path /\ r \o t \in DOMAIN tree
  BY <1>1, <1>2
<1> HIDE DEF r
<1>4. IsPrefix(r, r \o t)
  BY <1>3, PrefixOfConcat
<1>5. CASE t = <<>>
  <2>1. r \o t = r
    BY <1>3, <1>5, Concat
  <2> QED
    BY <1>1, <1>3, <1>4, <1>5, <2>1 DEF Under, r
<1>6. CASE t # <<>>
  <2>1. IsDirectory(r)
    BY <1>3, <1>6, NothingBelow
  <2> QED
    BY <1>1, <1>3, <1>4, <2>1 DEF Under, r, IsDirectory, Found
<1> QED
  BY <1>5, <1>6

\* An iteration's invariant holds through everything that happens to the tree meanwhile.
LEMMA IterationKept ==
  ASSUME TreeInv, TreeInv', NEW gone, Alters(gone), Passes(gone),
         NEW it \in Iterators, NEW new, new = [it EXCEPT !.there = @ \ Lost(it, gone)],
         IterationInv(it)
  PROVE  new \in Iterators /\ IterationInv(new)'
<1> DEFINE d == Landing(it.path)
<1>1. /\ new \in Iterators /\ new.path = it.path /\ new.deep = it.deep /\ new.todo = it.todo
      /\ new.state = it.state /\ new.given = it.given /\ new.there = it.there \ Lost(it, gone)
      /\ it.path \in Path /\ it.todo \in SUBSET Listed /\ it.deep \in BOOLEAN
  BY DEF Iterators
<1>2. \A e \in it.todo : e.id.call <= calls' /\ \A q \in DOMAIN tree' : tree'[q].id = e.id => tree'[q].kind = e.kind
  BY <1>1, ListedKept DEF IterationInv
<1>3. ListedKinds(new)'
  BY <1>1, <1>2 DEF ListedKinds
<1>4. new.state = "ended" => new.there \subseteq new.given
  BY <1>1 DEF IterationInv
<1>5. ASSUME it.state = "open"
      PROVE  OpenInv(new)'
  <2>1. OpenInv(it)
    BY <1>5 DEF IterationInv
  <2>2. \A id \in it.there : \E q \in DOMAIN tree : tree[q].id = id
    BY <2>1 DEF OpenInv, ThereIsFound
  <2>3. new.there \subseteq it.there /\ new.there \cap IdsOf(gone) = {}
    <3>1. CASE Lost(it, gone) = it.there
      BY <1>1, <3>1
    <3>2. CASE Lost(it, gone) = IdsOf(gone)
      BY <1>1, <3>2
    <3> QED
      BY <3>1, <3>2 DEF Lost
  <2>4. /\ \A q \in DOMAIN tree' : tree'[q].id \in new.there =>
             q \in DOMAIN tree /\ q \notin gone /\ tree'[q] = tree[q]
        /\ \A id \in new.there : \E q \in DOMAIN tree' : tree'[q].id = id
    <3>1. \A q \in DOMAIN tree : tree[q].id \notin IdsOf(gone) =>
            /\ q \notin gone /\ q \in DOMAIN tree' /\ tree'[q] = tree[q]
            /\ \A r \in DOMAIN tree' : tree'[r].id = tree[q].id => r = q
      BY StillIs
    <3>2. \A id \in new.there : \E q \in DOMAIN tree : tree[q].id = id /\ tree[q].id \notin IdsOf(gone)
      BY <2>2, <2>3
    <3> QED
      BY <3>1, <3>2
  <2>5. ThereIsFound(new)' /\ ThereIsSupported(new)'
    BY <2>1, <2>3, <2>4 DEF ThereIsFound, ThereIsSupported, OpenInv
  <2>6. ASSUME it.deep, new.there # {}
        PROVE  /\ IsDirectory(d) /\ Landing(it.path)' = d /\ d \in DOMAIN tree'
               /\ tree'[d] = tree[d] /\ d \in Path
    <3>1. it.there # {} /\ Uses(it.path) \cap gone = {}
      BY <1>1, <2>6 DEF Lost
    <3>2. IsDirectory(d)
      BY <2>1, <2>6, <3>1 DEF OpenInv, DeepIsThere
    <3>3. Closed /\ Closed' /\ gone \subseteq DOMAIN tree /\ Kept(gone) /\ Found(d)
      BY <3>2 DEF TreeInv, Alters, IsDirectory
    <3> DEFINE p == it.path
    <3>4. p \in Path /\ Uses(p) \cap gone = {} /\ Found(Landing(p))
      BY <1>1, <3>1, <3>3
    <3> HIDE DEF p
    <3>5. Landing(p)' = Landing(p) /\ Landing(p) \in DOMAIN tree' /\ tree'[Landing(p)] = tree[Landing(p)]
      BY <3>3, <3>4, LandingKept
    <3>6. Landing(p) \in Path
      BY <3>3, <3>4, HopsOfPath
    <3> QED
      BY <3>2, <3>5, <3>6 DEF p
  <2> HIDE DEF d
  <2>7. ASSUME it.deep, NEW s \in Path, NEW t \in Path, d \o (s \o t) \in DOMAIN tree',
               tree'[d \o (s \o t)].id \in new.there
        PROVE  /\ d \o (s \o t) \in DOMAIN tree
               /\ d \o s \in DOMAIN tree /\ d \o s \in DOMAIN tree' /\ tree'[d \o s] = tree[d \o s]
               /\ tree[d \o s].id \notin IdsOf(gone)
    <3>1. d \in Path
      BY <2>6, <2>7
    <3>2. d \o (s \o t) \in DOMAIN tree /\ d \o (s \o t) \notin gone
      BY <2>4, <2>7
    <3>3. d \o s \in DOMAIN tree /\ d \o (s \o t) \in Under(d \o s)
      BY <3>1, <3>2, FoundBetween DEF TreeInv
    <3>4. d \o s \notin gone
      BY <3>2, <3>3 DEF Alters
    <3>5. tree[d \o s].id \notin IdsOf(gone)
      BY <3>3, <3>4 DEF IdsOf, TreeInv, Alters
    <3> QED
      BY <3>2, <3>3, <3>4, <3>5, EntriesAfter
  <2>8. it.deep /\ new.there # {} => new.there = it.there \ IdsOf(gone)
    BY <1>1 DEF Lost
  <2>9. DeepIsThere(new)'
    <3>1. ASSUME it.deep, new.there # {}
          PROVE  IsDirectory(Landing(it.path))'
      <4>1. Landing(it.path)' = d /\ d \in DOMAIN tree' /\ tree'[d].kind = "directory"
        BY <2>6, <3>1 DEF IsDirectory
      <4> QED
        BY <4>1 DEF IsDirectory, Found
    <3>2. ASSUME it.deep, new.there # {}, NEW s \in Path, NEW t \in Path, s # <<>>,
                 d \o (s \o t) \in DOMAIN tree', tree'[d \o (s \o t)].id \in new.there
          PROVE  tree'[d \o s].id \in new.there
      <4>1. d \o (s \o t) \in DOMAIN tree /\ tree[d \o (s \o t)].id \in it.there
        BY <2>3, <2>4, <3>2
      <4>2. tree[d \o s].id \in it.there
        BY <2>1, <3>2, <4>1 DEF OpenInv, DeepIsThere, d
      <4>3. tree'[d \o s].id \in it.there /\ tree'[d \o s].id \notin IdsOf(gone)
        BY <2>7, <3>2, <4>2
      <4> QED
        BY <2>8, <3>2, <4>3
    <3>3. it.deep /\ new.there # {} => Landing(it.path)' = d
      BY <2>6
    <3> QED
      BY <1>1, <3>1, <3>2, <3>3 DEF DeepIsThere
  <2>10. ASSUME NEW q \in DOMAIN tree', tree'[q].id \in new.there \ new.given
         PROVE  Awaited(new, q)'
    <3>1. q \in DOMAIN tree /\ tree'[q] = tree[q] /\ tree[q].id \in it.there \ it.given
      BY <1>1, <2>3, <2>4, <2>10
    <3>2. Awaited(it, q)
      BY <2>1, <3>1 DEF OpenInv, AllAwaited
    <3>3. PICK e \in it.todo : /\ e.kind # "other" /\ e.id \in it.there
                               /\ e.id = tree[q].id \/ Above(it, e, q)
      BY <3>2 DEF Awaited
    <3>4. CASE e.id = tree[q].id
      BY <1>1, <2>10, <3>1, <3>3, <3>4 DEF Awaited
    <3>5. CASE Above(it, e, q)
      <4>1. PICK s, t \in Path :
              /\ s # <<>> /\ t # <<>> /\ e.path = it.path \o s /\ q = d \o (s \o t)
              /\ d \o s \in DOMAIN tree /\ tree[d \o s].id = e.id
        BY <3>5 DEF Above, d
      <4>2. it.deep /\ e.kind = "directory" /\ new.there # {}
        BY <2>10, <3>5 DEF Above
      <4>3. d \o s \in DOMAIN tree' /\ tree'[d \o s].id = e.id /\ e.id \notin IdsOf(gone)
        BY <2>7, <2>10, <4>1, <4>2
      <4>4. Landing(it.path)' = d
        BY <2>6, <4>2
      <4>5. Above(new, e, q)'
        BY <1>1, <4>1, <4>2, <4>3, <4>4 DEF Above
      <4>6. e.id \in new.there
        BY <2>8, <3>3, <4>2, <4>3
      <4> QED
        BY <1>1, <3>3, <4>5, <4>6 DEF Awaited
    <3> QED
      BY <3>3, <3>4, <3>5
  <2> QED
    BY <2>5, <2>9, <2>10 DEF OpenInv, AllAwaited
<1> QED
  BY <1>1, <1>3, <1>4, <1>5 DEF IterationInv

\* The entry of the directory d on the way to d \o s.
OnTheWay(d, p, s) ==
  \E x \in Names : \E t \in Path : \E e \in Entries(d, p) :
      /\ <<x>> \in Path /\ s = <<x>> \o t /\ d \o <<x>> \in DOMAIN tree
      /\ e.path = p \o <<x>> /\ e.kind = tree[d \o <<x>>].kind /\ e.id = tree[d \o <<x>>].id

\* Of the entries of a directory, one is on the way to each entry below it.
LEMMA EntriesCover ==
  Closed => \A d, p, s \in Path : d \o s \in DOMAIN tree /\ s # <<>> => OnTheWay(d, p, s)
<1> SUFFICES ASSUME Closed, NEW d \in Path, NEW p \in Path, NEW s \in Path,
                    d \o s \in DOMAIN tree, s # <<>>
             PROVE  OnTheWay(d, p, s)
  OBVIOUS
<1> DEFINE u == FirstSteps(s, 1)
           t == Rest(s, 1)
           x == Last(u)
<1>1. 1 \in 0 .. Len(s)
  BY EmptySeq, LenProperties DEF Path
<1>2. u \in Path /\ Len(u) = 1 /\ t \in Path /\ u \o t = s
  BY <1>1, FirstStepsOf
<1> HIDE DEF u, t
<1>3. u # <<>>
  <2>1. u \in Seq(Names) => (u = <<>> <=> Len(u) = 0)
    BY EmptySeq
  <2> QED
    BY <1>2, <2>1 DEF Path
<1>4. Front(u) \in Path /\ x \in Names /\ u = Append(Front(u), x) /\ Len(Front(u)) = 0
  BY <1>2, <1>3, FrontAndLast
<1>5. Front(u) = <<>>
  BY <1>4, EmptySeq DEF Path
<1> HIDE DEF x
<1>6. u = <<x>> /\ <<x>> \in Path
  <2>1. Append(<<>>, x) = <<>> \o <<x>> /\ <<x>> \in Path /\ <<>> \in Path
    <3>1. <<>> \in Path
      BY EmptySeq DEF Path
    <3> QED
      BY <1>4, <3>1, Appended
  <2> QED
    BY <1>4, <1>5, <2>1, Concat
<1>7. s = <<x>> \o t
  BY <1>2, <1>6
<1>8. d \o <<x>> \in DOMAIN tree
  BY <1>2, <1>6, <1>7, FoundBetween
<1> DEFINE r == d \o <<x>>
<1>9. /\ r \in Under(d) /\ Len(r) = Len(d) + 1 /\ Last(r) = x
  <2>1. Append(d, x) = r /\ Last(Append(d, x)) = x /\ Len(Append(d, x)) = Len(d) + 1
    BY <1>4, Appended
  <2>2. IsPrefix(d, r)
    BY <1>6, PrefixOfConcat
  <2> QED
    BY <1>8, <2>1, <2>2 DEF Under
<1> DEFINE e == [path |-> p \o <<Last(r)>>, kind |-> tree[r].kind, id |-> tree[r].id]
<1>10. e \in Entries(d, p)
  BY <1>9 DEF Entries, Children
<1>11. e.path = p \o <<x>> /\ e.kind = tree[r].kind /\ e.id = tree[r].id
  BY <1>9
<1> HIDE DEF e
<1> QED
  BY <1>2, <1>4, <1>6, <1>7, <1>8, <1>10, <1>11 DEF OnTheWay

LEMMA EntriesListed ==
  ASSUME TreeInv, NEW d \in Path, NEW p \in Path
  PROVE  /\ Entries(d, p) \subseteq Listed
         /\ \A e \in Entries(d, p) :
              e.id.call <= calls /\ \A q \in DOMAIN tree : tree[q].id = e.id => tree[q].kind = e.kind
<1> SUFFICES ASSUME NEW e \in Entries(d, p)
             PROVE  /\ e \in Listed /\ e.id.call <= calls
                    /\ \A q \in DOMAIN tree : tree[q].id = e.id => tree[q].kind = e.kind
  OBVIOUS
<1>1. PICK r \in Children(d) :
        e = [path |-> p \o <<Last(r)>>, kind |-> tree[r].kind, id |-> tree[r].id]
  BY DEF Entries
<1>2. r \in DOMAIN tree /\ r \in Path /\ Len(r) = Len(d) + 1
  BY DEF Children, Under, TreeInv, Closed
<1>3. r # <<>>
  <2>1. Len(<<>>) = 0 /\ Len(d) \in Nat
    BY LenProperties DEF Path
  <2> QED
    BY <1>2, <2>1
<1>4. p \o <<Last(r)>> \in Path
  BY <1>2, <1>3, FrontAndLast, Appended, Concat
<1>5. tree[r].kind \in Kinds /\ tree[r].id \in [call : 0 .. calls, path : Paths]
  BY <1>2 DEF TreeInv, EntriesOf
<1>6. calls \in 0 .. MaxCalls /\ MaxCalls \in Nat
  BY FileObjectsAssumption DEF TreeInv
<1>7. tree[r].id \in Ids /\ tree[r].id.call <= calls
  BY <1>5, <1>6 DEF Ids
<1>8. e \in Listed /\ e.id = tree[r].id /\ e.kind = tree[r].kind
  BY <1>1, <1>4, <1>5, <1>7 DEF Listed
<1> QED
  BY <1>2, <1>7, <1>8 DEF TreeInv

\* What an iteration finds at its beginning.
LEMMA BelowIs ==
  ASSUME TreeInv, NEW d \in Path, NEW deep \in BOOLEAN, NEW q \in DOMAIN tree
  PROVE  /\ tree[q].id \in Below(d, deep) <=>
              /\ q \in Under(d) /\ q # d /\ tree[q].kind # "other"
              /\ deep \/ Len(q) = Len(d) + 1
         /\ Below(d, deep) \subseteq Ids
         /\ \A id \in Below(d, deep) : \E r \in DOMAIN tree : tree[r].id = id
<1> DEFINE B == {r \in Under(d) \ {d} : (deep \/ Len(r) = Len(d) + 1) /\ tree[r].kind # "other"}
<1>1. Below(d, deep) = {tree[r].id : r \in B}
  BY DEF Below
<1>2. \A r \in B : r \in DOMAIN tree
  BY DEF Under
<1>3. \A r \in DOMAIN tree : tree[r].id \in Ids
  <2>1. calls \in 0 .. MaxCalls /\ MaxCalls \in Nat
    BY FileObjectsAssumption DEF TreeInv
  <2> QED
    BY <2>1 DEF TreeInv, EntriesOf, Ids
<1>4. \A r \in DOMAIN tree : tree[r].id = tree[q].id => r = q
  BY DEF TreeInv
<1>5. q \in B <=> /\ q \in Under(d) /\ q # d /\ tree[q].kind # "other"
                  /\ deep \/ Len(q) = Len(d) + 1
  OBVIOUS
<1> HIDE DEF B
<1>6. tree[q].id \in Below(d, deep) <=> q \in B
  BY <1>1, <1>2, <1>4
<1> QED
  BY <1>1, <1>2, <1>3, <1>5, <1>6

\* An iteration that begins.
LEMMA OpenedInv ==
  ASSUME TreeInv, NEW p \in Path, Kind(p) = "directory", NEW deep \in BOOLEAN, NEW it,
         it = [path |-> p, deep |-> deep, todo |-> Entries(Landing(p), p), state |-> "open",
               given |-> {}, there |-> Below(Landing(p), deep)]
  PROVE  it \in Iterators /\ IterationInv(it)
<1> DEFINE d == Landing(p)
<1>1. d \in Path /\ IsDirectory(d) /\ Closed /\ d \in DOMAIN tree
  BY HopsOfPath DEF TreeInv, Kind, Exists, IsDirectory, Found
<1>2. /\ it.path = p /\ it.deep = deep /\ it.todo = Entries(d, p) /\ it.state = "open"
      /\ it.given = {} /\ it.there = Below(d, deep)
  OBVIOUS
<1> HIDE DEF d
<1>3. \A q \in DOMAIN tree : tree[q].id \in it.there <=>
        /\ q \in Under(d) /\ q # d /\ tree[q].kind # "other"
        /\ deep \/ Len(q) = Len(d) + 1
  BY <1>1, <1>2, BelowIs
<1>4. it.there \subseteq Ids /\ \A id \in it.there : \E r \in DOMAIN tree : tree[r].id = id
  BY <1>1, <1>2, BelowIs
<1>5. /\ it.todo \subseteq Listed
      /\ \A e \in it.todo :
           e.id.call <= calls /\ \A q \in DOMAIN tree : tree[q].id = e.id => tree[q].kind = e.kind
  BY <1>1, <1>2, EntriesListed
<1>6. it \in Iterators
  BY <1>2, <1>4, <1>5 DEF Iterators, d
<1>7. ASSUME deep, NEW s \in Path, NEW t \in Path, s # <<>>, d \o (s \o t) \in DOMAIN tree,
             tree[d \o (s \o t)].id \in it.there
      PROVE  tree[d \o s].id \in it.there
  <2>1. /\ d \o s \in DOMAIN tree /\ d \o (s \o t) \in Under(d \o s)
        /\ t # <<>> => tree[d \o s].kind = "directory"
    BY <1>1, <1>7, FoundBetween
  <2>2. t = <<>> => s \o t = s
    BY Concat
  <2>3. tree[d \o s].kind # "other"
    BY <1>3, <1>7, <2>1, <2>2
  <2>4. d \o s \in Under(d)
    BY <1>1, <2>1, PrefixOfConcat DEF Under
  <2>5. d \o s # d
    <3>1. Len(d \o s) = Len(d) + Len(s) /\ Len(d) \in Nat /\ Len(s) \in Nat /\ Len(s) # 0
      BY <1>1, <1>7, Concat, EmptySeq DEF Path
    <3> QED
      BY <3>1
  <2> QED
    BY <1>3, <1>7, <2>1, <2>3, <2>4, <2>5
<1>8. ASSUME NEW q \in DOMAIN tree, tree[q].id \in it.there
      PROVE  Awaited(it, q)
  <2>1. q \in Under(d) /\ q # d /\ tree[q].kind # "other" /\ (deep \/ Len(q) = Len(d) + 1)
    BY <1>3, <1>8
  <2>2. PICK u \in Path : q = d \o u
    BY <1>1, <2>1, UnderIs
  <2>3. u # <<>>
    BY <1>1, <2>1, <2>2, Concat
  <2>4. PICK x \in Names, t \in Path, e \in Entries(d, p) :
          /\ <<x>> \in Path /\ u = <<x>> \o t /\ d \o <<x>> \in DOMAIN tree
          /\ e.path = p \o <<x>> /\ e.kind = tree[d \o <<x>>].kind /\ e.id = tree[d \o <<x>>].id
    <3>1. OnTheWay(d, p, u)
      BY <1>1, <2>2, <2>3, EntriesCover
    <3> QED
      BY <3>1 DEF OnTheWay
  <2>5. CASE t = <<>>
    <3>1. q = d \o <<x>>
      BY <2>2, <2>4, <2>5, Concat
    <3> QED
      BY <1>2, <1>8, <2>1, <2>4, <3>1 DEF Awaited
  <2>6. CASE t # <<>>
    <3>1. q = d \o (<<x>> \o t)
      BY <2>2, <2>4
    <3>2. tree[d \o <<x>>].kind = "directory"
      BY <1>1, <2>4, <2>6, <3>1, FoundBetween
    <3>3. deep
      <4>1. /\ Len(q) = Len(d) + Len(u) /\ Len(u) = Len(<<x>>) + Len(t) /\ Len(<<x>>) = 1
            /\ Len(d) \in Nat /\ Len(t) \in Nat /\ Len(t) # 0 /\ Len(u) \in Nat
        BY <1>1, <2>2, <2>4, <2>6, Concat, EmptySeq DEF Path
      <4> QED
        BY <2>1, <4>1
    <3>4. <<x>> # <<>>
      BY Appended, <1>1
    <3>5. tree[d \o <<x>>].id \in it.there
      BY <1>7, <1>8, <2>4, <3>1, <3>3, <3>4
    <3>6. Above(it, e, q)
      BY <1>2, <2>4, <2>6, <3>1, <3>2, <3>3, <3>4 DEF Above, d
    <3>7. e.kind # "other" /\ e.id \in it.there /\ e \in it.todo
      BY <1>2, <2>4, <3>2, <3>5
    <3> QED
      BY <3>6, <3>7 DEF Awaited
  <2> QED
    BY <2>5, <2>6
<1>9. DeepIsThere(it)
  BY <1>1, <1>2, <1>7 DEF DeepIsThere, d
<1> QED
  BY <1>2, <1>3, <1>4, <1>5, <1>6, <1>8, <1>9
     DEF IterationInv, ListedKinds, OpenInv, ThereIsFound, ThereIsSupported, AllAwaited

\* Three pieces of a path may be put together in either order.
LEMMA Regroup ==
  ASSUME NEW p \in Path, NEW r \in Path, NEW q \in Path
  PROVE  p \o (r \o q) = (p \o r) \o q
BY ConcatAssociative DEF Path

\* The entry that an iteration goes down into is where its path leads.
LEMMA GoesDown ==
  ASSUME TreeInv, NEW p \in Path, NEW s \in Path,
         Landing(p) \in Path, Landing(p) \o s \in DOMAIN tree,
         tree[Landing(p) \o s].kind = "directory"
  PROVE  Landing(p \o s) = Landing(p) \o s
<1> DEFINE r == Landing(p) \o s
<1>1. r \in Path /\ Found(r) /\ ~IsLink(r)
  BY Concat DEF IsLink, Found
<1>2. LinksOn(r) = {}
  BY <1>1, NoLinksTo DEF TreeInv
<1> QED
  BY <1>2, LandingBelow DEF TreeInv

\* An iteration that gives an entry, and goes down into it if it is deep.
LEMMA GivesInv ==
  ASSUME TreeInv, NEW it \in Iterators, IterationInv(it), it.state = "open",
         NEW e \in it.todo, NEW rest \in SUBSET (it.todo \ {e}), e.kind # "other",
         \A f \in it.todo \ (rest \cup {e}) : f.kind = "other" \/ f.id \notin it.there,
         NEW more,
         IF it.deep /\ e.kind = "directory"
         THEN Kind(e.path) = "directory" /\ more = Entries(Landing(e.path), e.path)
         ELSE more = {},
         NEW new, new = [it EXCEPT !.todo = rest \cup more, !.given = @ \cup {e.id}]
  PROVE  new \in Iterators /\ IterationInv(new)
<1>1. /\ it.path \in Path /\ it.deep \in BOOLEAN /\ it.todo \in SUBSET Listed
      /\ it.given \in SUBSET Ids /\ it.there \in SUBSET Ids
  BY DEF Iterators
<1>2. e.path \in Path /\ e.id \in Ids
  BY <1>1 DEF Listed
<1>3. Landing(e.path) \in Path /\ Landing(it.path) \in Path /\ Closed
  BY <1>1, <1>2, HopsOfPath DEF TreeInv
<1>4. /\ more \subseteq Listed
      /\ \A f \in more : f.id.call <= calls /\ \A q \in DOMAIN tree : tree[q].id = f.id => tree[q].kind = f.kind
  <2>1. CASE more = {}
    BY <2>1
  <2>2. CASE more = Entries(Landing(e.path), e.path)
    BY <1>2, <1>3, <2>2, EntriesListed
  <2> QED
    BY <2>1, <2>2
<1>5. /\ new \in Iterators /\ new.path = it.path /\ new.deep = it.deep /\ new.state = "open"
      /\ new.there = it.there /\ new.given = it.given \cup {e.id} /\ new.todo = rest \cup more
  <2>1. rest \cup more \in SUBSET Listed /\ it.given \cup {e.id} \in SUBSET Ids
    BY <1>1, <1>2, <1>4
  <2> QED
    BY <2>1 DEF Iterators
<1>6. ListedKinds(it) /\ OpenInv(it)
  BY DEF IterationInv
<1>7. ListedKinds(new)
  BY <1>4, <1>5, <1>6 DEF ListedKinds
<1>8. ThereIsFound(new) /\ ThereIsSupported(new) /\ DeepIsThere(new)
  BY <1>5, <1>6 DEF OpenInv, ThereIsFound, ThereIsSupported, DeepIsThere
<1>9. ASSUME NEW q \in DOMAIN tree, tree[q].id \in new.there \ new.given
      PROVE  Awaited(new, q)
  <2>1. tree[q].id \in it.there \ it.given /\ tree[q].id # e.id /\ tree[q].kind # "other"
    BY <1>5, <1>6, <1>9 DEF OpenInv, ThereIsSupported
  <2>2. Awaited(it, q)
    BY <1>6, <2>1 DEF OpenInv, AllAwaited
  <2>3. PICK f \in it.todo : /\ f.kind # "other" /\ f.id \in it.there
                             /\ f.id = tree[q].id \/ Above(it, f, q)
    BY <2>2 DEF Awaited
  <2>4. CASE f # e
    <3>1. f \in new.todo
      BY <1>5, <2>3, <2>4
    <3>2. ASSUME Above(it, f, q)
          PROVE  Above(new, f, q)
      <4>1. Landing(new.path) = Landing(it.path) /\ new.path = it.path /\ new.deep = it.deep
        BY <1>5
      <4>2. it.deep /\ f.kind = "directory"
        BY <3>2 DEF Above
      <4>3. PICK s, t \in Path :
              /\ s # <<>> /\ t # <<>> /\ f.path = it.path \o s
              /\ q = Landing(it.path) \o (s \o t)
              /\ Landing(it.path) \o s \in DOMAIN tree /\ tree[Landing(it.path) \o s].id = f.id
        BY <3>2 DEF Above
      <4> QED
        BY <4>1, <4>2, <4>3 DEF Above
    <3> QED
      BY <1>5, <2>3, <3>1, <3>2 DEF Awaited
  <2>5. CASE f = e
    <3> DEFINE d == Landing(it.path)
    <3>1. Above(it, e, q) /\ it.deep /\ e.kind = "directory"
      BY <2>1, <2>3, <2>5 DEF Above
    <3>2. PICK s, t \in Path :
            /\ s # <<>> /\ t # <<>> /\ e.path = it.path \o s /\ q = d \o (s \o t)
            /\ d \o s \in DOMAIN tree /\ tree[d \o s].id = e.id
      BY <3>1 DEF Above
    <3>3. tree[d \o s].kind = "directory"
      BY <1>6, <3>1, <3>2 DEF ListedKinds
    <3>4. Landing(e.path) = d \o s
      BY <1>1, <1>3, <3>2, <3>3, GoesDown
    <3>5. more = Entries(d \o s, e.path)
      BY <3>1, <3>4
    <3> HIDE DEF d
    <3>6. d \in Path /\ d \o s \in Path
      BY <1>3, Concat DEF d
    <3>7. \A a \in Path : d \o (s \o a) = (d \o s) \o a /\ it.path \o (s \o a) = e.path \o a
      <4> SUFFICES ASSUME NEW a \in Path
                   PROVE  d \o (s \o a) = (d \o s) \o a /\ it.path \o (s \o a) = e.path \o a
        OBVIOUS
      <4>1. d \in Path /\ s \in Path /\ a \in Path /\ it.path \in Path
        BY <1>1, <3>6
      <4>2. d \o (s \o a) = (d \o s) \o a
        BY <4>1, Regroup, Zenon
      <4>3. it.path \o (s \o a) = (it.path \o s) \o a
        BY <4>1, Regroup, Zenon
      <4> QED
        BY <3>2, <4>2, <4>3
    <3>8. OnTheWay(d \o s, e.path, t)
      <4>1. (d \o s) \o t \in DOMAIN tree
        BY <3>2, <3>7
      <4> QED
        BY <1>2, <1>3, <3>2, <3>6, <4>1, EntriesCover
    <3>9. PICK x \in Names, u \in Path, g \in Entries(d \o s, e.path) :
            /\ <<x>> \in Path /\ t = <<x>> \o u /\ (d \o s) \o <<x>> \in DOMAIN tree
            /\ g.path = e.path \o <<x>> /\ g.kind = tree[(d \o s) \o <<x>>].kind
            /\ g.id = tree[(d \o s) \o <<x>>].id
      BY <3>8 DEF OnTheWay
    <3> DEFINE v == s \o <<x>>
    <3>10. /\ v \in Path /\ v # <<>> /\ d \o v = (d \o s) \o <<x>> /\ g.path = it.path \o v
           /\ d \o v \in DOMAIN tree /\ g.kind = tree[d \o v].kind /\ g.id = tree[d \o v].id
      <4>1. v \in Path /\ Len(v) = Len(s) + Len(<<x>>) /\ Len(s) \in Nat /\ Len(<<x>>) \in Nat
        BY <3>9, Concat
      <4>2. v # <<>>
        <5>1. Len(<<x>>) # 0
          OBVIOUS
        <5>2. v = <<>> => Len(v) = 0
          BY EmptySeq
        <5> QED
          BY <4>1, <5>1, <5>2
      <4> QED
        BY <3>7, <3>9, <4>1, <4>2
    <3>11. q = d \o (v \o u)
      <4>1. s \in Seq(Names) /\ <<x>> \in Seq(Names) /\ u \in Seq(Names)
        BY <3>9 DEF Path
      <4>2. (s \o <<x>>) \o u = s \o (<<x>> \o u)
        BY <4>1, ConcatAssociative
      <4> QED
        BY <3>2, <3>9, <4>2
    <3> HIDE DEF v
    <3>12. g \in new.todo
      BY <1>5, <3>5, <3>9
    <3>13. CASE u = <<>>
      <4>1. v \o u = v
        BY <3>10, <3>13, Concat
      <4>2. q = d \o v
        BY <3>11, <4>1
      <4>3. g.id = tree[q].id /\ g.kind = tree[q].kind
        BY <3>10, <4>2
      <4> QED
        BY <1>5, <2>1, <3>12, <4>3 DEF Awaited
    <3>14. CASE u # <<>>
      <4>1. tree[d \o v].kind = "directory"
        <5>1. d \o (v \o u) \in DOMAIN tree
          BY <3>11
        <5>2. d \in Path /\ v \in Path /\ u \in Path /\ Closed
          BY <1>3, <3>6, <3>9, <3>10
        <5> QED
          BY <3>14, <5>1, <5>2, FoundBetween, Zenon
      <4>2. tree[d \o v].id \in it.there
        BY <1>6, <2>1, <3>1, <3>10, <3>11 DEF OpenInv, DeepIsThere, d
      <4>3. Above(new, g, q)
        BY <1>5, <3>1, <3>10, <3>11, <3>14, <4>1 DEF Above, d
      <4>4. g.kind # "other" /\ g.id \in new.there
        BY <1>5, <3>10, <4>1, <4>2
      <4> QED
        BY <3>12, <4>3, <4>4 DEF Awaited
    <3> QED
      BY <3>13, <3>14
  <2> QED
    BY <2>4, <2>5
<1> QED
  BY <1>5, <1>7, <1>8, <1>9 DEF IterationInv, OpenInv, AllAwaited

\* An iteration that ends has given all that is still there: nothing of it is listed.
LEMMA EndsInv ==
  ASSUME TreeInv, NEW it \in Iterators, IterationInv(it), it.state = "open",
         \A e \in it.todo : e.kind = "other" \/ e.id \notin it.there,
         NEW new, new = [it EXCEPT !.state = "ended", !.todo = {}]
  PROVE  new \in Iterators /\ IterationInv(new)
<1>1. /\ new \in Iterators /\ new.state = "ended" /\ new.todo = {} /\ new.there = it.there
      /\ new.given = it.given
  BY DEF Iterators
<1>2. ASSUME NEW id \in it.there, id \notin it.given
      PROVE  FALSE
  <2>1. PICK q \in DOMAIN tree : tree[q].id = id
    BY DEF IterationInv, OpenInv, ThereIsFound
  <2> QED
    BY <1>2, <2>1 DEF IterationInv, OpenInv, AllAwaited, Awaited
<1> QED
  BY <1>1, <1>2 DEF IterationInv, ListedKinds

\* An iteration that fails.
LEMMA FailedInv ==
  ASSUME TreeInv, NEW it \in Iterators, IterationInv(it), it.state = "open",
         NEW new, new = [it EXCEPT !.state = "failed"]
  PROVE  new \in Iterators /\ IterationInv(new)
<1>1. new \in Iterators /\ new.state = "failed" /\ new.todo = it.todo
  BY DEF Iterators
<1> QED
  BY <1>1 DEF IterationInv, ListedKinds

-----------------------------------------------------------------------------
\* The invariant.
IteratorsInv ==
  /\ iterators \in Seq(Iterators)
  /\ \A i \in DOMAIN iterators : \A it : it = iterators[i] => IterationInv(it)

FilesInv ==
  /\ TreeInv /\ HistoryOK /\ IteratorsInv
  /\ unbuilt \in BOOLEAN /\ undefined \in BOOLEAN
  /\ ObjectsLeadHome /\ OnlyStaleDirectoriesBreak

\* All iterations.
LEMMA IterationsKept ==
  ASSUME TreeInv, TreeInv', NEW gone, Alters(gone), Passes(gone), IteratorsInv, StillThere(gone)
  PROVE  IteratorsInv'
<1> DEFINE Then(it) == [it EXCEPT !.there = @ \ Lost(it, gone)]
<1>1. iterators' = [i \in DOMAIN iterators |-> Then(iterators[i])]
  BY DEF StillThere
<1>2. DOMAIN iterators = 1 .. Len(iterators) /\ Len(iterators) \in Nat
  BY LenProperties DEF IteratorsInv
<1>3. ASSUME NEW i \in DOMAIN iterators
      PROVE  Then(iterators[i]) \in Iterators /\ \A new : new = Then(iterators[i]) => IterationInv(new)'
  <2>1. iterators[i] \in Iterators
    BY <1>2, <1>3, ElementOfSeq DEF IteratorsInv
  <2>2. PICK it \in Iterators : it = iterators[i]
    BY <2>1
  <2>3. IterationInv(it)
    BY <1>3, <2>2 DEF IteratorsInv
  <2>4. PICK new : new = [it EXCEPT !.there = @ \ Lost(it, gone)]
    OBVIOUS
  <2>5. new \in Iterators /\ IterationInv(new)'
    BY <2>3, <2>4, IterationKept
  <2>6. new = Then(iterators[i])
    BY <2>2, <2>4
  <2> HIDE DEF Then
  <2>7. \A x : x = Then(iterators[i]) => x = new
    BY <2>6
  <2> QED
    BY <2>5, <2>6, <2>7
<1> HIDE DEF Then
<1>4. iterators' \in Seq(Iterators)
  <2>1. iterators' \in [1 .. Len(iterators) -> Iterators]
    BY <1>1, <1>2, <1>3
  <2> QED
    BY <1>2, <2>1, SeqDef
<1>5. ASSUME NEW i \in DOMAIN iterators', NEW it, it = iterators'[i]
      PROVE  IterationInv(it)'
  <2>1. i \in DOMAIN iterators /\ it = Then(iterators[i])
    BY <1>1, <1>5
  <2> QED
    BY <1>3, <2>1
<1> QED
  BY <1>4, <1>5 DEF IteratorsInv

\* Iterations go on as they are while nothing is taken away.
LEMMA NothingLost ==
  ASSUME TreeInv, TreeInv', Alters({}), Passes({}), NEW it \in Iterators, IterationInv(it)
  PROVE  IterationInv(it)'
<1>1. Lost(it, {}) = {}
  BY DEF Lost, IdsOf
<1>2. it.there \in SUBSET Ids /\ it.there \ {} = it.there
  BY DEF Iterators
<1>3. it = [it EXCEPT !.there = @ \ Lost(it, {})]
  <2>1. it = [it EXCEPT !.there = it.there]
    BY DEF Iterators
  <2> QED
    BY <1>1, <1>2, <2>1
<1> QED
  BY <1>3, IterationKept

LEMMA SameIterations ==
  ASSUME TreeInv, TreeInv', Alters({}), Passes({}), IteratorsInv, iterators' = iterators
  PROVE  IteratorsInv'
<1>1. ASSUME NEW i \in DOMAIN iterators', NEW it, it = iterators'[i]
      PROVE  IterationInv(it)'
  <2>1. it = iterators[i] /\ i \in DOMAIN iterators /\ IterationInv(it)
    BY <1>1 DEF IteratorsInv
  <2>2. DOMAIN iterators = 1 .. Len(iterators)
    BY LenProperties DEF IteratorsInv
  <2>3. it \in Iterators
    BY <2>1, <2>2, ElementOfSeq DEF IteratorsInv
  <2> QED
    BY <2>1, <2>3, NothingLost
<1> QED
  BY <1>1 DEF IteratorsInv

LEMMA OneMoreIteration ==
  ASSUME TreeInv, TreeInv', Alters({}), Passes({}), IteratorsInv,
         NEW new \in Iterators, IterationInv(new), iterators' = Append(iterators, new)
  PROVE  IteratorsInv'
<1>1. /\ iterators' \in Seq(Iterators) /\ Len(iterators') = Len(iterators) + 1
      /\ \A i \in 1 .. Len(iterators) : iterators'[i] = iterators[i]
      /\ iterators'[Len(iterators) + 1] = new
  BY AppendProperties DEF IteratorsInv
<1>2. /\ DOMAIN iterators = 1 .. Len(iterators) /\ Len(iterators) \in Nat
      /\ DOMAIN iterators' = 1 .. Len(iterators) + 1
  BY <1>1, LenProperties DEF IteratorsInv
<1>3. ASSUME NEW i \in DOMAIN iterators', NEW it, it = iterators'[i]
      PROVE  IterationInv(it)'
  <2>1. it \in Iterators /\ IterationInv(it)
    <3>1. CASE i \in 1 .. Len(iterators)
      <4>1. it = iterators[i]
        BY <1>1, <1>3, <3>1
      <4> QED
        BY <1>2, <3>1, <4>1, ElementOfSeq DEF IteratorsInv
    <3>2. CASE i = Len(iterators) + 1
      BY <1>1, <1>3, <3>2
    <3> QED
      BY <1>2, <1>3, <3>1, <3>2
  <2> QED
    BY <2>1, NothingLost
<1> QED
  BY <1>1, <1>3 DEF IteratorsInv

LEMMA OneIterationChanged ==
  ASSUME TreeInv, TreeInv', Alters({}), Passes({}), IteratorsInv,
         NEW i \in DOMAIN iterators, NEW new \in Iterators, IterationInv(new),
         iterators' = [iterators EXCEPT ![i] = new]
  PROVE  IteratorsInv'
<1>1. DOMAIN iterators = 1 .. Len(iterators) /\ Len(iterators) \in Nat
  BY LenProperties DEF IteratorsInv
<1>2. \A j \in DOMAIN iterators : iterators[j] \in Iterators
  BY <1>1, ElementOfSeq DEF IteratorsInv
<1>3. /\ DOMAIN iterators' = DOMAIN iterators /\ iterators'[i] = new
      /\ \A j \in DOMAIN iterators \ {i} : iterators'[j] = iterators[j]
  <2>1. iterators \in [DOMAIN iterators -> Iterators]
    <3>1. iterators \in Seq(Iterators)
      BY DEF IteratorsInv
    <3> QED
      BY <1>1, <3>1, LenProperties
  <2> QED
    BY <2>1
<1>4. iterators' \in Seq(Iterators)
  <2>1. iterators' \in [1 .. Len(iterators) -> Iterators]
    <3>1. iterators \in [1 .. Len(iterators) -> Iterators]
      BY LenProperties DEF IteratorsInv
    <3> QED
      BY <1>1, <3>1
  <2> QED
    BY <1>1, <2>1, SeqDef
<1>5. ASSUME NEW j \in DOMAIN iterators', NEW it, it = iterators'[j]
      PROVE  IterationInv(it)'
  <2>1. it \in Iterators /\ IterationInv(it)
    <3>1. CASE j = i
      BY <1>3, <1>5, <3>1
    <3>2. CASE j # i
      BY <1>2, <1>3, <1>5, <3>2 DEF IteratorsInv
    <3> QED
      BY <3>1, <3>2
  <2> QED
    BY <2>1, NothingLost
<1> QED
  BY <1>4, <1>5 DEF IteratorsInv
-----------------------------------------------------------------------------
\* The kinds of steps.
StaleStay ==
  /\ unbuilt' \/ undefined' => unbuilt \/ undefined
  /\ \A o \in DOMAIN objects :
       /\ o \in DOMAIN objects' /\ objects'[o].type = objects[o].type
       /\ origin[o].astray # {} => origin'[o].astray # {}

\* What has led a directory object astray stays.
LEMMA StaleKept ==
  ASSUME OnlyStaleDirectoriesBreak, StaleStay
  PROVE  OnlyStaleDirectoriesBreak'
<1> SUFFICES ASSUME unbuilt' \/ undefined'
             PROVE  \E o \in DOMAIN objects' : objects'[o].type = "directory" /\ origin'[o].astray # {}
  BY DEF OnlyStaleDirectoriesBreak, Is, IsAstray
<1>1. PICK o \in DOMAIN objects : objects[o].type = "directory" /\ origin[o].astray # {}
  BY DEF OnlyStaleDirectoriesBreak, StaleStay, Is, IsAstray
<1> QED
  BY <1>1 DEF StaleStay

\* Steps that make an object, leave the objects alone, and take entries away.
LEMMA StepMade ==
  ASSUME FilesInv, TreeInv', Alters({}), Passes({}),
         NEW type \in Types, NEW p \in Path, NEW id \in Ids,
         NEW astray \in SUBSET {"moved", "unseen", "relative"}, Made(type, p, id, astray),
         astray # {} \/ HomeOf(type, p, id)', IteratorsInv',
         unbuilt' = unbuilt, undefined' = undefined
  PROVE  FilesInv'
<1>1. HistoryOK' /\ ObjectsLeadHome'
  BY MadeLeadsHome DEF FilesInv
<1>2. /\ DOMAIN objects' = DOMAIN objects \cup {Len(objects) + 1}
      /\ \A o \in DOMAIN objects : objects'[o] = objects[o] /\ origin'[o] = origin[o]
  BY MadeIs DEF FilesInv
<1>3. StaleStay
  BY <1>2 DEF StaleStay
<1> QED
  BY <1>1, <1>3, StaleKept DEF FilesInv

LEMMA StepSame ==
  ASSUME FilesInv, TreeInv', Alters({}), Passes({}), objects' = objects, origin' = origin,
         IteratorsInv', unbuilt' = unbuilt, undefined' = undefined
  PROVE  FilesInv'
<1>1. HistoryOK' /\ ObjectsLeadHome'
  BY SameHomes DEF FilesInv
<1>2. StaleStay
  BY DEF StaleStay
<1> QED
  BY <1>1, <1>2, StaleKept DEF FilesInv

LEMMA StepGone ==
  ASSUME FilesInv, TreeInv', NEW gone, Alters(gone), Passes(gone), Disturb(gone), StillThere(gone),
         objects' = objects, unbuilt' = unbuilt, undefined' = undefined
  PROVE  FilesInv'
<1>1. TreeInv /\ HistoryOK /\ IteratorsInv /\ ObjectsLeadHome
  BY DEF FilesInv
<1>2. IteratorsInv'
  BY <1>1, IterationsKept
<1>3. /\ origin' \in Seq(Origins) /\ Len(origin') = Len(origin)
      /\ \A o \in DOMAIN origin : origin'[o].id = origin[o].id /\
           (origin'[o].astray = {} => origin[o].astray = {} /\ ~Disturbed(o, gone))
  BY <1>1, DisturbIs
<1>4. HistoryOK' /\ DOMAIN objects = DOMAIN origin
  BY <1>1, <1>3, LenProperties DEF HistoryOK
<1>5. ASSUME NEW o \in DOMAIN objects'
      PROVE  Stays(o, gone)
  BY <1>3, <1>4 DEF Stays, Disturbed, UsedBy, UsedFor
<1>6. ObjectsLeadHome'
  BY <1>1, <1>5, HomesKept
<1>7. StaleStay
  BY <1>3, <1>4 DEF StaleStay
<1> QED
  BY <1>2, <1>4, <1>6, <1>7, StaleKept DEF FilesInv

-----------------------------------------------------------------------------
\* Through a link, by its method open.
\* The hops from a path are those from its first hop, but for the last one.
LEMMA HopsShift ==
  Closed =>
    \A p \in Path : \A g, h : HopsFrom(g, p) /\ HopsFrom(h, Hop(p)) =>
      \A k \in 0 .. MaxHops - 1 : g[k + 1] = h[k]
<1> SUFFICES ASSUME Closed, NEW p \in Path, NEW g, NEW h, HopsFrom(g, p), HopsFrom(h, Hop(p)),
                    NEW j \in 0 .. MaxHops - 1
             PROVE  g[j + 1] = h[j]
  OBVIOUS
<1> DEFINE n == MaxHops - 1
           S == {k \in 0 .. n : g[k + 1] = h[k]}
<1>1. MaxHops \in Nat /\ n \in Nat
  BY FileObjectsAssumption
<1>2. 0 \in S
  <2>1. g[1] = Hop(g[1 - 1]) /\ g[0] = p /\ h[0] = Hop(p)
    BY <1>1 DEF HopsFrom
  <2> QED
    BY <1>1, <2>1
<1>3. ASSUME NEW k \in 1 .. n, k - 1 \in S
      PROVE  k \in S
  <2>1. k + 1 \in 1 .. MaxHops /\ (k + 1) - 1 = k /\ k \in 1 .. MaxHops /\ (k - 1) + 1 = k
    BY <1>1
  <2>2. g[k + 1] = Hop(g[k]) /\ h[k] = Hop(h[k - 1])
    <3>1. g[k + 1] = Hop(g[(k + 1) - 1])
      BY <2>1 DEF HopsFrom
    <3>2. h[k] = Hop(h[k - 1])
      BY <2>1 DEF HopsFrom
    <3> QED
      BY <2>1, <3>1, <3>2
  <2>3. g[k] = h[k - 1]
    BY <1>3, <2>1
  <2> QED
    BY <2>2, <2>3
<1>4. 0 .. n \subseteq S
  <2> HIDE DEF S, n
  <2> QED
    BY <1>1, <1>2, <1>3, Upward
<1> QED
  BY <1>4

\* An absolute target, and a relative one in the working directory, leads where the link does.
LEMMA ThroughLink ==
  Closed => \A q \in Path :
    IsLink(q) /\ Exists(q) /\ (tree[q].target.absolute \/ Len(q) <= 1) =>
      tree[q].target.steps \in Path /\ Landing(tree[q].target.steps) = Landing(q)
<1> SUFFICES ASSUME Closed, NEW q \in Path, IsLink(q), Exists(q),
                    tree[q].target.absolute \/ Len(q) <= 1
             PROVE  tree[q].target.steps \in Path /\ Landing(tree[q].target.steps) = Landing(q)
  OBVIOUS
<1>1. q \in DOMAIN tree /\ tree[q].kind = "symlink" /\ Found(q)
  BY DEF IsLink, Found
<1>2. q # <<>>
  BY <1>1, RootIsDirectory
<1>3. Len(q) \in Nat \ {0} /\ Len(q) \in 1 .. Len(q) /\ Len(q) \in 0 .. Len(q)
      /\ FirstSteps(q, Len(q)) = q /\ Front(q) \in Path /\ Len(Front(q)) = Len(q) - 1
  BY <1>2, FrontAndLast, AllSteps
<1>4. FirstLink(q, Len(q))
  <2>1. Len(q) \in LinksOn(q)
    BY <1>1, <1>3 DEF LinksOn
  <2>2. ASSUME NEW k \in LinksOn(q)
        PROVE  Len(q) <= k
    <3>1. k \in 1 .. Len(q) /\ tree[FirstSteps(q, k)].kind = "symlink"
      BY <2>2 DEF LinksOn
    <3>2. k < Len(q) => IsDirectory(FirstSteps(q, k))
      <4>1. k \in 0 .. Len(q) /\ Found(FirstSteps(q, Len(q)))
        BY <1>1, <1>3, <3>1
      <4> QED
        BY <1>3, <4>1, FoundAbove
    <3> QED
      BY <1>3, <3>1, <3>2 DEF IsDirectory
  <2> QED
    BY <2>1, <2>2 DEF FirstLink
<1> DEFINE p == tree[q].target.steps
<1>5. p \in Path
  BY <1>1 DEF Closed
<1>6. Target(q) = p
  <2>1. CASE tree[q].target.absolute
    BY <2>1 DEF Target
  <2>2. CASE ~tree[q].target.absolute
    <3>1. Len(Front(q)) = 0
      BY <1>3, <2>2
    <3>2. Front(q) = <<>>
      BY <1>3, <3>1, EmptySeq DEF Path
    <3>3. Target(q) = Front(q) \o p
      BY <2>2 DEF Target
    <3> HIDE DEF p
    <3> QED
      BY <1>5, <3>2, <3>3, Concat
  <2> QED
    BY <2>1, <2>2
<1> HIDE DEF p
<1>7. Hop(q) = p
  <2>1. Hop(q) = Target(q) \o Rest(q, Len(q))
    BY <1>3, <1>4, HopThrough
  <2>2. Rest(q, Len(q)) = <<>>
    <3>1. Rest(q, Len(q)) \in Path /\ Len(Rest(q, Len(q))) = 0
      <4>1. \A n \in 0 .. Len(q) : Rest(q, n) \in Path /\ Len(Rest(q, n)) = Len(q) - n
        BY FirstStepsOf
      <4>2. Rest(q, Len(q)) \in Path /\ Len(Rest(q, Len(q))) = Len(q) - Len(q)
        BY <1>3, <4>1
      <4> QED
        BY <1>3, <4>2
    <3> QED
      BY <3>1, EmptySeq DEF Path
  <2> QED
    BY <1>5, <1>6, <2>1, <2>2, Concat
<1>8. PICK g, h : g = Hops(q) /\ h = Hops(p) /\ HopsFrom(g, q) /\ HopsFrom(h, p)
  BY <1>5, HopsOfPath
<1>9. Landing(q) = g[MaxHops] /\ Found(Landing(q)) /\ ~IsLink(Landing(q)) /\ Landing(q) \in Path
  BY <1>8, HopsOfPath DEF Landing, Exists, IsLink
<1>10. MaxHops \in Nat \ {0}
  <2>1. MaxHops = 0 => Landing(q) = q
    BY <1>8, <1>9 DEF HopsFrom
  <2> QED
    BY <1>9, <2>1, FileObjectsAssumption
<1>11. MaxHops - 1 \in 0 .. MaxHops - 1 /\ MaxHops - 1 \in 0 .. MaxHops /\ (MaxHops - 1) + 1 = MaxHops
  BY <1>10
<1>12. HopsFrom(h, Hop(q))
  BY <1>7, <1>8
<1>13. g[(MaxHops - 1) + 1] = h[MaxHops - 1]
  BY <1>8, <1>11, <1>12, HopsShift
<1>14. h[MaxHops - 1] = Landing(q)
  BY <1>9, <1>11, <1>13
<1>15. LinksOn(h[MaxHops - 1]) = {}
  BY <1>9, <1>14, NoLinksTo
<1>16. h[MaxHops - 1] = Landing(p)
  BY <1>5, <1>8, <1>11, <1>15, LandingIs
<1> QED
  BY <1>5, <1>14, <1>16 DEF p

-----------------------------------------------------------------------------
\* The calls, one lemma for each.
\* The paths that scripts name.
LEMMA NamedPaths ==
  ASSUME FilesInv
  PROVE  /\ Given \subseteq Path /\ Closed
         /\ \A o \in DOMAIN objects : PathOf(o) \in Path /\ objects[o].type \in Types
<1>1. \A o \in DOMAIN objects : objects[o] \in Objects
  <2>1. DOMAIN objects = 1 .. Len(objects)
    BY LenProperties DEF FilesInv, HistoryOK
  <2> QED
    BY <2>1, ElementOfSeq DEF FilesInv, HistoryOK
<1> QED
  BY <1>1, PathsAre, FileObjectsAssumption DEF PathOf, Objects, FilesInv, TreeInv

LEMMA IdsAre ==
  ASSUME TreeInv
  PROVE  /\ \A q : IdAt(q) \in Ids
         /\ \A n \in 0 .. MaxCalls, q \in Paths : [call |-> n, path |-> q] \in Ids
<1>1. calls \in 0 .. MaxCalls /\ MaxCalls \in Nat /\ 0 .. calls \subseteq 0 .. MaxCalls
  BY FileObjectsAssumption DEF TreeInv
<1>2. Nowhere \in Ids
  <2>1. <<>> \in Paths
    BY DEF TreeInv, Closed
  <2> QED
    BY <1>1, <2>1 DEF Nowhere, Ids
<1>3. \A q \in DOMAIN tree : tree[q].id \in Ids
  BY <1>1 DEF TreeInv, EntriesOf, Ids
<1> QED
  BY <1>2, <1>3 DEF IdAt, Found, Ids

LEMMA CallCounts ==
  ASSUME TreeInv, Call
  PROVE  /\ calls < MaxCalls /\ calls' = calls + 1 /\ \A gone : Passes(gone)
         /\ calls \in Nat /\ calls' \in 0 .. MaxCalls /\ calls <= calls'
BY FileObjectsAssumption DEF TreeInv, Call, Passes

LEMMA SameTreeStep ==
  ASSUME FilesInv, Call, tree' = tree
  PROVE  /\ TreeInv' /\ Alters({}) /\ Passes({}) /\ \A p \in Path : Landing(p)' = Landing(p)
         /\ iterators' = iterators => IteratorsInv'
<1>1. TreeInv /\ IteratorsInv
  BY DEF FilesInv
<1>2. TreeInv' /\ Alters({}) /\ Passes({}) /\ \A p \in Path : Landing(p)' = Landing(p)
  BY <1>1, CallCounts, SameTree
<1> QED
  BY <1>1, <1>2, SameIterations

LEMMA FailsStep ==
  ASSUME FilesInv, Call, Fails
  PROVE  FilesInv'
BY SameTreeStep, StepSame DEF Fails

LEMMA MadeInSameTree ==
  ASSUME FilesInv, Call, SameEntries,
         NEW type \in Types, NEW p \in Path, NEW id \in Ids,
         NEW astray \in SUBSET {"moved", "unseen", "relative"}, Made(type, p, id, astray),
         astray # {} \/ HomeOf(type, p, id)
  PROVE  FilesInv'
<1>1. /\ tree' = tree /\ iterators' = iterators /\ unbuilt' = unbuilt /\ undefined' = undefined
  BY DEF SameEntries
<1>2. TreeInv /\ TreeInv' /\ Alters({}) /\ Passes({}) /\ IteratorsInv'
  BY <1>1, SameTreeStep DEF FilesInv
<1>3. HomeOf(type, p, id) => HomeOf(type, p, id)'
  <2>1. UsedFor(type, p) \cap {} = {}
    OBVIOUS
  <2> QED
    BY <1>2, <2>1, HomeKept
<1> QED
  BY <1>1, <1>2, <1>3, StepMade

\* An object that is made with its entry.
LEMMA PutStep ==
  ASSUME FilesInv, Call, NEW q \in Path, Free(q), NEW kind \in Types, NEW target \in Targets,
         Put(q, Entry(kind, q, target))
  PROVE  /\ TreeInv' /\ Alters({}) /\ Passes({}) /\ Entry(kind, q, target).id \in Ids
         /\ q \in DOMAIN tree' /\ tree'[q].id = Entry(kind, q, target).id /\ tree'[q].kind = kind
         /\ kind # "symlink" =>
              \A p \in Path : Landing(p)' = Landing(p) /\ Place(p)' = Place(p)
         /\ Closed /\ Closed' /\ Kept({})
         /\ iterators' = iterators => IteratorsInv'
<1>1. TreeInv /\ IteratorsInv /\ kind \in Kinds /\ Closed
  BY DEF FilesInv, TreeInv, Types, Kinds
<1>2. calls' = calls + 1 /\ calls < MaxCalls /\ Passes({}) /\ calls + 1 \in 0 .. MaxCalls
  BY <1>1, CallCounts
<1>3. /\ TreeInv' /\ Alters({}) /\ q \notin DOMAIN tree /\ DOMAIN tree' = DOMAIN tree \cup {q}
      /\ tree'[q] = Entry(kind, q, target)
  BY <1>1, <1>2, PutTree
<1>4. Entry(kind, q, target).id = [call |-> calls + 1, path |-> q] /\ Entry(kind, q, target).kind = kind
  BY DEF Entry
<1>5. q \in Paths
  BY PathsAre DEF Free
<1>6. Entry(kind, q, target).id \in Ids
  BY <1>1, <1>2, <1>4, <1>5, IdsAre
<1>7. Closed' /\ Kept({})
  BY <1>3 DEF TreeInv, Alters
<1>8. kind # "symlink" => \A p \in Path : Landing(p)' = Landing(p) /\ Place(p)' = Place(p)
  <2>1. \A r \in DOMAIN tree' \ DOMAIN tree : r = q
    BY <1>3
  <2>2. kind # "symlink" => \A r \in DOMAIN tree' \ DOMAIN tree : tree'[r].kind # "symlink"
    BY <1>3, <1>4, <2>1
  <2> QED
    BY <1>1, <1>7, <2>2, NoNewLinks
<1>9. iterators' = iterators => IteratorsInv'
  BY <1>1, <1>2, <1>3, SameIterations
<1> QED
  BY <1>1, <1>2, <1>3, <1>4, <1>6, <1>7, <1>8, <1>9

LEMMA CreateNewFileStep ==
  ASSUME FilesInv, Call, NEW p \in Path, create_new_file(p)
  PROVE  FilesInv'
<1>1. CASE Exists(p) \/ ~Free(Landing(p))
  BY <1>1, FailsStep DEF create_new_file
<1>2. CASE ~(Exists(p) \/ ~Free(Landing(p)))
  <2>1. PICK q : q = Landing(p)
    OBVIOUS
  <2>2. q \in Path /\ Free(q) /\ NoTarget \in Targets
    BY <1>2, <2>1, HopsOfPath, NamedPaths, NoTargetIsTarget
  <2>3. PICK id : id = Entry("file", q, NoTarget).id
    OBVIOUS
  <2>4. /\ Put(q, Entry("file", q, NoTarget)) /\ Made("file", p, id, {})
        /\ iterators' = iterators /\ unbuilt' = unbuilt /\ undefined' = undefined
    BY <1>2, <2>1, <2>3 DEF create_new_file
  <2>5. "file" \in Types
    BY DEF Types
  <2>6. /\ TreeInv' /\ Alters({}) /\ Passes({}) /\ id \in Ids
        /\ q \in DOMAIN tree' /\ tree'[q].id = id /\ tree'[q].kind = "file"
        /\ \A r \in Path : Landing(r)' = Landing(r)
        /\ IteratorsInv'
    BY <2>2, <2>3, <2>4, <2>5, PutStep
  <2>7. HomeOf("file", p, id)'
    <3>1. Landing(p)' = q
      BY <2>1, <2>6
    <3> QED
      BY <2>6, <3>1 DEF HomeOf, EntryOf, IsAt, Found
  <2> QED
    BY <2>4, <2>5, <2>6, <2>7, StepMade
<1> QED
  BY <1>1, <1>2

LEMMA CreateDirectoryStep ==
  ASSUME FilesInv, Call, NEW p \in Path, create_directory(p)
  PROVE  FilesInv'
<1>1. CASE ~Free(Place(p))
  BY <1>1, FailsStep DEF create_directory
<1>2. CASE Free(Place(p))
  <2>1. PICK q : q = Place(p)
    OBVIOUS
  <2>2. q \in Path /\ Free(q) /\ NoTarget \in Targets /\ Closed
    BY <1>2, <2>1, PlaceOfPath, NamedPaths, NoTargetIsTarget
  <2>3. PICK id : id = Entry("directory", q, NoTarget).id
    OBVIOUS
  <2>4. /\ Put(q, Entry("directory", q, NoTarget)) /\ Made("directory", p, id, {})
        /\ iterators' = iterators /\ unbuilt' = unbuilt /\ undefined' = undefined
    BY <1>2, <2>1, <2>3 DEF create_directory
  <2>5. "directory" \in Types
    BY DEF Types
  <2>6. /\ TreeInv' /\ Alters({}) /\ Passes({}) /\ id \in Ids
        /\ q \in DOMAIN tree' /\ tree'[q].id = id /\ tree'[q].kind = "directory"
        /\ \A r \in Path : Landing(r)' = Landing(r)
        /\ IteratorsInv'
    BY <2>2, <2>3, <2>4, <2>5, PutStep
  <2>7. LinksOn(q) = {}
    BY <2>2, InDirectory DEF Free, IsLink
  <2>8. Landing(p) = q
    BY <2>1, <2>2, <2>7, PlaceOfPath
  <2>9. HomeOf("directory", p, id)'
    <3>1. Landing(p)' = q
      BY <2>6, <2>8
    <3> QED
      BY <2>6, <3>1 DEF HomeOf, EntryOf, IsAt, Found
  <2> QED
    BY <2>4, <2>5, <2>6, <2>9, StepMade
<1> QED
  BY <1>1, <1>2

LEMMA MakeSymlinkStep ==
  ASSUME FilesInv, NEW p \in Path, NEW target \in Targets, make_symlink(target, p)
  PROVE  FilesInv'
<1>1. CASE ~Free(Place(p))
  BY <1>1, FailsStep DEF make_symlink
<1>2. CASE Free(Place(p))
  <2>1. PICK q : q = Place(p)
    OBVIOUS
  <2>2. q \in Path /\ Free(q) /\ Closed /\ Call
    BY <1>2, <2>1, PlaceOfPath, NamedPaths DEF make_symlink
  <2>3. PICK id : id = Entry("symlink", q, target).id
    OBVIOUS
  <2>4. /\ Put(q, Entry("symlink", q, target)) /\ Made("symlink", p, id, {})
        /\ iterators' = iterators /\ unbuilt' = unbuilt /\ undefined' = undefined
    BY <1>2, <2>1, <2>3 DEF make_symlink
  <2>5. "symlink" \in Types
    BY DEF Types
  <2>6. /\ TreeInv' /\ Alters({}) /\ Passes({}) /\ id \in Ids
        /\ q \in DOMAIN tree' /\ tree'[q].id = id /\ tree'[q].kind = "symlink"
        /\ Closed' /\ Kept({}) /\ IteratorsInv'
    BY <2>2, <2>3, <2>4, <2>5, PutStep
  <2>7. p # <<>>
    BY <2>1, <2>2 DEF Free, Place
  <2>8. PICK f : f = Front(p)
    OBVIOUS
  <2>9. f \in Path /\ Found(Landing(f)) /\ Uses(f) \cap {} = {} /\ {} \subseteq DOMAIN tree
    BY <2>1, <2>2, <2>7, <2>8, FrontAndLast, PlaceOfPath DEF Free, IsDirectory
  <2>10. Landing(f)' = Landing(f)
    BY <2>2, <2>6, <2>9, LandingKept
  <2>11. HomeOf("symlink", p, id)'
    <3>1. Place(p)' = q
      BY <2>1, <2>7, <2>8, <2>10 DEF Place
    <3> QED
      BY <2>6, <3>1 DEF HomeOf, EntryOf, IsAt, Found
  <2> QED
    BY <2>4, <2>5, <2>6, <2>11, StepMade
<1> QED
  BY <1>1, <1>2

LEMMA OpenUnseenStep ==
  ASSUME FilesInv, NEW p \in Path, NEW type \in {"file", "directory"}, open_unseen(type, p)
  PROVE  FilesInv'
<1>1. type \in Types
  BY DEF Types
<1>2. PICK id \in Ids : id = Leads(type, p)
  BY IdsAre DEF Leads, FilesInv
<1>3. Call /\ SameEntries /\ Made(type, p, id, {"unseen"})
  BY <1>2 DEF open_unseen
<1> QED
  BY <1>1, <1>3, MadeInSameTree

LEMMA Unlinks ==
  ASSUME FilesInv, Call, NEW gone, gone \subseteq DOMAIN tree, <<>> \notin gone,
         \A q \in gone : Under(q) \subseteq gone, Unlink(gone)
  PROVE  FilesInv'
<1>1. TreeInv' /\ Alters(gone) /\ Passes(gone)
  BY CallCounts, DropTree DEF FilesInv, Unlink
<1> QED
  BY <1>1, StepGone DEF Unlink

LEMMA RemoveStep ==
  ASSUME FilesInv, NEW p \in Path, remove(p)
  PROVE  FilesInv'
<1>1. CASE p # <<>> /\ Under(Place(p)) = {Place(p)}
  <2>1. Place(p) # <<>> /\ Closed
    BY <1>1, NamedPaths, PlaceOfPath
  <2>2. PICK gone : gone = {Place(p)}
    OBVIOUS
  <2>3. gone \subseteq DOMAIN tree /\ <<>> \notin gone /\ \A q \in gone : Under(q) \subseteq gone
    BY <1>1, <2>1, <2>2 DEF Under
  <2>4. Call /\ Unlink(gone)
    BY <1>1, <2>2 DEF remove
  <2> QED
    BY <2>3, <2>4, Unlinks
<1>2. CASE ~(p # <<>> /\ Under(Place(p)) = {Place(p)})
  BY <1>2, FailsStep DEF remove
<1> QED
  BY <1>1, <1>2

LEMMA RemoveAllStep ==
  ASSUME FilesInv, NEW p \in Path, remove_all(p)
  PROVE  FilesInv'
<1>1. CASE p # <<>> /\ Found(Place(p))
  <2>1. Place(p) # <<>> /\ Closed /\ Place(p) \in Path
    BY <1>1, NamedPaths, PlaceOfPath
  <2>2. PICK gone \in PartsOf(p) : Unlink(gone)
    BY <1>1 DEF remove_all
  <2>3. gone \subseteq Under(Place(p)) /\ \A q \in gone : Under(q) \subseteq gone
    BY DEF PartsOf
  <2>4. gone \subseteq DOMAIN tree
    BY <2>3 DEF Under
  <2>5. <<>> \notin gone
    <3> SUFFICES ASSUME <<>> \in Under(Place(p))
                 PROVE  FALSE
      BY <2>3
    <3> DEFINE q == Place(p)
    <3>0. q \in Path /\ q # <<>> /\ <<>> \in Under(q)
      BY <2>1
    <3> HIDE DEF q
    <3>1. PICK s \in Path : <<>> = q \o s
      BY <2>1, <3>0, UnderIs
    <3>2. Len(q \o s) = Len(q) + Len(s) /\ Len(q) \in Nat \ {0} /\ Len(s) \in Nat
      BY <3>0, Concat, EmptySeq DEF Path
    <3>3. Len(q \o s) = 0
      <4>1. Len(<<>>) = 0
        OBVIOUS
      <4> QED
        BY <3>1, <4>1
    <3> QED
      BY <3>2, <3>3
  <2>6. Call
    BY DEF remove_all
  <2> QED
    BY <2>2, <2>3, <2>4, <2>5, <2>6, Unlinks
<1>2. CASE ~(p # <<>> /\ Found(Place(p)))
  BY <1>2, FailsStep DEF remove_all
<1> QED
  BY <1>1, <1>2

\* What a copy leaves to the objects and the iterations.
LEMMA PutsAll ==
  ASSUME FilesInv, Call, NEW pairs, GoodPairs(pairs), HaveDirectories(pairs), PutAll(pairs)
  PROVE  /\ TreeInv' /\ Alters({}) /\ Passes({})
         /\ iterators' = iterators => IteratorsInv'
         /\ \A p \in Path : Landing(p)' = Landing(p)
         /\ \A pair \in pairs : pair[2] \in DOMAIN tree'
         /\ \A pair \in pairs : ~Found(pair[2]) =>
              tree'[pair[2]] = Entry(tree[pair[1]].kind, pair[2], NoTarget)
         /\ \A q \in DOMAIN tree : q \in DOMAIN tree' /\ tree'[q] = tree[q]
<1>1. TreeInv /\ IteratorsInv /\ calls' = calls + 1 /\ calls < MaxCalls /\ Passes({})
  BY CallCounts DEF FilesInv
<1>2. /\ TreeInv' /\ Alters({})
      /\ \A q \in DOMAIN tree' \ DOMAIN tree : tree'[q].kind # "symlink"
      /\ \A pair \in pairs : pair[2] \in DOMAIN tree'
      /\ \A pair \in pairs : ~Found(pair[2]) =>
           tree'[pair[2]] = Entry(tree[pair[1]].kind, pair[2], NoTarget)
  BY <1>1, PutAllTree
<1>3. Closed /\ Closed' /\ Kept({})
  BY <1>1, <1>2 DEF TreeInv, Alters
<1>4. \A p \in Path : Landing(p)' = Landing(p)
  BY <1>2, <1>3, NoNewLinks
<1>5. \A q \in DOMAIN tree : q \in DOMAIN tree' /\ tree'[q] = tree[q]
  BY <1>3 DEF Kept
<1> QED
  BY <1>1, <1>2, <1>4, <1>5, SameIterations

\* Both outcomes of a copy, and its object.
LEMMA CopyStep ==
  ASSUME FilesInv, NEW from \in Path, NEW to \in Path, NEW options, copy(from, to, options)
  PROVE  FilesInv'
<1> DEFINE pairs == PairsOf(from, to, options)
           kept == options \cap {"skip existing", "overwrite existing"} # {}
<1>1. CASE \/ ~Copyable(from, to) \/ \E pair \in pairs : Differ(pair) \/ TooDeep(pair)
           \/ pairs = {} /\ ~Exists(to)
  BY <1>1, FailsStep DEF copy
<1>2. CASE ~(\/ ~Copyable(from, to) \/ \E pair \in pairs : Differ(pair) \/ TooDeep(pair)
             \/ pairs = {} /\ ~Exists(to))
  <2>1. /\ Copyable(from, to) /\ ~(pairs = {} /\ ~Exists(to)) /\ Call
        /\ \A pair \in pairs : ~(Differ(pair) \/ TooDeep(pair))
    BY <1>2 DEF copy
  <2>2. /\ GoodPairs(pairs)
        /\ pairs # {} /\ ~Found(Landing(to)) =>
             \E pair \in pairs : pair[1] = Landing(from) /\ pair[2] = Landing(to)
    BY <2>1, PairsAreGood DEF FilesInv
  <2>3. CASE (\E pair \in pairs : Clash(pair) /\ ~kept) \/ ~HaveDirectories(pairs)
    <3>1. PutSome(pairs) /\ UNCHANGED <<objects, iterators, unbuilt, undefined, origin>>
      BY <1>2, <2>3 DEF copy
    <3>2. PICK part \in SUBSET pairs : HaveDirectories(part) /\ PutAll(part)
      BY <3>1 DEF PutSome
    <3>3. GoodPairs(part)
      BY <2>2, SomePairs
    <3>4. TreeInv' /\ Alters({}) /\ Passes({}) /\ (iterators' = iterators => IteratorsInv')
      BY <2>1, <3>2, <3>3, PutsAll
    <3> QED
      BY <3>1, <3>4, StepSame
  <2>4. CASE ~((\E pair \in pairs : Clash(pair) /\ ~kept) \/ ~HaveDirectories(pairs))
    <3> DEFINE type == IF Kind(to) = "directory" THEN "directory" ELSE Kind(from)
               there == Landing(to)
               id == IF Found(there) THEN IdAt(there) ELSE Entry(type, there, NoTarget).id
    <3>1. /\ PutAll(pairs) /\ Made(type, to, id, {}) /\ iterators' = iterators
          /\ unbuilt' = unbuilt /\ undefined' = undefined /\ HaveDirectories(pairs)
      BY <1>2, <2>4 DEF copy
    <3>2. /\ TreeInv' /\ Alters({}) /\ Passes({}) /\ IteratorsInv'
          /\ \A p \in Path : Landing(p)' = Landing(p)
          /\ \A pair \in pairs : pair[2] \in DOMAIN tree'
          /\ \A pair \in pairs : ~Found(pair[2]) =>
               tree'[pair[2]] = Entry(tree[pair[1]].kind, pair[2], NoTarget)
          /\ \A q \in DOMAIN tree : q \in DOMAIN tree' /\ tree'[q] = tree[q]
      BY <2>1, <2>2, <3>1, PutsAll
    <3>3. /\ Kind(from) \in {"file", "directory"} /\ tree[Landing(from)].kind = Kind(from)
          /\ Kind(to) \in {"file", "directory"} \/ ~Found(there)
          /\ Kind(from) = "directory" => Kind(to) # "file"
      BY <2>1 DEF Copyable, Kind
    <3>4. /\ Kind(to) \in {"file", "directory"} => Found(there) /\ tree[there].kind = Kind(to)
          /\ Exists(to) => Found(there)
      BY DEF Kind, Exists
    <3>5. type \in Types /\ type # "symlink"
      BY <3>3 DEF Types
    <3> HIDE DEF pairs, kept
    <3>6. CASE Found(there)
      <4>1. tree[there].kind = type
        BY <3>3, <3>4, <3>6
      <4>2. there \in DOMAIN tree' /\ tree'[there].id = id /\ tree'[there].kind = type
        BY <3>2, <3>6, <4>1 DEF Found, IdAt
      <4>3. id \in Ids
        BY <3>6, IdsAre DEF FilesInv
      <4> QED
        <5>1. PICK k, u, q : k = id /\ u = type /\ q = there
          OBVIOUS
        <5>2. Landing(to)' = q
          BY <3>2, <5>1
        <5> HIDE DEF id, type, there
        <5>3. HomeOf(u, to, k)'
          BY <3>5, <4>2, <5>1, <5>2 DEF HomeOf, EntryOf, IsAt, Found
        <5> QED
          BY <3>1, <3>2, <3>5, <4>3, <5>1, <5>3, StepMade
    <3>7. CASE ~Found(there)
      <4>1. PICK pair \in pairs : pair[1] = Landing(from) /\ pair[2] = there
        BY <2>1, <2>2, <3>4, <3>7
      <4>2. type = Kind(from)
        BY <3>4, <3>7
      <4>3. there \in DOMAIN tree' /\ tree'[there] = Entry(type, there, NoTarget)
        BY <3>2, <3>3, <3>7, <4>1, <4>2
      <4>4. tree'[there].id = id /\ tree'[there].kind = type
        BY <3>7, <4>3 DEF Entry
      <4>5. id \in Ids
        <5>1. tree'[there] \in EntriesOf(calls') /\ calls' \in 0 .. MaxCalls
          BY <3>2, <4>3 DEF TreeInv
        <5>2. tree'[there].id \in [call : 0 .. calls', path : Paths]
          BY <5>1 DEF EntriesOf
        <5>3. 0 .. calls' \subseteq 0 .. MaxCalls
          BY <5>1, FileObjectsAssumption
        <5> QED
          BY <4>4, <5>2, <5>3 DEF Ids
      <4> QED
        <5>1. PICK k, u, q : k = id /\ u = type /\ q = there
          OBVIOUS
        <5>2. Landing(to)' = q
          BY <3>2, <5>1
        <5> HIDE DEF id, type, there
        <5>3. HomeOf(u, to, k)'
          BY <3>5, <4>3, <4>4, <5>1, <5>2 DEF HomeOf, EntryOf, IsAt, Found
        <5> QED
          BY <3>1, <3>2, <3>5, <4>5, <5>1, <5>3, StepMade
    <3> QED
      BY <3>6, <3>7
  <2> QED
    BY <2>3, <2>4
<1> QED
  BY <1>1, <1>2

LEMMA WeaklyCanonical ==
  ASSUME FilesInv, NEW o \in DOMAIN objects, NEW name \in Names
  PROVE  weakly_canonical(Append(PathOf(o), name)) \in Path
<1> DEFINE p == Append(PathOf(o), name)
<1>1. p \in Path /\ Closed
  BY NamedPaths, Appended
<1> HIDE DEF p
<1>2. Landing(p) \in Path /\ Place(p) \in Path
  BY <1>1, HopsOfPath, PlaceOfPath
<1> QED
  BY <1>2 DEF weakly_canonical, p

LEMMA DirectoryMakeFileStep ==
  ASSUME FilesInv, NEW o \in DOMAIN objects, NEW name \in Names, directory_make_file(o, name)
  PROVE  FilesInv'
<1>1. PICK p \in Path : p = weakly_canonical(Append(PathOf(o), name))
  BY WeaklyCanonical
<1> QED
  BY <1>1, CreateNewFileStep DEF directory_make_file

LEMMA DirectoryMakeDirectoryStep ==
  ASSUME FilesInv, NEW o \in DOMAIN objects, NEW name \in Names, directory_make_directory(o, name)
  PROVE  FilesInv'
<1>1. PICK p \in Path : p = weakly_canonical(Append(PathOf(o), name))
  BY WeaklyCanonical
<1> QED
  BY <1>1, CreateDirectoryStep DEF directory_make_directory

LEMMA DirectoryOpenStep ==
  ASSUME FilesInv, NEW o \in DOMAIN objects, NEW name \in Names,
         NEW type \in {"file", "directory"}, directory_open(o, name, type)
  PROVE  FilesInv'
<1>1. PICK p \in Path : p = weakly_canonical(Append(PathOf(o), name))
  BY WeaklyCanonical
<1>2. CASE Kind(p) # type
  BY <1>1, <1>2, FailsStep DEF directory_open
<1>3. CASE Kind(p) = type
  <2>1. PICK id \in Ids : id = Leads(type, p)
    BY IdsAre DEF Leads, FilesInv
  <2>2. Call /\ SameEntries /\ Made(type, p, id, {}) /\ type \in Types
    BY <1>1, <1>3, <2>1 DEF directory_open, Types
  <2>3. HomeOf(type, p, id)
    BY <1>3, <2>1 DEF HomeOf, EntryOf, Leads, IdAt, IsAt, Kind, Exists
  <2> QED
    BY <2>2, <2>3, MadeInSameTree
<1> QED
  BY <1>2, <1>3

LEMMA IndexParentStep ==
  ASSUME FilesInv, NEW o \in DOMAIN objects, index_parent(o)
  PROVE  FilesInv'
<1>1. PICK p \in Path : p = PathOf(o)
  BY NamedPaths
<1>2. p # <<>> /\ Call /\ SameEntries /\ Closed
  BY <1>1, NamedPaths DEF index_parent
<1>3. PICK f \in Path : f = Front(p)
  BY <1>2, FrontAndLast
<1>4. PICK id \in Ids : id = Leads("directory", f)
  BY IdsAre DEF Leads, FilesInv
<1>5. PICK astray : astray = (IF IsAstray(o) THEN {"unseen"} ELSE {})
  OBVIOUS
<1>6. /\ Made("directory", f, id, astray) /\ "directory" \in Types
      /\ astray \in SUBSET {"moved", "unseen", "relative"}
  BY <1>1, <1>3, <1>4, <1>5 DEF index_parent, Types
<1>7. ASSUME astray = {}
      PROVE  HomeOf("directory", f, id)
  <2>1. Found(EntryOf(objects[o].type, p))
    BY <1>1, <1>5, <1>7 DEF FilesInv, ObjectsLeadHome, IsAt
  <2>2. IsDirectory(Landing(f))
    BY <1>2, <1>3, <2>1, ParentIsDirectory DEF EntryOf
  <2> QED
    BY <1>4, <2>2 DEF HomeOf, EntryOf, Leads, IdAt, IsAt, IsDirectory
<1> QED
  BY <1>2, <1>6, <1>7, MadeInSameTree

LEMMA SymlinkOpenStep ==
  ASSUME FilesInv, NEW o \in DOMAIN objects, symlink_open(o)
  PROVE  FilesInv'
<1>1. PICK link \in Path : link = Place(PathOf(o))
  BY NamedPaths, PlaceOfPath
<1>2. Call /\ Closed
  BY NamedPaths DEF symlink_open
<1>3. CASE ~Found(link) \/ tree[link].kind # "symlink"
  BY <1>1, <1>2, <1>3, FailsStep DEF symlink_open
<1>4. CASE ~(~Found(link) \/ tree[link].kind # "symlink")
  <2>1. PICK p : p = tree[link].target.steps
    OBVIOUS
  <2>2. p \in Path
    BY <1>2, <1>4, <2>1 DEF Closed, Found
  <2>3. PICK astray : astray =
          (IF ~tree[link].target.absolute /\ Len(link) > 1 THEN {"relative"}
           ELSE IF ~Exists(link) THEN {"unseen"} ELSE {})
    OBVIOUS
  <2>4. CASE Kind(p) \notin {"file", "directory"}
    BY <1>1, <1>2, <1>4, <2>1, <2>4, FailsStep DEF symlink_open
  <2>5. CASE Kind(p) \in {"file", "directory"}
    <3>1. PICK id \in Ids : id = IdAt(Landing(link))
      BY IdsAre DEF FilesInv
    <3>2. PICK type \in Types : type = Kind(p) /\ type # "symlink"
      BY <2>5 DEF Types
    <3>3. Made(type, p, id, astray) /\ SameEntries
      BY <1>1, <1>4, <2>1, <2>3, <2>5, <3>1, <3>2 DEF symlink_open
    <3>4. astray \in SUBSET {"moved", "unseen", "relative"}
      BY <2>3
    <3>5. ASSUME astray = {}
          PROVE  HomeOf(type, p, id)
      <4>1. Exists(link) /\ (tree[link].target.absolute \/ Len(link) <= 1) /\ IsLink(link)
        <5>1. Len(link) \in Nat
          BY LenProperties DEF Path
        <5> QED
          BY <1>4, <2>3, <3>5, <5>1 DEF IsLink
      <4>2. Landing(p) = Landing(link)
        BY <1>2, <2>1, <4>1, ThroughLink
      <4> QED
        BY <2>5, <3>1, <3>2, <4>2 DEF HomeOf, EntryOf, IdAt, IsAt, Kind, Exists
    <3> QED
      BY <1>2, <2>2, <3>3, <3>4, <3>5, MadeInSameTree
  <2> QED
    BY <2>4, <2>5
<1> QED
  BY <1>3, <1>4

LEMMA SetNameStep ==
  ASSUME FilesInv, NEW o \in DOMAIN objects, NEW name \in Names, set_name(o, name)
  PROVE  FilesInv'
<1>1. PICK p \in Path : p = PathOf(o)
  BY NamedPaths
<1>2. p # <<>> /\ Call /\ Closed
  BY <1>1, NamedPaths DEF set_name
<1>3. PICK from \in Path : from = Place(p)
  BY <1>2, PlaceOfPath
<1>4. Append(Front(p), name) \in Path
  BY <1>2, FrontAndLast, Appended
<1>5. PICK to \in Path : to = Place(Append(Front(p), name))
  BY <1>2, <1>4, PlaceOfPath
<1>6. CASE ~Movable(from, to)
  BY <1>1, <1>2, <1>3, <1>5, <1>6, FailsStep DEF set_name
<1>7. CASE Movable(from, to)
  <2>1. PICK gone : gone = Replaced(from, to)
    OBVIOUS
  <2>2. /\ Move(from, to) /\ StillThere(gone) /\ Disturb(gone)
        /\ objects' = objects /\ unbuilt' = unbuilt /\ undefined' = undefined
    BY <1>1, <1>3, <1>5, <1>7, <2>1 DEF set_name
  <2>3. TreeInv' /\ Alters(gone) /\ Passes(gone)
    BY <1>2, <1>7, <2>1, <2>2, CallCounts, MoveTree DEF FilesInv
  <2> QED
    BY <2>2, <2>3, StepGone
<1> QED
  BY <1>6, <1>7

LEMMA NoLinksToNext ==
  (Closed => \A q \in Path : Found(q) /\ ~IsLink(q) => LinksOn(q) = {})'
BY NoLinksTo, PTL

LEMMA LandsAtPlace ==
  Closed => \A p \in Path : \A r : r = Place(p) /\ LinksOn(r) = {} => Landing(p) = r
BY PlaceOfPath

LEMMA PlaceOfPathNext ==
  (Closed => \A p \in Path : \A r : r = Place(p) /\ LinksOn(r) = {} => Landing(p) = r)'
BY LandsAtPlace, PTL

\* The object whose entry is moved, and the others.
LEMMA MovedWithObject ==
  ASSUME FilesInv, Call, NEW o \in DOMAIN objects, NEW parent \in Path,
         PathOf(o) # <<>>, newindex_parent(o, parent)
  PROVE  FilesInv'
<1>1. PICK p \in Path : p = PathOf(o)
  BY NamedPaths
<1>2. p # <<>> /\ Closed /\ Last(p) \in Names
  BY <1>1, NamedPaths, FrontAndLast
<1>3. PICK newpath \in Path : newpath = Append(parent, Last(p))
  BY <1>2, Appended
<1>4. PICK from \in Path : from = Place(p)
  BY <1>2, PlaceOfPath
<1>5. PICK to \in Path : to = Place(newpath)
  BY <1>2, PlaceOfPath
<1>6. CASE ~Movable(from, to)
  BY <1>1, <1>3, <1>4, <1>5, <1>6, FailsStep DEF newindex_parent
<1>7. CASE Movable(from, to)
  <2>1. PICK gone : gone = Replaced(from, to)
    OBVIOUS
  <2> DEFINE kept == EntryOf(objects[o].type, p) = from /\ Uses(parent) \cap gone = {}
             Stayed(x) == IF x = o THEN kept ELSE ~Disturbed(x, gone)
             Then(x) == IF Stayed(x) THEN origin[x] ELSE Astray(x, "moved")
  <2>2. /\ Move(from, to) /\ StillThere(gone)
        /\ objects' = [objects EXCEPT ![o].path = newpath]
        /\ origin' = [x \in DOMAIN origin |-> Then(x)]
        /\ unbuilt' = unbuilt /\ undefined' = undefined
    BY <1>1, <1>3, <1>4, <1>5, <1>7, <2>1 DEF newindex_parent
  <2> HIDE DEF kept
  <2>3. /\ TreeInv /\ TreeInv' /\ Alters(gone) /\ Passes(gone)
        /\ from \in DOMAIN tree /\ to \in DOMAIN tree' /\ tree'[to] = tree[from]
    BY <1>7, <2>1, <2>2, CallCounts, MoveTree DEF FilesInv
  <2>4. IteratorsInv'
    BY <2>2, <2>3, IterationsKept DEF FilesInv
  <2>5. /\ DOMAIN objects = 1 .. Len(objects) /\ Len(objects) \in Nat
        /\ DOMAIN origin = 1 .. Len(objects) /\ Len(objects) <= MaxObjects
        /\ \A x \in DOMAIN objects : objects[x] \in Objects /\ origin[x] \in Origins
    BY LenProperties, ElementOfSeq DEF FilesInv, HistoryOK
  <2>6. /\ objects' \in [1 .. Len(objects) -> Objects]
        /\ objects'[o].path = newpath /\ objects'[o].type = objects[o].type
        /\ \A x \in DOMAIN objects : x # o => objects'[x] = objects[x]
    <3>1. objects \in [1 .. Len(objects) -> Objects]
      BY LenProperties DEF FilesInv, HistoryOK
    <3>2. PICK new : new = [objects[o] EXCEPT !.path = newpath]
      OBVIOUS
    <3>3. new \in Objects /\ new.path = newpath /\ new.type = objects[o].type
      BY <2>5, <3>2 DEF Objects
    <3>4. objects' = [objects EXCEPT ![o] = new]
      BY <2>2, <3>2
    <3> QED
      BY <2>5, <3>1, <3>3, <3>4
  <2>7. ASSUME NEW x \in DOMAIN objects
        PROVE  /\ Then(x) \in Origins /\ Then(x).id = origin[x].id
               /\ Then(x).astray = {} => origin[x].astray = {} /\ Stayed(x)
               /\ origin[x].astray # {} => Then(x).astray # {}
    <3>1. origin[x] \in Origins
      BY <2>5
    <3>2. Astray(x, "moved") = [origin[x] EXCEPT !.astray = origin[x].astray \cup {"moved"}]
      BY DEF Astray
    <3>3. /\ Astray(x, "moved") \in Origins /\ Astray(x, "moved").id = origin[x].id
          /\ Astray(x, "moved").astray # {}
      BY <3>1, <3>2 DEF Origins
    <3> HIDE DEF Stayed
    <3> QED
      BY <3>1, <3>3
  <2>8. \A x \in DOMAIN objects : origin'[x] = Then(x)
    BY <2>2, <2>5
  <2>9. HistoryOK' /\ DOMAIN objects' = DOMAIN objects
    <3> HIDE DEF Then
    <3>1. origin' \in [1 .. Len(objects) -> Origins]
      BY <2>2, <2>5, <2>7
    <3>2. objects' \in Seq(Objects) /\ Len(objects') = Len(objects)
      BY <2>5, <2>6, SeqDef
    <3>3. origin' \in Seq(Origins) /\ Len(origin') = Len(objects)
      BY <2>5, <3>1, SeqDef
    <3> QED
      BY <2>5, <2>6, <3>2, <3>3 DEF HistoryOK
  <2>10. ASSUME NEW x \in DOMAIN objects, x # o
         PROVE  Stays(x, gone)
    BY <2>6, <2>7, <2>8, <2>10 DEF Stays, Disturbed, UsedBy, UsedFor
  <2>11. ASSUME origin'[o].astray = {}
         PROVE  \E type, r, id : /\ type = objects'[o].type /\ r = objects'[o].path
                                 /\ id = origin'[o].id /\ HomeOf(type, r, id)'
    <3>1. PICK type, id : type = objects[o].type /\ id = origin[o].id
      OBVIOUS
    <3>2. origin[o].astray = {} /\ kept /\ origin'[o].id = id
      BY <2>7, <2>8, <2>11, <3>1
    <3>3. EntryOf(type, p) = from /\ Uses(parent) \cap gone = {}
      BY <3>1, <3>2 DEF kept
    <3>4. HomeOf(type, p, id)
      <4>1. ObjectsLeadHome
        BY DEF FilesInv
      <4> QED
        BY <1>1, <3>1, <3>2, <4>1, HomesAre DEF PathOf
    <3>5. tree[from].id = id /\ tree[from].kind = type
      BY <3>3, <3>4 DEF HomeOf, IsAt
    <3>6. Closed' /\ gone \subseteq DOMAIN tree /\ Kept(gone)
      BY <2>3 DEF TreeInv, Alters
    <3>7. Found(Landing(parent)) /\ newpath # <<>> /\ Front(newpath) = parent /\ Last(newpath) = Last(p)
      <4>1. newpath # <<>> /\ Front(newpath) = parent /\ Last(newpath) = Last(p)
        BY <1>2, <1>3, Appended
      <4>2. Front(to) = Landing(parent)
        BY <1>2, <1>5, <4>1, PlaceOfPath
      <4> QED
        BY <1>7, <4>1, <4>2 DEF Movable, IsDirectory
    <3>8. Landing(parent)' = Landing(parent)
      BY <1>2, <3>3, <3>6, <3>7, LandingKept
    <3>9. Place(newpath)' = to
      BY <1>5, <3>7, <3>8 DEF Place
    <3>10. ASSUME type # "symlink"
           PROVE  Landing(newpath)' = to
      <4>1. (LinksOn(to) = {})'
        <5>1. (Found(to) /\ ~IsLink(to))'
          BY <2>3, <3>5, <3>10 DEF Found, IsLink
        <5> QED
          BY <3>6, <5>1, NoLinksToNext
      <4>2. \A r : r = Place(newpath)' /\ LinksOn(r)' = {} => Landing(newpath)' = r
        BY <3>6, PlaceOfPathNext
      <4> QED
        BY <3>9, <4>1, <4>2
    <3>11. HomeOf(type, newpath, id)'
      BY <2>3, <3>5, <3>9, <3>10 DEF HomeOf, EntryOf, IsAt, Found
    <3> QED
      BY <2>6, <3>1, <3>2, <3>11
  <2>12. ObjectsLeadHome'
    <3>1. \A x \in DOMAIN objects' :
           \/ Stays(x, gone)
           \/ origin'[x].astray # {}
           \/ \E type, r, id : /\ type = objects'[x].type /\ r = objects'[x].path
                               /\ id = origin'[x].id /\ HomeOf(type, r, id)'
      BY <2>9, <2>10, <2>11
    <3> QED
      BY <2>3, <3>1, HomesKept DEF FilesInv
  <2>13. StaleStay
    BY <2>2, <2>6, <2>7, <2>8, <2>9 DEF StaleStay
  <2> QED
    BY <2>2, <2>3, <2>4, <2>9, <2>12, <2>13, StaleKept DEF FilesInv
<1> QED
  BY <1>6, <1>7

LEMMA SetParentStep ==
  ASSUME FilesInv, NEW o \in DOMAIN objects, set_parent(o)
  PROVE  FilesInv'
<1>1. Call /\ PathOf(o) # <<>>
  BY DEF set_parent
<1>2. PICK parent \in Path : newindex_parent(o, parent)
  <2>1. CASE \E d \in DOMAIN objects : Is(d, "directory") /\ newindex_parent(o, PathOf(d))
    <3>1. PICK d \in DOMAIN objects : newindex_parent(o, PathOf(d))
      BY <2>1
    <3> QED
      BY <3>1, NamedPaths
  <2>2. CASE \E p \in Given : Kind(p) = "directory" /\ newindex_parent(o, p)
    BY <2>2, NamedPaths
  <2> QED
    BY <2>1, <2>2 DEF set_parent
<1> QED
  BY <1>1, <1>2, MovedWithObject

LEMMA OpenedStep ==
  ASSUME FilesInv, Call, NEW p \in Path, NEW deep \in BOOLEAN, Kind(p) = "directory", Opened(p, deep)
  PROVE  FilesInv'
<1>1. /\ tree' = tree /\ objects' = objects /\ origin' = origin
      /\ unbuilt' = unbuilt /\ undefined' = undefined
  BY DEF Opened
<1>2. PICK it : it = [path |-> p, deep |-> deep, todo |-> Entries(Landing(p), p), state |-> "open",
                      given |-> {}, there |-> Below(Landing(p), deep)]
  OBVIOUS
<1>3. TreeInv /\ TreeInv' /\ Alters({}) /\ Passes({}) /\ IteratorsInv
  BY <1>1, SameTreeStep DEF FilesInv
<1>4. it \in Iterators /\ IterationInv(it)
  BY <1>2, <1>3, OpenedInv
<1>5. iterators' = Append(iterators, it)
  BY <1>2 DEF Opened
<1>6. IteratorsInv'
  BY <1>3, <1>4, <1>5, OneMoreIteration
<1> QED
  BY <1>1, <1>3, <1>6, StepSame

LEMMA EachOfStep ==
  ASSUME FilesInv, NEW p \in Path, NEW deep \in BOOLEAN, each_of(p, deep)
  PROVE  FilesInv'
BY FailsStep, OpenedStep DEF each_of

LEMMA DirectoryEachOfStep ==
  ASSUME FilesInv, NEW o \in DOMAIN objects, NEW deep \in BOOLEAN, directory_each_of(o, deep)
  PROVE  FilesInv'
<1>1. PICK p \in Path : p = PathOf(o)
  BY NamedPaths
<1>2. Call /\ objects[o].type = "directory"
  BY DEF directory_each_of, Is
<1>3. CASE Kind(p) = "directory"
  BY <1>1, <1>2, <1>3, OpenedStep DEF directory_each_of
<1>4. CASE Kind(p) # "directory"
  <2>1. /\ unbuilt' = TRUE /\ undefined' = undefined /\ tree' = tree /\ objects' = objects
        /\ iterators' = iterators /\ origin' = origin
    BY <1>1, <1>4 DEF directory_each_of
  <2>2. TreeInv /\ TreeInv' /\ Alters({}) /\ IteratorsInv'
    BY <1>2, <2>1, SameTreeStep DEF FilesInv
  <2>3. HistoryOK' /\ ObjectsLeadHome'
    BY <2>1, <2>2, SameHomes DEF FilesInv
  <2>4. origin[o].astray # {}
    <3> SUFFICES ASSUME origin[o].astray = {}
                 PROVE  FALSE
      OBVIOUS
    <3>1. HomeOf("directory", p, origin[o].id)
      BY <1>1, <1>2, HomesAre DEF FilesInv, PathOf
    <3> QED
      BY <1>4, <3>1 DEF HomeOf, EntryOf, IsAt, Kind, Exists
  <2>5. OnlyStaleDirectoriesBreak'
    BY <1>2, <2>1, <2>4 DEF OnlyStaleDirectoriesBreak, Is, IsAstray
  <2> QED
    BY <2>1, <2>2, <2>3, <2>5 DEF FilesInv
<1> QED
  BY <1>3, <1>4

LEMMA GoesOn ==
  ASSUME FilesInv, tree' = tree, calls' = calls
  PROVE  /\ TreeInv /\ TreeInv' /\ Alters({}) /\ Passes({})
         /\ iterators' = iterators => IteratorsInv'
<1>1. TreeInv /\ IteratorsInv /\ calls \in 0 .. MaxCalls /\ calls <= calls'
  BY FileObjectsAssumption DEF FilesInv, TreeInv
<1>2. TreeInv' /\ Alters({}) /\ Passes({})
  BY <1>1, SameTree DEF Passes
<1> QED
  BY <1>1, <1>2, SameIterations

LEMMA GivesStep ==
  ASSUME FilesInv, tree' = tree, calls' = calls, unbuilt' = unbuilt, undefined' = undefined,
         NEW i \in DOMAIN iterators, iterators[i].state = "open",
         NEW e \in iterators[i].todo, NEW rest \in SUBSET iterators[i].todo, Gives(i, e, rest)
  PROVE  FilesInv'
<1>1. TreeInv /\ TreeInv' /\ Alters({}) /\ Passes({}) /\ IteratorsInv
  BY GoesOn DEF FilesInv
<1>2. PICK it \in Iterators : it = iterators[i] /\ IterationInv(it)
  <2>1. DOMAIN iterators = 1 .. Len(iterators)
    BY <1>1, LenProperties DEF IteratorsInv
  <2>2. iterators[i] \in Iterators
    BY <1>1, <2>1, ElementOfSeq DEF IteratorsInv
  <2> QED
    BY <1>1, <2>2 DEF IteratorsInv
<1>3. /\ rest \in SUBSET (it.todo \ {e}) /\ e.kind # "other" /\ e \in it.todo /\ it.state = "open"
      /\ \A f \in it.todo \ (rest \cup {e}) : f.kind = "other" \/ f.id \notin it.there
  BY <1>2 DEF Gives, Passed, Supported
<1>4. e \in Listed
  BY <1>2, <1>3 DEF Iterators
<1> DEFINE goes_down == it.deep /\ e.kind = "directory"
<1>5. CASE goes_down /\ Kind(e.path) # "directory"
  <2>1. /\ iterators' = [iterators EXCEPT ![i].state = "failed"]
        /\ objects' = objects /\ origin' = origin
    BY <1>2, <1>5 DEF Gives
  <2>2. PICK new : new = [it EXCEPT !.state = "failed"]
    OBVIOUS
  <2>3. new \in Iterators /\ IterationInv(new)
    BY <1>1, <1>2, <1>3, <2>2, FailedInv
  <2>4. iterators' = [iterators EXCEPT ![i] = new]
    BY <1>2, <2>1, <2>2
  <2>5. IteratorsInv'
    BY <1>1, <2>3, <2>4, OneIterationChanged
  <2> QED
    BY <1>1, <2>1, <2>5, StepSame
<1>6. CASE ~(goes_down /\ Kind(e.path) # "directory")
  <2>1. PICK more : more = (IF goes_down THEN Entries(Landing(e.path), e.path) ELSE {})
    OBVIOUS
  <2>2. PICK new : new = [it EXCEPT !.todo = rest \cup more, !.given = @ \cup {e.id}]
    OBVIOUS
  <2>3. PICK type \in Types, p \in Path, id \in Ids : type = e.kind /\ p = e.path /\ id = e.id
    BY <1>3, <1>4 DEF Listed, Kinds, Types
  <2>4. PICK astray : astray = (IF IsAt(id, EntryOf(type, p)) THEN {} ELSE {"moved"})
    OBVIOUS
  <2>5. /\ Made(type, p, id, astray)
        /\ iterators' = [iterators EXCEPT ![i].todo = rest \cup more, ![i].given = @ \cup {e.id}]
    BY <1>2, <1>6, <2>1, <2>3, <2>4 DEF Gives
  <2>6. new \in Iterators /\ IterationInv(new)
    <3>1. IF it.deep /\ e.kind = "directory"
          THEN Kind(e.path) = "directory" /\ more = Entries(Landing(e.path), e.path)
          ELSE more = {}
      BY <1>6, <2>1
    <3> QED
      BY <1>1, <1>2, <1>3, <2>2, <3>1, GivesInv
  <2>7. iterators' = [iterators EXCEPT ![i] = new]
    BY <1>1, <1>2, <2>2, <2>5 DEF IteratorsInv
  <2>8. IteratorsInv'
    BY <1>1, <2>6, <2>7, OneIterationChanged
  <2>9. ASSUME astray = {}
        PROVE  HomeOf(type, p, id)'
    <3>1. IsAt(id, EntryOf(type, p))
      BY <2>4, <2>9
    <3>2. tree[EntryOf(type, p)].kind = type
      BY <1>2, <1>3, <2>3, <3>1 DEF IterationInv, ListedKinds, IsAt, Found
    <3>3. HomeOf(type, p, id) /\ UsedFor(type, p) \cap {} = {}
      BY <3>1, <3>2 DEF HomeOf
    <3> QED
      BY <1>1, <3>3, HomeKept
  <2>10. astray \in SUBSET {"moved", "unseen", "relative"}
    BY <2>4
  <2> QED
    BY <1>1, <2>5, <2>8, <2>9, <2>10, StepMade
<1> QED
  BY <1>5, <1>6

LEMMA EndsStep ==
  ASSUME FilesInv, tree' = tree, calls' = calls, unbuilt' = unbuilt, undefined' = undefined,
         NEW i \in DOMAIN iterators, iterators[i].state = "open", Ends(i)
  PROVE  FilesInv'
<1>1. TreeInv /\ TreeInv' /\ Alters({}) /\ Passes({}) /\ IteratorsInv
  BY GoesOn DEF FilesInv
<1>2. PICK it \in Iterators : it = iterators[i] /\ IterationInv(it)
  <2>1. DOMAIN iterators = 1 .. Len(iterators)
    BY <1>1, LenProperties DEF IteratorsInv
  <2>2. iterators[i] \in Iterators
    BY <1>1, <2>1, ElementOfSeq DEF IteratorsInv
  <2> QED
    BY <1>1, <2>2 DEF IteratorsInv
<1>3. PICK new : new = [it EXCEPT !.state = "ended", !.todo = {}]
  OBVIOUS
<1>4. /\ \A e \in it.todo : e.kind = "other" \/ e.id \notin it.there
      /\ it.state = "open" /\ objects' = objects /\ origin' = origin
      /\ iterators' = [iterators EXCEPT ![i].state = "ended", ![i].todo = {}]
  BY <1>2 DEF Ends
<1>5. new \in Iterators /\ IterationInv(new)
  BY <1>1, <1>2, <1>3, <1>4, EndsInv
<1>6. iterators' = [iterators EXCEPT ![i] = new]
  BY <1>1, <1>2, <1>3, <1>4 DEF IteratorsInv
<1>7. IteratorsInv'
  BY <1>1, <1>5, <1>6, OneIterationChanged
<1> QED
  BY <1>1, <1>4, <1>7, StepSame

LEMMA CollectStep ==
  ASSUME FilesInv, Collect
  PROVE  FilesInv'
<1>1. /\ unbuilt /\ unbuilt' = FALSE /\ undefined' = TRUE /\ tree' = tree /\ objects' = objects
      /\ iterators' = iterators /\ calls' = calls /\ origin' = origin
  BY DEF Collect
<1>2. TreeInv /\ TreeInv' /\ Alters({}) /\ IteratorsInv'
  BY <1>1, GoesOn
<1>3. HistoryOK' /\ ObjectsLeadHome'
  BY <1>1, <1>2, SameHomes DEF FilesInv
<1>4. StaleStay
  BY <1>1 DEF StaleStay
<1> QED
  BY <1>1, <1>2, <1>3, <1>4, StaleKept DEF FilesInv

-----------------------------------------------------------------------------
\* The theorems.
\* The invariant is inductive.
LEMMA FilesInit == Init => FilesInv
<1> SUFFICES ASSUME Init
             PROVE  FilesInv
  OBVIOUS
<1>1. TreeInv
  BY InitialTree
<1>2. objects = <<>> /\ iterators = <<>> /\ origin = <<>> /\ unbuilt = FALSE /\ undefined = FALSE
  BY DEF Init
<1>3. /\ objects \in Seq(Objects) /\ origin \in Seq(Origins) /\ iterators \in Seq(Iterators)
      /\ Len(objects) = 0 /\ Len(origin) = 0
      /\ DOMAIN objects = {} /\ DOMAIN iterators = {}
  <2>1. \A S : <<>> \in Seq(S) /\ Len(<<>>) = 0
    BY EmptySeq
  <2>2. DOMAIN <<>> = {}
    OBVIOUS
  <2> QED
    BY <1>2, <2>1, <2>2
<1>4. HistoryOK /\ IteratorsInv
  BY <1>3, FileObjectsAssumption DEF HistoryOK, IteratorsInv
<1>5. ObjectsLeadHome /\ OnlyStaleDirectoriesBreak
  BY <1>2, <1>3 DEF ObjectsLeadHome, OnlyStaleDirectoriesBreak
<1> QED
  BY <1>1, <1>2, <1>4, <1>5 DEF FilesInv

LEMMA FilesNext == FilesInv /\ [Next]_vars => FilesInv'
<1> SUFFICES ASSUME FilesInv, [Next]_vars
             PROVE  FilesInv'
  OBVIOUS
<1>1. CASE UNCHANGED vars
  <2>1. /\ tree' = tree /\ calls' = calls /\ objects' = objects /\ origin' = origin
        /\ iterators' = iterators /\ unbuilt' = unbuilt /\ undefined' = undefined
    BY <1>1 DEF vars
  <2> QED
    BY <2>1, GoesOn, StepSame
<1>2. CASE ByPath
  <2>1. ASSUME NEW p \in Given,
               \/ make_file(p) \/ make_directory(p) \/ remove(p) \/ remove_all(p)
               \/ \E target \in Links : make_symlink(target, p)
               \/ \E type \in {"file", "directory"} : open_unseen(type, p)
               \/ \E deep \in BOOLEAN : each_of(p, deep)
        PROVE  FilesInv'
    <3>1. p \in Path
      BY NamedPaths
    <3>2. CASE make_file(p)
      BY <3>1, <3>2, CreateNewFileStep DEF make_file
    <3>3. CASE make_directory(p)
      BY <3>1, <3>3, CreateDirectoryStep DEF make_directory
    <3>4. CASE remove(p)
      BY <3>1, <3>4, RemoveStep
    <3>5. CASE remove_all(p)
      BY <3>1, <3>5, RemoveAllStep
    <3>6. CASE \E target \in Links : make_symlink(target, p)
      BY <3>1, <3>6, MakeSymlinkStep, FileObjectsAssumption
    <3>7. CASE \E type \in {"file", "directory"} : open_unseen(type, p)
      BY <3>1, <3>7, OpenUnseenStep
    <3>8. CASE \E deep \in BOOLEAN : each_of(p, deep)
      BY <3>1, <3>8, EachOfStep
    <3> QED
      BY <2>1, <3>2, <3>3, <3>4, <3>5, <3>6, <3>7, <3>8
  <2>2. ASSUME NEW from \in Given, NEW to \in Given,
               NEW options \in SUBSET {"recursive", "skip existing"}, copy(from, to, options)
        PROVE  FilesInv'
    BY <2>2, NamedPaths, CopyStep
  <2> QED
    BY <1>2, <2>1, <2>2 DEF ByPath
<1>3. CASE ByObject
  <2>1. PICK o \in DOMAIN objects :
          \/ index_parent(o) \/ symlink_open(o) \/ set_parent(o)
          \/ \E deep \in BOOLEAN : directory_each_of(o, deep)
          \/ \E name \in Names :
               \/ directory_make_file(o, name) \/ directory_make_directory(o, name)
               \/ set_name(o, name)
               \/ \E type \in {"file", "directory"} : directory_open(o, name, type)
    BY <1>3 DEF ByObject
  <2>2. CASE index_parent(o)
    BY <2>2, IndexParentStep
  <2>3. CASE symlink_open(o)
    BY <2>3, SymlinkOpenStep
  <2>4. CASE set_parent(o)
    BY <2>4, SetParentStep
  <2>5. CASE \E deep \in BOOLEAN : directory_each_of(o, deep)
    BY <2>5, DirectoryEachOfStep
  <2>6. ASSUME NEW name \in Names,
               \/ directory_make_file(o, name) \/ directory_make_directory(o, name)
               \/ set_name(o, name)
               \/ \E type \in {"file", "directory"} : directory_open(o, name, type)
        PROVE  FilesInv'
    BY <2>6, DirectoryMakeFileStep, DirectoryMakeDirectoryStep, SetNameStep, DirectoryOpenStep
  <2> QED
    BY <2>1, <2>2, <2>3, <2>4, <2>5, <2>6
<1>4. CASE Collect
  BY <1>4, CollectStep
<1>5. ASSUME NEW i \in DOMAIN iterators, fs_iterator(i)
      PROVE  FilesInv'
  <2>1. /\ tree' = tree /\ calls' = calls /\ unbuilt' = unbuilt /\ undefined' = undefined
        /\ iterators[i].state = "open"
    BY <1>5 DEF fs_iterator
  <2>2. CASE Ends(i)
    BY <2>1, <2>2, EndsStep
  <2>3. CASE \E e \in iterators[i].todo, rest \in SUBSET iterators[i].todo : Gives(i, e, rest)
    BY <2>1, <2>3, GivesStep
  <2> QED
    BY <1>5, <2>2, <2>3 DEF fs_iterator
<1> QED
  BY <1>1, <1>2, <1>3, <1>4, <1>5 DEF Next

LEMMA FilesInvariant == Spec => []FilesInv
BY FilesInit, FilesNext, PTL DEF Spec

\* It implies what the runs check.
LEMMA FilesTypes == FilesInv => FilesTypeOK
<1> SUFFICES ASSUME FilesInv
             PROVE  FilesTypeOK
  OBVIOUS
<1>1. TreeInv /\ HistoryOK /\ Closed
  BY DEF FilesInv, TreeInv
<1>2. calls \in 0 .. MaxCalls /\ 0 .. calls \subseteq 0 .. MaxCalls
  BY <1>1, FileObjectsAssumption DEF TreeInv
<1>3. \A q \in DOMAIN tree : q \in Paths /\ tree[q] \in [kind : Kinds, id : Ids, target : Targets]
  BY <1>1, <1>2 DEF TreeInv, EntriesOf, Ids
<1>4. <<>> \in DOMAIN tree /\ \A q \in DOMAIN tree : IsDirectory(Front(q))
  BY <1>1 DEF Closed
<1>5. DOMAIN objects = DOMAIN origin /\ Len(objects) <= MaxObjects
  BY <1>1, LenProperties DEF HistoryOK
<1>6. \A o \in DOMAIN objects : objects[o].type \in {"file", "directory", "symlink"}
  BY NamedPaths DEF Types
<1> QED
  BY <1>2, <1>3, <1>4, <1>5, <1>6 DEF FilesTypeOK, FilesInv

LEMMA IterationsComplete == FilesInv => IterationsAreComplete
<1> SUFFICES ASSUME FilesInv, NEW i \in DOMAIN iterators, iterators[i].state = "ended"
             PROVE  iterators[i].there \subseteq iterators[i].given
  BY DEF IterationsAreComplete
<1>1. IterationInv(iterators[i])
  BY DEF FilesInv, IteratorsInv
<1> QED
  BY <1>1 DEF IterationInv

\* The entries stay a tree below the working directory, and the variables what they are.
THEOREM FileTypesCorrect == Spec => []FilesTypeOK
BY FilesInvariant, FilesTypes, PTL

\* An object leads to the entry that it was made for, of the object's type, as long as no
\* entry on its path was moved or removed but by setting the object's own parent.
THEOREM ObjectsLeadHomeCorrect == Spec => []ObjectsLeadHome
<1>1. FilesInv => ObjectsLeadHome
  BY DEF FilesInv
<1> QED
  BY <1>1, FilesInvariant, PTL

\* An iteration that ended gave all that was there from its beginning to its end.
THEOREM IterationsCorrect == Spec => []IterationsAreComplete
BY FilesInvariant, IterationsComplete, PTL

\* Only an object that has lost its directory, or was never looked at, leaves a userdata
\* that is not constructed to its destructor.
THEOREM OnlyStaleDirectoriesBreakCorrect == Spec => []OnlyStaleDirectoriesBreak
<1>1. FilesInv => OnlyStaleDirectoriesBreak
  BY DEF FilesInv
<1> QED
  BY <1>1, FilesInvariant, PTL
=============================================================================

------------------------- MODULE FileReadersProofs -------------------------
(***************************************************************************)
(* Proofs that scripts know where their readers are and that what is       *)
(* written arrives: for any text, any delimiters, any sequence of calls on *)
(* any number of readers, and of writers that append to the file or        *)
(* overwrite it at the same time.                                          *)
(***************************************************************************)
EXTENDS FileWriters, SequenceLemmas

\* What a script was given is what the file holds between two positions, if it knows them;
\* a reader may be beyond the end only when nothing has been read since it moved there.
Matches(p, h) == h.lost \/ Covers(disk, h.from, p, h.chars)

Histories == [from : Nat, chars : Seq(Chars), lost : BOOLEAN]
ReaderInv ==
  /\ disk \in Seq(Chars)
  /\ readers \in [Readers -> Streams]
  /\ heard \in [Readers -> Histories]
  /\ \A r \in Readers : Matches(readers[r].pos, heard[r])
-----------------------------------------------------------------------------
\* What is ahead of a stream in the file.
LEMMA AheadOf ==
  ASSUME disk \in Seq(Chars), NEW s \in Streams, NEW n \in Nat
  PROVE  /\ Ahead(s, n) \in Seq(Chars) /\ Len(Ahead(s, n)) \in Nat
         /\ Len(Ahead(s, n)) = (IF s.pos + n <= Len(disk) THEN n
                                ELSE IF s.pos <= Len(disk) THEN Len(disk) - s.pos ELSE 0)
         /\ Ahead(s, n) = SubSeq(disk, s.pos + 1, s.pos + Len(Ahead(s, n)))
<1> DEFINE p == s.pos
           q == Least(p + n, Len(disk))
<1>1. p \in Nat /\ Len(disk) \in Nat
  BY LenProperties DEF Streams
<1>2. /\ q \in Nat /\ q <= Len(disk)
      /\ q = IF p + n <= Len(disk) THEN p + n ELSE Len(disk)
  BY <1>1 DEF Least
<1>3. Ahead(s, n) = SubSeq(disk, p + 1, q)
  BY DEF Ahead
<1> HIDE DEF p, q
<1>4. /\ SubSeq(disk, p + 1, q) \in Seq(Chars)
      /\ Len(SubSeq(disk, p + 1, q)) = IF p < q THEN q - p ELSE 0
      /\ SubSeq(disk, p + 1, q) = SubSeq(disk, p + 1, p + Len(SubSeq(disk, p + 1, q)))
  BY <1>1, <1>2, PieceOf
<1>5. /\ Ahead(s, n) \in Seq(Chars)
      /\ Len(Ahead(s, n)) = IF p < q THEN q - p ELSE 0
      /\ Ahead(s, n) = SubSeq(disk, p + 1, p + Len(Ahead(s, n)))
  BY <1>3, <1>4, Zenon
<1> DEFINE k == Len(Ahead(s, n))
<1>6. k = (IF p + n <= Len(disk) THEN n ELSE IF p <= Len(disk) THEN Len(disk) - p ELSE 0)
  <2>1. k = IF p < q THEN q - p ELSE 0
    BY <1>5
  <2> HIDE DEF k
  <2> QED
    BY <1>1, <1>2, <2>1
<1>7. k \in Nat
  BY <1>5, LenProperties
<1> QED
  BY <1>5, <1>6, <1>7, Zenon DEF p

LEMMA NothingAhead ==
  ASSUME disk \in Seq(Chars), NEW s \in Streams
  PROVE  Ahead(s, 0) = <<>> /\ Len(Ahead(s, 0)) = 0
<1> DEFINE p == s.pos
           k == Len(Ahead(s, 0))
<1>1. p \in Nat /\ 0 \in Nat
  BY DEF Streams
<1>2. /\ k = (IF p + 0 <= Len(disk) THEN 0
              ELSE IF p <= Len(disk) THEN Len(disk) - p ELSE 0)
      /\ Ahead(s, 0) = SubSeq(disk, p + 1, p + k)
  BY <1>1, AheadOf
<1> HIDE DEF p, k
<1>3. k = 0
  BY <1>1, <1>2
<1>4. SubSeq(disk, p + 1, p + 0) = <<>>
  <2>1. p + 0 < p + 1 /\ p + 0 \in Int /\ p + 1 \in Int
    BY <1>1
  <2> QED
    BY <2>1, SubSeqEmpty
<1> QED
  BY <1>2, <1>3, <1>4, Zenon DEF k

\* What was given, and more.
LEMMA AndMore ==
  ASSUME NEW h \in Histories, NEW more \in Seq(Chars)
  PROVE  /\ And(h, more) \in Histories /\ (h.lost => And(h, more).lost)
         /\ ~h.lost => And(h, more).from = h.from /\ And(h, more).chars = h.chars \o more
<1>1. h.chars \o more \in Seq(Chars)
  BY ConcatProperties DEF Histories
<1>2. \A x \in Seq(Chars) :
        /\ [h EXCEPT !.chars = x].from = h.from /\ [h EXCEPT !.chars = x].chars = x
        /\ [h EXCEPT !.chars = x] \in Histories
  BY DEF Histories
<1> QED
  BY <1>1, <1>2, Zenon DEF And

\* Reading on adds to what was given what comes next in the file.
LEMMA ReadsOn ==
  ASSUME disk \in Seq(Chars), NEW s \in Streams, NEW h \in Histories, Matches(s.pos, h),
         NEW n \in Nat
  PROVE  And(h, Ahead(s, n)) \in Histories /\ Matches(s.pos + Len(Ahead(s, n)), And(h, Ahead(s, n)))
<1> DEFINE p == s.pos
           f == h.from
           c == h.chars
           more == Ahead(s, n)
           k == Len(more)
<1>2. p \in Nat /\ f \in Nat /\ c \in Seq(Chars) /\ Len(disk) \in Nat
  BY LenProperties DEF Streams, Histories
<1>3. /\ more \in Seq(Chars) /\ k \in Nat
      /\ k = (IF p + n <= Len(disk) THEN n ELSE IF p <= Len(disk) THEN Len(disk) - p ELSE 0)
      /\ more = SubSeq(disk, p + 1, p + k)
  BY AheadOf, Zenon
<1>4. Follows(disk, p, k, more)
  <2>1. k = 0 \/ p + k <= Len(disk)
    <3> HIDE DEF p, k
    <3> QED
      BY <1>2, <1>3
  <2> QED
    BY <1>3, <2>1, Zenon DEF Follows
<1>5. h.lost \/ Covers(disk, f, p, c)
  BY DEF Matches
<1>6. h.lost \/ Covers(disk, f, p + k, c \o more)
  <2> HIDE DEF p, f, c, more, k
  <2> QED
    BY <1>2, <1>3, <1>4, <1>5, PieceContinues
<1>7. /\ And(h, more) \in Histories /\ (h.lost => And(h, more).lost)
      /\ ~h.lost => And(h, more).from = f /\ And(h, more).chars = c \o more
  BY <1>3, AndMore, Zenon
<1>8. Matches(p + k, And(h, more))
  <2>1. CASE h.lost
    BY <1>7, <2>1, Zenon DEF Matches
  <2>2. CASE ~h.lost
    BY <1>6, <1>7, <2>2, Zenon DEF Matches
  <2> QED
    BY <2>1, <2>2
<1> QED
  BY <1>7, <1>8, Zenon

\* A reader that has moved has been given nothing since; of a lost one nothing is said.
MovedHere(n) == [from |-> n, chars |-> <<>>, lost |-> FALSE]
LostHere == [from |-> 0, chars |-> <<>>, lost |-> TRUE]
LEMMA JustMoved ==
  ASSUME NEW n \in Nat
  PROVE  MovedHere(n) \in Histories /\ Matches(n, MovedHere(n))
<1>1. SubSeq(disk, n + 1, n) = <<>>
  BY SubSeqEmpty
<1>2. <<>> \in Seq(Chars) /\ Len(<<>>) = 0
  OBVIOUS
<1> QED
  BY <1>1, <1>2 DEF Matches, Covers, Histories, MovedHere
LEMMA JustLost ==
  ASSUME NEW p
  PROVE  LostHere \in Histories /\ Matches(p, LostHere)
<1>1. <<>> \in Seq(Chars)
  OBVIOUS
<1> QED
  BY <1>1 DEF Matches, Histories, LostHere
-----------------------------------------------------------------------------
\* What the members of a stream make of it.
LEMMA StreamOps ==
  ASSUME NEW s \in Streams
  PROVE  /\ \A bits \in SUBSET Bits :
              /\ Set(s, bits) \in Streams /\ Set(s, bits).pos = s.pos
              /\ Cleared(s, bits) \in Streams /\ Cleared(s, bits).pos = s.pos
              /\ Cleared(s, bits).bits = bits /\ Set(s, bits).bits = s.bits \cup bits
         /\ \A n \in Nat : /\ At(s, n) \in Streams /\ At(s, n).pos = n /\ At(s, n).bits = s.bits
                           /\ Counted(s, n) \in Streams /\ Counted(s, n).pos = s.pos
                           /\ Counted(s, n).bits = s.bits
         /\ Entered(s) \in Streams /\ Entered(s).pos = s.pos
         /\ Good(s) => Entered(s) = s
         /\ ~Good(s) => Failed(Entered(s))
         /\ tellg(s) = IF Good(s) THEN s.pos ELSE -1
<1>1. ASSUME NEW bits \in SUBSET Bits
      PROVE  /\ Set(s, bits) \in Streams /\ Set(s, bits).pos = s.pos
             /\ Cleared(s, bits) \in Streams /\ Cleared(s, bits).pos = s.pos
             /\ Cleared(s, bits).bits = bits /\ Set(s, bits).bits = s.bits \cup bits
  BY DEF Streams, Set, Cleared
<1>2. ASSUME NEW n \in Nat
      PROVE  /\ At(s, n) \in Streams /\ At(s, n).pos = n /\ At(s, n).bits = s.bits
             /\ Counted(s, n) \in Streams /\ Counted(s, n).pos = s.pos
             /\ Counted(s, n).bits = s.bits
  BY DEF Streams, At, Counted
<1>3. {"fail"} \in SUBSET Bits
  BY DEF Bits
<1>4. /\ Entered(s) \in Streams /\ Entered(s).pos = s.pos
      /\ Good(s) => Entered(s) = s
      /\ ~Good(s) => Failed(Entered(s))
  BY <1>1, <1>3 DEF Entered, Failed
<1> QED
  BY <1>1, <1>2, <1>4, Zenon DEF tellg

\* The end of the file is forgotten, and nothing else.
LEMMA ReopenedOf ==
  ASSUME NEW s \in Streams
  PROVE  /\ Reopened(s) \in Streams /\ Reopened(s).pos = s.pos
         /\ Failed(Reopened(s)) <=> Failed(s)
<1> DEFINE v == Cleared(s, s.bits \ {"eof"})
<1>1. s.bits \ {"eof"} \in SUBSET Bits /\ s.bits \ {"eof"} \subseteq {"fail", "bad"}
  BY DEF Streams, Bits
<1>2. v \in Streams /\ v.pos = s.pos /\ v.bits = s.bits \ {"eof"}
  BY <1>1, StreamOps
<1>3. Failed(v) <=> Failed(s)
  <2> HIDE DEF v
  <2> QED
    BY <1>2 DEF Failed
<1>4. Good(v) \/ Failed(v)
  <2> HIDE DEF v
  <2> QED
    BY <1>1, <1>2 DEF Good, Failed
<1>5. Reopened(s) = Entered(v)
  BY DEF Reopened
<1> HIDE DEF v
<1>6. /\ Entered(v) \in Streams /\ Entered(v).pos = v.pos
      /\ Good(v) => Entered(v) = v
      /\ ~Good(v) => Failed(Entered(v))
  BY <1>2, StreamOps
<1> QED
  BY <1>2, <1>3, <1>4, <1>5, <1>6, Zenon

\* A move either arrives, or fails and leaves the position as it is.
LEMMA SeekOf ==
  ASSUME NEW s \in Streams, NEW n \in Int
  PROVE  /\ seekg(s, n) \in Streams
         /\ Failed(seekg(s, n)) => seekg(s, n).pos = s.pos
         /\ ~Failed(seekg(s, n)) => n \in Nat /\ seekg(s, n).pos = n
         /\ Failed(s) \/ n < 0 => Failed(seekg(s, n))
         /\ ~Failed(s) /\ n >= 0 => ~Failed(seekg(s, n))
<1> DEFINE u == Reopened(s)
<1>1. u \in Streams /\ u.pos = s.pos /\ (Failed(u) <=> Failed(s))
  BY ReopenedOf
<1>2. seekg(s, n) = CASE Failed(u) -> u
                      [] ~Failed(u) /\ n < 0 -> Set(u, {"fail"})
                      [] ~Failed(u) /\ n >= 0 -> At(u, n)
  BY DEF seekg
<1> HIDE DEF u
<1>3. CASE Failed(u)
  BY <1>1, <1>2, <1>3
<1>4. CASE ~Failed(u) /\ n < 0
  <2>1. seekg(s, n) = Set(u, {"fail"})
    BY <1>2, <1>4
  <2>2. {"fail"} \in SUBSET Bits
    BY DEF Bits
  <2>3. /\ Set(u, {"fail"}) \in Streams /\ Set(u, {"fail"}).pos = u.pos
        /\ Set(u, {"fail"}).bits = u.bits \cup {"fail"}
    BY <1>1, <2>2, StreamOps
  <2> QED
    BY <1>1, <1>4, <2>1, <2>3 DEF Failed
<1>5. CASE ~Failed(u) /\ n >= 0
  <2>1. seekg(s, n) = At(u, n) /\ n \in Nat
    BY <1>2, <1>5
  <2>2. At(u, n) \in Streams /\ At(u, n).pos = n /\ At(u, n).bits = u.bits
    BY <1>1, <2>1, StreamOps
  <2> QED
    BY <1>1, <1>5, <2>1, <2>2 DEF Failed
<1> QED
  BY <1>3, <1>4, <1>5

-----------------------------------------------------------------------------
\* A call on one reader: what it makes of the stream matches what it has given.
LEMMA Answered ==
  ASSUME ReaderInv, NEW r \in Readers, NEW s \in Streams, NEW value, Answer(r, s, value),
         NEW h \in Histories, Matches(s.pos, h),
         Hears(r, h)
  PROVE  ReaderInv'
<1>1. /\ disk' = disk
      /\ readers' = IF AskedFreed(r) THEN readers ELSE [readers EXCEPT ![r] = s]
  BY DEF Answer
<1>2. /\ disk \in Seq(Chars) /\ readers \in [Readers -> Streams]
      /\ heard \in [Readers -> Histories]
      /\ \A t \in Readers : Matches(readers[t].pos, heard[t])
  BY DEF ReaderInv
<1>3. readers' \in [Readers -> Streams] /\ heard' \in [Readers -> Histories]
  BY <1>1, <1>2 DEF Hears
<1>4. \A t \in Readers : \/ readers'[t] = readers[t] /\ heard'[t] = heard[t]
                         \/ readers'[t] = s /\ heard'[t] = h
  BY <1>1, <1>2 DEF Hears
<1>5. \A t \in Readers : Matches(readers[t].pos, heard[t])'
  BY <1>1, <1>2, <1>4 DEF Matches
<1> QED
  BY <1>1, <1>2, <1>3, <1>5 DEF ReaderInv

\* The four ways in which a call goes together with what scripts were given.
LEMMA CallStays ==
  ASSUME ReaderInv, NEW r \in Readers, NEW s \in Streams, NEW value, Answer(r, s, value),
         s.pos = readers[r].pos, Stays
  PROVE  ReaderInv'
<1>1. heard[r] \in Histories /\ Matches(s.pos, heard[r]) /\ heard \in [Readers -> Histories]
  BY DEF ReaderInv
<1>2. Hears(r, heard[r])
  BY <1>1 DEF Stays, Hears
<1> QED
  BY <1>1, <1>2, Answered

LEMMA CallMoves ==
  ASSUME ReaderInv, NEW r \in Readers, NEW s \in Streams, NEW value, Answer(r, s, value),
         MovesTo(r, s.pos)
  PROVE  ReaderInv'
<1>1. s.pos \in Nat
  BY DEF Streams
<1>2. MovedHere(s.pos) \in Histories /\ Matches(s.pos, MovedHere(s.pos))
  BY <1>1, JustMoved
<1>3. Hears(r, MovedHere(s.pos))
  BY DEF MovesTo, MovedHere
<1> QED
  BY <1>2, <1>3, Answered

LEMMA CallLoses ==
  ASSUME ReaderInv, NEW r \in Readers, NEW s \in Streams, NEW value, Answer(r, s, value),
         Loses(r)
  PROVE  ReaderInv'
<1>1. LostHere \in Histories /\ Matches(s.pos, LostHere)
  BY JustLost
<1>2. Hears(r, LostHere)
  BY DEF Loses, LostHere
<1> QED
  BY <1>1, <1>2, Answered

LEMMA CallGives ==
  ASSUME ReaderInv, NEW r \in Readers, NEW s \in Streams, NEW value, Answer(r, s, value),
         NEW n \in Nat, s.pos = readers[r].pos + Len(Ahead(readers[r], n)),
         Gives(r, Ahead(readers[r], n))
  PROVE  ReaderInv'
<1> DEFINE h == And(heard[r], Ahead(readers[r], n))
<1>1. /\ readers[r] \in Streams /\ heard[r] \in Histories /\ heard \in [Readers -> Histories]
      /\ disk \in Seq(Chars) /\ Matches(readers[r].pos, heard[r])
  BY DEF ReaderInv
<1>2. h \in Histories /\ Matches(s.pos, h)
  <2>1. h \in Histories /\ Matches(readers[r].pos + Len(Ahead(readers[r], n)), h)
    BY <1>1, ReadsOn
  <2> QED
    BY <2>1, Zenon
<1>3. Hears(r, h)
  BY DEF Gives
<1> HIDE DEF h
<1> QED
  BY <1>2, <1>3, Answered
-----------------------------------------------------------------------------
\* Extractions.
LEMMA ExtractOf ==
  ASSUME disk \in Seq(Chars), NEW s \in Streams, NEW n \in Nat, NEW bits \in SUBSET Bits
  PROVE  LET e == Extract(s, n, bits)
         IN /\ e \in Streams
            /\ Good(s) => e.pos = s.pos + Len(Ahead(s, n))
            /\ ~Good(s) => e.pos = s.pos
<1> DEFINE got == Len(Ahead(s, n))
           b == IF got < n THEN bits ELSE {}
<1>1. got \in Nat
  BY AheadOf, Zenon
<1>2. b \in SUBSET Bits
  OBVIOUS
<1>3. Extract(s, n, bits) = IF Good(s) THEN Counted(At(Set(s, b), s.pos + got), got)
                                       ELSE Counted(Entered(s), 0)
  BY DEF Extract
<1> HIDE DEF got, b
<1>4. s.pos + got \in Nat /\ 0 \in Nat
  BY <1>1 DEF Streams
<1>5. Set(s, b) \in Streams /\ Entered(s) \in Streams /\ Entered(s).pos = s.pos
  BY <1>2, StreamOps
<1>6. At(Set(s, b), s.pos + got) \in Streams /\ At(Set(s, b), s.pos + got).pos = s.pos + got
  BY <1>4, <1>5, StreamOps
<1>7. \A t \in Streams, m \in Nat : Counted(t, m) \in Streams /\ Counted(t, m).pos = t.pos
  BY StreamOps
<1> QED
  BY <1>1, <1>3, <1>4, <1>5, <1>6, <1>7, Zenon DEF got

\* A line is looked for in what is ahead.
LEMMA LineEndOf ==
  ASSUME disk \in Seq(Chars), NEW s \in Streams, NEW d
  PROVE  LineEnd(s, d) \in 0 .. Len(ToEnd(s))
<1> DEFINE t == ToEnd(s)
           I == {i \in 1 .. Len(t) : t[i] = d}
<1>1. Len(disk) \in Nat
  BY LenProperties
<1>2. Len(t) \in Nat
  BY <1>1, AheadOf DEF ToEnd
<1>3. LineEnd(s, d) = IF I # {} THEN CHOOSE x \in I : \A y \in I : x <= y ELSE 0
  BY DEF LineEnd, SelectInSeq, Min
<1>4. I \in SUBSET Nat /\ I \subseteq 0 .. Len(t)
  BY <1>2
<1> HIDE DEF I, t
<1>5. I # {} => \E x \in I : \A y \in I : x <= y
  BY <1>4, LeastOf
<1>6. LineEnd(s, d) \in I \/ LineEnd(s, d) = 0
  BY <1>3, <1>5, Zenon
<1>7. LineEnd(s, d) \in 0 .. Len(t)
  <2> DEFINE n == Len(t)
             e == LineEnd(s, d)
  <2>1. n \in Nat /\ I \subseteq 0 .. n /\ (e \in I \/ e = 0)
    BY <1>2, <1>4, <1>6, Zenon
  <2> HIDE DEF n, e
  <2>2. 0 \in 0 .. n
    BY <2>1
  <2>3. e \in 0 .. n
    BY <2>1, <2>2, Zenon
  <2> QED
    BY <2>3, Zenon DEF n, e
<1> QED
  BY <1>7 DEF t

LEMMA GetLineOf ==
  ASSUME disk \in Seq(Chars), NEW s \in Streams, NEW d
  PROVE  /\ AfterLine(s, d) \in Streams
         /\ AfterLine(s, d).pos - s.pos \in Nat
         /\ WithDelimiter(s, d) = Ahead(s, AfterLine(s, d).pos - s.pos)
         /\ AfterLine(s, d).pos = s.pos + Len(WithDelimiter(s, d))
<1> DEFINE p == s.pos
           e == LineEnd(s, d)
           all == Len(ToEnd(s))
           t == AfterLine(s, d)
<1>1. p \in Nat /\ Len(disk) \in Nat
  BY LenProperties DEF Streams
<1>2. all = (IF p + Len(disk) <= Len(disk) THEN Len(disk)
             ELSE IF p <= Len(disk) THEN Len(disk) - p ELSE 0)
  BY <1>1, AheadOf, Zenon DEF ToEnd
<1>3. e \in 0 .. all
  BY LineEndOf
<1>4. /\ \A k \in Nat, u \in Streams : At(u, p + k) \in Streams /\ At(u, p + k).pos = p + k
      /\ \A bits \in SUBSET Bits : Set(s, bits) \in Streams
      /\ Entered(s) \in Streams /\ Entered(s).pos = p
  <2>1. \A k \in Nat : p + k \in Nat
    BY <1>1
  <2> QED
    BY <2>1, StreamOps
<1>5. PICK k \in Nat : t \in Streams /\ t.pos = p + k /\ (k = 0 \/ k = e \/ k = all)
  <2>1. CASE ~Good(s)
    <3>1. t = Entered(s)
      BY <2>1 DEF AfterLine
    <3>2. p = p + 0 /\ 0 \in Nat
      BY <1>1
    <3> HIDE DEF t, p
    <3> QED
      BY <1>4, <3>1, <3>2
  <2>2. CASE Good(s) /\ e # 0
    <3>1. t = At(s, p + e)
      BY <2>2 DEF AfterLine
    <3>2. e \in Nat
      BY <1>3
    <3> HIDE DEF t, e, p
    <3> QED
      BY <1>4, <3>1, <3>2
  <2>3. CASE Good(s) /\ e = 0
    <3> DEFINE bits == IF ToEnd(s) = <<>> THEN {"eof", "fail"} ELSE {"eof"}
    <3>1. t = At(Set(s, bits), p + all) /\ bits \in SUBSET Bits
      BY <2>3 DEF AfterLine, Bits
    <3>2. all \in Nat
      <4> HIDE DEF all, p
      <4> QED
        BY <1>1, <1>2
    <3> HIDE DEF t, bits, all, p
    <3> QED
      BY <1>4, <3>1, <3>2
  <2> QED
    BY <2>1, <2>2, <2>3
<1>6. p + k <= Len(disk) \/ k = 0
  <2> HIDE DEF p, e, all, t
  <2> QED
    BY <1>1, <1>2, <1>3, <1>5
<1>7. Len(Ahead(s, k)) = k
  <2>1. Len(Ahead(s, k)) = (IF p + k <= Len(disk) THEN k
                            ELSE IF p <= Len(disk) THEN Len(disk) - p ELSE 0)
    BY AheadOf
  <2> HIDE DEF p
  <2> QED
    BY <1>1, <1>6, <2>1
<1>8. t.pos - p = k
  <2> HIDE DEF t, p
  <2> QED
    BY <1>1, <1>5
<1>9. WithDelimiter(s, d) = Ahead(s, k)
  BY <1>8, Zenon DEF WithDelimiter
<1> QED
  BY <1>5, <1>7, <1>8, <1>9, Zenon
-----------------------------------------------------------------------------
LEMMA OfReader ==
  ASSUME ReaderInv, NEW r \in Readers
  PROVE  disk \in Seq(Chars) /\ readers[r] \in Streams /\ readers[r].pos \in Nat
BY DEF ReaderInv, Streams

LEMMA LineStep ==
  ASSUME ReaderInv, NEW r \in Readers, NEW d, get_line(r, d)
  PROVE  ReaderInv'
<1> DEFINE s == AfterLine(readers[r], d)
           n == s.pos - readers[r].pos
<1>1. disk \in Seq(Chars) /\ readers[r] \in Streams
  BY OfReader
<1>2. /\ s \in Streams /\ n \in Nat
      /\ WithDelimiter(readers[r], d) = Ahead(readers[r], n)
      /\ s.pos = readers[r].pos + Len(WithDelimiter(readers[r], d))
  BY <1>1, GetLineOf
<1>3. /\ Answer(r, s, LineOrNothing(readers[r], d))
      /\ Gives(r, WithDelimiter(readers[r], d))
  BY DEF get_line
<1>4. Gives(r, Ahead(readers[r], n)) /\ s.pos = readers[r].pos + Len(Ahead(readers[r], n))
  BY <1>2, <1>3, Zenon
<1> HIDE DEF s, n
<1> QED
  BY <1>2, <1>3, <1>4, CallGives

LEMMA ReadStep ==
  ASSUME ReaderInv, NEW r \in Readers, NEW n \in Nat, NEW bits \in SUBSET Bits, NEW value,
         Answer(r, Extract(readers[r], n, bits), value),
         Gives(r, Given(readers[r], Ahead(readers[r], n)))
  PROVE  ReaderInv'
<1> DEFINE s == Extract(readers[r], n, bits)
           chars == Given(readers[r], Ahead(readers[r], n))
           m == IF Good(readers[r]) THEN n ELSE 0
<1>1. disk \in Seq(Chars) /\ readers[r] \in Streams /\ readers[r].pos \in Nat
  BY OfReader
<1>2. m \in Nat
  OBVIOUS
<1>3. /\ s \in Streams
      /\ Good(readers[r]) => s.pos = readers[r].pos + Len(Ahead(readers[r], n))
      /\ ~Good(readers[r]) => s.pos = readers[r].pos
  BY <1>1, ExtractOf
<1>4. chars = Ahead(readers[r], m) /\ s.pos = readers[r].pos + Len(Ahead(readers[r], m))
  <2>1. CASE Good(readers[r])
    BY <1>3, <2>1, Zenon DEF Given
  <2>2. CASE ~Good(readers[r])
    <3>1. Ahead(readers[r], 0) = <<>> /\ Len(Ahead(readers[r], 0)) = 0
      BY <1>1, NothingAhead
    <3>2. s.pos = readers[r].pos + 0
      BY <1>1, <1>3, <2>2
    <3> QED
      BY <2>2, <3>1, <3>2, Zenon DEF Given
  <2> QED
    BY <2>1, <2>2
<1>5. Gives(r, Ahead(readers[r], m))
  BY <1>4, Zenon
<1> HIDE DEF s, chars, m
<1>6. Answer(r, s, value)
  BY DEF s
<1> QED
  BY <1>2, <1>3, <1>4, <1>5, <1>6, CallGives

LEMMA ExtractStep ==
  ASSUME ReaderInv, NEW r \in Readers, NEW n \in Nat, read(r, n) \/ ignore(r, n)
  PROVE  ReaderInv'
<1>1. {"eof", "fail"} \in SUBSET Bits /\ {"eof"} \in SUBSET Bits
  BY DEF Bits
<1>2. CASE read(r, n)
  BY <1>1, <1>2, ReadStep DEF read
<1>3. CASE ignore(r, n)
  BY <1>1, <1>3, ReadStep DEF ignore
<1> QED
  BY <1>2, <1>3

LEMMA PeekStep ==
  ASSUME ReaderInv, NEW r \in Readers, peek(r)
  PROVE  ReaderInv'
<1> DEFINE e == Extract(readers[r], 1, {"eof"})
           s == Counted(At(e, readers[r].pos), 0)
<1>1. disk \in Seq(Chars) /\ readers[r] \in Streams /\ readers[r].pos \in Nat /\ 0 \in Nat
  BY OfReader
<1>2. {"eof"} \in SUBSET Bits /\ 1 \in Nat
  BY DEF Bits
<1>3. e \in Streams
  BY <1>1, <1>2, ExtractOf
<1>4. At(e, readers[r].pos) \in Streams /\ At(e, readers[r].pos).pos = readers[r].pos
  <2>1. \A t \in Streams, n \in Nat : At(t, n) \in Streams /\ At(t, n).pos = n
    BY StreamOps, Zenon
  <2> QED
    BY <1>1, <1>3, <2>1, Zenon
<1>5. s \in Streams /\ s.pos = readers[r].pos
  <2>1. \A t \in Streams : Counted(t, 0) \in Streams /\ Counted(t, 0).pos = t.pos
    BY <1>1, StreamOps
  <2> QED
    BY <1>4, <2>1, Zenon
<1>6. Answer(r, s, Given(readers[r], Ahead(readers[r], 1))) /\ Stays
  BY DEF peek
<1> HIDE DEF s
<1> QED
  BY <1>5, <1>6, CallStays

\* read_all goes to the end and back, or fails where it is and stays.
LEMMA ReadAllStep ==
  ASSUME ReaderInv, NEW r \in Readers, read_all(r)
  PROVE  ReaderInv'
<1> DEFINE v == readers[r]
           start == seekg(Entered(v), 0)
           end == AtEnd(r)
           s == seekg(Cleared(end, {}), tellg(v))
<1>1. /\ disk \in Seq(Chars) /\ v \in Streams /\ v.pos \in Nat /\ Len(disk) \in Nat
      /\ 0 \in Int /\ {} \in SUBSET Bits
  BY OfReader, LenProperties
<1>2. end = IF Failed(start) THEN start ELSE At(start, Len(disk))
  BY DEF AtEnd, Rewound
<1>3. Answer(r, s, All(r)) /\ Stays
  BY DEF read_all
<1> HIDE DEF end, v
<1>4. /\ Entered(v) \in Streams /\ Entered(v).pos = v.pos
      /\ Good(v) => Entered(v) = v
      /\ ~Good(v) => Failed(Entered(v))
      /\ tellg(v) = IF Good(v) THEN v.pos ELSE -1
  BY <1>1, StreamOps
<1>5. /\ start \in Streams
      /\ Failed(start) => start.pos = Entered(v).pos
      /\ Failed(Entered(v)) => Failed(start)
  BY <1>1, <1>4, SeekOf
<1> HIDE DEF start
<1>6. At(start, Len(disk)) \in Streams
  BY <1>1, <1>5, StreamOps
<1>7. end \in Streams /\ (~Good(v) => end.pos = v.pos)
  BY <1>2, <1>4, <1>5, <1>6, Zenon
<1>8. /\ Cleared(end, {}) \in Streams /\ Cleared(end, {}).pos = end.pos
      /\ ~Failed(Cleared(end, {}))
  <2>1. \A bits \in SUBSET Bits : /\ Cleared(end, bits) \in Streams
                                  /\ Cleared(end, bits).pos = end.pos
                                  /\ Cleared(end, bits).bits = bits
    BY <1>7, StreamOps
  <2>2. Cleared(end, {}).bits = {}
    BY <1>1, <2>1, Zenon
  <2>3. ~Failed(Cleared(end, {}))
    BY <2>2, Zenon DEF Failed
  <2> QED
    BY <1>1, <2>1, <2>3, Zenon
<1>9. tellg(v) \in Int
  BY <1>1, <1>4
<1> DEFINE c == Cleared(end, {})
           t == tellg(v)
<1>10. /\ seekg(c, t) \in Streams
       /\ Failed(seekg(c, t)) => seekg(c, t).pos = c.pos
       /\ ~Failed(seekg(c, t)) => seekg(c, t).pos = t
       /\ t < 0 => Failed(seekg(c, t))
       /\ ~Failed(c) /\ t >= 0 => ~Failed(seekg(c, t))
  <2> HIDE DEF c, t
  <2>1. c \in Streams /\ t \in Int
    BY <1>8, <1>9 DEF c, t
  <2> QED
    BY <2>1, SeekOf
<1>11. s \in Streams /\ s.pos = v.pos
  <2>1. CASE Good(v)
    <3>1. t = v.pos /\ t >= 0
      BY <1>1, <1>4, <2>1
    <3> QED
      BY <1>8, <1>10, <3>1, Zenon
  <2>2. CASE ~Good(v)
    <3>1. t < 0
      BY <1>4, <2>2
    <3> QED
      BY <1>7, <1>8, <1>10, <2>2, <3>1, Zenon
  <2> QED
    BY <2>1, <2>2
<1> HIDE DEF s
<1> QED
  BY <1>3, <1>11, CallStays DEF v

\* The script believes the reader to be at the beginning, unless it had failed.
LEMMA ResetStep ==
  ASSUME ReaderInv, NEW r \in Readers, reset(r)
  PROVE  ReaderInv'
<1> DEFINE u == seekg(readers[r], 0)
           s == Cleared(u, {})
<1>1. readers[r] \in Streams /\ 0 \in Int /\ {} \in SUBSET Bits
  BY OfReader
<1>2. u \in Streams /\ (~Failed(readers[r]) => u.pos = 0)
  BY <1>1, SeekOf
<1>3. s \in Streams /\ s.pos = u.pos
  <2> HIDE DEF u
  <2> QED
    BY <1>1, <1>2, StreamOps
<1>4. /\ Answer(r, s, Nothing)
      /\ IF Failed(readers[r]) THEN Loses(r) ELSE MovesTo(r, 0)
  BY DEF reset
<1> HIDE DEF s, u
<1>5. CASE Failed(readers[r])
  BY <1>3, <1>4, <1>5, CallLoses
<1>6. CASE ~Failed(readers[r])
  <2>1. MovesTo(r, s.pos)
    BY <1>2, <1>3, <1>4, <1>6, Zenon
  <2> QED
    BY <1>3, <1>4, <2>1, CallMoves
<1> QED
  BY <1>5, <1>6

\* A move arrives, or the reader is where it was.
LEMMA MovedOf ==
  ASSUME ReaderInv, NEW r \in Readers, NEW n \in Int
  PROVE  /\ Moved(r, n) \in Streams
         /\ ~Failed(Moved(r, n)) => Moved(r, n).pos = n
         /\ \A bits \in SUBSET Bits :
              /\ TakenBack(r, n, bits) \in Streams
              /\ Failed(Moved(r, n)) => TakenBack(r, n, bits).pos = readers[r].pos
<1> DEFINE v == readers[r]
           m == Moved(r, n)
           t == tellg(v)
           b == seekg(m, t)
<1>1. v \in Streams /\ v.pos \in Nat
  BY OfReader
<1>2. m = seekg(Entered(v), n) /\ \A bits : TakenBack(r, n, bits) = Cleared(b, bits)
  BY DEF Moved, TakenBack
<1> HIDE DEF v, m
<1>3. Entered(v) \in Streams /\ Entered(v).pos = v.pos /\ t \in Int
  BY <1>1, StreamOps
<1>4. /\ m \in Streams
      /\ Failed(m) => m.pos = Entered(v).pos
      /\ ~Failed(m) => m.pos = n
  BY <1>2, <1>3, SeekOf
<1> HIDE DEF t
<1>5. /\ b \in Streams
      /\ Failed(m) => Failed(b) /\ b.pos = m.pos
  BY <1>3, <1>4, SeekOf
<1> HIDE DEF b
<1>6. \A bits \in SUBSET Bits : Cleared(b, bits) \in Streams /\ Cleared(b, bits).pos = b.pos
  BY <1>5, StreamOps
<1> QED
  BY <1>2, <1>3, <1>4, <1>5, <1>6, Zenon DEF v, m

LEMMA OffsetStep ==
  ASSUME ReaderInv, NEW r \in Readers, NEW n \in Int, try_offset(r, n) \/ set_offset(r, n)
  PROVE  ReaderInv'
<1>1. {} \in SUBSET Bits /\ {"fail"} \in SUBSET Bits
  BY DEF Bits
<1>2. CASE Failed(Moved(r, n))
  <2>1. PICK bits \in SUBSET Bits : \E value : Answer(r, TakenBack(r, n, bits), value) /\ Stays
    BY <1>1, <1>2 DEF try_offset, set_offset
  <2>2. TakenBack(r, n, bits) \in Streams /\ TakenBack(r, n, bits).pos = readers[r].pos
    BY <1>2, MovedOf
  <2> QED
    BY <2>1, <2>2, CallStays
<1>3. CASE ~Failed(Moved(r, n))
  <2>1. PICK value : Answer(r, Moved(r, n), value) /\ MovesTo(r, n)
    BY <1>3 DEF try_offset, set_offset
  <2>2. Moved(r, n) \in Streams /\ Moved(r, n).pos = n
    BY <1>3, MovedOf
  <2>3. MovesTo(r, Moved(r, n).pos)
    BY <2>1, <2>2, Zenon
  <2> QED
    BY <2>1, <2>2, <2>3, CallMoves
<1> QED
  BY <1>2, <1>3

\* The fields, of which only last_bytes_count displaces the stream.
LEMMA FieldStep ==
  ASSUME ReaderInv, NEW r \in Readers,
         eof(r) \/ fail(r) \/ good(r) \/ bad(r) \/ offset(r) \/ last_bytes_count(r)
  PROVE  ReaderInv'
<1>1. readers[r] \in Streams /\ readers[r].pos \in Nat
  BY OfReader
<1>2. ASSUME NEW value, Answer(r, readers[r], value), Stays
      PROVE  ReaderInv'
  BY <1>1, <1>2, CallStays
<1>3. ASSUME eof(r) \/ fail(r) \/ good(r) \/ bad(r)
      PROVE  ReaderInv'
  BY <1>2, <1>3, Zenon DEF eof, fail, good, bad
<1>4. ASSUME offset(r)
      PROVE  ReaderInv'
  <2>1. Entered(readers[r]) \in Streams /\ Entered(readers[r]).pos = readers[r].pos
    BY <1>1, StreamOps
  <2> QED
    BY <1>4, <2>1, CallStays DEF offset
<1>5. ASSUME last_bytes_count(r)
      PROVE  ReaderInv'
  <2>1. Loses(r) /\ \E s \in unget(readers[r]) : Answer(r, s, s.count)
    BY <1>5 DEF last_bytes_count
  <2>0. PICK s \in unget(readers[r]) : Answer(r, s, s.count)
    BY <2>1
  <2> DEFINE u == Counted(Reopened(readers[r]), 0)
  <2>2. Reopened(readers[r]) \in Streams
    BY <1>1, ReopenedOf
  <2>3. u \in Streams /\ 0 \in Nat
    BY <2>2, StreamOps
  <2>4. s = u \/ s = Set(u, {"bad"}) \/ (u.pos # 0 /\ s = At(u, u.pos - 1))
    BY <2>0, Zenon DEF unget
  <2> HIDE DEF u
  <2>5. {"bad"} \in SUBSET Bits /\ (u.pos # 0 => u.pos - 1 \in Nat)
    BY <2>3 DEF Bits, Streams
  <2>6. /\ \A bits \in SUBSET Bits : Set(u, bits) \in Streams
        /\ \A n \in Nat : At(u, n) \in Streams
    BY <2>3, StreamOps
  <2>7. s \in Streams
    BY <2>3, <2>4, <2>5, <2>6, Zenon
  <2> QED
    BY <2>0, <2>1, <2>7, CallLoses
<1> QED
  BY <1>3, <1>4, <1>5

LEMMA FreeStep ==
  ASSUME ReaderInv, NEW r \in Readers, free(r)
  PROVE  ReaderInv'
<1>1. Fresh("freed") \in Streams /\ Fresh("freed").pos = 0
  BY DEF Fresh, Streams
<1> QED
  BY <1>1, CallMoves DEF free
-----------------------------------------------------------------------------
LEMMA InitialReaders == Init => ReaderInv
<1> SUFFICES ASSUME Init
             PROVE  ReaderInv
  OBVIOUS
<1> DEFINE h == MovedHere(0)
<1>1. disk \in Seq(Chars)
  BY FileReadersAssumption DEF Init
<1>2. Fresh("none") \in Streams /\ Fresh("none").pos = 0 /\ 0 \in Nat
  BY DEF Fresh, Streams
<1>3. h \in Histories /\ Matches(0, h)
  BY <1>2, JustMoved
<1>4. readers = [r \in Readers |-> Fresh("none")] /\ heard = [r \in Readers |-> h]
  BY DEF Init, MovedHere
<1> HIDE DEF h
<1>5. \A r \in Readers : readers[r] = Fresh("none") /\ heard[r] = h
  BY <1>4
<1>6. readers \in [Readers -> Streams] /\ heard \in [Readers -> Histories]
  BY <1>2, <1>3, <1>4
<1> QED
  BY <1>1, <1>2, <1>3, <1>5, <1>6, Zenon DEF ReaderInv

\* Nothing that the invariant speaks of changes.
LEMMA Unchanged ==
  ASSUME ReaderInv, UNCHANGED <<disk, readers, heard>>
  PROVE  ReaderInv'
BY DEF ReaderInv, Matches

LEMMA OpenStep ==
  ASSUME ReaderInv, NEW r \in Readers, OpenReader(r)
  PROVE  ReaderInv'
<1> DEFINE h == MovedHere(0)
<1>1. Fresh("open") \in Streams /\ Fresh("open").pos = 0 /\ 0 \in Nat
  BY DEF Fresh, Streams
<1>2. h \in Histories /\ Matches(0, h)
  BY <1>1, JustMoved
<1>3. ~AskedFreed(r) /\ disk' = disk /\ readers' = [readers EXCEPT ![r] = Fresh("open")]
      /\ heard' = IF AskedFreed(r) THEN heard ELSE [heard EXCEPT ![r] = h]
  BY DEF OpenReader, AskedFreed, MovesTo, Hears, MovedHere
<1> HIDE DEF h
<1>4. /\ disk \in Seq(Chars) /\ readers \in [Readers -> Streams]
      /\ heard \in [Readers -> Histories]
      /\ \A t \in Readers : Matches(readers[t].pos, heard[t])
  BY DEF ReaderInv
<1>5. readers' \in [Readers -> Streams] /\ heard' \in [Readers -> Histories]
  BY <1>1, <1>2, <1>3, <1>4
<1>6. \A t \in Readers : \/ readers'[t] = readers[t] /\ heard'[t] = heard[t]
                         \/ readers'[t] = Fresh("open") /\ heard'[t] = h
  BY <1>3, <1>4
<1>7. \A t \in Readers : Matches(readers[t].pos, heard[t])'
  BY <1>1, <1>2, <1>3, <1>4, <1>6 DEF Matches
<1> QED
  BY <1>3, <1>4, <1>5, <1>7, Zenon DEF ReaderInv

LEMMA AppendStep ==
  ASSUME ReaderInv, NEW chunk \in Chunks, append(chunk)
  PROVE  ReaderInv'
<1> DEFINE e == Append(chunk, Newline)
<1>1. chunk \in Seq(Chars) /\ Newline \in Chars
  <2>1. chunk \in Seq(Chars)
    BY FileReadersAssumption
  <2>2. Newline \in Chars
    BY DEF Chars
  <2> QED
    BY <2>1, <2>2
<1>2. e \in Seq(Chars)
  BY <1>1, AppendProperties
<1>3. disk' = disk \o e /\ readers' = readers /\ heard' = heard
  BY DEF append
<1> HIDE DEF e
<1>4. /\ disk \in Seq(Chars) /\ readers \in [Readers -> Streams]
      /\ heard \in [Readers -> Histories]
      /\ \A r \in Readers : Matches(readers[r].pos, heard[r])
  BY DEF ReaderInv
<1>5. disk' \in Seq(Chars)
  BY <1>2, <1>3, <1>4, ConcatProperties
<1>6. ASSUME NEW r \in Readers
      PROVE  Matches(readers[r].pos, heard[r])'
  <2>1. /\ readers[r].pos \in Nat /\ heard[r].from \in Nat /\ heard[r].chars \in Seq(Chars)
        /\ heard[r].lost \/ Covers(disk, heard[r].from, readers[r].pos, heard[r].chars)
    BY <1>4 DEF Streams, Histories, Matches
  <2>2. heard[r].lost \/ Covers(disk \o e, heard[r].from, readers[r].pos, heard[r].chars)
    BY <1>2, <1>4, <2>1, PieceKept
  <2> QED
    BY <1>3, <2>2, Zenon DEF Matches
<1> QED
  BY <1>3, <1>4, <1>5, <1>6, Zenon DEF ReaderInv

LEMMA ReaderStep ==
  ASSUME ReaderInv, NEW r \in Readers, ReaderCall(r)
  PROVE  ReaderInv'
<1>1. ASSUME NEW d \in Delimiters, get_line(r, d)
      PROVE  ReaderInv'
  BY <1>1, LineStep
<1>2. ASSUME NEW d \in Delimiters, each_line(r, d)
      PROVE  ReaderInv'
  BY <1>2, Unchanged DEF each_line
<1>3. ASSUME NEW d \in Delimiters, reader_line_iterator(r, d)
      PROVE  ReaderInv'
  <2>1. CASE get_line(r, d)
    BY <2>1, LineStep
  <2>2. CASE UNCHANGED <<disk, readers, heard>>
    BY <2>2, Unchanged
  <2> QED
    BY <1>3, <2>1, <2>2 DEF reader_line_iterator
<1>4. ASSUME NEW n \in Counts, read(r, n) \/ ignore(r, n)
      PROVE  ReaderInv'
  BY <1>4, ExtractStep, FileReadersAssumption
<1>5. ASSUME NEW n \in Offsets, try_offset(r, n) \/ set_offset(r, n)
      PROVE  ReaderInv'
  BY <1>5, OffsetStep, FileReadersAssumption
<1>6. ASSUME get(r)
      PROVE  ReaderInv'
  <2>1. 1 \in Nat
    OBVIOUS
  <2> QED
    BY <1>6, <2>1, ExtractStep DEF get
<1>7. ASSUME peek(r) \/ read_all(r) \/ reset(r) \/ free(r)
      PROVE  ReaderInv'
  BY <1>7, PeekStep, ReadAllStep, ResetStep, FreeStep
<1>8. ASSUME eof(r) \/ fail(r) \/ good(r) \/ bad(r) \/ offset(r) \/ last_bytes_count(r)
      PROVE  ReaderInv'
  BY <1>8, FieldStep
<1> QED
  BY <1>1, <1>2, <1>3, <1>4, <1>5, <1>6, <1>7, <1>8, Zenon DEF ReaderCall

\* Every step keeps what scripts know true.
LEMMA ReaderInvIsKept ==
  ASSUME ReaderInv, [Next]_vars
  PROVE  ReaderInv'
<1>1. ASSUME NEW r \in Readers, OpenReader(r)
      PROVE  ReaderInv'
  BY <1>1, OpenStep
<1>2. ASSUME NEW r \in Readers, ReaderCall(r)
      PROVE  ReaderInv'
  BY <1>2, ReaderStep
<1>3. ASSUME NEW chunk \in Chunks, append(chunk)
      PROVE  ReaderInv'
  BY <1>3, AppendStep
<1>4. CASE read_contents
  BY <1>4, Unchanged DEF read_contents
<1>5. CASE UNCHANGED vars
  BY <1>5, Unchanged DEF vars
<1> QED
  BY <1>1, <1>2, <1>3, <1>4, <1>5, Zenon DEF Next

-----------------------------------------------------------------------------
(***************************************************************************)
(* Lifetimes: a stream is opened once and freed once, nothing that is      *)
(* asked of it in between changes which of the two it is.                  *)
(***************************************************************************)
Same(s, t) == t \in Streams /\ t.state = s.state

LEMMA MembersKeepStates ==
  ASSUME NEW s \in Streams
  PROVE  /\ \A bits \in SUBSET Bits : Same(s, Set(s, bits)) /\ Same(s, Cleared(s, bits))
         /\ \A n \in Nat : Same(s, At(s, n)) /\ Same(s, Counted(s, n))
         /\ Same(s, Entered(s)) /\ Same(s, Reopened(s))
<1>1. ASSUME NEW t \in Streams, NEW bits \in SUBSET Bits
      PROVE  Same(t, Set(t, bits)) /\ Same(t, Cleared(t, bits))
  BY DEF Streams, Set, Cleared, Same
<1>2. ASSUME NEW n \in Nat
      PROVE  Same(s, At(s, n)) /\ Same(s, Counted(s, n))
  BY DEF Streams, At, Counted, Same
<1>3. ASSUME NEW t \in Streams
      PROVE  Same(t, Entered(t))
  <2>1. {"fail"} \in SUBSET Bits
    BY DEF Bits
  <2> QED
    BY <1>1, <2>1 DEF Entered, Same
<1>4. Same(s, Reopened(s))
  <2>1. s.bits \ {"eof"} \in SUBSET Bits
    BY DEF Streams, Bits
  <2>2. Same(s, Cleared(s, s.bits \ {"eof"}))
    BY <1>1, <2>1
  <2> QED
    BY <1>3, <2>2, Zenon DEF Reopened, Same
<1> QED
  BY <1>1, <1>2, <1>3, <1>4

LEMMA TellOf ==
  ASSUME NEW s \in Streams
  PROVE  tellg(s) \in Int
<1>1. s.pos \in Nat /\ -1 \in Int
  BY DEF Streams
<1> QED
  BY <1>1 DEF tellg

LEMMA SeekKeepsState ==
  ASSUME NEW s \in Streams, NEW n \in Int
  PROVE  Same(s, seekg(s, n))
<1> DEFINE u == Reopened(s)
<1>1. u \in Streams /\ u.state = s.state
  BY MembersKeepStates DEF Same
<1>2. {"fail"} \in SUBSET Bits
  BY DEF Bits
<1>3. seekg(s, n) = CASE Failed(u) -> u
                      [] ~Failed(u) /\ n < 0 -> Set(u, {"fail"})
                      [] ~Failed(u) /\ n >= 0 -> At(u, n)
  BY DEF seekg
<1>4. n < 0 \/ n \in Nat
  OBVIOUS
<1>5. n >= 0 <=> ~(n < 0)
  OBVIOUS
<1> HIDE DEF u
<1>6. Same(u, Set(u, {"fail"})) /\ (n \in Nat => Same(u, At(u, n)))
  BY <1>1, <1>2, MembersKeepStates
<1>7. \/ Failed(u) /\ seekg(s, n) = u
      \/ ~Failed(u) /\ n < 0 /\ seekg(s, n) = Set(u, {"fail"})
      \/ ~Failed(u) /\ n \in Nat /\ seekg(s, n) = At(u, n)
  BY <1>3, <1>4, <1>5
<1> QED
  BY <1>1, <1>6, <1>7, Zenon DEF Same

LEMMA ExtractKeepsState ==
  ASSUME disk \in Seq(Chars), NEW s \in Streams, NEW n \in Nat, NEW bits \in SUBSET Bits
  PROVE  Same(s, Extract(s, n, bits))
<1> DEFINE got == Len(Ahead(s, n))
           b == IF got < n THEN bits ELSE {}
<1>1. got \in Nat
  BY AheadOf, Zenon
<1>2. b \in SUBSET Bits
  OBVIOUS
<1>3. Extract(s, n, bits) = IF Good(s) THEN Counted(At(Set(s, b), s.pos + got), got)
                                       ELSE Counted(Entered(s), 0)
  BY DEF Extract
<1> HIDE DEF got, b
<1>4. s.pos + got \in Nat /\ 0 \in Nat
  BY <1>1 DEF Streams
<1>5. Same(s, Set(s, b)) /\ Same(s, Entered(s))
  BY <1>2, MembersKeepStates
<1>6. Same(s, At(Set(s, b), s.pos + got))
  BY <1>4, <1>5, MembersKeepStates DEF Same
<1>7. \A t \in Streams, m \in Nat : Same(t, Counted(t, m))
  BY MembersKeepStates
<1> QED
  BY <1>1, <1>3, <1>4, <1>5, <1>6, <1>7, Zenon DEF Same

LEMMA LineKeepsState ==
  ASSUME disk \in Seq(Chars), NEW s \in Streams, NEW d
  PROVE  Same(s, AfterLine(s, d))
<1> DEFINE e == LineEnd(s, d)
           all == Len(ToEnd(s))
           bits == IF ToEnd(s) = <<>> THEN {"eof", "fail"} ELSE {"eof"}
<1>1. s.pos \in Nat /\ Len(disk) \in Nat
  BY LenProperties DEF Streams
<1>2. all \in Nat
  BY <1>1, AheadOf, Zenon DEF ToEnd
<1>3. e \in 0 .. all
  BY LineEndOf
<1>4. s.pos + all \in Nat /\ s.pos + e \in Nat
  <2> HIDE DEF e, all
  <2> QED
    BY <1>1, <1>2, <1>3
<1>5. bits \in SUBSET Bits
  BY DEF Bits
<1>6. \/ AfterLine(s, d) = Entered(s)
      \/ AfterLine(s, d) = At(s, s.pos + e)
      \/ AfterLine(s, d) = At(Set(s, bits), s.pos + all)
  BY Zenon DEF AfterLine
<1> HIDE DEF e, all, bits
<1>7. Same(s, Entered(s)) /\ Same(s, At(s, s.pos + e)) /\ Same(s, Set(s, bits))
  BY <1>4, <1>5, MembersKeepStates
<1>8. Same(s, At(Set(s, bits), s.pos + all))
  BY <1>4, <1>7, MembersKeepStates DEF Same
<1> QED
  BY <1>6, <1>7, <1>8, Zenon
-----------------------------------------------------------------------------
\* A closure is of a reader that has been opened, and nothing is remembered of readers that
\* are not open.
LifeInv ==
  /\ \A i \in iterators : i[1] \in Readers /\ readers[i[1]].state \in {"open", "freed"}
  /\ \A r \in Readers :
       readers[r].state # "open" => readers[r].pos = heard[r].from /\ heard[r].chars = <<>>

\* A call changes what is remembered of one reader, and of none that is freed.
HeardOf(r) == heard' = heard \/ (~AskedFreed(r) /\ \E h : heard' = [heard EXCEPT ![r] = h])
LEMMA HeardOfCalls ==
  ASSUME NEW r \in Readers
  PROVE  /\ Stays => HeardOf(r)
         /\ \A n : MovesTo(r, n) => HeardOf(r)
         /\ \A chars : Gives(r, chars) => HeardOf(r)
         /\ Loses(r) => HeardOf(r)
BY Zenon DEF Stays, MovesTo, Gives, Loses, Hears, HeardOf

\* A call that the metatables pass on leaves an open reader open.
LEMMA AnswerKeepsLives ==
  ASSUME ReaderInv, LifeInv, NEW r \in Readers, NEW s, NEW value, Answer(r, s, value),
         s.state = readers[r].state, HeardOf(r)
  PROVE  LifeInv'
<1>1. /\ iterators' = iterators /\ readers[r].state # "none"
      /\ \/ readers[r].state = "freed" /\ readers' = readers
         \/ readers[r].state # "freed" /\ readers' = [readers EXCEPT ![r] = s]
  BY DEF Answer, AskedFreed
<1>2. readers \in [Readers -> Streams] /\ heard \in [Readers -> Histories]
  BY DEF ReaderInv
<1>3. \A t \in Readers : readers'[t].state = readers[t].state
  BY <1>1, <1>2
<1>5. \A i \in iterators : i[1] \in Readers /\ readers[i[1]].state \in {"open", "freed"}
  BY DEF LifeInv
<1>6. \A i \in iterators' : i[1] \in Readers /\ readers'[i[1]].state \in {"open", "freed"}
  BY <1>1, <1>3, <1>5
<1>8. ASSUME NEW t \in Readers, readers'[t].state # "open"
      PROVE  readers'[t].pos = heard'[t].from /\ heard'[t].chars = <<>>
  <2>1. readers[t].state # "open"
    BY <1>3, <1>8
  <2>2. readers[r].state \in {"open", "freed"}
    BY <1>1, <1>2 DEF Streams
  <2>3. CASE readers[r].state = "freed"
    <3>1. readers' = readers /\ heard' = heard
      BY <1>1, <2>3 DEF HeardOf, AskedFreed
    <3> QED
      BY <2>1, <3>1 DEF LifeInv
  <2>4. CASE readers[r].state = "open"
    <3>1. t # r /\ readers'[t] = readers[t]
      BY <1>1, <1>2, <2>1, <2>4
    <3>2. heard'[t] = heard[t]
      BY <1>2, <3>1 DEF HeardOf
    <3> QED
      BY <2>1, <3>1, <3>2 DEF LifeInv
  <2> QED
    BY <2>2, <2>3, <2>4
<1> QED
  BY <1>6, <1>8 DEF LifeInv

\* What keeps readers and closures keeps the lives.
LEMMA SameLives ==
  ASSUME LifeInv, UNCHANGED <<iterators, readers, heard>>
  PROVE  LifeInv'
BY DEF LifeInv

LEMMA FreeLives ==
  ASSUME ReaderInv, LifeInv, NEW r \in Readers, free(r)
  PROVE  LifeInv'
<1> DEFINE h == MovedHere(0)
<1>1. /\ Answer(r, Fresh("freed"), Nothing) /\ MovesTo(r, 0)
      /\ Fresh("freed").state = "freed" /\ Fresh("freed").pos = 0
  BY DEF free, Fresh
<1>2. readers \in [Readers -> Streams] /\ heard \in [Readers -> Histories]
  BY DEF ReaderInv
<1>3. CASE readers[r].state = "freed"
  BY <1>1, <1>3, SameLives DEF Answer, MovesTo, Hears, AskedFreed
<1>4. CASE readers[r].state # "freed"
  <2>1. /\ iterators' = iterators /\ readers' = [readers EXCEPT ![r] = Fresh("freed")]
        /\ heard' = [heard EXCEPT ![r] = h]
    BY <1>1, <1>4 DEF Answer, MovesTo, Hears, AskedFreed, MovedHere
  <2>2. /\ readers'[r] = Fresh("freed") /\ heard'[r] = h
        /\ \A t \in Readers : t # r => readers'[t] = readers[t] /\ heard'[t] = heard[t]
    BY <1>2, <2>1
  <2>3. h.from = 0 /\ h.chars = <<>>
    BY DEF MovedHere
  <2> HIDE DEF h
  <2>4. \A t \in Readers : readers'[t].state \in {readers[t].state, "freed"}
    BY <1>1, <2>2
  <2>5. \A i \in iterators' : i[1] \in Readers /\ readers'[i[1]].state \in {"open", "freed"}
    BY <2>1, <2>4 DEF LifeInv
  <2>7. ASSUME NEW t \in Readers, readers'[t].state # "open"
        PROVE  readers'[t].pos = heard'[t].from /\ heard'[t].chars = <<>>
    BY <1>1, <2>2, <2>3, <2>7 DEF LifeInv
  <2> QED
    BY <2>5, <2>7 DEF LifeInv
<1> QED
  BY <1>3, <1>4

LEMMA IteratorLives ==
  ASSUME ReaderInv, LifeInv, NEW r \in Readers, NEW d,
         each_line(r, d) \/ reader_line_iterator(r, d)
  PROVE  LifeInv'
<1>1. readers[r] \in Streams /\ disk \in Seq(Chars)
  BY OfReader
<1>2. CASE each_line(r, d)
  <2>1. UNCHANGED <<readers, heard>> /\ readers[r].state # "none"
    BY <1>2 DEF each_line
  <2>2. \/ iterators' = iterators
        \/ readers[r].state # "freed" /\ iterators' = iterators \cup {<<r, d>>}
    BY <1>2 DEF each_line, AskedFreed
  <2>3. CASE iterators' = iterators
    BY <2>1, <2>3, SameLives
  <2>4. CASE readers[r].state # "freed" /\ iterators' = iterators \cup {<<r, d>>}
    <3>1. readers[r].state = "open"
      BY <1>1, <2>1, <2>4 DEF Streams
    <3>2. \A i \in iterators' : i \in iterators \/ i[1] = r
      BY <2>4
    <3>3. \A i \in iterators' : i[1] \in Readers /\ readers'[i[1]].state \in {"open", "freed"}
      BY <2>1, <3>1, <3>2 DEF LifeInv
    <3> QED
      BY <2>1, <3>3 DEF LifeInv
  <2> QED
    BY <2>2, <2>3, <2>4
<1>3. CASE reader_line_iterator(r, d)
  <2>1. <<r, d>> \in iterators /\ readers[r].state \in {"open", "freed"}
    BY <1>3 DEF reader_line_iterator, LifeInv
  <2>2. CASE readers[r].state = "open"
    <3>1. Answer(r, AfterLine(readers[r], d), LineOrNothing(readers[r], d)) /\ HeardOf(r)
      BY <1>3, <2>2, HeardOfCalls DEF reader_line_iterator, get_line
    <3>2. AfterLine(readers[r], d).state = readers[r].state
      BY <1>1, LineKeepsState DEF Same
    <3> QED
      BY <3>1, <3>2, AnswerKeepsLives
  <2>3. CASE readers[r].state = "freed"
    BY <1>3, <2>3, SameLives DEF reader_line_iterator
  <2> QED
    BY <2>1, <2>2, <2>3
<1> QED
  BY <1>2, <1>3

LEMMA OffsetLives ==
  ASSUME ReaderInv, LifeInv, NEW r \in Readers, NEW n \in Int,
         try_offset(r, n) \/ set_offset(r, n)
  PROVE  LifeInv'
<1> DEFINE v == readers[r]
           mv == Moved(r, n)
           t == tellg(v)
<1>1. v \in Streams /\ v.pos \in Nat
  BY OfReader
<1>2. Same(v, Entered(v)) /\ t \in Int
  BY <1>1, MembersKeepStates, TellOf
<1>3. Same(v, mv)
  <2>1. mv = seekg(Entered(v), n)
    BY DEF Moved
  <2> HIDE DEF v, mv
  <2> QED
    BY <1>2, <2>1, SeekKeepsState DEF Same
<1>4. \A bits \in SUBSET Bits : Same(v, TakenBack(r, n, bits))
  <2>1. \A bits : TakenBack(r, n, bits) = Cleared(seekg(mv, t), bits)
    BY DEF TakenBack
  <2> HIDE DEF v, mv, t
  <2>2. Same(v, seekg(mv, t))
    BY <1>2, <1>3, SeekKeepsState DEF Same
  <2> QED
    BY <2>1, <2>2, MembersKeepStates DEF Same
<1>5. {} \in SUBSET Bits /\ {"fail"} \in SUBSET Bits
  BY DEF Bits
<1>6. PICK s, value : /\ Answer(r, s, value) /\ HeardOf(r)
                      /\ s = mv \/ \E bits \in SUBSET Bits : s = TakenBack(r, n, bits)
  BY <1>5, HeardOfCalls DEF try_offset, set_offset
<1>7. s.state = readers[r].state
  BY <1>3, <1>4, <1>6, Zenon DEF Same
<1> QED
  BY <1>6, <1>7, AnswerKeepsLives

LEMMA ReadLives ==
  ASSUME ReaderInv, LifeInv, NEW r \in Readers, NEW n \in Nat,
         read(r, n) \/ ignore(r, n) \/ peek(r)
  PROVE  LifeInv'
<1> DEFINE v == readers[r]
<1>1. v \in Streams /\ v.pos \in Nat /\ disk \in Seq(Chars) /\ 1 \in Nat /\ 0 \in Nat
  BY OfReader
<1>2. {"eof", "fail"} \in SUBSET Bits /\ {"eof"} \in SUBSET Bits
  BY DEF Bits
<1> HIDE DEF v
<1>3. /\ Same(v, Extract(v, n, {"eof", "fail"})) /\ Same(v, Extract(v, n, {"eof"}))
      /\ Same(v, Extract(v, 1, {"eof"}))
  BY <1>1, <1>2, ExtractKeepsState
<1>4. Same(v, Counted(At(Extract(v, 1, {"eof"}), v.pos), 0))
  <2>1. Same(v, At(Extract(v, 1, {"eof"}), v.pos))
    BY <1>1, <1>3, MembersKeepStates DEF Same
  <2> QED
    BY <1>1, <2>1, MembersKeepStates DEF Same
<1>5. PICK s, value : /\ Answer(r, s, value) /\ HeardOf(r)
                      /\ s \in {Extract(v, n, {"eof", "fail"}), Extract(v, n, {"eof"}),
                                Counted(At(Extract(v, 1, {"eof"}), v.pos), 0)}
  BY HeardOfCalls DEF read, ignore, peek, v
<1>6. s.state = readers[r].state
  BY <1>3, <1>4, <1>5 DEF Same, v
<1> QED
  BY <1>5, <1>6, AnswerKeepsLives

LEMMA RewindLives ==
  ASSUME ReaderInv, LifeInv, NEW r \in Readers, read_all(r) \/ reset(r)
  PROVE  LifeInv'
<1> DEFINE v == readers[r]
           start == seekg(Entered(v), 0)
           end == AtEnd(r)
           t == tellg(v)
           all == seekg(Cleared(end, {}), t)
           zero == Cleared(seekg(v, 0), {})
<1>1. v \in Streams /\ v.pos \in Nat /\ Len(disk) \in Nat /\ 0 \in Int /\ {} \in SUBSET Bits
  BY OfReader, LenProperties
<1>2. end = IF Failed(start) THEN start ELSE At(start, Len(disk))
  BY DEF AtEnd, Rewound
<1>3. PICK s, value : Answer(r, s, value) /\ HeardOf(r) /\ s \in {all, zero}
  BY HeardOfCalls DEF read_all, reset
<1> HIDE DEF v, end, t
<1>4. Same(v, Entered(v)) /\ t \in Int
  BY <1>1, MembersKeepStates, TellOf DEF t
<1>5. Same(v, start)
  BY <1>1, <1>4, SeekKeepsState DEF Same
<1>6. Same(v, end)
  <2> HIDE DEF start
  <2>1. Same(v, At(start, Len(disk)))
    BY <1>1, <1>5, MembersKeepStates DEF Same
  <2> QED
    BY <1>2, <1>5, <2>1
<1>7. Same(v, Cleared(end, {}))
  BY <1>1, <1>6, MembersKeepStates DEF Same
<1>8. Same(v, all)
  BY <1>4, <1>7, SeekKeepsState DEF Same
<1>9. Same(v, zero)
  <2>1. Same(v, seekg(v, 0))
    BY <1>1, SeekKeepsState
  <2> QED
    BY <1>1, <2>1, MembersKeepStates DEF Same
<1>10. s.state = readers[r].state
  BY <1>3, <1>8, <1>9 DEF Same, v
<1> QED
  BY <1>3, <1>10, AnswerKeepsLives

LEMMA FieldLives ==
  ASSUME ReaderInv, LifeInv, NEW r \in Readers,
         eof(r) \/ fail(r) \/ good(r) \/ bad(r) \/ offset(r) \/ last_bytes_count(r)
  PROVE  LifeInv'
<1> DEFINE v == readers[r]
           u == Counted(Reopened(v), 0)
<1>1. v \in Streams /\ v.pos \in Nat /\ 0 \in Nat
  BY OfReader
<1>2. Same(v, Entered(v)) /\ Same(v, Reopened(v))
  BY <1>1, MembersKeepStates
<1>3. Same(v, u)
  BY <1>1, <1>2, MembersKeepStates DEF Same
<1>4. \A s \in unget(v) : Same(v, s)
  <2>1. \A s \in unget(v) : s = u \/ s = Set(u, {"bad"}) \/ (u.pos # 0 /\ s = At(u, u.pos - 1))
    BY Zenon DEF unget
  <2> HIDE DEF u, v
  <2>2. {"bad"} \in SUBSET Bits /\ (u.pos # 0 => u.pos - 1 \in Nat)
    BY <1>3 DEF Bits, Streams, Same
  <2>3. Same(u, Set(u, {"bad"})) /\ (u.pos # 0 => Same(u, At(u, u.pos - 1)))
    BY <1>3, <2>2, MembersKeepStates DEF Same
  <2> QED
    BY <1>3, <2>1, <2>3, Zenon DEF Same
<1>5. PICK s, value : /\ Answer(r, s, value) /\ HeardOf(r)
                      /\ s = v \/ s = Entered(v) \/ s \in unget(v)
  BY Zenon, HeardOfCalls DEF eof, fail, good, bad, offset, last_bytes_count
<1>6. s.state = readers[r].state
  <2> HIDE DEF u
  <2> QED
    BY <1>2, <1>4, <1>5 DEF Same
<1> QED
  BY <1>5, <1>6, AnswerKeepsLives

LEMMA OpenLives ==
  ASSUME ReaderInv, LifeInv, NEW r \in Readers, OpenReader(r)
  PROVE  LifeInv'
<1>1. /\ readers[r].state = "none" /\ readers' = [readers EXCEPT ![r] = Fresh("open")]
      /\ iterators' = iterators
  BY DEF OpenReader
<1>2. readers \in [Readers -> Streams]
  BY DEF ReaderInv
<1>3. \A i \in iterators : /\ i[1] \in Readers /\ readers[i[1]].state \in {"open", "freed"}
                           /\ readers'[i[1]] = readers[i[1]]
  BY <1>1, <1>2 DEF LifeInv
<1>5. ASSUME NEW t \in Readers, readers'[t].state # "open"
      PROVE  readers'[t].pos = heard'[t].from /\ heard'[t].chars = <<>>
  <2>1. heard \in [Readers -> Histories] /\ \E h : heard' = [heard EXCEPT ![r] = h]
    BY <1>1 DEF ReaderInv, OpenReader, MovesTo, Hears, AskedFreed
  <2>2. t # r
    BY <1>1, <1>2, <1>5 DEF Fresh
  <2>3. readers'[t] = readers[t] /\ heard'[t] = heard[t]
    BY <1>1, <1>2, <2>1, <2>2
  <2> QED
    BY <1>5, <2>3 DEF LifeInv
<1> QED
  BY <1>1, <1>3, <1>5, Zenon DEF LifeInv

LEMMA LifeStep ==
  ASSUME ReaderInv, LifeInv, NEW r \in Readers, ReaderCall(r)
  PROVE  LifeInv'
<1>1. ASSUME NEW d \in Delimiters, get_line(r, d)
      PROVE  LifeInv'
  <2>1. Answer(r, AfterLine(readers[r], d), LineOrNothing(readers[r], d)) /\ HeardOf(r)
    BY <1>1, HeardOfCalls DEF get_line
  <2>2. AfterLine(readers[r], d).state = readers[r].state
    BY OfReader, LineKeepsState DEF Same
  <2> QED
    BY <2>1, <2>2, AnswerKeepsLives
<1>2. ASSUME NEW d \in Delimiters, each_line(r, d) \/ reader_line_iterator(r, d)
      PROVE  LifeInv'
  BY <1>2, IteratorLives
<1>3. ASSUME NEW n \in Counts, read(r, n) \/ ignore(r, n)
      PROVE  LifeInv'
  BY <1>3, ReadLives, FileReadersAssumption
<1>4. ASSUME NEW n \in Offsets, try_offset(r, n) \/ set_offset(r, n)
      PROVE  LifeInv'
  BY <1>4, OffsetLives, FileReadersAssumption
<1>5. ASSUME get(r) \/ peek(r)
      PROVE  LifeInv'
  <2>1. 1 \in Nat
    OBVIOUS
  <2>2. read(r, 1) \/ ignore(r, 1) \/ peek(r)
    BY <1>5, Zenon DEF get
  <2> QED
    BY <2>1, <2>2, ReadLives
<1>6. ASSUME read_all(r) \/ reset(r)
      PROVE  LifeInv'
  BY <1>6, RewindLives
<1>7. ASSUME eof(r) \/ fail(r) \/ good(r) \/ bad(r) \/ offset(r) \/ last_bytes_count(r)
      PROVE  LifeInv'
  BY <1>7, FieldLives
<1>8. CASE free(r)
  BY <1>8, FreeLives
<1> QED
  BY <1>1, <1>2, <1>3, <1>4, <1>5, <1>6, <1>7, <1>8, Zenon DEF ReaderCall

LEMMA InitialLives == Init => LifeInv
<1> SUFFICES ASSUME Init
             PROVE  LifeInv
  OBVIOUS
<1>1. \A r \in Readers : readers[r] = Fresh("none") /\ heard[r] = MovedHere(0)
  BY DEF Init, MovedHere
<1>2. \A r \in Readers : readers[r].pos = heard[r].from /\ heard[r].chars = <<>>
  BY <1>1 DEF Fresh, MovedHere
<1> QED
  BY <1>2 DEF Init, LifeInv

LEMMA LifeInvIsKept ==
  ASSUME ReaderInv, LifeInv, [Next]_vars
  PROVE  LifeInv'
<1>1. ASSUME NEW r \in Readers, OpenReader(r)
      PROVE  LifeInv'
  BY <1>1, OpenLives
<1>2. ASSUME NEW r \in Readers, ReaderCall(r)
      PROVE  LifeInv'
  BY <1>2, LifeStep
<1>3. ASSUME NEW chunk \in Chunks, append(chunk)
      PROVE  LifeInv'
  BY <1>3, SameLives DEF append
<1>4. CASE read_contents
  BY <1>4, SameLives DEF read_contents
<1>5. CASE UNCHANGED vars
  BY <1>5, SameLives DEF vars
<1> QED
  BY <1>1, <1>2, <1>3, <1>4, <1>5, Zenon DEF Next
-----------------------------------------------------------------------------
(***************************************************************************)
(* Writers: they make the file longer, or it is written anew while nobody  *)
(* reads it.                                                               *)
(***************************************************************************)
WriterStreams == [state : {"none", "open", "freed"}, failed : BOOLEAN, buffer : Seq(Chars)]
WritersInv == writers \in [Writers -> WriterStreams]
StreamsInv == ReaderInv /\ LifeInv /\ WritersInv

\* Readers and what scripts know of them, while the file gets longer.
Grows == /\ UNCHANGED <<readers, iterators, undefined, heard>>
         /\ \E e \in Seq(Chars) : disk' = disk \o e
LEMMA GrowsStep ==
  ASSUME ReaderInv, LifeInv, Grows
  PROVE  ReaderInv' /\ LifeInv'
<1>1. PICK e \in Seq(Chars) : disk' = disk \o e
  BY DEF Grows
<1>2. readers' = readers /\ heard' = heard
  BY DEF Grows
<1>3. /\ disk \in Seq(Chars) /\ readers \in [Readers -> Streams]
      /\ heard \in [Readers -> Histories]
      /\ \A r \in Readers : Matches(readers[r].pos, heard[r])
  BY DEF ReaderInv
<1>4. disk' \in Seq(Chars)
  BY <1>1, <1>3, ConcatProperties
<1>5. ASSUME NEW r \in Readers
      PROVE  Matches(readers[r].pos, heard[r])'
  <2>1. /\ readers[r].pos \in Nat /\ heard[r].from \in Nat /\ heard[r].chars \in Seq(Chars)
        /\ heard[r].lost \/ Covers(disk, heard[r].from, readers[r].pos, heard[r].chars)
    BY <1>3 DEF Streams, Histories, Matches
  <2>2. heard[r].lost \/ Covers(disk \o e, heard[r].from, readers[r].pos, heard[r].chars)
    BY <1>3, <2>1, PieceKept
  <2> QED
    BY <1>1, <1>2, <2>2, Zenon DEF Matches
<1>6. ReaderInv'
  BY <1>2, <1>3, <1>4, <1>5, Zenon DEF ReaderInv
<1> QED
  BY <1>6, SameLives DEF Grows

\* The file stays as it is, for one.
LEMMA StayingGrows ==
  ASSUME ReaderInv, UNCHANGED <<disk, readers, iterators, undefined, heard>>
  PROVE  Grows
<1>1. disk \in Seq(Chars) /\ <<>> \in Seq(Chars)
  BY DEF ReaderInv
<1>2. disk \o <<>> = disk
  BY <1>1, ConcatEmptySeq
<1> QED
  BY <1>1, <1>2 DEF Grows

\* What a writer does to the file and to itself.
WriterStep == Grows /\ WritersInv'
LEMMA SpillOf ==
  ASSUME ReaderInv, WritersInv, NEW w \in Writers, NEW s \in WriterStreams,
         NEW n \in 0 .. Len(s.buffer), Spill(w, s, n),
         UNCHANGED <<readers, iterators, undefined, heard>>
  PROVE  WriterStep
<1> DEFINE b == s.buffer
<1>1. b \in Seq(Chars) /\ Len(b) \in Nat /\ n \in Nat /\ n <= Len(b)
  BY LenProperties DEF WriterStreams
<1>2. SubSeq(b, 1, n) \in Seq(Chars)
  <2>1. SubSeq(b, 0 + 1, n) \in Seq(Chars)
    BY <1>1, PieceOf
  <2> QED
    BY <2>1
<1>3. SubSeq(b, n + 1, Len(b)) \in Seq(Chars)
  BY <1>1, PieceOf
<1>4. /\ disk' = disk \o SubSeq(b, 1, n)
      /\ writers' = [writers EXCEPT ![w] = [s EXCEPT !.buffer = SubSeq(b, n + 1, Len(b))]]
  BY DEF Spill
<1> HIDE DEF b
<1>5. [s EXCEPT !.buffer = SubSeq(b, n + 1, Len(b))] \in WriterStreams
  BY <1>3 DEF WriterStreams
<1> QED
  BY <1>2, <1>4, <1>5 DEF WriterStep, Grows, WritersInv

LEMMA FlushOf ==
  ASSUME ReaderInv, WritersInv, NEW w \in Writers, NEW s \in WriterStreams, Flush(w, s),
         UNCHANGED <<readers, iterators, undefined, heard>>
  PROVE  WriterStep
<1>1. Len(s.buffer) \in 0 .. Len(s.buffer)
  BY LenProperties DEF WriterStreams
<1> QED
  BY <1>1, SpillOf DEF Flush

LEMMA KeepOf ==
  ASSUME ReaderInv, WritersInv, NEW w \in Writers, NEW s \in WriterStreams, Keep(w, s),
         UNCHANGED <<readers, iterators, undefined, heard>>
  PROVE  WriterStep
BY StayingGrows DEF Keep, WriterStep, WritersInv

LEMMA WriterOps ==
  ASSUME NEW s \in WriterStreams
  PROVE  /\ \A chars \in Seq(Chars) : Buffered(s, chars) \in WriterStreams
         /\ Mended(s) \in WriterStreams /\ SeekFailed(s) \in WriterStreams
         /\ [s EXCEPT !.state = "freed", !.failed = FALSE] \in WriterStreams
<1>1. ASSUME NEW chars \in Seq(Chars)
      PROVE  Buffered(s, chars) \in WriterStreams
  <2>1. s.buffer \o chars \in Seq(Chars)
    BY ConcatProperties DEF WriterStreams
  <2> QED
    BY <2>1 DEF Buffered, WriterStreams
<1> QED
  BY <1>1 DEF Mended, SeekFailed, WriterStreams

LEMMA TextOfChunks ==
  ASSUME NEW chunk \in Chunks
  PROVE  /\ chunk \in Seq(Chars) /\ Append(chunk, Newline) \in Seq(Chars)
         /\ chunk # <<>> => <<Head(chunk)>> \in Seq(Chars)
<1>1. chunk \in Seq(Chars) /\ Newline \in Chars
  BY FileReadersAssumption DEF Chars
<1>2. Append(chunk, Newline) \in Seq(Chars)
  BY <1>1, AppendProperties
<1>3. chunk # <<>> => Head(chunk) \in Chars
  BY <1>1, HeadTailProperties
<1> QED
  BY <1>1, <1>2, <1>3

LEMMA WriteOf ==
  ASSUME ReaderInv, WritersInv, NEW w \in Writers, NEW chars \in Seq(Chars), write(w, chars)
  PROVE  WriterStep
<1> DEFINE s == writers[w]
<1>1. s \in WriterStreams /\ UNCHANGED <<readers, iterators, undefined, heard>>
  BY DEF WritersInv, write, Usable, Use
<1>2. CASE s.failed
  BY <1>1, <1>2, KeepOf DEF write
<1>3. CASE ~s.failed
  <2>1. PICK n \in 0 .. Len(s.buffer \o chars) : Spill(w, Buffered(s, chars), n)
    BY <1>3 DEF write
  <2>2. Buffered(s, chars) \in WriterStreams /\ Buffered(s, chars).buffer = s.buffer \o chars
    BY <1>1, WriterOps DEF Buffered, WriterStreams
  <2> QED
    BY <1>1, <2>1, <2>2, SpillOf
<1> QED
  BY <1>2, <1>3

LEMMA WriterCallOf ==
  ASSUME ReaderInv, WritersInv, NEW w \in Writers, WriterCall(w) \/ CollectWriter(w)
  PROVE  WriterStep
<1> DEFINE s == writers[w]
<1>1. s \in WriterStreams /\ UNCHANGED <<readers, iterators, undefined, heard>>
  BY DEF WritersInv, WriterCall, CollectWriter, write, print, put, try_writer_offset,
         set_writer_offset, print_nothing, flush, reset_writer, free_writer, writer_offset,
         writer_eof, Refused, Usable, Use
<1>2. \/ Flush(w, s) \/ Keep(w, s) \/ Keep(w, Mended(s)) \/ Flush(w, SeekFailed(s))
      \/ Flush(w, [s EXCEPT !.state = "freed", !.failed = FALSE])
      \/ UNCHANGED <<disk, writers>>
      \/ \E chunk \in Chunks : print(w, chunk) \/ write(w, chunk)
                               \/ (chunk # <<>> /\ put(w, Head(chunk)))
  BY DEF WriterCall, CollectWriter, Close, try_writer_offset, set_writer_offset, print_nothing,
         flush, reset_writer, free_writer, writer_offset, writer_eof, Refused, writer_vars
<1>3. Mended(s) \in WriterStreams /\ SeekFailed(s) \in WriterStreams
      /\ [s EXCEPT !.state = "freed", !.failed = FALSE] \in WriterStreams
  BY <1>1, WriterOps
<1>4. CASE \/ Flush(w, s) \/ Keep(w, s) \/ Keep(w, Mended(s)) \/ Flush(w, SeekFailed(s))
           \/ Flush(w, [s EXCEPT !.state = "freed", !.failed = FALSE])
  BY <1>1, <1>3, <1>4, FlushOf, KeepOf
<1>5. CASE UNCHANGED <<disk, writers>>
  BY <1>1, <1>5, StayingGrows DEF WriterStep, WritersInv
<1>6. ASSUME NEW chunk \in Chunks, print(w, chunk)
      PROVE  WriterStep
  <2> DEFINE line == Append(chunk, Newline)
  <2>1. Keep(w, s) \/ Flush(w, Buffered(s, line))
    BY <1>6 DEF print
  <2>2. Buffered(s, line) \in WriterStreams
    BY <1>1, TextOfChunks, WriterOps
  <2> QED
    BY <1>1, <2>1, <2>2, FlushOf, KeepOf
<1>7. ASSUME NEW chunk \in Chunks, write(w, chunk) \/ (chunk # <<>> /\ put(w, Head(chunk)))
      PROVE  WriterStep
  BY <1>7, TextOfChunks, WriteOf DEF put
<1> QED
  BY <1>2, <1>4, <1>5, <1>6, <1>7

\* Nothing is known of readers that are not open, which suits any text.
LEMMA OverwriteStep ==
  ASSUME StreamsInv, NEW chunk \in Chunks, overwrite(chunk)
  PROVE  StreamsInv'
<1>1. /\ UNCHANGED <<readers, iterators, undefined, heard, writers>>
      /\ disk' = Append(chunk, Newline) /\ \A r \in Readers : readers[r].state # "open"
  BY DEF overwrite
<1>2. disk' \in Seq(Chars)
  BY <1>1, TextOfChunks
<1>3. readers \in [Readers -> Streams] /\ heard \in [Readers -> Histories]
  BY DEF StreamsInv, ReaderInv
<1>4. ASSUME NEW r \in Readers
      PROVE  Matches(readers[r].pos, heard[r])'
  <2>1. /\ heard[r] \in Histories /\ readers[r].pos = heard[r].from /\ heard[r].chars = <<>>
        /\ heard[r].from \in Nat
    BY <1>1, <1>3 DEF StreamsInv, LifeInv, Histories
  <2>3. Covers(disk', heard[r].from, heard[r].from, <<>>)
    <3>1. SubSeq(disk', heard[r].from + 1, heard[r].from) = <<>>
      BY <2>1, SubSeqEmpty
    <3> QED
      BY <2>1, <3>1 DEF Covers
  <2> QED
    BY <1>1, <2>1, <2>3 DEF Matches
<1>5. ReaderInv'
  BY <1>1, <1>2, <1>3, <1>4 DEF ReaderInv
<1>6. LifeInv' /\ WritersInv'
  BY <1>1, SameLives DEF StreamsInv, WritersInv
<1> QED
  BY <1>5, <1>6 DEF StreamsInv

LEMMA StreamsInvIsKept ==
  ASSUME StreamsInv, [StreamsNext]_stream_vars
  PROVE  StreamsInv'
<1>1. CASE ReadersOnly /\ UNCHANGED writer_vars
  <2>1. Next /\ writers' = writers
    BY <1>1 DEF ReadersOnly, Next, writer_vars
  <2> QED
    BY <2>1, ReaderInvIsKept, LifeInvIsKept DEF StreamsInv, WritersInv
<1>2. ASSUME NEW w \in Writers, OpenWriter(w)
      PROVE  StreamsInv'
  <2>1. Grows
    BY <1>2, StayingGrows DEF StreamsInv, OpenWriter
  <2>2. WritersInv'
    <3>1. Closed("open") \in WriterStreams
      BY DEF Closed, WriterStreams
    <3> QED
      BY <1>2, <3>1 DEF StreamsInv, OpenWriter, WritersInv
  <2> QED
    BY <2>1, <2>2, GrowsStep DEF StreamsInv
<1>3. ASSUME NEW w \in Writers, WriterCall(w) \/ CollectWriter(w)
      PROVE  StreamsInv'
  <2>1. Grows /\ WritersInv'
    BY <1>3, WriterCallOf DEF StreamsInv, WriterStep
  <2> QED
    BY <2>1, GrowsStep DEF StreamsInv
<1>4. ASSUME NEW chunk \in Chunks, append_chunk(chunk)
      PROVE  StreamsInv'
  <2>1. Next /\ writers' = writers
    BY <1>4 DEF append_chunk, Next
  <2> QED
    BY <2>1, ReaderInvIsKept, LifeInvIsKept DEF StreamsInv, WritersInv
<1>5. ASSUME NEW chunk \in Chunks, overwrite(chunk)
      PROVE  StreamsInv'
  BY <1>5, OverwriteStep
<1>6. CASE UNCHANGED stream_vars
  <2>1. UNCHANGED vars /\ writers' = writers
    BY <1>6 DEF stream_vars, writer_vars
  <2> QED
    BY <2>1, ReaderInvIsKept, LifeInvIsKept DEF StreamsInv, WritersInv
<1> QED
  BY <1>1, <1>2, <1>3, <1>4, <1>5, <1>6, Zenon DEF StreamsNext

LEMMA StreamsInvariant == StreamsSpec => []StreamsInv
<1>1. StreamsInit => StreamsInv
  <2> SUFFICES ASSUME StreamsInit
               PROVE  StreamsInv
    OBVIOUS
  <2>1. ReaderInv /\ LifeInv
    BY InitialReaders, InitialLives DEF StreamsInit
  <2>2. Closed("none") \in WriterStreams
    BY DEF Closed, WriterStreams
  <2> QED
    BY <2>1, <2>2 DEF StreamsInv, StreamsInit, WritersInv
<1>2. StreamsInv /\ [StreamsNext]_stream_vars => StreamsInv'
  BY StreamsInvIsKept
<1> QED
  BY <1>1, <1>2, PTL DEF StreamsSpec

\* However many readers and writers there are, whatever the file holds, whenever buffers
\* spill and whatever is appended, the text that a script got or passed over since its
\* reader was told to have moved is the file's, from that place to the place of the stream;
\* after the reset of a failed reader and after last_bytes_count nothing is claimed until
\* the next move (Reader.cpp:16-124, Writer.cpp:13-76, File.cpp:49-70).
THEOREM ScriptsKnowWhereTheyAreCorrect == StreamsSpec => []ScriptsKnowWhereTheyAre
<1>1. StreamsInv => ScriptsKnowWhereTheyAre
  BY Zenon DEF StreamsInv, ReaderInv, ScriptsKnowWhereTheyAre, Matches, Covers
<1> QED
  BY <1>1, StreamsInvariant, PTL
-----------------------------------------------------------------------------
(***************************************************************************)
(* What is written arrives: the elements of a sequence at some places, one *)
(* place after the other.                                                  *)
(***************************************************************************)
Choosing(u, s, places, S, n) ==
  /\ u \in [0 .. n -> Seq(S)] /\ u[0] = <<>>
  /\ \A k \in 1 .. n : u[k] = IF k \in places THEN Append(u[k - 1], s[k]) ELSE u[k - 1]
IsUpto(u, s, places) ==
  u = [n \in 0 .. Len(s) |-> IF n = 0 THEN <<>>
                             ELSE IF n \in places THEN Append(u[n - 1], s[n]) ELSE u[n - 1]]

LEMMA ChoosingExists ==
  ASSUME NEW S, NEW s \in Seq(S), NEW places
  PROVE  \E u : Choosing(u, s, places, S, Len(s))
<1> DEFINE N == {n \in 0 .. Len(s) : \E u : Choosing(u, s, places, S, n)}
<1>1. Len(s) \in Nat /\ \A k \in 1 .. Len(s) : s[k] \in S
  BY LenProperties, ElementOfSeq
<1>2. 0 \in N
  <2> DEFINE u == [k \in 0 .. 0 |-> <<>>]
  <2>1. Choosing(u, s, places, S, 0)
    BY DEF Choosing
  <2> HIDE DEF u
  <2> QED
    BY <1>1, <2>1
<1>3. ASSUME NEW n \in 1 .. Len(s), n - 1 \in N
      PROVE  n \in N
  <2>1. PICK v : Choosing(v, s, places, S, n - 1)
    BY <1>3
  <2> DEFINE last == IF n \in places THEN Append(v[n - 1], s[n]) ELSE v[n - 1]
             u == [k \in 0 .. n |-> IF k = n THEN last ELSE v[k]]
  <2>2. last \in Seq(S)
    BY <1>1, <2>1 DEF Choosing
  <2>3. \A k \in 0 .. n - 1 : k \in 0 .. n /\ u[k] = v[k] /\ v[k] \in Seq(S)
    BY <2>1 DEF Choosing
  <2>4. u[n] = last
    OBVIOUS
  <2> HIDE DEF last
  <2>5. u \in [0 .. n -> Seq(S)]
    <3>1. \A k \in 0 .. n : k = n \/ k \in 0 .. n - 1
      OBVIOUS
    <3> QED
      BY <2>2, <2>3, <2>4, <3>1
  <2>6. u[0] = <<>>
    BY <2>1, <2>3 DEF Choosing
  <2> HIDE DEF u
  <2>7. ASSUME NEW k \in 1 .. n
        PROVE  u[k] = IF k \in places THEN Append(u[k - 1], s[k]) ELSE u[k - 1]
    <3>1. CASE k = n
      <4>1. n - 1 \in 0 .. n - 1
        OBVIOUS
      <4> QED
        BY <2>3, <2>4, <3>1, <4>1 DEF last
    <3>2. CASE k # n
      <4>1. k \in 1 .. n - 1 /\ k \in 0 .. n - 1 /\ k - 1 \in 0 .. n - 1
        BY <3>2
      <4>2. u[k] = v[k] /\ u[k - 1] = v[k - 1]
        BY <2>3, <4>1
      <4> QED
        BY <2>1, <4>1, <4>2 DEF Choosing
    <3> QED
      BY <3>1, <3>2
  <2>8. Choosing(u, s, places, S, n)
    BY <2>5, <2>6, <2>7 DEF Choosing
  <2> QED
    BY <1>3, <2>8
<1> HIDE DEF N
<1>4. 0 .. Len(s) \subseteq N
  BY <1>1, <1>2, <1>3, Upward
<1> QED
  BY <1>1, <1>4 DEF N

LEMMA ChosenIs ==
  ASSUME NEW S, NEW s \in Seq(S), NEW places
  PROVE  \E u : Choosing(u, s, places, S, Len(s)) /\ Chosen(s, places) = u[Len(s)]
<1> DEFINE g == CHOOSE u : IsUpto(u, s, places)
<1>1. Len(s) \in Nat /\ \A k \in 1 .. Len(s) : s[k] \in S
  BY LenProperties, ElementOfSeq
<1>2. PICK u : Choosing(u, s, places, S, Len(s))
  BY ChoosingExists
<1>3. IsUpto(u, s, places)
  <2>1. u = [n \in 0 .. Len(s) |-> u[n]]
    BY <1>2 DEF Choosing
  <2>2. \A n \in 0 .. Len(s) : u[n] = IF n = 0 THEN <<>>
                    ELSE IF n \in places THEN Append(u[n - 1], s[n]) ELSE u[n - 1]
    <3>1. \A n \in 0 .. Len(s) : n # 0 => n \in 1 .. Len(s)
      BY <1>1
    <3> QED
      BY <1>2, <3>1, Zenon DEF Choosing
  <2> QED
    BY <2>1, <2>2 DEF IsUpto
<1>4. IsUpto(g, s, places)
  BY <1>3
<1>5. Chosen(s, places) = g[Len(s)]
  BY DEF Chosen, IsUpto
<1> HIDE DEF g
<1>6. g = [n \in 0 .. Len(s) |-> g[n]]
  BY <1>4, Zenon DEF IsUpto
<1> DEFINE e == [n \in 0 .. Len(s) |-> IF n = 0 THEN <<>>
                     ELSE IF n \in places THEN Append(g[n - 1], s[n]) ELSE g[n - 1]]
<1>14. g = e
  BY <1>4, Zenon DEF IsUpto
<1>15. \A n \in 0 .. Len(s) : e[n] = IF n = 0 THEN <<>>
                     ELSE IF n \in places THEN Append(g[n - 1], s[n]) ELSE g[n - 1]
  BY Zenon
<1> HIDE DEF e
<1>7. g[0] = <<>>
  BY <1>1, <1>14, <1>15
<1>8. ASSUME NEW k \in 1 .. Len(s)
      PROVE  g[k] = IF k \in places THEN Append(g[k - 1], s[k]) ELSE g[k - 1]
  <2>1. k \in 0 .. Len(s) /\ k # 0
    BY <1>1
  <2> QED
    BY <1>14, <1>15, <2>1, Zenon
<1> DEFINE N == {n \in 0 .. Len(s) : g[n] \in Seq(S)}
<1>9. 0 \in N
  <2>1. 0 \in 0 .. Len(s) /\ <<>> \in Seq(S)
    BY <1>1
  <2> QED
    BY <1>7, <2>1
<1>10. ASSUME NEW k \in 1 .. Len(s), k - 1 \in N
       PROVE  k \in N
  <2>1. g[k - 1] \in Seq(S) /\ s[k] \in S /\ k \in 0 .. Len(s)
    BY <1>1, <1>10
  <2>2. Append(g[k - 1], s[k]) \in Seq(S)
    BY <2>1, AppendProperties
  <2> QED
    BY <1>8, <2>1, <2>2
<1>11. 0 .. Len(s) \subseteq N
  <2> HIDE DEF N
  <2> QED
    BY <1>1, <1>9, <1>10, Upward
<1>12. g \in [0 .. Len(s) -> Seq(S)]
  BY <1>6, <1>11
<1>13. Choosing(g, s, places, S, Len(s))
  BY <1>7, <1>8, <1>12 DEF Choosing
<1> QED
  BY <1>5, <1>13

LEMMA ConcatOneMore ==
  ASSUME NEW S, NEW p \in Seq(S), NEW q \in Seq(S), NEW k \in 1 .. Len(q)
  PROVE  Append(p \o SubSeq(q, 1, k - 1), q[k]) = p \o SubSeq(q, 1, k)
<1>1. SubSeq(q, 1, k - 1) \in Seq(S) /\ q[k] \in S
  BY ElementOfSeq
<1>2. Append(SubSeq(q, 1, k - 1), q[k]) = SubSeq(q, 1, k)
  OBVIOUS
<1>3. \A r \in Seq(S) : \A x \in S : Append(p \o r, x) = p \o Append(r, x)
  OBVIOUS
<1> QED
  BY <1>1, <1>2, <1>3

\* More elements, all at chosen places or none.
LEMMA ChosenOfMore ==
  ASSUME NEW S, NEW s \in Seq(S), NEW t \in Seq(S), NEW P, NEW Q,
         \A k \in 1 .. Len(s) : k \in Q <=> k \in P
  PROVE  /\ Chosen(s, P) \in Seq(S)
         /\ (\A k \in 1 .. Len(t) : Len(s) + k \in Q) => Chosen(s \o t, Q) = Chosen(s, P) \o t
         /\ (\A k \in 1 .. Len(t) : Len(s) + k \notin Q) => Chosen(s \o t, Q) = Chosen(s, P)
<1>1. /\ Len(s) \in Nat /\ Len(t) \in Nat /\ \A k \in 1 .. Len(t) : t[k] \in S
      /\ s \o t \in Seq(S) /\ Len(s \o t) = Len(s) + Len(t)
      /\ \A k \in 1 .. Len(s) : (s \o t)[k] = s[k]
      /\ \A k \in 1 .. Len(t) : (s \o t)[Len(s) + k] = t[k]
  <2>1. Len(s) \in Nat /\ Len(t) \in Nat /\ \A k \in 1 .. Len(t) : t[k] \in S
    BY LenProperties, ElementOfSeq
  <2>2. /\ s \o t \in Seq(S) /\ Len(s \o t) = Len(s) + Len(t)
        /\ \A i \in 1 .. Len(s) + Len(t) : (s \o t)[i] = IF i <= Len(s) THEN s[i] ELSE t[i - Len(s)]
    BY ConcatProperties
  <2> QED
    BY <2>1, <2>2
<1>2. PICK u : Choosing(u, s, P, S, Len(s)) /\ Chosen(s, P) = u[Len(s)]
  BY ChosenIs
<1>3. PICK v : Choosing(v, s \o t, Q, S, Len(s) + Len(t)) /\ Chosen(s \o t, Q) = v[Len(s) + Len(t)]
  <2>1. \E v : Choosing(v, s \o t, Q, S, Len(s \o t)) /\ Chosen(s \o t, Q) = v[Len(s \o t)]
    BY <1>1, ChosenIs
  <2> QED
    BY <1>1, <2>1, Zenon
<1> DEFINE N == {n \in 0 .. Len(s) : v[n] = u[n]}
<1>4. 0 \in N
  BY <1>1, <1>2, <1>3 DEF Choosing
<1>5. ASSUME NEW k \in 1 .. Len(s), k - 1 \in N
      PROVE  k \in N
  <2>1. k \in 1 .. Len(s) + Len(t) /\ k \in 0 .. Len(s)
    BY <1>1
  <2>2. v[k] = IF k \in Q THEN Append(v[k - 1], (s \o t)[k]) ELSE v[k - 1]
    BY <1>3, <2>1 DEF Choosing
  <2>3. u[k] = IF k \in P THEN Append(u[k - 1], s[k]) ELSE u[k - 1]
    BY <1>2 DEF Choosing
  <2>4. v[k - 1] = u[k - 1] /\ (s \o t)[k] = s[k]
    BY <1>1, <1>5
  <2> QED
    BY <2>1, <2>2, <2>3, <2>4
<1>6. v[Len(s)] = u[Len(s)] /\ u[Len(s)] \in Seq(S)
  <2> HIDE DEF N
  <2>1. 0 .. Len(s) \subseteq N
    BY <1>1, <1>4, <1>5, Upward
  <2> QED
    BY <1>1, <1>2, <2>1 DEF N, Choosing
<1>7. \A k \in 1 .. Len(t) : v[Len(s) + k] = IF Len(s) + k \in Q THEN Append(v[Len(s) + (k - 1)], t[k])
                                             ELSE v[Len(s) + (k - 1)]
  <2> SUFFICES ASSUME NEW k \in 1 .. Len(t)
               PROVE  v[Len(s) + k] = IF Len(s) + k \in Q THEN Append(v[Len(s) + (k - 1)], t[k])
                                      ELSE v[Len(s) + (k - 1)]
    OBVIOUS
  <2>1. Len(s) + k \in 1 .. Len(s) + Len(t) /\ (Len(s) + k) - 1 = Len(s) + (k - 1)
    BY <1>1
  <2>2. v[Len(s) + k] = IF Len(s) + k \in Q THEN Append(v[(Len(s) + k) - 1], (s \o t)[Len(s) + k])
                        ELSE v[(Len(s) + k) - 1]
    BY <1>3, <2>1 DEF Choosing
  <2> QED
    BY <1>1, <2>1, <2>2
<1>8. ASSUME \A k \in 1 .. Len(t) : Len(s) + k \notin Q
      PROVE  v[Len(s) + Len(t)] = u[Len(s)]
  <2> DEFINE M == {k \in 0 .. Len(t) : v[Len(s) + k] = u[Len(s)]}
  <2>1. 0 \in M
    BY <1>1, <1>6
  <2>2. \A k \in 1 .. Len(t) : k - 1 \in M => k \in M
    BY <1>1, <1>7, <1>8
  <2>3. 0 .. Len(t) \subseteq M
    <3> HIDE DEF M
    <3> QED
      BY <1>1, <2>1, <2>2, Upward
  <2> QED
    BY <1>1, <2>3
<1>9. ASSUME \A k \in 1 .. Len(t) : Len(s) + k \in Q
      PROVE  v[Len(s) + Len(t)] = u[Len(s)] \o t
  <2> DEFINE c == u[Len(s)]
             M == {k \in 0 .. Len(t) : v[Len(s) + k] = c \o SubSeq(t, 1, k)}
  <2> HIDE DEF c
  <2>0. c \in Seq(S)
    BY <1>6 DEF c
  <2>1. 0 \in M
    <3>1. SubSeq(t, 1, 0) = <<>>
      BY <1>1, SubSeqEmpty
    <3>2. c \o <<>> = c
      BY <2>0, ConcatEmptySeq
    <3>3. Len(s) + 0 = Len(s) /\ 0 \in 0 .. Len(t)
      BY <1>1
    <3> QED
      BY <1>6, <3>1, <3>2, <3>3 DEF c
  <2>2. ASSUME NEW k \in 1 .. Len(t), k - 1 \in M
        PROVE  k \in M
    <3>1. v[Len(s) + k] = Append(c \o SubSeq(t, 1, k - 1), t[k])
      BY <1>7, <1>9, <2>2
    <3>2. Append(c \o SubSeq(t, 1, k - 1), t[k]) = c \o SubSeq(t, 1, k)
      BY <2>0, ConcatOneMore
    <3>4. k \in 0 .. Len(t)
      BY <1>1
    <3> QED
      BY <3>1, <3>2, <3>4
  <2>3. 0 .. Len(t) \subseteq M
    <3> HIDE DEF M
    <3> QED
      BY <1>1, <2>1, <2>2, Upward
  <2>4. SubSeq(t, 1, Len(t)) = t
    BY SubSeqFull
  <2>5. Len(t) \in M
    <3>1. Len(t) \in 0 .. Len(t)
      BY <1>1
    <3> QED
      BY <2>3, <3>1
  <2> QED
    BY <2>4, <2>5 DEF c
<1> QED
  BY <1>1, <1>2, <1>3, <1>6, <1>8, <1>9
LEMMA AllMore ==
  ASSUME NEW S, NEW told \in Seq(S), NEW said \in Seq(S), NEW before, NEW after,
         \A k \in 1 .. Len(told) : k \in after <=> k \in before,
         \A k \in 1 .. Len(said) : Len(told) + k \in after
  PROVE  Chosen(told \o said, after) = Chosen(told, before) \o said
BY ChosenOfMore

LEMMA NoMore ==
  ASSUME NEW S, NEW told \in Seq(S), NEW said \in Seq(S), NEW before, NEW after,
         \A k \in 1 .. Len(told) : k \in after <=> k \in before,
         \A k \in 1 .. Len(said) : Len(told) + k \notin after
  PROVE  Chosen(told \o said, after) = Chosen(told, before)
BY ChosenOfMore
-----------------------------------------------------------------------------
SentChars == [char : Chars, mute : BOOLEAN]
CharsOf(s) == [i \in DOMAIN s |-> s[i].char]
AloudIn(s) == {i \in DOMAIN s : ~s[i].mute}
PlacesOf(w) == {i \in DOMAIN disk : author[i] = w}

\* A writer that is not freed is mute as long as its stream has failed, which it has to be
\* opened for.
ArriveInv ==
  /\ author \in Seq(Writers \cup {NoWriter}) /\ Len(author) = Len(disk)
  /\ sent \in [Writers -> Seq(SentChars)]
  /\ \A w \in Writers : /\ writers[w].state # "freed" => (writers[w].failed <=> w \in mute)
                        /\ writers[w].state = "none" => ~writers[w].failed
  /\ WritesArrive

LEMMA CharsOfSent ==
  ASSUME NEW s \in Seq(SentChars)
  PROVE  CharsOf(s) \in Seq(Chars) /\ Len(CharsOf(s)) = Len(s)
<1>1. Len(s) \in Nat /\ DOMAIN s = 1 .. Len(s) /\ \A i \in 1 .. Len(s) : s[i].char \in Chars
  <2>1. Len(s) \in Nat /\ DOMAIN s = 1 .. Len(s) /\ \A i \in 1 .. Len(s) : s[i] \in SentChars
    BY LenProperties, ElementOfSeq
  <2> QED
    BY <2>1 DEF SentChars
<1>2. CharsOf(s) \in [1 .. Len(s) -> Chars]
  BY <1>1 DEF CharsOf
<1> QED
  BY <1>1, <1>2, SeqDef, LenProperties

LEMMA ElementsOfBoth ==
  ASSUME NEW told \in Seq(Chars), NEW said \in Seq(Chars)
  PROVE  /\ told \o said \in Seq(Chars) /\ Len(told \o said) = Len(told) + Len(said)
         /\ \A i \in 1 .. Len(told) + Len(said) :
              (told \o said)[i] = IF i <= Len(told) THEN told[i] ELSE said[i - Len(told)]
BY ConcatProperties

\* What was sent, and more of it: aloud, or while the writer was mute.
Aloud(s) == Chosen(CharsOf(s), AloudIn(s))
AndSaid(s, said, m) == s \o [i \in DOMAIN said |-> [char |-> said[i], mute |-> m]]
LEMMA SentMore ==
  ASSUME NEW s \in Seq(SentChars), NEW said \in Seq(Chars), NEW m \in BOOLEAN
  PROVE  /\ AndSaid(s, said, m) \in Seq(SentChars) /\ Aloud(s) \in Seq(Chars)
         /\ Aloud(AndSaid(s, said, m)) = IF m THEN Aloud(s) ELSE Aloud(s) \o said
<1> DEFINE t == AndSaid(s, said, m)
           e == [i \in DOMAIN said |-> [char |-> said[i], mute |-> m]]
<1>1. /\ Len(said) \in Nat /\ DOMAIN said = 1 .. Len(said)
      /\ \A i \in 1 .. Len(said) : said[i] \in Chars
      /\ Len(s) \in Nat /\ DOMAIN s = 1 .. Len(s) /\ \A i \in 1 .. Len(s) : s[i] \in SentChars
  BY LenProperties, ElementOfSeq
<1>2. /\ e \in [1 .. Len(said) -> SentChars]
      /\ \A i \in 1 .. Len(said) : e[i].char = said[i] /\ e[i].mute = m
  BY <1>1 DEF SentChars
<1> HIDE DEF e, t
<1>3. e \in Seq(SentChars) /\ Len(e) = Len(said)
  BY <1>1, <1>2, SeqDef, LenProperties
<1>4. /\ t \in Seq(SentChars) /\ Len(t) = Len(s) + Len(said) /\ DOMAIN t = 1 .. Len(s) + Len(said)
      /\ \A i \in 1 .. Len(s) : t[i] = s[i]
      /\ \A i \in 1 .. Len(said) : t[Len(s) + i] = e[i]
  <2>1. t = s \o e
    BY DEF e, t, AndSaid
  <2>2. /\ s \o e \in Seq(SentChars) /\ Len(s \o e) = Len(s) + Len(e)
        /\ \A i \in 1 .. Len(s) + Len(e) : (s \o e)[i] = IF i <= Len(s) THEN s[i] ELSE e[i - Len(s)]
    BY <1>3, ConcatProperties
  <2>3. t \in Seq(SentChars) /\ Len(t) = Len(s) + Len(said)
    BY <1>3, <2>1, <2>2
  <2>4. DOMAIN t = 1 .. Len(t)
    BY <2>3, LenProperties
  <2>5. /\ \A i \in 1 .. Len(s) : t[i] = s[i]
        /\ \A i \in 1 .. Len(said) : t[Len(s) + i] = e[i]
    BY <1>1, <1>3, <2>1, <2>2
  <2> QED
    BY <2>3, <2>4, <2>5
<1>5. CharsOf(s) \in Seq(Chars) /\ Len(CharsOf(s)) = Len(s)
      /\ CharsOf(t) \in Seq(Chars) /\ Len(CharsOf(t)) = Len(t)
  BY <1>4, CharsOfSent
<1>6. CharsOf(t) = CharsOf(s) \o said
  <2>1. \A i \in 1 .. Len(s) : CharsOf(t)[i] = s[i].char /\ CharsOf(s)[i] = s[i].char
    BY <1>1, <1>4 DEF CharsOf
  <2>2. \A i \in 1 .. Len(said) : CharsOf(t)[Len(s) + i] = said[i]
    BY <1>1, <1>2, <1>4 DEF CharsOf
  <2>3. /\ CharsOf(s) \o said \in Seq(Chars) /\ Len(CharsOf(s) \o said) = Len(t)
        /\ \A i \in 1 .. Len(s) + Len(said) : (CharsOf(s) \o said)[i] =
             IF i <= Len(s) THEN CharsOf(s)[i] ELSE said[i - Len(s)]
    BY <1>4, <1>5, ElementsOfBoth
  <2>4. \A i \in 1 .. Len(t) : CharsOf(t)[i] = (CharsOf(s) \o said)[i]
    <3> SUFFICES ASSUME NEW i \in 1 .. Len(t)
                 PROVE  CharsOf(t)[i] = (CharsOf(s) \o said)[i]
      OBVIOUS
    <3>1. CASE i <= Len(s)
      BY <1>1, <1>4, <2>1, <2>3, <3>1
    <3>2. CASE ~(i <= Len(s))
      <4>1. i - Len(s) \in 1 .. Len(said) /\ Len(s) + (i - Len(s)) = i
        BY <1>1, <1>4, <3>2
      <4> QED
        BY <1>1, <1>4, <2>2, <2>3, <3>2, <4>1
    <3> QED
      BY <3>1, <3>2
  <2> QED
    BY <1>5, <2>3, <2>4, SeqEqual
<1>7. /\ \A i \in 1 .. Len(s) : i \in AloudIn(t) <=> i \in AloudIn(s)
      /\ \A i \in 1 .. Len(said) : Len(s) + i \in AloudIn(t) <=> ~m
  BY <1>1, <1>2, <1>4 DEF AloudIn
<1>8. \A k \in 1 .. Len(CharsOf(s)) : k \in AloudIn(t) <=> k \in AloudIn(s)
  BY <1>5, <1>7
<1>9. Chosen(CharsOf(s), AloudIn(s)) \in Seq(Chars)
  BY <1>5, <1>8, ChosenOfMore
<1> DEFINE told == CharsOf(s)
           before == AloudIn(s)
           after == AloudIn(t)
<1>10. told \in Seq(Chars) /\ (\A k \in 1 .. Len(told) : k \in after <=> k \in before)
  BY <1>5, <1>8
<1>11. \A k \in 1 .. Len(said) : Len(told) + k \in after <=> ~m
  BY <1>5, <1>7
<1> HIDE DEF told, before, after
<1>12. ASSUME m
       PROVE  Chosen(told \o said, after) = Chosen(told, before)
  <2>1. \A k \in 1 .. Len(said) : Len(told) + k \notin after
    BY <1>11, <1>12
  <2> QED
    BY <1>10, <2>1, NoMore
<1>13. ASSUME ~m
       PROVE  Chosen(told \o said, after) = Chosen(told, before) \o said
  <2>1. \A k \in 1 .. Len(said) : Len(told) + k \in after
    BY <1>11, <1>13
  <2> QED
    BY <1>10, <2>1, AllMore
<1> QED
  BY <1>4, <1>6, <1>9, <1>12, <1>13 DEF Aloud, t, told, before, after

\* What a writer's stream spills.
LEMMA CharsMore ==
  ASSUME ReaderInv, ArriveInv, NEW w, NEW text \in Seq(Chars),
         disk' = disk \o text, author' = author \o [i \in 1 .. Len(text) |-> w],
         w \in Writers \cup {NoWriter}
  PROVE  /\ author' \in Seq(Writers \cup {NoWriter}) /\ Len(author') = Len(disk')
         /\ \A v : CharsBy(v) \in Seq(Chars)
         /\ CharsBy(w)' = CharsBy(w) \o text
         /\ \A v : v # w => CharsBy(v)' = CharsBy(v)
<1> DEFINE A == Writers \cup {NoWriter}
           by == [i \in 1 .. Len(text) |-> w]
<1>1. /\ disk \in Seq(Chars) /\ author \in Seq(A) /\ Len(author) = Len(disk)
      /\ Len(disk) \in Nat /\ Len(text) \in Nat /\ DOMAIN disk = 1 .. Len(disk)
  BY LenProperties DEF ReaderInv, ArriveInv
<1>2. by \in Seq(A) /\ Len(by) = Len(text) /\ \A i \in 1 .. Len(text) : by[i] = w
  <2>1. by \in [1 .. Len(text) -> A] /\ \A i \in 1 .. Len(text) : by[i] = w
    OBVIOUS
  <2> HIDE DEF by, A
  <2>2. by \in Seq(A)
    BY <1>1, <2>1, SeqDef
  <2>3. DOMAIN by = 1 .. Len(text) /\ DOMAIN by = 1 .. Len(by) /\ Len(by) \in Nat
    BY <2>1, <2>2, LenProperties
  <2>4. Len(by) = Len(text)
    BY <1>1, <2>3
  <2> QED
    BY <2>1, <2>2, <2>4
<1> HIDE DEF A, by
<1>3. /\ author \o by \in Seq(A) /\ Len(author \o by) = Len(author) + Len(by)
      /\ \A i \in 1 .. Len(author) + Len(by) :
           (author \o by)[i] = IF i <= Len(author) THEN author[i] ELSE by[i - Len(author)]
  BY <1>1, <1>2, ConcatProperties
<1>4. /\ author' \in Seq(A) /\ Len(author') = Len(disk) + Len(text)
      /\ \A i \in 1 .. Len(disk) : author'[i] = author[i]
      /\ \A i \in 1 .. Len(text) : author'[Len(disk) + i] = w
  <2>1. author' = author \o by
    BY DEF by
  <2>2. Len(author') = Len(disk) + Len(text) /\ author' \in Seq(A)
    BY <1>1, <1>2, <1>3, <2>1
  <2>3. \A i \in 1 .. Len(disk) : author'[i] = author[i]
    BY <1>1, <1>2, <1>3, <2>1
  <2>4. \A i \in 1 .. Len(text) : author'[Len(disk) + i] = by[i]
    BY <1>1, <1>2, <1>3, <2>1
  <2> QED
    BY <1>2, <2>2, <2>3, <2>4
<1>5. /\ disk' \in Seq(Chars) /\ Len(disk') = Len(disk) + Len(text)
      /\ DOMAIN disk' = 1 .. Len(disk) + Len(text)
  <2>1. disk' \in Seq(Chars) /\ Len(disk') = Len(disk) + Len(text)
    BY <1>1, ConcatProperties
  <2> QED
    BY <2>1, LenProperties
<1>6. ASSUME NEW v
      PROVE  /\ \A i \in 1 .. Len(disk) : i \in PlacesOf(v)' <=> i \in PlacesOf(v)
             /\ \A i \in 1 .. Len(text) : Len(disk) + i \in PlacesOf(v)' <=> v = w
  <2>1. PlacesOf(v)' = {i \in 1 .. Len(disk) + Len(text) : author'[i] = v}
    BY <1>5 DEF PlacesOf
  <2>2. PlacesOf(v) = {i \in 1 .. Len(disk) : author[i] = v}
    BY <1>1 DEF PlacesOf
  <2>3. /\ \A i \in 1 .. Len(disk) : i \in 1 .. Len(disk) + Len(text)
        /\ \A i \in 1 .. Len(text) : Len(disk) + i \in 1 .. Len(disk) + Len(text)
    BY <1>1
  <2> QED
    BY <1>4, <2>1, <2>2, <2>3
<1>7. ASSUME NEW v
      PROVE  /\ CharsBy(v) \in Seq(Chars)
             /\ v = w => CharsBy(v)' = CharsBy(v) \o text
             /\ v # w => CharsBy(v)' = CharsBy(v)
  <2>1. CharsBy(v) = Chosen(disk, PlacesOf(v)) /\ CharsBy(v)' = Chosen(disk \o text, PlacesOf(v)')
    BY DEF CharsBy, PlacesOf
  <2> DEFINE P == PlacesOf(v)
             Q == PlacesOf(v)'
  <2>2. /\ \A k \in 1 .. Len(disk) : k \in Q <=> k \in P
        /\ v = w => \A k \in 1 .. Len(text) : Len(disk) + k \in Q
        /\ v # w => \A k \in 1 .. Len(text) : Len(disk) + k \notin Q
    BY <1>6
  <2>3. CharsBy(v) = Chosen(disk, P) /\ CharsBy(v)' = Chosen(disk \o text, Q)
    BY <2>1
  <2> HIDE DEF P, Q
  <2>4. /\ Chosen(disk, P) \in Seq(Chars)
        /\ (\A k \in 1 .. Len(text) : Len(disk) + k \in Q) =>
             Chosen(disk \o text, Q) = Chosen(disk, P) \o text
        /\ (\A k \in 1 .. Len(text) : Len(disk) + k \notin Q) =>
             Chosen(disk \o text, Q) = Chosen(disk, P)
    BY <1>1, <2>2, ChosenOfMore
  <2> QED
    BY <2>2, <2>3, <2>4, Zenon
<1> QED
  BY <1>4, <1>5, <1>7, Zenon DEF A

\* A step of a writer: what its script says, and what its stream spills of that and of
\* what the buffer held before.
Puts(w, s, n) ==
  /\ disk' = disk \o SubSeq(s.buffer, 1, n)
  /\ author' = author \o [i \in 1 .. n |-> w]
  /\ writers' = [writers EXCEPT ![w] = [s EXCEPT !.buffer = SubSeq(@, n + 1, Len(@))]]
Says(w, said, m) == sent' = [sent EXCEPT ![w] = AndSaid(@, said, m)]

LEMMA CutAt ==
  ASSUME NEW S, NEW b \in Seq(S), NEW n \in 0 .. Len(b)
  PROVE  /\ SubSeq(b, 1, n) \in Seq(S) /\ Len(SubSeq(b, 1, n)) = n
         /\ SubSeq(b, n + 1, Len(b)) \in Seq(S)
         /\ SubSeq(b, 1, n) \o SubSeq(b, n + 1, Len(b)) = b
         /\ n = Len(b) => SubSeq(b, n + 1, Len(b)) = <<>>
<1>1. Len(b) \in Nat /\ n \in Nat /\ n <= Len(b)
  BY LenProperties
<1>2. /\ SubSeq(b, 0 + 1, n) \in Seq(S) /\ Len(SubSeq(b, 0 + 1, n)) = IF 0 < n THEN n - 0 ELSE 0
      /\ SubSeq(b, n + 1, Len(b)) \in Seq(S)
  BY <1>1, PieceOf
<1>3. SubSeq(b, 0 + 1, n) \o SubSeq(b, n + 1, n + (Len(b) - n)) = SubSeq(b, 0 + 1, n + (Len(b) - n))
  <2>1. 0 <= n /\ Len(b) - n \in Nat /\ n + (Len(b) - n) <= Len(b)
    BY <1>1
  <2> QED
    <3>1. \A p, q, k \in Nat :
            p <= q /\ (q <= Len(b) \/ p = q) /\ (k = 0 \/ q + k <= Len(b)) =>
              SubSeq(b, p + 1, q) \o SubSeq(b, q + 1, q + k) = SubSeq(b, p + 1, q + k)
      BY PiecesMeet
    <3>2. 0 \in Nat
      OBVIOUS
    <3> QED
      BY <1>1, <2>1, <3>1, <3>2
<1>4. n + (Len(b) - n) = Len(b) /\ 0 + 1 = 1 /\ (IF 0 < n THEN n - 0 ELSE 0) = n
  BY <1>1
<1>5. SubSeq(b, 1, Len(b)) = b
  BY SubSeqFull
<1>6. n = Len(b) => SubSeq(b, n + 1, Len(b)) = <<>>
  BY <1>1, SubSeqEmpty
<1> QED
  BY <1>2, <1>3, <1>4, <1>5, <1>6

LEMMA OtherBracket ==
  ASSUME NEW S, NEW x \in Seq(S), NEW y \in Seq(S), NEW z \in Seq(S)
  PROVE  (x \o y) \o z = x \o (y \o z)
BY ConcatAssociative

LEMMA ArriveStep ==
  ASSUME ReaderInv, WritersInv, ArriveInv, NEW w \in Writers, NEW s \in WriterStreams,
         NEW said \in Seq(Chars), NEW m \in BOOLEAN, NEW n \in 0 .. Len(s.buffer),
         Says(w, said, m), Puts(w, s, n),
         s.buffer = IF m THEN writers[w].buffer ELSE writers[w].buffer \o said,
         s.state # "open" => n = Len(s.buffer),
         s.state # "none", s.state # "freed" => (s.failed <=> w \in mute'),
         \A v \in Writers : v # w => (v \in mute' <=> v \in mute)
  PROVE  ArriveInv'
<1> DEFINE b == s.buffer
           text == SubSeq(b, 1, n)
           rest == SubSeq(b, n + 1, Len(b))
<1>1. b \in Seq(Chars) /\ n \in 0 .. Len(b)
  BY DEF WriterStreams
<1>2. /\ text \in Seq(Chars) /\ Len(text) = n /\ rest \in Seq(Chars) /\ text \o rest = b
      /\ n = Len(b) => rest = <<>>
  <2> HIDE DEF b
  <2>1. \A x \in Seq(Chars) : \A k \in 0 .. Len(x) :
           /\ SubSeq(x, 1, k) \in Seq(Chars) /\ Len(SubSeq(x, 1, k)) = k
           /\ SubSeq(x, k + 1, Len(x)) \in Seq(Chars)
           /\ SubSeq(x, 1, k) \o SubSeq(x, k + 1, Len(x)) = x
           /\ k = Len(x) => SubSeq(x, k + 1, Len(x)) = <<>>
    BY CutAt
  <2> QED
    BY <1>1, <2>1
<1>3. /\ disk' = disk \o text /\ author' = author \o [i \in 1 .. Len(text) |-> w]
      /\ writers' = [writers EXCEPT ![w] = [s EXCEPT !.buffer = rest]]
  BY <1>2 DEF Puts
<1> HIDE DEF text, rest, b
<1>4. /\ author' \in Seq(Writers \cup {NoWriter}) /\ Len(author') = Len(disk')
      /\ CharsBy(w) \in Seq(Chars) /\ CharsBy(w)' = CharsBy(w) \o text
      /\ \A v : v # w => CharsBy(v)' = CharsBy(v)
  BY <1>2, <1>3, CharsMore
<1>5. /\ writers \in [Writers -> WriterStreams] /\ sent \in [Writers -> Seq(SentChars)]
      /\ \A v \in Writers : writers[v].buffer \in Seq(Chars)
  BY DEF WritersInv, ArriveInv, WriterStreams
<1>6. /\ writers'[w].buffer = rest /\ writers'[w].state = s.state /\ writers'[w].failed = s.failed
      /\ \A v \in Writers : v # w => writers'[v] = writers[v]
  BY <1>3, <1>5 DEF WriterStreams
<1>7. /\ sent'[w] = sent[w] \o [i \in DOMAIN said |-> [char |-> said[i], mute |-> m]]
      /\ \A v \in Writers : v # w => sent'[v] = sent[v]
  BY <1>5 DEF Says, AndSaid
<1>8. /\ sent'[w] \in Seq(SentChars) /\ SentAloud(w) \in Seq(Chars)
      /\ SentAloud(w)' = IF m THEN SentAloud(w) ELSE SentAloud(w) \o said
  <2>1. sent[w] \in Seq(SentChars)
    BY <1>5
  <2>2. sent'[w] = AndSaid(sent[w], said, m)
    BY <1>7 DEF AndSaid
  <2>3. /\ sent'[w] \in Seq(SentChars) /\ Aloud(sent[w]) \in Seq(Chars)
        /\ Aloud(sent'[w]) = IF m THEN Aloud(sent[w]) ELSE Aloud(sent[w]) \o said
    <3>1. AndSaid(sent[w], said, m) \in Seq(SentChars) /\ Aloud(sent[w]) \in Seq(Chars)
      BY <2>1, SentMore
    <3>2. CASE m
      <4>1. Aloud(AndSaid(sent[w], said, m)) = Aloud(sent[w])
        BY <2>1, <3>2, SentMore
      <4> QED
        BY <2>2, <3>1, <3>2, <4>1
    <3>3. CASE ~m
      <4>1. Aloud(AndSaid(sent[w], said, m)) = Aloud(sent[w]) \o said
        BY <2>1, <3>3, SentMore
      <4> QED
        BY <2>2, <3>1, <3>3, <4>1
    <3> QED
      BY <3>2, <3>3
  <2> QED
    BY <2>3 DEF SentAloud, Aloud, CharsOf, AloudIn
<1>9. sent' \in [Writers -> Seq(SentChars)]
  <2>1. \A v \in Writers : sent'[v] \in Seq(SentChars)
    BY <1>5, <1>7, <1>8
  <2> QED
    BY <1>5, <2>1 DEF Says
<1>10. SentAloud(w)' = CharsBy(w)' \o writers'[w].buffer
  <2>1. SentAloud(w) = CharsBy(w) \o writers[w].buffer
    BY DEF ArriveInv, WritesArrive
  <2>2. SentAloud(w)' = CharsBy(w) \o b
    <3>1. CASE m
      BY <1>8, <2>1, <3>1 DEF b
    <3>2. CASE ~m
      <4>1. SentAloud(w)' = (CharsBy(w) \o writers[w].buffer) \o said
        BY <1>8, <2>1, <3>2
      <4>2. (CharsBy(w) \o writers[w].buffer) \o said = CharsBy(w) \o (writers[w].buffer \o said)
        <5>1. CharsBy(w) \in Seq(Chars) /\ writers[w].buffer \in Seq(Chars) /\ said \in Seq(Chars)
          BY <1>4, <1>5
        <5> DEFINE x == CharsBy(w)
                   y == writers[w].buffer
        <5> HIDE DEF x, y
        <5>2. x \in Seq(Chars) /\ y \in Seq(Chars) /\ said \in Seq(Chars)
          BY <5>1 DEF x, y
        <5>3. (x \o y) \o said = x \o (y \o said)
          BY <5>2, OtherBracket
        <5> QED
          BY <5>3 DEF x, y
      <4> QED
        BY <3>2, <4>1, <4>2 DEF b
    <3> QED
      BY <3>1, <3>2
  <2>3. (CharsBy(w) \o text) \o rest = CharsBy(w) \o (text \o rest)
    <3>1. CharsBy(w) \in Seq(Chars) /\ text \in Seq(Chars) /\ rest \in Seq(Chars)
      BY <1>2, <1>4
    <3> DEFINE x == CharsBy(w)
    <3> HIDE DEF x
    <3>2. x \in Seq(Chars) /\ text \in Seq(Chars) /\ rest \in Seq(Chars)
      BY <3>1 DEF x
    <3>3. (x \o text) \o rest = x \o (text \o rest)
      BY <3>2
    <3> QED
      BY <3>3 DEF x
  <2> QED
    BY <1>2, <1>4, <1>6, <2>2, <2>3
<1>11. ASSUME NEW v \in Writers, v # w
       PROVE  SentAloud(v)' = CharsBy(v)' \o writers'[v].buffer
  <2>1. SentAloud(v) = CharsBy(v) \o writers[v].buffer
    BY DEF ArriveInv, WritesArrive
  <2>2. SentAloud(v)' = SentAloud(v)
    BY <1>7, <1>11 DEF SentAloud
  <2> QED
    BY <1>4, <1>6, <1>11, <2>1, <2>2
<1>12. \A v \in Writers : writers'[v].state # "open" => writers'[v].buffer = <<>>
  <2>1. \A v \in Writers : v # w => (writers[v].state # "open" => writers[v].buffer = <<>>)
    BY DEF ArriveInv, WritesArrive
  <2>2. s.state # "open" => rest = <<>>
    BY <1>2 DEF b
  <2> QED
    BY <1>6, <2>1, <2>2
<1>13. \A v \in Writers : /\ writers'[v].state # "freed" => (writers'[v].failed <=> v \in mute')
                          /\ writers'[v].state = "none" => ~writers'[v].failed
  <2>1. \A v \in Writers : /\ writers[v].state # "freed" => (writers[v].failed <=> v \in mute)
                           /\ writers[v].state = "none" => ~writers[v].failed
    BY DEF ArriveInv
  <2> QED
    BY <1>6, <2>1
<1>14. WritesArrive'
  <2>1. \A v \in Writers : SentAloud(v)' = CharsBy(v)' \o writers'[v].buffer
    BY <1>10, <1>11
  <2> QED
    BY <1>12, <2>1 DEF WritesArrive
<1> QED
  BY <1>4, <1>9, <1>13, <1>14 DEF ArriveInv

LEMMA KeepPuts ==
  ASSUME ReaderInv, ArriveInv, NEW w \in Writers, NEW s \in WriterStreams, Keep(w, s)
  PROVE  Puts(w, s, 0)
<1>1. s.buffer \in Seq(Chars) /\ disk \in Seq(Chars) /\ author \in Seq(Writers \cup {NoWriter})
  BY DEF ReaderInv, ArriveInv, WriterStreams
<1>2. disk \o SubSeq(s.buffer, 1, 0) = disk
  <2>1. SubSeq(s.buffer, 1, 0) = <<>>
    BY <1>1, SubSeqEmpty
  <2> QED
    BY <1>1, <2>1, ConcatEmptySeq
<1>3. author \o [i \in 1 .. 0 |-> w] = author
  <2>1. [i \in 1 .. 0 |-> w] = <<>>
    OBVIOUS
  <2> QED
    BY <1>1, <2>1, ConcatEmptySeq
<1>4. [s EXCEPT !.buffer = SubSeq(@, 0 + 1, Len(@))] = s
  <2>1. SubSeq(s.buffer, 0 + 1, Len(s.buffer)) = s.buffer
    BY <1>1, SubSeqFull
  <2> QED
    BY <2>1 DEF WriterStreams
<1> QED
  BY <1>2, <1>3, <1>4 DEF Keep, Puts

\* A step of a writer at which its script says nothing.
LEMMA SilentStep ==
  ASSUME ReaderInv, WritersInv, ArriveInv, NEW w \in Writers, NEW s \in WriterStreams,
         UNCHANGED sent, (Keep(w, s) /\ s.state = "open") \/ Flush(w, s),
         s.buffer = writers[w].buffer,
         s.state # "none", s.state # "freed" => (s.failed <=> w \in mute'),
         \A v \in Writers : v # w => (v \in mute' <=> v \in mute)
  PROVE  ArriveInv'
<1>1. <<>> \in Seq(Chars) /\ s.buffer \in Seq(Chars) /\ sent \in [Writers -> Seq(SentChars)]
  BY DEF WriterStreams, ArriveInv
<1>2. Says(w, <<>>, FALSE)
  <2>1. sent[w] \in Seq(SentChars)
    BY <1>1
  <2>2. [i \in DOMAIN <<>> |-> [char |-> <<>>[i], mute |-> FALSE]] = <<>>
    OBVIOUS
  <2>3. AndSaid(sent[w], <<>>, FALSE) = sent[w]
    BY <2>1, <2>2, ConcatEmptySeq DEF AndSaid
  <2>4. [sent EXCEPT ![w] = AndSaid(@, <<>>, FALSE)] = sent
    BY <1>1, <2>3
  <2> QED
    BY <2>4 DEF Says
<1>3. writers[w].buffer \o <<>> = writers[w].buffer
  BY <1>1, ConcatEmptySeq
<1>4. \E n \in 0 .. Len(s.buffer) : Puts(w, s, n) /\ (s.state # "open" => n = Len(s.buffer))
  <2>1. Len(s.buffer) \in 0 .. Len(s.buffer) /\ 0 \in 0 .. Len(s.buffer)
    BY <1>1, LenProperties
  <2>2. CASE Keep(w, s) /\ s.state = "open"
    BY <2>1, <2>2, KeepPuts
  <2>3. CASE Flush(w, s)
    <3>1. Puts(w, s, Len(s.buffer))
      BY <2>3 DEF Flush, Spill, Puts
    <3> QED
      BY <2>1, <3>1
  <2> QED
    BY <2>2, <2>3
<1>5. PICK n \in 0 .. Len(s.buffer) : Puts(w, s, n) /\ (s.state # "open" => n = Len(s.buffer))
  BY <1>4
<1>6. FALSE \in BOOLEAN
  OBVIOUS
<1> QED
  BY <1>1, <1>2, <1>3, <1>5, <1>6, ArriveStep

\* A step at which the script says something, aloud unless its writer is mute.
LEMMA SayingStep ==
  ASSUME ReaderInv, WritersInv, ArriveInv, NEW w \in Writers, NEW said \in Seq(Chars),
         Usable(w), Sends(w, said),
         IF writers[w].failed THEN Keep(w, writers[w])
         ELSE \E n \in 0 .. Len(writers[w].buffer \o said) : Spill(w, Buffered(writers[w], said), n)
  PROVE  ArriveInv'
<1> DEFINE s == writers[w]
<1>1. /\ s \in WriterStreams /\ s.state = "open" /\ s.failed \in BOOLEAN /\ s.buffer \in Seq(Chars)
      /\ mute' = mute /\ (s.failed <=> w \in mute)
  <2>1. s \in WriterStreams
    BY DEF WritersInv
  <2>2. s.state = "open" /\ mute' = mute
    BY DEF Usable, Sends
  <2>3. s.failed <=> w \in mute
    <3>1. s.state # "freed"
      BY <2>2
    <3> QED
      BY <3>1, Zenon DEF ArriveInv
  <2> QED
    BY <2>1, <2>2, <2>3 DEF WriterStreams
<1>2. Says(w, said, w \in mute) /\ (w \in mute) \in BOOLEAN
  BY DEF Sends, Says, AndSaid
<1>3. CASE s.failed
  <2>1. Puts(w, s, 0) /\ 0 \in 0 .. Len(s.buffer)
    BY <1>1, <1>3, KeepPuts, LenProperties
  <2>2. s.buffer = IF w \in mute THEN s.buffer ELSE s.buffer \o said
    BY <1>1, <1>3
  <2> QED
    BY <1>1, <1>2, <2>1, <2>2, ArriveStep
<1>4. CASE ~s.failed
  <2>1. PICK n \in 0 .. Len(s.buffer \o said) : Spill(w, Buffered(s, said), n)
    BY <1>4
  <2> DEFINE t == Buffered(s, said)
  <2>2. /\ t \in WriterStreams /\ t.buffer = s.buffer \o said /\ t.state = "open" /\ t.failed = s.failed
    BY <1>1, WriterOps DEF Buffered, WriterStreams
  <2>3. Puts(w, t, n)
    BY <2>1 DEF Spill, Puts
  <2> HIDE DEF t
  <2>4. n \in 0 .. Len(t.buffer) /\ t.buffer = IF w \in mute THEN s.buffer ELSE s.buffer \o said
    BY <1>1, <1>4, <2>2
  <2> QED
    BY <1>1, <1>2, <2>2, <2>3, <2>4, ArriveStep
<1> QED
  BY <1>3, <1>4

\* Nothing of what arrives changes.
LEMMA NothingArrives ==
  ASSUME ArriveInv, UNCHANGED <<disk, writers, author, sent, mute>>
  PROVE  ArriveInv'
<1>1. \A w : CharsBy(w)' = CharsBy(w) /\ SentAloud(w)' = SentAloud(w)
  BY DEF CharsBy, SentAloud
<1>2. WritesArrive'
  BY <1>1 DEF ArriveInv, WritesArrive
<1> QED
  BY <1>2 DEF ArriveInv

LEMMA WriterArrives ==
  ASSUME ReaderInv, WritersInv, ArriveInv, NEW w \in Writers, WriterCall(w) \/ CollectWriter(w)
  PROVE  ArriveInv'
<1> DEFINE s == writers[w]
<1>1. s.state = "open" => (s.failed <=> w \in mute)
  <2>1. s.state = "open" => s.state # "freed"
    OBVIOUS
  <2> QED
    BY <2>1, Zenon DEF ArriveInv
<1>2. s \in WriterStreams
  BY DEF WritersInv
<1>3. /\ Mended(s) \in WriterStreams /\ Mended(s).buffer = s.buffer
      /\ Mended(s).state = s.state /\ Mended(s).failed = FALSE
      /\ SeekFailed(s) \in WriterStreams /\ SeekFailed(s).buffer = s.buffer
      /\ SeekFailed(s).state = s.state /\ SeekFailed(s).failed = TRUE
  BY <1>2, WriterOps DEF Mended, SeekFailed, WriterStreams
<1>4. ASSUME NEW t \in WriterStreams, t.state = "open", UNCHANGED sent, Keep(w, t) \/ Flush(w, t),
             t.buffer = s.buffer, t.failed <=> w \in mute', \A v : v # w => (v \in mute' <=> v \in mute)
      PROVE  ArriveInv'
  BY <1>4, SilentStep
<1>5. ASSUME flush(w)
      PROVE  ArriveInv'
  <2>1. s.state = "open" /\ UNCHANGED <<sent, mute>> /\ (Keep(w, s) \/ Flush(w, s))
    BY <1>5 DEF flush, Usable, SendsNothing
  <2> QED
    BY <1>1, <1>2, <1>4, <2>1
<1>6. ASSUME reset_writer(w)
      PROVE  ArriveInv'
  <2>1. /\ s.state = "open" /\ sent' = sent /\ mute' = mute \ {w}
        /\ IF s.failed THEN Keep(w, Mended(s)) ELSE Flush(w, s)
    BY <1>6 DEF reset_writer, Usable, NotMute
  <2> QED
    BY <1>1, <1>2, <1>3, <1>4, <2>1
<1>7. ASSUME NEW n \in Offsets, try_writer_offset(w, n)
      PROVE  ArriveInv'
  <2>1. /\ s.state = "open" /\ sent' = sent /\ mute' = mute \ {w}
        /\ IF s.failed THEN Keep(w, Mended(s)) ELSE Flush(w, s)
    BY <1>7 DEF try_writer_offset, Usable, NotMute
  <2> QED
    BY <1>1, <1>2, <1>3, <1>4, <2>1
<1>8. ASSUME NEW n \in Offsets, set_writer_offset(w, n)
      PROVE  ArriveInv'
  <2>1. s.state = "open" /\ sent' = sent
    BY <1>8 DEF set_writer_offset, Usable
  <2>2. CASE s.failed
    <3>1. Keep(w, s) /\ mute' = mute \cup {w}
      BY <1>8, <2>2 DEF set_writer_offset
    <3> QED
      BY <1>1, <1>2, <1>4, <2>1, <2>2, <3>1
  <2>3. CASE ~s.failed /\ n < 0
    <3>1. Flush(w, SeekFailed(s)) /\ mute' = mute \cup {w}
      BY <1>8, <2>3 DEF set_writer_offset
    <3> QED
      BY <1>3, <1>4, <2>1, <3>1
  <2>4. CASE ~s.failed /\ ~(n < 0)
    <3>1. Flush(w, s) /\ mute' = mute
      BY <1>8, <2>4 DEF set_writer_offset
    <3> QED
      BY <1>1, <1>2, <1>4, <2>1, <3>1
  <2> QED
    BY <2>2, <2>3, <2>4
<1>9. ASSUME free_writer(w) \/ CollectWriter(w)
      PROVE  ArriveInv'
  <2> DEFINE t == [s EXCEPT !.state = "freed", !.failed = FALSE]
  <2>1. Flush(w, t) /\ UNCHANGED <<sent, mute>>
    BY <1>9 DEF free_writer, CollectWriter, Close, SendsNothing
  <2>2. t \in WriterStreams /\ t.state = "freed" /\ t.buffer = s.buffer
    BY <1>2, WriterOps DEF WriterStreams
  <2> HIDE DEF t
  <2> QED
    BY <2>1, <2>2, SilentStep
<1>10. ASSUME print_nothing(w) \/ writer_offset(w) \/ writer_eof(w) \/ Refused(w)
       PROVE  ArriveInv'
  BY <1>10, NothingArrives DEF print_nothing, writer_offset, writer_eof, Refused, SendsNothing, writer_vars
<1>11. ASSUME NEW said \in Seq(Chars), write(w, said)
       PROVE  ArriveInv'
  BY <1>11, SayingStep DEF write
<1>12. ASSUME NEW chunk \in Chunks, print(w, chunk)
       PROVE  ArriveInv'
  <2> DEFINE line == Append(chunk, Newline)
  <2>1. line \in Seq(Chars) /\ Usable(w) /\ Sends(w, line)
        /\ IF s.failed THEN Keep(w, s) ELSE Flush(w, Buffered(s, line))
    BY <1>12, TextOfChunks DEF print
  <2> HIDE DEF line
  <2>2. Buffered(s, line).buffer = s.buffer \o line /\ Len(s.buffer \o line) \in 0 .. Len(s.buffer \o line)
    <3>1. s.buffer \o line \in Seq(Chars)
      BY <1>2, <2>1, ConcatProperties DEF WriterStreams
    <3> QED
      BY <1>2, <3>1, LenProperties DEF Buffered, WriterStreams
  <2>3. ~s.failed => \E n \in 0 .. Len(s.buffer \o line) : Spill(w, Buffered(s, line), n)
    BY <2>1, <2>2 DEF Flush
  <2> QED
    BY <2>1, <2>3, SayingStep
<1>13. ASSUME NEW chunk \in Chunks, write(w, chunk) \/ (chunk # <<>> /\ put(w, Head(chunk)))
       PROVE  ArriveInv'
  BY <1>11, <1>13, TextOfChunks DEF put
<1> QED
  BY <1>5, <1>6, <1>7, <1>8, <1>9, <1>10, <1>12, <1>13 DEF WriterCall

LEMMA OpenArrives ==
  ASSUME ReaderInv, WritersInv, ArriveInv, NEW w \in Writers, OpenWriter(w)
  PROVE  ArriveInv'
<1>1. /\ writers[w].state = "none" /\ writers' = [writers EXCEPT ![w] = Closed("open")]
      /\ UNCHANGED <<disk, author, sent, mute>> /\ writers \in [Writers -> WriterStreams]
  BY DEF OpenWriter, WritersInv
<1>2. writers[w].buffer = <<>> /\ w \notin mute
  <2>1. /\ writers[w].state # "open" => writers[w].buffer = <<>>
        /\ writers[w].state # "freed" => (writers[w].failed <=> w \in mute)
        /\ writers[w].state = "none" => ~writers[w].failed
    BY Zenon DEF ArriveInv, WritesArrive
  <2>2. writers[w].state # "open" /\ writers[w].state # "freed"
    BY <1>1
  <2> QED
    BY <1>1, <2>1, <2>2, Zenon
<1>3. /\ writers'[w].buffer = <<>> /\ writers'[w].state = "open" /\ writers'[w].failed = FALSE
      /\ \A v \in Writers : v # w => writers'[v] = writers[v]
  BY <1>1 DEF Closed
<1>4. \A v \in Writers : writers'[v].buffer = writers[v].buffer
  BY <1>2, <1>3
<1>5. \A v : CharsBy(v)' = CharsBy(v) /\ SentAloud(v)' = SentAloud(v)
  BY <1>1 DEF CharsBy, SentAloud
<1>6. WritesArrive'
  <2>1. \A v \in Writers : /\ SentAloud(v) = CharsBy(v) \o writers[v].buffer
                           /\ writers[v].state # "open" => writers[v].buffer = <<>>
    BY DEF ArriveInv, WritesArrive
  <2>2. \A v \in Writers : /\ SentAloud(v)' = CharsBy(v)' \o writers'[v].buffer
                           /\ writers'[v].state # "open" => writers'[v].buffer = <<>>
    BY <1>3, <1>4, <1>5, <2>1
  <2> QED
    BY <2>2 DEF WritesArrive
<1>7. \A v \in Writers : /\ writers'[v].state # "freed" => (writers'[v].failed <=> v \in mute')
                         /\ writers'[v].state = "none" => ~writers'[v].failed
  <2>1. \A v \in Writers : /\ writers[v].state # "freed" => (writers[v].failed <=> v \in mute)
                           /\ writers[v].state = "none" => ~writers[v].failed
    BY DEF ArriveInv
  <2> QED
    BY <1>1, <1>2, <1>3, <2>1
<1> QED
  BY <1>1, <1>6, <1>7 DEF ArriveInv

LEMMA AppendArrives ==
  ASSUME ReaderInv, WritersInv, ArriveInv, NEW chunk \in Chunks, append_chunk(chunk)
  PROVE  ArriveInv'
<1> DEFINE line == Append(chunk, Newline)
<1>1. /\ line \in Seq(Chars) /\ Len(line) = Len(chunk) + 1
      /\ disk' = disk \o line /\ author' = author \o [i \in 1 .. Len(chunk) + 1 |-> NoWriter]
      /\ UNCHANGED <<writers, sent, mute>>
  BY TextOfChunks, AppendProperties DEF append_chunk, append
<1> HIDE DEF line
<1>2. author' = author \o [i \in 1 .. Len(line) |-> NoWriter] /\ NoWriter \in Writers \cup {NoWriter}
  BY <1>1
<1>3. /\ author' \in Seq(Writers \cup {NoWriter}) /\ Len(author') = Len(disk')
      /\ \A v : v # NoWriter => CharsBy(v)' = CharsBy(v)
  BY <1>1, <1>2, CharsMore
<1>4. \A v \in Writers : CharsBy(v)' = CharsBy(v) /\ SentAloud(v)' = SentAloud(v)
  BY <1>1, <1>3, WritersAssumption DEF SentAloud
<1>5. WritesArrive'
  BY <1>1, <1>4 DEF ArriveInv, WritesArrive
<1> QED
  BY <1>1, <1>3, <1>5 DEF ArriveInv

\* All elements of a sequence, none of them, or those of an empty one.
LEMMA AllOrNone ==
  ASSUME NEW S, NEW t \in Seq(S), NEW P
  PROVE  /\ Chosen(<<>>, P) = <<>>
         /\ (\A k \in 1 .. Len(t) : k \in P) => Chosen(t, P) = t
         /\ (\A k \in 1 .. Len(t) : k \notin P) => Chosen(t, P) = <<>>
<1>1. <<>> \in Seq(S) /\ Len(<<>>) = 0 /\ <<>> \o t = t
  BY ConcatEmptySeq
<1>2. Chosen(<<>>, P) = <<>>
  <2>1. PICK u : Choosing(u, <<>>, P, S, Len(<<>>)) /\ Chosen(<<>>, P) = u[Len(<<>>)]
    BY <1>1, ChosenIs
  <2> QED
    BY <1>1, <2>1 DEF Choosing
<1>3. PICK u : Choosing(u, t, P, S, Len(t)) /\ Chosen(t, P) = u[Len(t)]
  BY ChosenIs
<1>4. Len(t) \in Nat /\ 0 \in 0 .. Len(t) /\ SubSeq(t, 1, 0) = <<>> /\ SubSeq(t, 1, Len(t)) = t
  BY LenProperties, SubSeqEmpty, SubSeqFull
<1>5. ASSUME \A k \in 1 .. Len(t) : k \in P
      PROVE  Chosen(t, P) = t
  <2> DEFINE N == {k \in 0 .. Len(t) : u[k] = SubSeq(t, 1, k)}
  <2>1. 0 \in N
    BY <1>3, <1>4 DEF Choosing
  <2>2. ASSUME NEW k \in 1 .. Len(t), k - 1 \in N
        PROVE  k \in N
    <3>1. u[k] = Append(SubSeq(t, 1, k - 1), t[k]) /\ k \in 0 .. Len(t)
      <4>1. u[k] = Append(u[k - 1], t[k])
        BY <1>3, <1>5 DEF Choosing
      <4>2. u[k - 1] = SubSeq(t, 1, k - 1) /\ k \in 0 .. Len(t)
        BY <1>4, <2>2
      <4> QED
        BY <4>1, <4>2
    <3>2. Append(SubSeq(t, 1, k - 1), t[k]) = SubSeq(t, 1, k)
      OBVIOUS
    <3> QED
      BY <3>1, <3>2
  <2>3. 0 .. Len(t) \subseteq N
    <3> HIDE DEF N
    <3> QED
      BY <1>4, <2>1, <2>2, Upward
  <2>4. Len(t) \in N
    BY <1>4, <2>3
  <2> QED
    BY <1>3, <1>4, <2>4
<1>6. ASSUME \A k \in 1 .. Len(t) : k \notin P
      PROVE  Chosen(t, P) = <<>>
  <2> DEFINE N == {k \in 0 .. Len(t) : u[k] = <<>>}
  <2>1. 0 \in N
    BY <1>3, <1>4 DEF Choosing
  <2>2. \A k \in 1 .. Len(t) : k - 1 \in N => k \in N
    BY <1>3, <1>6 DEF Choosing
  <2>3. 0 .. Len(t) \subseteq N
    <3> HIDE DEF N
    <3> QED
      BY <1>4, <2>1, <2>2, Upward
  <2> QED
    BY <1>3, <1>4, <2>3
<1> QED
  BY <1>2, <1>5, <1>6

LEMMA OverwriteArrives ==
  ASSUME WritersInv, ArriveInv, NEW chunk \in Chunks, overwrite(chunk)
  PROVE  ArriveInv'
<1> DEFINE line == Append(chunk, Newline)
<1>1. /\ line \in Seq(Chars) /\ Len(line) = Len(chunk) + 1 /\ Len(line) \in Nat
      /\ disk' = line /\ author' = [i \in 1 .. Len(chunk) + 1 |-> NoWriter]
      /\ UNCHANGED <<writers, mute>>
      /\ sent' = [w \in Writers |-> [i \in DOMAIN writers[w].buffer |->
                                       [char |-> writers[w].buffer[i], mute |-> FALSE]]]
  BY TextOfChunks, AppendProperties, LenProperties DEF overwrite
<1> HIDE DEF line
<1>2. author' \in [1 .. Len(line) -> Writers \cup {NoWriter}] /\ author' \in Seq(Writers \cup {NoWriter})
  <2>1. author' \in [1 .. Len(line) -> Writers \cup {NoWriter}]
    BY <1>1
  <2> QED
    BY <1>1, <2>1, SeqDef
<1>3. Len(author') = Len(disk')
  BY <1>1, <1>2, LenProperties
<1>4. ASSUME NEW w \in Writers
      PROVE  CharsBy(w)' = <<>>
  <2> DEFINE places == PlacesOf(w)'
  <2>1. \A k \in 1 .. Len(line) : k \notin places
    BY <1>1, WritersAssumption DEF PlacesOf
  <2>2. CharsBy(w)' = Chosen(line, places)
    BY <1>1 DEF CharsBy, PlacesOf
  <2> HIDE DEF places
  <2> QED
    BY <1>1, <2>1, <2>2, AllOrNone
<1>5. ASSUME NEW w \in Writers
      PROVE  sent'[w] \in Seq(SentChars) /\ SentAloud(w)' = writers[w].buffer
  <2> DEFINE b == writers[w].buffer
  <2>1. b \in Seq(Chars)
    BY DEF WritersInv, WriterStreams
  <2> HIDE DEF b
  <2>2. /\ Len(b) \in Nat /\ DOMAIN b = 1 .. Len(b) /\ \A i \in 1 .. Len(b) : b[i] \in Chars
    BY <2>1, LenProperties, ElementOfSeq
  <2>3. sent'[w] = [i \in 1 .. Len(b) |-> [char |-> b[i], mute |-> FALSE]]
    BY <1>1, <2>2 DEF b
  <2>4. sent'[w] \in [1 .. Len(b) -> SentChars] /\ \A i \in 1 .. Len(b) : sent'[w][i].char = b[i] /\ ~sent'[w][i].mute
    BY <2>2, <2>3 DEF SentChars
  <2>5. sent'[w] \in Seq(SentChars)
    BY <2>2, <2>4, SeqDef
  <2>6. DOMAIN sent'[w] = 1 .. Len(b)
    BY <2>3
  <2>7. [i \in DOMAIN sent'[w] |-> sent'[w][i].char] = b
    <3>1. [i \in DOMAIN sent'[w] |-> sent'[w][i].char] = [i \in 1 .. Len(b) |-> b[i]]
      BY <2>4, <2>6
    <3>2. b \in [1 .. Len(b) -> Chars]
      BY <2>1, LenProperties
    <3> QED
      BY <3>1, <3>2
  <2> DEFINE places == {i \in DOMAIN sent'[w] : ~sent'[w][i].mute}
  <2>8. \A k \in 1 .. Len(b) : k \in places
    BY <2>4, <2>6
  <2>9. SentAloud(w)' = Chosen(b, places)
    BY <2>7 DEF SentAloud
  <2> HIDE DEF places
  <2>10. SentAloud(w)' = b
    BY <2>1, <2>8, <2>9, AllOrNone
  <2> QED
    BY <2>5, <2>10 DEF b
<1>6. sent' \in [Writers -> Seq(SentChars)]
  BY <1>1, <1>5
<1>7. WritesArrive'
  <2>1. ASSUME NEW w \in Writers
        PROVE  SentAloud(w)' = CharsBy(w)' \o writers'[w].buffer
    <3>1. writers[w].buffer \in Seq(Chars) /\ writers' = writers
      BY <1>1 DEF WritersInv, WriterStreams
    <3>2. <<>> \o writers[w].buffer = writers[w].buffer
      BY <3>1, ConcatEmptySeq
    <3> QED
      BY <1>4, <1>5, <3>1, <3>2
  <2> QED
    BY <1>1, <2>1 DEF ArriveInv, WritesArrive
<1> QED
  BY <1>1, <1>2, <1>3, <1>6, <1>7 DEF ArriveInv

LEMMA InitialWriters ==
  ASSUME StreamsInit
  PROVE  ArriveInv
<1>1. /\ disk \in Seq(Chars) /\ author = [i \in DOMAIN disk |-> NoWriter]
      /\ sent = [w \in Writers |-> <<>>] /\ mute = {}
      /\ writers = [w \in Writers |-> Closed("none")]
  BY FileReadersAssumption DEF StreamsInit, Init
<1>2. Len(disk) \in Nat /\ DOMAIN disk = 1 .. Len(disk)
  BY <1>1, LenProperties
<1>3. author \in [1 .. Len(disk) -> Writers \cup {NoWriter}]
  BY <1>1, <1>2
<1>4. author \in Seq(Writers \cup {NoWriter})
  BY <1>2, <1>3, SeqDef
<1>5. Len(author) = Len(disk)
  BY <1>2, <1>3, <1>4, LenProperties
<1>6. sent \in [Writers -> Seq(SentChars)]
  BY <1>1
<1>7. \A w \in Writers : writers[w].buffer = <<>> /\ writers[w].failed = FALSE
  BY <1>1 DEF Closed
<1>8. ASSUME NEW w \in Writers
      PROVE  CharsBy(w) = <<>>
  <2> DEFINE places == PlacesOf(w)
  <2>1. \A k \in 1 .. Len(disk) : k \notin places
    BY <1>1, <1>2, WritersAssumption DEF PlacesOf
  <2>2. CharsBy(w) = Chosen(disk, places)
    BY DEF CharsBy, PlacesOf
  <2> HIDE DEF places
  <2> QED
    BY <1>1, <2>1, <2>2, AllOrNone
<1>9. ASSUME NEW w \in Writers
      PROVE  SentAloud(w) = <<>>
  <2>1. [i \in DOMAIN sent[w] |-> sent[w][i].char] = <<>>
    BY <1>1
  <2> DEFINE places == {i \in DOMAIN sent[w] : ~sent[w][i].mute}
  <2>2. SentAloud(w) = Chosen(<<>>, places)
    BY <2>1 DEF SentAloud
  <2> HIDE DEF places
  <2> QED
    BY <1>1, <2>2, AllOrNone
<1>10. WritesArrive
  <2>1. <<>> \o <<>> = <<>>
    OBVIOUS
  <2> QED
    BY <1>7, <1>8, <1>9, <2>1 DEF WritesArrive
<1> QED
  BY <1>1, <1>4, <1>5, <1>6, <1>7, <1>10 DEF ArriveInv

LEMMA ReadersKeepDisk ==
  ASSUME ReadersOnly
  PROVE  disk' = disk
BY DEF ReadersOnly, OpenReader, ReaderCall, read_contents, get_line, each_line, reader_line_iterator,
       read, ignore, try_offset, set_offset, get, peek, read_all, reset, free, eof, fail, good, bad,
       offset, last_bytes_count, Answer

LEMMA ArriveInvIsKept ==
  ASSUME StreamsInv, ArriveInv, [StreamsNext]_stream_vars
  PROVE  ArriveInv'
<1>1. ReaderInv /\ WritersInv
  BY DEF StreamsInv
<1>2. CASE ReadersOnly /\ UNCHANGED writer_vars
  BY <1>2, ReadersKeepDisk, NothingArrives DEF writer_vars
<1>3. ASSUME NEW w \in Writers, OpenWriter(w)
      PROVE  ArriveInv'
  BY <1>1, <1>3, OpenArrives
<1>4. ASSUME NEW w \in Writers, WriterCall(w) \/ CollectWriter(w)
      PROVE  ArriveInv'
  BY <1>1, <1>4, WriterArrives
<1>5. ASSUME NEW chunk \in Chunks, append_chunk(chunk)
      PROVE  ArriveInv'
  BY <1>1, <1>5, AppendArrives
<1>6. ASSUME NEW chunk \in Chunks, overwrite(chunk)
      PROVE  ArriveInv'
  BY <1>1, <1>6, OverwriteArrives
<1>7. CASE UNCHANGED stream_vars
  BY <1>7, NothingArrives DEF stream_vars, writer_vars, vars
<1> QED
  BY <1>2, <1>3, <1>4, <1>5, <1>6, <1>7, Zenon DEF StreamsNext

\* However many writers there are, whatever they write and whenever their buffers spill,
\* each character that a script has written while its writer was not mute is in the file or
\* in the buffer, once and in order, and none is left in the buffer of a writer that was
\* freed or collected (Writer.cpp:13-76, File.cpp:49-70).
THEOREM WritesArriveCorrect == StreamsSpec => []WritesArrive
<1>1. StreamsInit => ArriveInv
  BY InitialWriters
<1>2. StreamsInv /\ ArriveInv /\ [StreamsNext]_stream_vars => ArriveInv'
  BY ArriveInvIsKept
<1>3. ArriveInv => WritesArrive
  BY DEF ArriveInv
<1> QED
  BY <1>1, <1>2, <1>3, StreamsInvariant, PTL DEF StreamsSpec
=============================================================================

---------------------------- MODULE FileReaders ----------------------------
(***************************************************************************)
(* Readers of a file that other calls append to (Std/Reader.cpp, the       *)
(* methods of Std/Fs/File.cpp on contents), called through the metatables  *)
(* of Std/Lazy_type.hpp.                                                   *)
(*                                                                         *)
(* A reader is a userdata that owns a C++ stream until `free`.  What the   *)
(* stream's member functions do is external: a stream is a record, and     *)
(* they are the operators of the first section.                            *)
(***************************************************************************)
EXTENDS Integers, Sequences, FiniteSets, SequencesExt

CONSTANTS
  Readers,      \* userdata
  Newline,      \* the character that ends a line
  Contents,     \* what the file may hold at first
  Chunks,       \* what scripts append
  Delimiters,   \* what they pass to get_line and each_line
  Counts,       \* how many characters they read or ignore
  Offsets,      \* where they move to
  MaxLength,    \* bound: characters in the file
  MaxCalls      \* bound: calls by scripts

Chars == {Newline} \cup UNION {ToSet(t) : t \in Contents \cup Chunks}

ASSUME FileReadersAssumption ==
  /\ MaxLength \in Nat /\ MaxCalls \in Nat /\ Counts \subseteq Nat /\ Offsets \subseteq Int
  /\ Contents \cup Chunks \subseteq Seq(Chars)

VARIABLES
  disk,       \* the contents of the file
  readers,    \* per reader: state, and of its stream pos, bits and count (gcount)
  iterators,  \* the closures of each_line: reader and delimiter
  returned,   \* the value that the last call returned to the script
  undefined,  \* whether the program has dereferenced a null stream
  calls,
  heard       \* history: per reader, the characters scripts got or passed over in a row, since
              \* which position, and whether they cannot tell where the reader is

vars == <<disk, readers, iterators, returned, undefined, calls, heard>>
-----------------------------------------------------------------------------
\* std::ifstream.
Good(s) == s.bits = {}
Failed(s) == s.bits \cap {"fail", "bad"} # {}
Set(s, bits) == [s EXCEPT !.bits = @ \cup bits]
Entered(s) == IF Good(s) THEN s ELSE Set(s, {"fail"})
Cleared(s, bits) == [s EXCEPT !.bits = bits]
At(s, p) == [s EXCEPT !.pos = p]
Counted(s, n) == [s EXCEPT !.count = n]

Least(m, n) == IF m < n THEN m ELSE n
Ahead(s, n) == SubSeq(disk, s.pos + 1, Least(s.pos + n, Len(disk)))
ToEnd(s) == Ahead(s, Len(disk))
Given(s, chars) == IF Good(s) THEN chars ELSE <<>>

\* An extraction of up to n characters, which sets bits if there are fewer.
Extract(s, n, bits) ==
  LET got == Len(Ahead(s, n))
  IN IF Good(s) THEN Counted(At(Set(s, IF got < n THEN bits ELSE {}), s.pos + got), got)
                ELSE Counted(Entered(s), 0)

\* getline: the line without its delimiter, and the stream afterwards.
LineEnd(s, d) == SelectInSeq(ToEnd(s), LAMBDA c : c = d)
Line(s, d) == IF LineEnd(s, d) = 0 THEN ToEnd(s) ELSE SubSeq(ToEnd(s), 1, LineEnd(s, d) - 1)
AfterLine(s, d) ==
  CASE ~Good(s) -> Entered(s)
    [] Good(s) /\ LineEnd(s, d) # 0 -> At(s, s.pos + LineEnd(s, d))
    [] Good(s) /\ LineEnd(s, d) = 0 ->
         At(Set(s, IF ToEnd(s) = <<>> THEN {"eof", "fail"} ELSE {"eof"}), s.pos + Len(ToEnd(s)))

\* seekg forgets the end of the file, but not a failure.
Reopened(s) == Entered(Cleared(s, s.bits \ {"eof"}))
seekg(s, n) ==
  CASE Failed(Reopened(s)) -> Reopened(s)
    [] ~Failed(Reopened(s)) /\ n < 0 -> Set(Reopened(s), {"fail"})
    [] ~Failed(Reopened(s)) /\ n >= 0 -> At(Reopened(s), n)
tellg(s) == IF Good(s) THEN s.pos ELSE -1

\* unget: whether the character before is still buffered is up to the stream.
unget(s) ==
  LET u == Counted(Reopened(s), 0)
  IN IF Failed(u) THEN {u}
     ELSE {Set(u, {"bad"})} \cup (IF u.pos = 0 THEN {} ELSE {At(u, u.pos - 1)})
-----------------------------------------------------------------------------
Error == "error"
Nothing == "nothing"
Call == calls < MaxCalls /\ ~undefined /\ calls' = calls + 1

\* check and checker: a freed stream is reported, whatever is asked of it.
AskedFreed(r) == readers[r].state = "freed"

\* A call that leaves the reader's stream as s, and gives the script a value.
Answer(r, s, value) ==
  /\ readers[r].state # "none" /\ Call
  /\ IF AskedFreed(r)
     THEN returned' = Error /\ UNCHANGED readers
     ELSE returned' = value /\ readers' = [readers EXCEPT ![r] = s]
  /\ UNCHANGED <<disk, iterators, undefined>>

\* What the script may conclude from the answer, never from the stream: it was given the
\* next characters, it moved to n, the reader stays, or nobody told it where the reader is.
Hears(r, h) == heard' = IF AskedFreed(r) THEN heard ELSE [heard EXCEPT ![r] = h]
And(h, more) == IF h.lost THEN h ELSE [h EXCEPT !.chars = @ \o more]
Gives(r, chars) == Hears(r, And(heard[r], chars))
MovesTo(r, n) == Hears(r, [from |-> n, chars |-> <<>>, lost |-> FALSE])
Loses(r) == Hears(r, [from |-> 0, chars |-> <<>>, lost |-> TRUE])
Stays == UNCHANGED heard

LineOrNothing(s, d) == IF Failed(AfterLine(s, d)) THEN Nothing ELSE Line(s, d)
WithDelimiter(s, d) == Ahead(s, AfterLine(s, d).pos - s.pos)
get_line(r, d) ==
  /\ Answer(r, AfterLine(readers[r], d), LineOrNothing(readers[r], d))
  /\ Gives(r, WithDelimiter(readers[r], d))

\* each_line makes a closure, which uses the stream without the check for `free`.
each_line(r, d) ==
  /\ readers[r].state # "none" /\ Call
  /\ IF AskedFreed(r) THEN returned' = Error /\ UNCHANGED iterators
                      ELSE returned' = Nothing /\ iterators' = iterators \cup {<<r, d>>}
  /\ UNCHANGED <<disk, readers, undefined, heard>>
reader_line_iterator(r, d) ==
  /\ <<r, d>> \in iterators
  /\ IF readers[r].state = "open" THEN get_line(r, d)
     ELSE /\ Call /\ undefined' = TRUE
          /\ UNCHANGED <<disk, readers, iterators, returned, heard>>

read(r, n) ==
  LET chars == Given(readers[r], Ahead(readers[r], n))
  IN Answer(r, Extract(readers[r], n, {"eof", "fail"}), chars) /\ Gives(r, chars)
get(r) == read(r, 1)
peekGets(r) ==   \* mutant
  Answer(r, Extract(readers[r], 1, {"eof"}), Given(readers[r], Ahead(readers[r], 1))) /\ Stays
peek(r) ==
  LET s == Counted(At(Extract(readers[r], 1, {"eof"}), readers[r].pos), 0)
  IN Answer(r, s, Given(readers[r], Ahead(readers[r], 1))) /\ Stays
ignore(r, n) ==
  /\ Answer(r, Extract(readers[r], n, {"eof"}), Nothing)
  /\ Gives(r, Given(readers[r], Ahead(readers[r], n)))

\* Every line of the file with a newline after it, whether it had one or not.
AllLines == IF disk = <<>> \/ Last(disk) = Newline THEN disk ELSE Append(disk, Newline)
Rewound(r) == seekg(Entered(readers[r]), 0)
AtEnd(r) == IF Failed(Rewound(r)) THEN Rewound(r) ELSE At(Rewound(r), Len(disk))
All(r) == IF Failed(Rewound(r)) THEN <<>> ELSE AllLines
read_allStaysAtEnd(r) == Answer(r, Cleared(AtEnd(r), {}), All(r)) /\ Stays   \* mutant
read_all(r) ==
  Answer(r, seekg(Cleared(AtEnd(r), {}), tellg(readers[r])), All(r)) /\ Stays

\* reset seeks before it clears: a stream that has failed is mended where it is.
reset(r) ==
  /\ Answer(r, Cleared(seekg(readers[r], 0), {}), Nothing)
  /\ IF Failed(readers[r]) THEN Loses(r) ELSE MovesTo(r, 0)

\* try_offset, and the assignment of offset: a move that fails is taken back.
Moved(r, n) == seekg(Entered(readers[r]), n)
TakenBack(r, n, bits) == Cleared(seekg(Moved(r, n), tellg(readers[r])), bits)
try_offsetUnchecked(r, n) == Answer(r, Cleared(Moved(r, n), {}), TRUE) /\ MovesTo(r, n)   \* mutant
try_offset(r, n) ==
  IF Failed(Moved(r, n)) THEN Answer(r, TakenBack(r, n, {}), FALSE) /\ Stays
                         ELSE Answer(r, Moved(r, n), TRUE) /\ MovesTo(r, n)
set_offset(r, n) ==
  IF Failed(Moved(r, n)) THEN Answer(r, TakenBack(r, n, {"fail"}), Error) /\ Stays
                         ELSE Answer(r, Moved(r, n), Nothing) /\ MovesTo(r, n)

\* The fields: `bad` is answered as `good` is, and `last_bytes_count` ungets first, which
\* may or may not take the reader back by one.
eof(r) == Answer(r, readers[r], "eof" \in readers[r].bits) /\ Stays
fail(r) == Answer(r, readers[r], Failed(readers[r])) /\ Stays
good(r) == Answer(r, readers[r], Good(readers[r])) /\ Stays
bad(r) == good(r)
offset(r) == Answer(r, Entered(readers[r]), tellg(readers[r])) /\ Stays
last_bytes_count(r) ==
  /\ \E s \in unget(readers[r]) : Answer(r, s, s.count)
  /\ Loses(r)

Fresh(state) == [state |-> state, pos |-> 0, bits |-> {}, count |-> 0]
free(r) == Answer(r, Fresh("freed"), Nothing) /\ MovesTo(r, 0)

\* File: a method that opens the file in a stream of its own, or in a reader's.
OpenReader(r) ==
  /\ readers[r].state = "none" /\ Call
  /\ readers' = [readers EXCEPT ![r] = Fresh("open")]
  /\ MovesTo(r, 0)
  /\ UNCHANGED <<disk, iterators, returned, undefined>>
append(chunk) ==
  /\ Call
  /\ Len(disk) + Len(chunk) < MaxLength
  /\ disk' = disk \o Append(chunk, Newline)
  /\ UNCHANGED <<readers, iterators, returned, undefined, heard>>
read_contents ==
  Call /\ returned' = AllLines /\ UNCHANGED <<disk, readers, iterators, undefined, heard>>
-----------------------------------------------------------------------------
Init ==
  /\ disk \in Contents
  /\ readers = [r \in Readers |-> Fresh("none")]
  /\ iterators = {} /\ returned = Nothing /\ undefined = FALSE /\ calls = 0
  /\ heard = [r \in Readers |-> [from |-> 0, chars |-> <<>>, lost |-> FALSE]]

ReaderCall(r) ==
  \/ \E d \in Delimiters : get_line(r, d) \/ each_line(r, d) \/ reader_line_iterator(r, d)
  \/ \E n \in Counts : read(r, n) \/ ignore(r, n)
  \/ \E n \in Offsets : try_offset(r, n) \/ set_offset(r, n)
  \/ get(r) \/ peek(r) \/ read_all(r) \/ reset(r) \/ free(r)
  \/ eof(r) \/ fail(r) \/ good(r) \/ bad(r) \/ offset(r) \/ last_bytes_count(r)

Next ==
  \/ \E r \in Readers : OpenReader(r) \/ ReaderCall(r)
  \/ \E chunk \in Chunks : append(chunk)
  \/ read_contents

Spec == Init /\ [][Next]_vars
-----------------------------------------------------------------------------
Bits == {"eof", "fail", "bad"}
Streams == [state : {"none", "open", "freed"}, pos : Nat, bits : SUBSET Bits, count : Nat]
Text(n) == {s \in Seq(Chars) : Len(s) <= n}

\* Types: what scripts have heard is text of the file's length at most, a freed or closed
\* stream is as it was made, and closures of each_line are of readers that were opened.
ReaderTypeOK ==
  /\ disk \in Text(MaxLength)
  /\ readers \in [Readers -> Streams]
  /\ \A r \in Readers : readers[r].state # "open" => readers[r] = Fresh(readers[r].state)
  /\ \A i \in iterators : i[2] \in Delimiters /\ readers[i[1]].state # "none"
  /\ undefined \in BOOLEAN /\ calls \in 0 .. MaxCalls
  /\ heard \in [Readers -> [from : Nat, chars : Text(MaxLength), lost : BOOLEAN]]

\* What a script is given between two moves of its reader is the text of the file from
\* where it was told that the reader moved to, nothing skipped or repeated, whatever peek,
\* read_all (which goes to the end and back), refused moves, other readers, writers and
\* appends do in between (Reader.cpp:43-66, 72-83, 113-124).  Not so, and exempt until the
\* next move that is told to have succeeded: after last_bytes_count, which ungets
\* (Reader.cpp:125), and after the reset of a failed reader, which says nothing and leaves
\* it where it was (Reader.cpp:67-71).
ScriptsKnowWhereTheyAre ==
  \A r \in Readers : readers[r].state = "open" /\ ~heard[r].lost =>
    /\ readers[r].pos = heard[r].from + Len(heard[r].chars)
    /\ heard[r].chars = SubSeq(disk, heard[r].from + 1, readers[r].pos)
=============================================================================

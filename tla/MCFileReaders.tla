--------------------------- MODULE MCFileReaders ---------------------------
(***************************************************************************)
(* Instances of FileWriters, and so of FileReaders.  A chunk holds its     *)
(* delimiter, a line without a newline at its end, and an empty line.      *)
(***************************************************************************)
EXTENDS FileWriters, TLC

MCContents == {<<>>, <<"a", "nl", "b">>, <<"nl", "a", "nl">>}
MCChunks == {<<"b">>, <<"a", "b">>}
MCDelimiters == {"nl", "b"}
MCCounts == {0, 2}
MCOffsets == {-1, 1, 5}

\* Readers are alike, and so are writers.
Alike == Permutations(Readers) \cup Permutations(Writers)
=============================================================================

---------------------------- MODULE FileWriters ----------------------------
(***************************************************************************)
(* Writers (Std/Writer.cpp, the methods writer, append_writer and          *)
(* overwrite of Std/Fs/File.cpp) beside the readers of FileReaders, all of *)
(* them on one file.  A writer appends: what it writes is kept in a buffer *)
(* and comes to the end of the file when that is flushed or full.  What    *)
(* std::ofstream does is external, as in FileReaders.                      *)
(***************************************************************************)
EXTENDS FileReaders

CONSTANTS Writers   \* userdata

VARIABLES
  writers,  \* per writer: state, whether its failbit is set, buffer
  author,   \* history: who has written each character of the file
  sent,     \* history: what each writer was told to write, and whether while it was mute
  mute      \* history: the writers whose script was told of a refused offset, not yet mended

writer_vars == <<writers, author, sent, mute>>
stream_vars == <<vars, writer_vars>>
NoWriter == "file"   \* of characters that no writer has written
ASSUME WritersAssumption == NoWriter \notin Writers

Closed(state) == [state |-> state, failed |-> FALSE, buffer |-> <<>>]

\* std::ofstream: the first n characters of the buffer come to the end of the file.
Spill(w, s, n) ==
  /\ Len(disk) + Len(s.buffer) <= MaxLength
  /\ disk' = disk \o SubSeq(s.buffer, 1, n)
  /\ author' = author \o [i \in 1 .. n |-> w]
  /\ writers' = [writers EXCEPT ![w] = [s EXCEPT !.buffer = SubSeq(@, n + 1, Len(@))]]
Flush(w, s) == Spill(w, s, Len(s.buffer))
Keep(w, s) == writers' = [writers EXCEPT ![w] = s] /\ UNCHANGED <<disk, author>>
Buffered(s, chars) == [s EXCEPT !.buffer = @ \o chars]
Mended(s) == [s EXCEPT !.failed = FALSE]
SeekFailed(s) == [s EXCEPT !.failed = TRUE]
-----------------------------------------------------------------------------
\* check and checker.
Use(w) == writers[w].state # "none" /\ Call /\ UNCHANGED <<readers, iterators, undefined, heard>>
Refused(w) ==
  /\ Use(w) /\ writers[w].state = "freed"
  /\ returned' = Error /\ UNCHANGED <<disk, writer_vars>>
Usable(w) == Use(w) /\ writers[w].state = "open"
Tells(value) == returned' = value
Sends(w, chars) ==
  /\ sent' = [sent EXCEPT ![w] = @ \o [i \in DOMAIN chars |-> [char |-> chars[i], mute |-> w \in mute]]]
  /\ UNCHANGED mute
SendsNothing == UNCHANGED <<sent, mute>>
NotMute(w) == mute' = mute \ {w} /\ UNCHANGED sent

\* A stream that has failed drops what it is given.
write(w, chars) ==
  /\ Usable(w) /\ Tells(Nothing) /\ Sends(w, chars)
  /\ LET s == writers[w]
     IN IF s.failed THEN Keep(w, s)
        ELSE \E n \in 0 .. Len(s.buffer \o chars) : Spill(w, Buffered(s, chars), n)
put(w, char) == write(w, <<char>>)

\* print ends its line and flushes; without an argument its text is cut below nothing.
print(w, chars) ==
  /\ Usable(w) /\ Tells(Nothing) /\ Sends(w, Append(chars, Newline))
  /\ LET s == writers[w]
     IN IF s.failed THEN Keep(w, s) ELSE Flush(w, Buffered(s, Append(chars, Newline)))
print_nothing(w) == Usable(w) /\ Tells(Error) /\ SendsNothing /\ UNCHANGED <<disk, writers, author>>

flush(w) ==
  /\ Usable(w) /\ Tells(Nothing) /\ SendsNothing
  /\ LET s == writers[w] IN IF s.failed THEN Keep(w, s) ELSE Flush(w, s)

\* seekp flushes, fails below 0, and does nothing to a stream that has failed.  reset and
\* try_offset mend the stream, the assignment of offset leaves it failed.
reset_writer(w) ==
  /\ Usable(w) /\ Tells(Nothing) /\ NotMute(w)
  /\ LET s == writers[w] IN IF s.failed THEN Keep(w, Mended(s)) ELSE Flush(w, s)
MutLeftFailed(w, n) ==   \* mutant
  /\ Usable(w) /\ NotMute(w)
  /\ LET s == writers[w]
     IN IF s.failed THEN Tells(FALSE) /\ Keep(w, s)
        ELSE Tells(n >= 0) /\ Flush(w, IF n < 0 THEN SeekFailed(s) ELSE s)
try_writer_offset(w, n) ==
  /\ Usable(w) /\ NotMute(w)
  /\ LET s == writers[w]
     IN IF s.failed THEN Tells(FALSE) /\ Keep(w, Mended(s)) ELSE Tells(n >= 0) /\ Flush(w, s)
set_writer_offset(w, n) ==
  /\ Usable(w) /\ UNCHANGED sent
  /\ LET s == writers[w]
     IN IF s.failed THEN Tells(Error) /\ Keep(w, s) /\ mute' = mute \cup {w}
        ELSE IF n < 0 THEN Tells(Error) /\ Flush(w, SeekFailed(s)) /\ mute' = mute \cup {w}
        ELSE Tells(Nothing) /\ Flush(w, s) /\ UNCHANGED mute

\* The field offset, -1 of a stream that has failed, and eof.
writer_offset(w) ==
  /\ Usable(w) /\ Tells(IF writers[w].failed THEN -1 ELSE Nothing)
  /\ SendsNothing /\ UNCHANGED <<disk, writers, author>>
writer_eof(w) ==
  Usable(w) /\ Tells(FALSE) /\ SendsNothing /\ UNCHANGED <<disk, writers, author>>

\* free, and the destructor of a userdata that is collected or closed with its lua_State.
Close(w) == Flush(w, [writers[w] EXCEPT !.state = "freed", !.failed = FALSE])
free_writer(w) == Usable(w) /\ Tells(Nothing) /\ SendsNothing /\ Close(w)
CollectWriter(w) ==
  ~undefined /\ writers[w].state = "open" /\ Close(w) /\ SendsNothing
  /\ UNCHANGED <<readers, iterators, returned, undefined, calls, heard>>
-----------------------------------------------------------------------------
\* File.
OpenWriter(w) ==
  /\ writers[w].state = "none" /\ Call
  /\ writers' = [writers EXCEPT ![w] = Closed("open")]
  /\ UNCHANGED <<disk, readers, iterators, returned, undefined, heard, author, sent, mute>>
append_chunk(chunk) ==
  /\ append(chunk)
  /\ author' = author \o [i \in 1 .. Len(chunk) + 1 |-> NoWriter]
  /\ UNCHANGED <<writers, sent, mute>>

\* overwrite, while no reader is open (bound).  Of what was sent before, the history
\* forgets all but what is still in the buffers.
overwrite(chunk) ==
  /\ Call /\ \A r \in Readers : readers[r].state # "open"
  /\ disk' = Append(chunk, Newline) /\ author' = [i \in 1 .. Len(chunk) + 1 |-> NoWriter]
  /\ sent' = [w \in Writers |-> [i \in DOMAIN writers[w].buffer |->
                                   [char |-> writers[w].buffer[i], mute |-> FALSE]]]
  /\ UNCHANGED <<readers, iterators, returned, undefined, heard, writers, mute>>

WriterCall(w) ==
  \/ \E chunk \in Chunks : write(w, chunk) \/ print(w, chunk) \/ (chunk # <<>> /\ put(w, Head(chunk)))
  \/ \E n \in Offsets : try_writer_offset(w, n) \/ set_writer_offset(w, n)
  \/ print_nothing(w) \/ flush(w) \/ reset_writer(w) \/ free_writer(w)
  \/ writer_offset(w) \/ writer_eof(w) \/ Refused(w)

StreamsInit ==
  /\ Init
  /\ writers = [w \in Writers |-> Closed("none")]
  /\ author = [i \in DOMAIN disk |-> NoWriter]
  /\ sent = [w \in Writers |-> <<>>] /\ mute = {}
ReadersOnly == \/ \E r \in Readers : OpenReader(r) \/ ReaderCall(r)
               \/ read_contents
StreamsNext ==
  \/ ReadersOnly /\ UNCHANGED writer_vars
  \/ \E w \in Writers : OpenWriter(w) \/ WriterCall(w) \/ CollectWriter(w)
  \/ \E chunk \in Chunks : append_chunk(chunk) \/ overwrite(chunk)
StreamsSpec == StreamsInit /\ [][StreamsNext]_stream_vars
-----------------------------------------------------------------------------
\* The elements of s at some places, in their order.
Chosen(s, places) ==
  LET upto[n \in 0 .. Len(s)] ==
        IF n = 0 THEN <<>> ELSE IF n \in places THEN Append(upto[n - 1], s[n]) ELSE upto[n - 1]
  IN upto[Len(s)]
CharsBy(w) == Chosen(disk, {i \in DOMAIN disk : author[i] = w})
SentAloud(w) ==
  Chosen([i \in DOMAIN sent[w] |-> sent[w][i].char], {i \in DOMAIN sent[w] : ~sent[w][i].mute})

\* What scripts write through a writer comes to the file in order and once, or is still in
\* the writer's buffer, whatever readers, other writers and appends do in between, and
\* when the writer is freed or collected it is in the file.  Only what is written after the
\* assignment of an offset was refused, and before reset or try_offset, is lost
\* (Writer.cpp:33-55, 66-76).
WritesArrive ==
  \A w \in Writers :
    /\ SentAloud(w) = CharsBy(w) \o writers[w].buffer
    /\ writers[w].state # "open" => writers[w].buffer = <<>>
=============================================================================

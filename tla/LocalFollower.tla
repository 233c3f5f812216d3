---------------------------- MODULE LocalFollower ----------------------------
(***************************************************************************)
(* LocalFileFollower of readers.py.  The file system may change between    *)
(* two of its steps: while the tail is parsed in its thread, between       *)
(* exists and stat, and between the last read of an old file and the       *)
(* opening of the new one.                                                 *)
(***************************************************************************)
EXTENDS LogFile

LocalStates == {"new", "start", "tail", "poll", "checked", "switch"}
Local == source.kind = "local"

\* A path that is not the open file, or a moment when the open file is not
\* the one the tail was read from.
LocalMisses(moved) ==
    IF pc = "tail" \/ (moved /\ path # 0 /\ path # handle) THEN {"missed"} ELSE {}

-----------------------------------------------------------------------------
(* Decoding.  The incremental decoder keeps the bytes of a character whose *)
(* end it has not seen; they go before the next payload.                   *)

\* The character that the first k cells of a file leave unfinished.
Unfinished(i, k) == IF source.wide /\ UnendedAt(i, k) THEN files[i].cells[k].id ELSE 0

\* A payload from k on is valid only after the bytes that precede it.
Decodes(held, i, k) == From(i, k) # <<>> => held = Unfinished(i, k)

DecoderAfter(held, i, k) == IF From(i, k) = <<>> THEN held ELSE Unfinished(i, Size(i))

ReadTo(i, k) == k + Len(From(i, k))
\* A truncation that the size does not show: it is read on from the middle.
Unseen == IF files[handle].gen # reading /\ offset > 0 THEN {"unseen"} ELSE {}

-----------------------------------------------------------------------------
(* initialize                                                              *)

Uninitialized == pc = "new" \/ (pc = "start")

InitializeMissing ==
    /\ Uninitialized
    /\ path = 0
    /\ pc' = "start"
    /\ state' = "missing"
    /\ UNCHANGED <<handle, offset, reading, since, buffers, decoder, tail, emitted, surprises>>

\* The tail ends within a character: UnicodeDecodeError, tried again later.
TailUndecodable ==
    /\ Uninitialized
    /\ path # 0
    /\ Unfinished(path, Size(path)) # 0
    /\ pc' = "start"
    /\ state' = "error"
    /\ UNCHANGED <<handle, offset, reading, since, buffers, decoder, tail, emitted, surprises>>

ReadTail ==
    /\ Uninitialized
    /\ path # 0
    /\ Unfinished(path, Size(path)) = 0
    /\ tail' = TailEvents(files[path].cells)
    /\ since' = IF reading = 0 THEN Len(written) ELSE since
    /\ Surprised(IF Unended(path) THEN {"cut"} ELSE {})
    /\ pc' = "tail"
    /\ UNCHANGED <<handle, offset, reading, buffers, decoder, emitted, state>>

BadOpenAt(i) == 0
OpenAt(i) == Size(i)

\* The thread is back: open the path at its present end, emit the tail.
OpenAfterTail ==
    /\ pc = "tail"
    /\ path # 0
    /\ handle' = path
    /\ offset' = OpenAt(path)
    /\ reading' = files[path].gen
    /\ emitted' = emitted \o tail
    /\ tail' = <<>>
    /\ pc' = "poll"
    /\ state' = "running"
    /\ UNCHANGED <<since, buffers, decoder, surprises>>

\* OSError: reported, and initialize runs again at the next poll.
OpenFails ==
    /\ pc = "tail"
    /\ path = 0
    /\ tail' = <<>>
    /\ pc' = "start"
    /\ state' = "error"
    /\ UNCHANGED <<handle, offset, reading, since, buffers, decoder, emitted, surprises>>

-----------------------------------------------------------------------------
(* poll_once, once initialized.                                            *)

\* An unlinked file remains readable through its descriptor.
PollMissing ==
    /\ pc = "poll"
    /\ path = 0
    /\ Decodes(decoder, handle, offset)
    /\ Keep(FlushAll(Consume(Now, From(handle, offset))))
    /\ decoder' = DecoderAfter(decoder, handle, offset)
    /\ offset' = ReadTo(handle, offset)
    /\ state' = "missing"
    /\ Surprised(Unseen)
    /\ UNCHANGED <<pc, handle, reading, since, tail>>

PollExists ==
    /\ pc = "poll"
    /\ path # 0
    /\ pc' = "checked"
    /\ UNCHANGED <<handle, offset, reading, since, buffers, decoder, tail, emitted, state,
                   surprises>>

\* path.stat() or path.open() raises: the handle is closed, and what was not
\* read of its file is lost; what the assembler and the decoder hold is kept.
\* The log is then initialized again, from the tail of the path's next file.
PathVanished ==
    /\ pc \in {"checked", "switch"}
    /\ path = 0
    /\ pc' = "start"
    /\ handle' = 0
    /\ state' = "error"
    /\ Surprised({"vanished"})
    /\ UNCHANGED <<offset, reading, since, buffers, decoder, tail, emitted>>

BadDrained == FlushAll(Now)
Drained == FlushAll(Consume(Now, From(handle, offset)))

\* Another inode: finish the old file.
PollRotated ==
    /\ pc = "checked"
    /\ path # 0
    /\ path # handle
    /\ Decodes(decoder, handle, offset)
    /\ buffers' = Empty
    /\ emitted' = Drained.out
    /\ decoder' = 0
    /\ offset' = ReadTo(handle, offset)
    /\ pc' = "switch"
    /\ Surprised(Unseen)
    /\ UNCHANGED <<handle, reading, since, tail, state>>

\* Open the replacement and read it from its beginning.
SwitchFile ==
    /\ pc = "switch"
    /\ path # 0
    /\ handle' = path
    /\ offset' = Size(path)
    /\ reading' = files[path].gen
    /\ Keep(Consume(Now, files[path].cells))
    /\ decoder' = DecoderAfter(0, path, 0)
    /\ pc' = "poll"
    /\ state' = "running"
    /\ UNCHANGED <<since, tail, surprises>>

Truncated == Size(handle) < offset

PollTruncated ==
    /\ pc = "checked"
    /\ path # 0
    /\ path = handle
    /\ Truncated
    /\ Keep(Consume(FlushAll(Now), files[handle].cells))
    /\ decoder' = DecoderAfter(0, handle, 0)
    /\ offset' = Size(handle)
    /\ reading' = files[handle].gen
    /\ pc' = "poll"
    /\ state' = "running"
    /\ UNCHANGED <<handle, since, tail, surprises>>

PollFile ==
    /\ pc = "checked"
    /\ path # 0
    /\ path = handle
    /\ ~Truncated
    /\ Decodes(decoder, handle, offset)
    /\ Keep(Consume(Now, From(handle, offset)))
    /\ decoder' = DecoderAfter(decoder, handle, offset)
    /\ offset' = ReadTo(handle, offset)
    /\ reading' = files[handle].gen
    /\ pc' = "poll"
    /\ state' = "running"
    /\ Surprised(Unseen)
    /\ UNCHANGED <<handle, since, tail>>

\* UnicodeDecodeError: the handle is past the payload, which is lost.
PollUndecodable ==
    /\ \/ pc = "poll" /\ path = 0
       \/ pc = "checked" /\ path \notin {0, handle}
       \/ pc = "checked" /\ path = handle /\ ~Truncated
    /\ ~Decodes(decoder, handle, offset)
    /\ offset' = ReadTo(handle, offset)
    /\ pc' = "poll"
    /\ state' = "error"
    /\ Surprised({"missed"})
    /\ UNCHANGED <<handle, reading, since, buffers, decoder, tail, emitted>>

\* The loop ends, and everything pending is emitted.
FinishLocal ==
    /\ UNCHANGED <<source, fileVars>>
    /\ pc \in {"start", "poll"}
    /\ Keep(FlushAll(Now))
    /\ pc' = "done"
    /\ state' = "stopped"
    /\ UNCHANGED <<handle, offset, reading, since, decoder, tail, surprises>>

LocalStep ==
    /\ UNCHANGED <<source, fileVars>>
    /\ \/ InitializeMissing
       \/ TailUndecodable
       \/ ReadTail
       \/ OpenAfterTail
       \/ OpenFails
       \/ PollMissing
       \/ PollExists
       \/ PathVanished
       \/ PollRotated
       \/ SwitchFile
       \/ PollTruncated
       \/ PollFile
       \/ PollUndecodable
=============================================================================

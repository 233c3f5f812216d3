----------------------------- MODULE SSHFollower -----------------------------
(***************************************************************************)
(* SSHFileFollower of readers.py.  It has no file open between two polls:  *)
(* it remembers an offset and the signature of the last stat.  The remote  *)
(* file may change between stat and open, and any call may fail; a failure *)
(* closes the connection, and the loop connects again.  What fails after   *)
(* the offset has moved on loses the payload.                              *)
(*                                                                         *)
(* pc = "off" or "on" is the head of the loop, without and with a          *)
(* connection; signature None is handle = 0.                               *)
(***************************************************************************)
EXTENDS LogFile

CONSTANTS
    Window,         \* cells the first read takes (4 MiB in the code)
    MaxFailures     \* bound: failed calls

ASSUME WindowAssumption == Window \in Nat \ {0} /\ MaxFailures \in Nat

VARIABLE failures   \* what the bound counts

SSHStates == {"off", "on", "stat", "first", "read"}

\* Nothing is open: what is unread is lost with the path's file, and the
\* read that follows a stat may find another file.
SSHMisses(moved) ==
    (IF moved /\ path # 0 /\ handle # 0 /\ Unread THEN {"missed"} ELSE {})
    \cup (IF moved /\ pc \in {"first", "read"} THEN {"missed", "swapped"} ELSE {})

\* In the bounds a failure takes the place of a cell.
Room == Len(written) + failures < MaxCells

Fails == Room /\ failures < MaxFailures /\ failures' = failures + 1

-----------------------------------------------------------------------------
Connect ==
    /\ pc = "off"
    /\ pc' = "stat"
    /\ state' = "connecting"
    /\ UNCHANGED <<handle, offset, reading, since, buffers, decoder, tail, emitted, surprises,
                   failures>>

AtStat == pc = "stat" \/ (pc = "on")

\* FileNotFoundError by stat or by open.
RemoteMissing ==
    /\ AtStat \/ pc \in {"first", "read"}
    /\ path = 0
    /\ pc' = "on"
    /\ state' = "missing"
    /\ UNCHANGED <<handle, offset, reading, since, buffers, decoder, tail, emitted, surprises,
                   failures>>

\* Any other exception of connect, stat or open; the offset is kept.
ConnectionFails ==
    /\ pc = "off" \/ AtStat \/ pc \in {"first", "read"}
    /\ Fails
    /\ pc' = "off"
    /\ state' = "error"
    /\ UNCHANGED <<handle, offset, reading, since, buffers, decoder, tail, emitted, surprises>>

\* _read_new: the first time a window from the end, from the beginning when
\* the file is shorter than what was read or is another inode.
StatOffset ==
    IF handle = 0
    THEN IF Size(path) > Window THEN Size(path) - Window ELSE 0
    ELSE IF Size(path) < offset \/ (source.inodes /\ path # handle) THEN 0 ELSE offset

\* History: another generation is entered, from its middle, or with lines
\* of the former one pending.
Entered ==
    IF handle = 0 \/ files[path].gen = reading THEN {}
    ELSE (IF StatOffset > 0 THEN {"unseen"} ELSE {})
         \cup (IF buffers # Empty THEN {"mixed"} ELSE {})

Stat ==
    /\ AtStat
    /\ path # 0
    /\ handle' = path
    /\ offset' = StatOffset
    /\ reading' = files[path].gen
    /\ since' = IF handle = 0 THEN Len(written) ELSE since
    /\ UNCHANGED <<decoder, tail>>

\* Nothing new: an idle poll completes the pending event, the first does not.
Flushed == IF handle = 0 THEN Now ELSE Consume(Now, <<>>)

BadStatIdle ==
    /\ Stat
    /\ Surprised(Entered)
    /\ Size(path) <= StatOffset
    /\ Keep(Flushed)
    /\ pc' = "on"
    /\ UNCHANGED <<state, failures>>
StatIdle ==
    /\ Stat
    /\ Surprised(Entered)
    /\ Size(path) <= StatOffset
    /\ Keep(Flushed)
    /\ pc' = "on"
    /\ state' = "running"
    /\ UNCHANGED failures

\* on_events raises: the assembler has given the event away.
FlushLost ==
    /\ Stat
    /\ Surprised(Entered \cup {"missed"})
    /\ Size(path) <= StatOffset
    /\ Flushed.out # emitted
    /\ Fails
    /\ buffers' = Empty
    /\ pc' = "off"
    /\ state' = "error"
    /\ UNCHANGED emitted

StatNew ==
    /\ Stat
    /\ Surprised(Entered)
    /\ Size(path) > StatOffset
    /\ pc' = IF handle = 0 THEN "first" ELSE "read"
    /\ UNCHANGED <<buffers, emitted, state, failures>>

-----------------------------------------------------------------------------
(* Open, seek, read: whatever file the path names by now, to its end.      *)

Payload == From(path, offset)

Undecodable ==
    /\ source.wide
    /\ Payload # <<>>
    /\ UnendedAt(path, offset) \/ Unended(path)

Read ==
    /\ path # 0
    /\ offset' = offset + Len(Payload)
    /\ pc' = "on"
    /\ state' = "running"
    /\ UNCHANGED <<handle, reading, decoder, tail, failures>>

\* Read from the middle of the file, the first line is dropped.
Kept ==
    IF offset = 0 THEN Payload
    ELSE LET ends == {k \in DOMAIN Payload : Payload[k].end}
         IN  IF ends = {} THEN <<>> ELSE SubSeq(Payload, Min(ends) + 1, Len(Payload))
FirstEvents == TailEvents(Kept)

ReadFirst ==
    /\ pc = "first"
    /\ Read
    /\ ~Undecodable
    /\ emitted' = emitted \o FirstEvents
    /\ since' = Len(written)
    /\ Surprised(IF Unended(path) THEN {"cut"} ELSE {})
    /\ UNCHANGED buffers

ReadNew ==
    /\ pc = "read"
    /\ Read
    /\ ~Undecodable
    /\ Keep(Consume(Now, Payload))
    /\ UNCHANGED <<since, surprises>>

\* decode or on_events raises, after the offset was moved: the events are
\* lost, and the assembler has the lines only if they were decoded.
ReadLost ==
    /\ pc \in {"first", "read"}
    /\ path # 0
    /\ Payload # <<>>
    /\ \/ Undecodable /\ UNCHANGED <<buffers, failures>>
       \/ /\ ~Undecodable
          /\ Fails
          /\ IF pc = "first"
             THEN FirstEvents # <<>> /\ UNCHANGED buffers
             ELSE LET a == Consume(Now, Payload)
                  IN  /\ a.out # emitted
                      /\ buffers' = [partial |-> a.partial, current |-> a.current]
    /\ offset' = offset + Len(Payload)
    /\ pc' = "off"
    /\ state' = "error"
    /\ Surprised({"missed"})
    /\ UNCHANGED <<handle, reading, since, decoder, tail, emitted>>

FinishSSH ==
    /\ UNCHANGED <<source, fileVars>>
    /\ pc \in {"off", "on"}
    /\ Keep(FlushAll(Now))
    /\ pc' = "done"
    /\ state' = "stopped"
    /\ UNCHANGED <<handle, offset, reading, since, decoder, tail, surprises, failures>>

SSHStep ==
    /\ UNCHANGED <<source, fileVars>>
    /\ \/ Connect
       \/ RemoteMissing
       \/ ConnectionFails
       \/ StatIdle
       \/ FlushLost
       \/ StatNew
       \/ ReadFirst
       \/ ReadNew
       \/ ReadLost
=============================================================================

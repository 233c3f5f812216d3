------------------------------ MODULE Followers ------------------------------
(***************************************************************************)
(* The follower of a source, as SourceManager.start makes it by its kind,  *)
(* against the program that writes its log.  The properties are the same   *)
(* for both kinds; the surprises say at which moments each cannot notice   *)
(* what happens to the file.                                               *)
(***************************************************************************)
EXTENDS LocalFollower, SSHFollower

vars == <<source, fileVars, readerVars, surprises, failures>>

Init ==
    /\ source \in Sources
    /\ files = <<>>
    /\ path = 0
    /\ written = <<>>
    /\ generation = 0
    /\ pc = IF Local THEN "new" ELSE "off"
    /\ handle = 0
    /\ offset = 0
    /\ reading = 0
    /\ since = 0
    /\ buffers = Empty
    /\ decoder = 0
    /\ tail = <<>>
    /\ emitted = <<>>
    /\ state = "starting"
    /\ surprises = {}
    /\ failures = 0

Follow ==
    \/ LocalStep /\ UNCHANGED failures
    \/ SSHStep

Misses(moved) == IF Local THEN LocalMisses(moved) ELSE SSHMisses(moved)

\* The follower has left file i, or never comes to it.
Left(i) == i # path /\ (~Local \/ i # handle \/ pc = "switch")

LogWrite ==
    /\ Room
    /\ \E i \in DOMAIN files, stamp \in BOOLEAN, end \in BOOLEAN :
           /\ Write(i, stamp, end)
           /\ Surprised(Misses(FALSE) \cup IF Left(i) THEN {"missed"} ELSE {})

LogMoved ==
    /\ Replace \/ Unlink
    /\ Surprised(Misses(TRUE))

LogTruncated ==
    /\ Truncate
    /\ Surprised(Misses(TRUE) \cup IF Unread THEN {"missed"} ELSE {})

\* The stop event was set meanwhile: the loop, at its head, ends.
Finish ==
    \/ FinishLocal /\ UNCHANGED failures
    \/ FinishSSH

Next ==
    \/ Follow
    \/ Finish
    \/ (LogWrite \/ LogMoved \/ LogTruncated) /\ UNCHANGED <<source, readerVars, failures>>

Spec == Init /\ [][Next]_vars

(* The loop polls for ever, each poll interval and each backoff ends; the  *)
(* writer owes nothing, and nobody has to stop the follower.               *)
FairSpec == Spec /\ WF_vars(Follow)

-----------------------------------------------------------------------------
(* Properties.                                                             *)

(* Every variable stays in its range; a partial line has no end, and a     *)
(* pending event begins with a timestamp.                                  *)
TypeOK ==
    /\ source \in Sources
    /\ path \in 0..Len(files)
    /\ handle \in 0..Len(files)
    /\ written \in Seq(Cell)
    /\ pc \in (IF Local THEN LocalStates ELSE SSHStates) \cup {"done"}
    /\ offset \in 0..MaxCells
    /\ decoder \in 0..Len(written)
    /\ surprises \subseteq Surprise
    /\ buffers.partial # <<>> => ~Last(buffers.partial).end
    /\ buffers.current # <<>> => Head(buffers.current).stamp
    /\ failures \in 0..MaxFailures

Taken == FlattenSeq(emitted) \o buffers.current \o buffers.partial

(* No cell is emitted twice or out of order, through rotation, removal,    *)
(* truncation, broken connections and lost payloads: the older file first, *)
(* each file in its own order (docs/BUGFIX_SPEC.md, LM-003).  Except when  *)
(* the path vanished between exists and stat, for the pending event then   *)
(* comes after the new tail, and when a remote file was replaced between   *)
(* stat and open, for the new one is then read again.                      *)
OnceInOrder ==
    surprises \cap {"vanished", "swapped"} = {} =>
        \A k \in 2..Len(Taken) :
            \/ Taken[k-1].gen < Taken[k].gen
            \/ Taken[k-1].gen = Taken[k].gen /\ Taken[k-1].id < Taken[k].id

\* c lies before the place the follower has reached.
Passed(c) ==
    \/ c.gen < reading
    \/ /\ files[handle].gen = reading
       /\ \E k \in 1..offset : k \in DOMAIN files[handle].cells /\ files[handle].cells[k] = c

(* What was written after the first read of the log is never skipped,      *)
(* unless the file changed between the tail and its opening, was written   *)
(* after the follower left it, lost unread lines to a truncation or,       *)
(* remotely, to a rotation, came back as long as it was before, was        *)
(* replaced before it was opened, the path vanished between exists and     *)
(* stat (the handle is closed, and a new tail begins later), or a payload  *)
(* could not be decoded or stored (poll_once, "Finish the old inode before *)
(* switching"; _read_new keeps the offset when the connection fails).      *)
NothingElseIsSkipped ==
    surprises \subseteq {"cut", "mixed"} /\ handle # 0 =>
        \A k \in (since + 1)..Len(written) :
            Passed(written[k]) => \E j \in DOMAIN Taken : Taken[j] = written[k]

(* No event holds lines of two files or of a file before and after its     *)
(* truncation (docs/BUGFIX_SPEC.md, LM-004: a pending event is flushed by  *)
(* rotation and truncation).  Not when the path vanished, the change was   *)
(* not seen, or a remote file changed while an event was pending.          *)
OneFilePerEvent ==
    surprises \cap {"vanished", "unseen", "swapped", "mixed"} = {} =>
        \A e \in ToSet(emitted) : \A j, k \in DOMAIN e : e[j].gen = e[k].gen

(* A line that is still being written waits for its end, however many idle *)
(* polls go by, while its file is the current one (LM-004); the first read *)
(* may cut it.                                                             *)
UnendedLineWaits ==
    \A e \in ToSet(emitted) :
        Last(e).end \/ "cut" \in surprises \/ pc = "done"
        \/ \A i \in DOMAIN files : i = path => files[i].gen # Last(e).gen

(* A follower whose path comes to name one file for good, which does not   *)
(* end within a character, and that is not told to stop ends up running,   *)
(* on that file, with everything in it read and every complete event       *)
(* emitted ("missing/error -> running", docs/ARCHITECTURE.md).             *)
CaughtUp ==
    /\ path # 0
    /\ handle = path
    /\ state = "running"
    /\ offset = Size(handle)
    /\ buffers.partial = <<>> => buffers.current = <<>>

EventuallyCaughtUp ==
    <>[](pc # "done" /\ path # 0 /\ ~(source.wide /\ Unended(path))) => <>[]CaughtUp
=============================================================================

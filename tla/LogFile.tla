------------------------------- MODULE LogFile -------------------------------
(***************************************************************************)
(* What the two followers of readers.py share: the log and the program     *)
(* that writes, truncates, removes and replaces it, lines and events       *)
(* (EventAssembler), and the state of a follower.                          *)
(*                                                                         *)
(* A file is an inode: it keeps its content when the path names another.   *)
(* What is written in one go is a cell: it carries the timestamp of its    *)
(* line or not, and ends the line or not.  A generation begins when a file *)
(* is created or truncated.  A log is plain, or wide: then a cell that     *)
(* does not end its line ends within a character of several bytes.         *)
(*                                                                         *)
(* A definition whose name begins with Bad is a faulty variant of the one  *)
(* that follows it, there to try the properties on a plausible bug.        *)
(***************************************************************************)
EXTENDS Naturals, Sequences, SequencesExt

CONSTANTS
    Sources,        \* the sources tried: [kind, wide, inodes]
    History,        \* history_events
    MaxCells,       \* bound: cells ever written
    MaxGenerations  \* bound: files created and truncations

ASSUME SourcesAssumption ==
    Sources \subseteq [kind : {"local", "ssh"}, wide : BOOLEAN, inodes : BOOLEAN]
ASSUME HistoryAssumption == History \in Nat \ {0}
ASSUME BoundAssumption == MaxCells \in Nat /\ MaxGenerations \in Nat

VARIABLES
    source,     \* the source followed; inodes: the server reports them
    files,      \* the inodes: [gen, cells]
    path,       \* the inode the path names, 0 for none
    written,    \* history: every cell ever written
    generation, \* the last generation begun
    pc,         \* control state of the follower
    handle,     \* the inode it has open, or of its signature; 0 for none
    offset,     \* cells of it that were read
    reading,    \* history: the generation it reads
    since,      \* history: cells written before the first read of the log
    buffers,    \* partial, and the assembler's current event
    decoder,    \* the cell whose last character the decoder holds, 0 for none
    tail,       \* the events of the tail being opened
    emitted,    \* the events handed to _on_events
    state,      \* what it last reported
    surprises   \* history: what happened at a bad moment

fileVars == <<files, path, written, generation>>
readerVars == <<pc, handle, offset, reading, since, buffers, decoder, tail, emitted, state>>

Cell == [id : 1..MaxCells, gen : 1..MaxGenerations, stamp : BOOLEAN, end : BOOLEAN]
Surprise == {"missed", "unseen", "swapped", "mixed", "vanished", "cut"}

Size(i) == Len(files[i].cells)
From(i, k) == SubSeq(files[i].cells, k + 1, Size(i))
\* The first k cells of a file end within a line.
UnendedAt(i, k) == k > 0 /\ k <= Size(i) /\ ~files[i].cells[k].end
Unended(i) == UnendedAt(i, Size(i))
\* The generation that is read has cells the follower has not read.
Unread == path # handle \/ files[path].gen # reading \/ offset < Size(path)

-----------------------------------------------------------------------------
(* Lines and events.  An assembler and the line it has not seen the end of *)
(* is a = [partial, current, out].                                         *)

Empty == [partial |-> <<>>, current |-> <<>>]
NewAssembler == [partial |-> <<>>, current |-> <<>>, out |-> <<>>]
Held(q) == IF q = <<>> THEN <<>> ELSE <<q>>

BadFeed(a, line) ==
    IF Head(line).stamp \/ a.current = <<>>
    THEN [a EXCEPT !.out = @ \o Held(a.current), !.current = line]
    ELSE [a EXCEPT !.current = @ \o line]
\* EventAssembler.feed: a timestamp begins an event, other lines continue it.
Feed(a, line) ==
    IF Head(line).stamp
    THEN [a EXCEPT !.out = @ \o Held(a.current), !.current = line]
    ELSE IF a.current # <<>>
         THEN [a EXCEPT !.current = @ \o line]
         ELSE [a EXCEPT !.out = Append(@, line)]

Flush(a) == [a EXCEPT !.out = @ \o Held(a.current), !.current = <<>>]

BadFlushAll(a) == a
\* _flush_pending(include_partial=True)
FlushAll(a) ==
    Flush([(IF a.partial = <<>> THEN a ELSE Feed(a, a.partial)) EXCEPT !.partial = <<>>])

\* A cell ends the line it completes, or belongs to the partial line.
Take(a, c) ==
    IF c.end
    THEN Feed([a EXCEPT !.partial = <<>>], Append(a.partial, c))
    ELSE [a EXCEPT !.partial = Append(@, c)]

BadConsume(a, payload) == IF payload = <<>> THEN FlushAll(a) ELSE FoldLeft(Take, a, payload)
\* _consume: nothing new completes the pending event, an unended line does not.
Consume(a, payload) ==
    IF payload # <<>> THEN FoldLeft(Take, a, payload)
    ELSE IF a.partial = <<>> THEN Flush(a) ELSE a

Now == [partial |-> buffers.partial, current |-> buffers.current, out |-> emitted]
Keep(result) ==
    \E a \in {result} :
        /\ buffers' = [partial |-> a.partial, current |-> a.current]
        /\ emitted' = a.out

LastOf(q, n) == IF Len(q) <= n THEN q ELSE SubSeq(q, Len(q) - n + 1, Len(q))

\* parse_lines, and the last history_events of its events.
TailEvents(cells) ==
    LastOf(FlushAll(FoldLeft(Take, NewAssembler, cells)).out, History)

Surprised(kinds) == surprises' = surprises \cup kinds

-----------------------------------------------------------------------------
(* The writer, and whoever rotates the log.                                *)

\* A program that has an old file open may go on writing to it.
Write(i, stamp, end) ==
    LET cell == [id |-> Len(written) + 1, gen |-> files[i].gen, stamp |-> stamp, end |-> end]
    IN
    /\ Len(written) < MaxCells
    /\ ~(stamp /\ Unended(i))
    /\ files' = [files EXCEPT ![i].cells = Append(@, cell)]
    /\ written' = Append(written, cell)
    /\ UNCHANGED <<path, generation>>

Begin == generation < MaxGenerations /\ generation' = generation + 1

Replace ==
    /\ Begin
    /\ files' = Append(files, [gen |-> generation', cells |-> <<>>])
    /\ path' = Len(files) + 1
    /\ UNCHANGED written

Unlink ==
    /\ path # 0
    /\ path' = 0
    /\ UNCHANGED <<files, written, generation>>

Truncate ==
    /\ path # 0
    /\ Size(path) > 0
    /\ Begin
    /\ files' = [files EXCEPT ![path] = [gen |-> generation', cells |-> <<>>]]
    /\ UNCHANGED <<path, written>>
=============================================================================

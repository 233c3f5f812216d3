---------------------------- MODULE IncidentStore ----------------------------
(***************************************************************************)
(* The persistent incident register, incidents.py, fed by readers that     *)
(* reread the tail of their file at every start.  record_many, a cleanup,  *)
(* a listing and a deletion each hold the lock and one transaction, so     *)
(* each is a step.  The event loop reads a batch or accepts a request with *)
(* the settings of that moment; a thread does the work, later.             *)
(*                                                                         *)
(* A line is its text and its timestamp, 0 for none.  An event happens at  *)
(* its display time, the timestamp shifted by what the source's reader was *)
(* started with; one without timestamp when it is read.  What a text is    *)
(* normalised to depends on the release of the program.  sequence numbers  *)
(* the events of one reader from 1.                                        *)
(*                                                                         *)
(* A definition whose name begins with Bad is a faulty variant of the one  *)
(* that follows it, there to try the properties on a plausible bug.        *)
(***************************************************************************)
EXTENDS Integers, Sequences, FiniteSets, SequencesExt, FiniteSetsExt

CONSTANTS
    Sources,        \* source ids
    Texts,          \* texts of log lines
    Errors,         \* the texts whose level is ERROR
    Keyed,          \* the texts that contain a keyword, when there is one
    Releases,       \* releases of the program, 1 the oldest
    Normal,         \* Normal[v][x]: normalize_incident_message in release v
    Score,          \* Score[a][b]: similarity of two normalised texts, 0..100
    Window,         \* CORRELATION_WINDOW_SECONDS
    Retentions,     \* values of retention_hours
    Shifts,         \* values of a source's timezone_offset_hours
    Earliest,       \* the first timestamp of a line; a shifted one is a date too
    History,        \* lines a starting reader rereads
    MaxNow,         \* bound: the clock
    MaxLines,       \* bound: lines ever written
    MaxStarts       \* bound: starts of readers and of the program

ASSUME TextAssumption == Errors \subseteq Texts /\ Keyed \subseteq Texts
ASSUME ReleaseAssumption == 1 \in Releases /\ Releases \subseteq Nat
ASSUME WindowAssumption == Window \in Nat /\ Retentions \subseteq Nat /\ History \in Nat
ASSUME ShiftAssumption ==
    /\ 0 \in Shifts /\ Shifts \subseteq Int
    /\ Earliest \in Nat \ {0} /\ \A h \in Shifts : Earliest + h \in Nat
ASSUME ClockAssumption == MaxNow \in Nat \ {0}
ASSUME NormalAssumption == \A v \in Releases : Normal[v] \in [Texts -> Texts]
\* What one release normalises alike, the later ones do: a start can merge
\* groups, and has no way to take one apart.
ASSUME MergingAssumption ==
    \A v, w \in Releases : v <= w =>
        \A x, y \in Texts : Normal[v][x] = Normal[v][y] => Normal[w][x] = Normal[w][y]
ASSUME ScoreAssumption == \A x, y \in Texts : Score[x][y] \in 0..100

VARIABLES
    log,            \* the lines of each source's file
    now,            \* the clock
    release,        \* the release that runs
    retention,      \* incident_settings.retention_hours
    keywords,       \* whether incident_settings.keywords holds the keyword
    incidents,      \* the table incidents
    occurrences,    \* the table incident_occurrences
    made,           \* incidents ever made
    running,        \* whether the reader of a source runs
    shift,          \* the shift it was started with
    shifts,         \* history: the shifts the file was ever read under
    read,           \* lines it has read
    sequence,       \* events it has created
    pending,        \* the batch it is recording, with the settings then
    cleaning,       \* retentions of the listings and cleanups under way
    starts          \* what the bound counts

vars == <<log, now, release, retention, keywords, incidents, occurrences, made,
          running, shift, shifts, read, sequence, pending, cleaning, starts>>

settingVars == <<release, retention, keywords>>
tableVars   == <<incidents, occurrences, made>>
startVars   == <<running, shift, shifts>>
readerVars  == <<startVars, read, sequence, pending>>

Line == [text : Texts, time : {0} \cup Earliest..MaxNow]
Incident == [id : Nat, src : Sources, text : Texts, norm : Texts, first : Nat, last : Nat,
             count : Nat, kind : {"error", "keyword"}]

NoBatch == [events |-> <<>>, hours |-> 0, keyed |-> FALSE]

Norm(x) == Normal[release][x]
Distance(a, b) == IF a < b THEN b - a ELSE a - b

-----------------------------------------------------------------------------
(* The tables: a value t is [inc, occ, made].                              *)

BadWithout(t, gone) == [t EXCEPT !.inc = @ \ gone]
\* DELETE FROM incidents, with the cascade to the occurrences.
Without(t, gone) ==
    [t EXCEPT !.inc = @ \ gone, !.occ = {o \in @ : \A i \in gone : o.incident # i.id}]

Expired(t, keep) == {i \in t.inc : i.last + keep < now}
Cleanup(t, keep) == Without(t, Expired(t, keep))

Classify(x, keyed) ==
    IF x \in Errors THEN "error" ELSE IF x \in Keyed /\ keyed THEN "keyword" ELSE "none"

BadKey(e) == [src |-> e.src, time |-> now, seq |-> e.seq, text |-> e.text]
\* The fingerprint: source, moment, sequence, level and raw text.
Key(e) == [src |-> e.src, time |-> e.time, seq |-> e.seq, text |-> e.text]

BadExact(t, e) ==
    {i \in t.inc : i.src = e.src /\ i.norm = Norm(e.text) /\ Distance(i.last, e.time) <= Window}
Exact(t, e) == {i \in t.inc : i.src = e.src /\ i.norm = Norm(e.text)}

BadSimilar(t, e) ==
    {i \in t.inc : i.src = e.src /\ i.last + Window >= e.time /\ Score[Norm(e.text)][i.norm] >= 70}
\* Groups at least 70% similar whose last occurrence is within the window.
Similar(t, e) ==
    {i \in t.inc : /\ i.src = e.src
                   /\ Distance(i.last, e.time) <= Window
                   /\ Score[Norm(e.text)][i.norm] >= 70}

\* The best candidate: by score, then the latest, then the id (a random
\* hex string in the code, the order of creation here).
Better(i, j, e) ==
    LET p == Score[Norm(e.text)][i.norm]
        q == Score[Norm(e.text)][j.norm]
    IN  p > q \/ (p = q /\ (i.last > j.last \/ (i.last = j.last /\ i.id > j.id)))
Best(t, e) ==
    LET among == IF Exact(t, e) # {} THEN Exact(t, e) ELSE Similar(t, e)
    IN  {i \in among : \A j \in among \ {i} : Better(i, j, e)}

BadGrouped(i, e, kind) == [i EXCEPT !.first = Min({@, e.time}), !.last = e.time, !.count = @ + 1,
                                    !.kind = IF kind = "error" THEN "error" ELSE @]
Grouped(i, e, kind) == [i EXCEPT !.first = Min({@, e.time}), !.last = Max({@, e.time}), !.count = @ + 1,
                                 !.kind = IF kind = "error" THEN "error" ELSE @]

BadNew(t, e, kind) ==
    [id |-> Cardinality(t.inc) + 1, src |-> e.src, text |-> e.text, norm |-> Norm(e.text),
     first |-> e.time, last |-> e.time, count |-> 1, kind |-> kind]
New(t, e, kind) ==
    [id |-> t.made + 1, src |-> e.src, text |-> e.text, norm |-> Norm(e.text),
     first |-> e.time, last |-> e.time, count |-> 1, kind |-> kind]

\* _record_locked, under the settings the batch came with.
RecordOne(t, e, batch) ==
    LET kind == Classify(e.text, batch.keyed)
        best == Best(t, e)
        i == IF best = {} THEN New(t, e, kind) ELSE Grouped(CHOOSE b \in best : TRUE, e, kind)
    IN  IF \/ kind = "none"
           \/ e.time + batch.hours < now
           \/ \E o \in t.occ : o.key = Key(e)
        THEN t
        ELSE [inc |-> (t.inc \ best) \cup {i},
              occ |-> t.occ \cup {[key |-> Key(e), incident |-> i.id, time |-> e.time]},
              made |-> IF best = {} THEN i.id ELSE t.made]

\* The events of a batch, one after the other.
Recorded(t, batch) ==
    LET One(u, e) == RecordOne(u, e, batch)
    IN  FoldLeft(One, t, batch.events)

\* Groups that a new release normalises alike become one, the latest.
Renamed(t, v) == {[i EXCEPT !.norm = Normal[v][i.text]] : i \in t.inc}
Alike(rows, i) == {j \in rows : j.src = i.src /\ j.norm = i.norm}
Keeper(group) ==
    CHOOSE k \in group : \A j \in group : k.last > j.last \/ (k.last = j.last /\ k.id <= j.id)
United(group) ==
    [Keeper(group) EXCEPT
        !.first = Min({j.first : j \in group}),
        !.last = Max({j.last : j \in group}),
        !.count = SumFunction([j \in group |-> j.count]),
        !.kind = IF \E j \in group : j.kind = "error" THEN "error" ELSE "keyword"]
Merged(t, v) ==
    LET rows == Renamed(t, v)
        row(o) == CHOOSE i \in rows : i.id = o.incident
    IN  [t EXCEPT !.inc = {United(Alike(rows, i)) : i \in rows},
                  !.occ = {[o EXCEPT !.incident = Keeper(Alike(rows, row(o))).id] : o \in t.occ}]

Tables == [inc |-> incidents, occ |-> occurrences, made |-> made]
Becomes(t) == incidents' = t.inc /\ occurrences' = t.occ /\ made' = t.made

-----------------------------------------------------------------------------
(* The files, the clock and the readers.                                   *)

Written == SumFunction([s \in Sources |-> Len(log[s])])

AppendLine(s, line) ==
    /\ Written < MaxLines
    /\ line.time <= now
    /\ log' = [log EXCEPT ![s] = Append(@, line)]
    /\ UNCHANGED <<now, settingVars, tableVars, readerVars, cleaning, starts>>

Tick ==
    /\ now < MaxNow
    /\ now' = now + 1
    /\ UNCHANGED <<log, settingVars, tableVars, readerVars, cleaning, starts>>

\* The events of the lines i..j under the shift h, numbered on from the
\* reader's sequence.
EventsOf(s, i, j, seq, h) ==
    [k \in 1..(j + 1 - i) |->
        LET line == log[s][i + k - 1]
        IN  [src |-> s, text |-> line.text, seq |-> seq + k,
             time |-> IF line.time = 0 THEN now ELSE line.time + h]]

ReadFrom(s, i, seq, h) ==
    /\ pending' = [pending EXCEPT ![s] =
          IF i > Len(log[s]) THEN NoBatch
          ELSE [events |-> EventsOf(s, i, Len(log[s]), seq, h), hours |-> retention,
                keyed |-> keywords]]
    /\ sequence' = [sequence EXCEPT ![s] = seq + Len(log[s]) + 1 - i]
    /\ read' = [read EXCEPT ![s] = Len(log[s])]

\* A new follower: its assembler counts from 1 and it reads the tail.  The
\* shift may have been changed since the last start: a PUT that changes it
\* stops the reader, stores the shift and starts another.
StartReader(s, h) ==
    /\ ~running[s]
    /\ starts < MaxStarts
    /\ starts' = starts + 1
    /\ running' = [running EXCEPT ![s] = TRUE]
    /\ shift' = [shift EXCEPT ![s] = h]
    /\ shifts' = [shifts EXCEPT ![s] = @ \cup {h}]
    /\ ReadFrom(s, IF Len(log[s]) > History THEN Len(log[s]) - History + 1 ELSE 1, 0, h)
    /\ UNCHANGED <<log, now, settingVars, tableVars, cleaning>>

Poll(s) ==
    /\ running[s]
    /\ pending[s] = NoBatch
    /\ read[s] < Len(log[s])
    /\ ReadFrom(s, read[s] + 1, sequence[s], shift[s])
    /\ UNCHANGED <<log, now, settingVars, tableVars, startVars, cleaning, starts>>

\* record_many: clean up, then each event of the batch.
Record(s) ==
    LET batch == pending[s] IN
    /\ batch # NoBatch
    /\ Becomes(Recorded(Cleanup(Tables, batch.hours), batch))
    /\ pending' = [pending EXCEPT ![s] = NoBatch]
    /\ UNCHANGED <<log, now, settingVars, startVars, read, sequence, cleaning, starts>>

StopReader(s) ==
    /\ running[s]
    /\ pending[s] = NoBatch
    /\ running' = [running EXCEPT ![s] = FALSE]
    /\ UNCHANGED <<log, now, settingVars, tableVars, shift, shifts, read, sequence, pending,
                   cleaning, starts>>

-----------------------------------------------------------------------------
(* The API, and a restart of the program.                                  *)

\* A listing cleans up before it selects; it changes nothing else.
List ==
    /\ cleaning' = cleaning \cup {retention}
    /\ UNCHANGED <<log, now, settingVars, tableVars, readerVars, starts>>

UpdateSettings(hours, keyed) ==
    /\ retention' = hours
    /\ keywords' = keyed
    /\ cleaning' = cleaning \cup {hours}
    /\ UNCHANGED <<log, now, release, tableVars, readerVars, starts>>

CleanUp(hours) ==
    /\ hours \in cleaning
    /\ cleaning' = cleaning \ {hours}
    /\ Becomes(Cleanup(Tables, hours))
    /\ UNCHANGED <<log, now, settingVars, readerVars, starts>>

Delete(i) ==
    /\ Becomes(Without(Tables, {i}))
    /\ UNCHANGED <<log, now, settingVars, readerVars, cleaning, starts>>

DeleteForSources(srcs) ==
    /\ Becomes(Without(Tables, {i \in incidents : i.src \in srcs}))
    /\ UNCHANGED <<log, now, settingVars, readerVars, cleaning, starts>>

\* The program ends, with or without warning, and a release v starts.
Restart(v) ==
    /\ starts < MaxStarts
    /\ starts' = starts + 1
    /\ v >= release
    /\ release' = v
    /\ Becomes(Cleanup(Merged(Tables, v), retention))
    /\ running' = [s \in Sources |-> FALSE]
    /\ pending' = [s \in Sources |-> NoBatch]
    /\ cleaning' = {}
    /\ UNCHANGED <<log, now, retention, keywords, shift, shifts, read, sequence>>

-----------------------------------------------------------------------------
Init ==
    /\ log = [s \in Sources |-> <<>>]
    /\ now = 1
    /\ release = 1
    /\ retention \in Retentions
    /\ keywords = TRUE
    /\ incidents = {}
    /\ occurrences = {}
    /\ made = 0
    /\ running = [s \in Sources |-> FALSE]
    /\ shift = [s \in Sources |-> 0]
    /\ shifts = [s \in Sources |-> {}]
    /\ read = [s \in Sources |-> 0]
    /\ sequence = [s \in Sources |-> 0]
    /\ pending = [s \in Sources |-> NoBatch]
    /\ cleaning = {}
    /\ starts = 0

Next ==
    \/ \E s \in Sources :
           \/ \E line \in Line : AppendLine(s, line)
           \/ \E h \in Shifts : StartReader(s, h)
           \/ Poll(s)
           \/ Record(s)
           \/ StopReader(s)
    \/ Tick
    \/ List
    \/ \E hours \in Retentions : CleanUp(hours)
    \/ \E i \in incidents : Delete(i)
    \/ \E srcs \in SUBSET Sources : DeleteForSources(srcs)
    \/ \E hours \in Retentions, keyed \in BOOLEAN : UpdateSettings(hours, keyed)
    \/ \E v \in Releases : Restart(v)

Spec == Init /\ [][Next]_vars

-----------------------------------------------------------------------------
(* Properties.                                                             *)

Of(i) == {o \in occurrences : o.incident = i.id}

(* Every variable stays in its range; a fingerprint is stored once and an  *)
(* incident has one row.                                                   *)
TypeOK ==
    /\ log \in [Sources -> Seq(Line)]
    /\ now \in 1..MaxNow
    /\ release \in Releases
    /\ retention \in Retentions
    /\ incidents \subseteq Incident
    /\ \A i, j \in incidents : i.id = j.id => i = j
    /\ \A o, p \in occurrences : o.key = p.key => o = p
    /\ running \in [Sources -> BOOLEAN]
    /\ shift \in [Sources -> Shifts] /\ shifts \in [Sources -> SUBSET Shifts]
    /\ \A s \in Sources : read[s] <= Len(log[s])

(* The count of a group is the number of its fingerprints, and no          *)
(* fingerprint is left of a group that was deleted, expired or merged: it  *)
(* would keep a later occurrence from being counted (ARCHITECTURE,         *)
(* "Incident flow").                                                       *)
CountsAreOccurrences ==
    /\ \A i \in incidents : i.count = Cardinality(Of(i))
    /\ \A o \in occurrences : \E i \in incidents : o.incident = i.id

(* Equal messages of a source are in one group, however far apart they     *)
(* occurred, whatever releases normalised them (INCIDENTS_SPEC,            *)
(* "Grouping").                                                            *)
OneGroupPerMessage ==
    \A i, j \in incidents : i.src = j.src /\ i.norm = j.norm => i = j

(* first_seen and last_seen are those of the occurrences, in whatever      *)
(* order they were recorded: retention counts from the true last one.      *)
SpanIsExact ==
    \A i \in incidents :
        /\ i.first = Min({o.time : o \in Of(i)})
        /\ i.last = Max({o.time : o \in Of(i)})

(* A message that is only similar to its group's is close in time to       *)
(* another occurrence of the group (INCIDENTS_SPEC, "Grouping").           *)
SimilarIsClose ==
    \A i \in incidents, o \in occurrences :
        o.incident = i.id /\ Norm(o.key.text) # i.norm =>
            \E p \in Of(i) \ {o} : Distance(p.time, o.time) <= Window

Counted(s) == SumFunction([i \in {j \in incidents : j.src = s} |-> i.count])

(* A file that fits in the tail is counted once under each shift it was    *)
(* read with, however often it is reread: its events keep their sequence   *)
(* and their timestamps.  A PUT that changes the shift has the lines       *)
(* counted again, under their other display times.                         *)
WholeFileIsCountedOnce ==
    \A s \in Sources :
        Len(log[s]) <= History /\ (\A k \in DOMAIN log[s] : log[s][k].time # 0)
            => Counted(s) <= Len(log[s]) * Cardinality(shifts[s])

(* A restart does not count the lines of the tail again, were they all to  *)
(* have a timestamp ("Occurrence fingerprints prevent a restart from       *)
(* counting the reader's initial tail twice", docs/ARCHITECTURE.md).       *)
TailIsCountedOnce ==
    \A s \in Sources : (\A k \in DOMAIN log[s] : log[s][k].time # 0) => Counted(s) <= Len(log[s])
=============================================================================

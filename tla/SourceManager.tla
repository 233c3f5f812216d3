---------------------------- MODULE SourceManager ----------------------------
(***************************************************************************)
(* The life cycle of the log readers: the source endpoints of api.py, the  *)
(* tables SourceManager keeps of tasks and stop events, and the reader     *)
(* tasks themselves, seen from the manager.                                *)
(*                                                                         *)
(* Everything but the SQLite calls runs on one asyncio loop, so an action  *)
(* is the code between two suspension points: `await gather(task)` in      *)
(* SourceManager.stop, every `await asyncio.to_thread(...)`, and the waits *)
(* of a reader.  `async with self._lock` in start never suspends, because  *)
(* its body holds no await and nothing else takes the lock, so start is    *)
(* one step.  A finished task and the call of its done-callback are two    *)
(* steps: the loop may run other handlers between them.                    *)
(*                                                                         *)
(* A log file is a number of lines, one event per line; an event in the    *)
(* buffer is the definition it was read under, its line and the time shift *)
(* it is displayed with.  The n-th reader task ever created for source s   *)
(* is the pair s, n.                                                       *)
(*                                                                         *)
(* A definition whose name begins with Bad is a faulty variant of the one  *)
(* that follows it.  Nothing uses it: it is there to try the properties on *)
(* a plausible bug.                                                        *)
(***************************************************************************)
EXTENDS Naturals, Sequences, FiniteSets

CONSTANTS
    Sources,            \* source ids
    Handlers,           \* request handlers that may be active together
    Definitions,        \* values of (kind, path, parser, ssh)
    RemoteDefinitions,  \* the definitions whose kind is ssh
    Offsets,            \* values of timezone_offset_hours
    Histories,          \* values of history_events
    NoSource,           \* "not in config.sources"
    MaxReaders,         \* bound: reader tasks per source
    MaxRequests,        \* bound: requests ever received
    MaxLines,           \* bound: lines per log file
    MaxDeaths,          \* bound: readers ended by an exception
    MaxFailures         \* bound: failed saves of config.json and storage calls

Body == [enabled : BOOLEAN, def : Definitions, offset : Offsets, history : Histories]

ASSUME RemoteAssumption == RemoteDefinitions \subseteq Definitions
ASSUME HistoryAssumption == Histories \subseteq Nat \ {0}
ASSUME BoundAssumption ==
    /\ MaxReaders \in Nat
    /\ MaxRequests \in Nat
    /\ MaxLines \in Nat
    /\ MaxDeaths \in Nat
    /\ MaxFailures \in Nat
ASSUME NoSourceAssumption == NoSource \notin Body
ASSUME NonEmptyAssumption == Sources # {} /\ Body # {}

VARIABLES
    config,     \* ConfigStore: the configured body of each source
    file,       \* environment: how many lines each log file has
    buffer,     \* EventStore: the buffered events of each source, oldest first
    status,     \* SourceManager.statuses, what a reader last reported
    tasks,      \* SourceManager.tasks: registered reader, 0 for none
    stopEvents, \* SourceManager.stop_events: whose event it is, 0 for none
    created,    \* readers created so far, per source
    rpc,        \* control state of each reader task
    rstop,      \* whether the reader's stop event is set
    reader,     \* local state of each reader task
    opening,    \* history: what the last opening of a source's log skipped
    hpc,        \* control state of each request handler
    handler,    \* local state of each request handler
    phase,      \* of the application's lifespan
    awaited,    \* the readers stop_all waits for
    requests, deaths, failures  \* what the bounds count

readerVars == <<tasks, stopEvents, created, rpc, rstop, reader>>
countVars  == <<requests, deaths, failures>>
vars == <<config, file, buffer, status, opening, readerVars, hpc, handler, phase,
          awaited, countVars>>

-----------------------------------------------------------------------------
Ids == 1..MaxReaders
Ref == 0..MaxReaders
Event == [def : Definitions, line : 1..MaxLines, offset : Offsets]
Stage == {"delete_source", "shift_source", "trim_source", "delete_latest", "start"}

\* The tail read at the opening of a log ends at line tail, and what is read
\* after it begins behind line from.
Opening == [tail : 0..MaxLines, from : 0..MaxLines]

ReaderRec ==
    [body : Body, read : 0..MaxLines, held : Seq(1..MaxLines), batch : Seq(1..MaxLines),
     limit : Histories \cup {0}, final : BOOLEAN]
HandlerRec ==
    [op : {"put", "delete"}, src : Sources, body : Body, prev : Body, wait : Ref,
     todo : Seq(Stage)]

ReaderStates == {"unborn", "open", "tail", "insert", "poll", "done", "reaped"}
Active == {"open", "tail", "insert", "poll"}     \* task created and not done()

SomeBody == CHOOSE b \in Body : TRUE
IdleReader == [body |-> SomeBody, read |-> 0, held |-> <<>>, batch |-> <<>>,
               limit |-> 0, final |-> FALSE]
IdleHandler == [op |-> "put", src |-> CHOOSE s \in Sources : TRUE, body |-> SomeBody,
                prev |-> SomeBody, wait |-> 0, todo |-> <<>>]

LastN(q, n)    == IF Len(q) <= n THEN q ELSE SubSeq(q, Len(q) - n + 1, Len(q))
DropLast(q, n) == IF Len(q) <= n THEN <<>> ELSE SubSeq(q, 1, Len(q) - n)

Configured(s) == config[s] # NoSource
Enabled(s) == Configured(s) /\ config[s].enabled
Live(s) == {n \in Ids : rpc[s][n] \in Active}

\* source.id in self.tasks and not self.tasks[source.id].done()
HasRunningTask(s) == tasks[s] # 0 /\ rpc[s][tasks[s]] \in Active

-----------------------------------------------------------------------------
(* What a PUT compares and plans.                                          *)

DefinitionChanged(prev, new) == prev.def # new.def
\* poll_interval_ms is left out: a change of it restarts the reader too, and
\* does nothing else.
RuntimeChanged(prev, new) ==
    \/ DefinitionChanged(prev, new)
    \/ prev.offset # new.offset
    \/ prev.history # new.history
RestartRequired(prev, new) ==
    new.enabled /\ (~prev.enabled \/ RuntimeChanged(prev, new))
BadStopRequired(prev, new) == prev.enabled /\ ~new.enabled
StopRequired(prev, new) ==
    prev.enabled /\ (~new.enabled \/ RuntimeChanged(prev, new))

When(c, stage) == IF c THEN <<stage>> ELSE <<>>

BadPlanKeepsTail(prev, new) ==
    When(DefinitionChanged(prev, new), "delete_source")
    \o When(prev.offset # new.offset, "shift_source")
    \o When(prev.history # new.history, "trim_source")
    \o When(RestartRequired(prev, new), "start")
BadPlanKeepsSource(prev, new) ==
    When(prev.offset # new.offset, "shift_source")
    \o When(prev.history # new.history, "trim_source")
    \o When(RestartRequired(prev, new), "delete_latest")
    \o When(RestartRequired(prev, new), "start")
BadPlanForgetsStart(prev, new) ==
    When(DefinitionChanged(prev, new), "delete_source")
    \o When(prev.offset # new.offset, "shift_source")
    \o When(prev.history # new.history, "trim_source")

(* The awaits of a PUT after the configuration is updated, in their order. *)
Plan(prev, new) ==
    When(DefinitionChanged(prev, new), "delete_source")
    \o When(prev.offset # new.offset, "shift_source")
    \o When(prev.history # new.history, "trim_source")
    \o When(RestartRequired(prev, new) /\ ~DefinitionChanged(prev, new), "delete_latest")
    \o When(RestartRequired(prev, new), "start")

-----------------------------------------------------------------------------
(* SourceManager.start                                                     *)

CreateReader(s, body) ==
    LET n == created[s] + 1 IN
    /\ n \in Ids
    /\ created' = [created EXCEPT ![s] = n]
    /\ tasks' = [tasks EXCEPT ![s] = n]
    /\ stopEvents' = [stopEvents EXCEPT ![s] = n]
    /\ rpc' = [rpc EXCEPT ![s][n] = "open"]
    /\ reader' = [reader EXCEPT ![s][n] = [IdleReader EXCEPT !.body = body]]
    /\ UNCHANGED rstop

BadStartReader(s, body) == CreateReader(s, body)

StartReader(s, body) ==
    IF HasRunningTask(s) THEN UNCHANGED readerVars ELSE CreateReader(s, body)

BadSignalStop(s) == UNCHANGED rstop

(* SourceManager.stop up to its await: set the event that is registered.   *)
SignalStop(s) ==
    rstop' = IF stopEvents[s] = 0 THEN rstop ELSE [rstop EXCEPT ![s][stopEvents[s]] = TRUE]

BadForgetReader(s) ==
    /\ stopEvents' = [stopEvents EXCEPT ![s] = 0]
    /\ UNCHANGED tasks

(* SourceManager.stop after its await: pop both tables, whoever owns them. *)
ForgetReader(s) ==
    /\ tasks' = [tasks EXCEPT ![s] = 0]
    /\ stopEvents' = [stopEvents EXCEPT ![s] = 0]

-----------------------------------------------------------------------------
(* The reader tasks.                                                       *)

BadLines(i, j) == [k \in 1..(IF j < i THEN 0 ELSE j - i + 1) |-> i + k - 2]
Lines(i, j) == [k \in 1..(IF j < i THEN 0 ELSE j - i + 1) |-> i + k - 1]

\* The limits mapping _on_events builds before its first await.
LimitNow(s) == IF Configured(s) THEN config[s].history ELSE 0

EmitBatch(s, n, batch, next) ==
    /\ reader' = [reader EXCEPT ![s][n] =
                     [next EXCEPT !.batch = batch, !.limit = LimitNow(s)]]
    /\ rpc' = [rpc EXCEPT ![s][n] = "insert"]
    /\ UNCHANGED status

Report(s, state) == status' = [status EXCEPT ![s] = state]

Remote(s, n) == reader[s][n].body.def \in RemoteDefinitions

\* A local reader initialises whatever its stop event says.  It reads the
\* tail in a worker thread and goes on when the loop runs it again.
ReaderTail(s, n) ==
    LET r == reader[s][n] IN
    /\ rpc[s][n] = "open"
    /\ ~Remote(s, n)
    /\ rpc' = [rpc EXCEPT ![s][n] = "tail"]
    /\ reader' = [reader EXCEPT ![s][n] = [r EXCEPT !.read = file[r.body.def]]]
    /\ UNCHANGED <<config, file, buffer, status, opening, tasks, stopEvents, created, rstop,
                   hpc, handler, phase, awaited, countVars>>

\* The log is opened at the size it has by now: what was written since the
\* tail was read is skipped.  An ssh reader tests its stop event first and goes
\* on where its first read ended.
ReaderOpen(s, n) ==
    LET r == reader[s][n]
        size == file[r.body.def]
        tail == IF Remote(s, n) THEN size ELSE r.read
        opened == [r EXCEPT !.read = size]
    IN
    /\ IF Remote(s, n) THEN rpc[s][n] = "open" /\ ~rstop[s][n] ELSE rpc[s][n] = "tail"
    /\ opening' = [opening EXCEPT ![s] = [tail |-> tail, from |-> size]]
    /\ IF tail = 0
       THEN /\ rpc' = [rpc EXCEPT ![s][n] = "poll"]
            /\ reader' = [reader EXCEPT ![s][n] = opened]
            /\ Report(s, "running")
       ELSE EmitBatch(s, n, LastN(Lines(1, tail), r.body.history), opened)
    /\ UNCHANGED <<config, file, buffer, tasks, stopEvents, created, rstop,
                   hpc, handler, phase, awaited, countVars>>

\* New lines complete the event held back, and the last of them is held back
\* in turn; an idle poll emits the held event.
ReaderPoll(s, n) ==
    LET r == reader[s][n]
        size == file[r.body.def]
        all == r.held \o Lines(r.read + 1, size)
        idle == size = r.read
        batch == IF idle THEN all ELSE DropLast(all, 1)
        next == [r EXCEPT !.read = size, !.held = IF idle THEN <<>> ELSE LastN(all, 1)]
    IN
    /\ rpc[s][n] = "poll"
    /\ ~rstop[s][n]
    /\ all # <<>>
    /\ IF batch = <<>>
       THEN /\ reader' = [reader EXCEPT ![s][n] = next]
            /\ Report(s, "running")
            /\ UNCHANGED rpc
       ELSE EmitBatch(s, n, batch, next)
    /\ UNCHANGED <<config, file, buffer, opening, tasks, stopEvents, created, rstop,
                   hpc, handler, phase, awaited, countVars>>

\* The stop event ends the loop: emit what is held back, then finish.
ReaderStop(s, n) ==
    LET r == reader[s][n] IN
    /\ \/ rpc[s][n] = "poll"
       \/ rpc[s][n] = "open" /\ r.body.def \in RemoteDefinitions
    /\ rstop[s][n]
    /\ IF r.held = <<>>
       THEN /\ rpc' = [rpc EXCEPT ![s][n] = "done"]
            /\ Report(s, "stopped")
            /\ UNCHANGED reader
       ELSE EmitBatch(s, n, r.held, [r EXCEPT !.held = <<>>, !.final = TRUE])
    /\ UNCHANGED <<config, file, buffer, opening, tasks, stopEvents, created, rstop,
                   hpc, handler, phase, awaited, countVars>>

Events(r) == [k \in 1..Len(r.batch) |->
                 [def |-> r.body.def, line |-> r.batch[k], offset |-> r.body.offset]]

\* EventStore.insert_many as far as one source sees it.
Insert(s, r) ==
    LET all == buffer[s] \o Events(r)
    IN  IF r.limit = 0 THEN all ELSE LastN(all, r.limit)

\* The insertion made in a worker thread, then the report that follows it.
ReaderInsert(s, n) ==
    LET r == reader[s][n] IN
    /\ rpc[s][n] = "insert"
    /\ phase # "closed"
    /\ buffer' = [buffer EXCEPT ![s] = Insert(s, r)]
    /\ reader' = [reader EXCEPT ![s][n] = [r EXCEPT !.batch = <<>>, !.limit = 0]]
    /\ rpc' = [rpc EXCEPT ![s][n] = IF r.final THEN "done" ELSE "poll"]
    /\ Report(s, IF r.final THEN "stopped" ELSE "running")
    /\ UNCHANGED <<config, file, opening, tasks, stopEvents, created, rstop,
                   hpc, handler, phase, awaited, countVars>>

\* A local reader ends with the exception its callback raised: poll_once and
\* initialize catch OSError and UnicodeDecodeError, not sqlite3.Error.  An
\* ssh reader catches it inside its loop, reports it and tries again, the
\* batch being lost; in its last flush it has no handler either.
ReaderFails(s, n) ==
    LET r == reader[s][n]
        survives == r.body.def \in RemoteDefinitions /\ ~r.final
    IN
    /\ rpc[s][n] = "insert"
    /\ \/ phase = "closed" /\ UNCHANGED deaths
       \/ phase # "closed" /\ deaths < MaxDeaths /\ deaths' = deaths + 1
    /\ reader' = [reader EXCEPT ![s][n] = [r EXCEPT !.batch = <<>>, !.limit = 0]]
    /\ rpc' = [rpc EXCEPT ![s][n] = IF survives THEN "poll" ELSE "done"]
    /\ IF survives THEN Report(s, "error") ELSE UNCHANGED status
    /\ UNCHANGED <<config, file, buffer, opening, tasks, stopEvents, created, rstop,
                   hpc, handler, phase, awaited, requests, failures>>

\* The done-callback: it pops the source's entry of tasks, whichever task it
\* is; the reader object goes with its task.
Reap(s, n) ==
    /\ rpc[s][n] = "done"
    /\ rpc' = [rpc EXCEPT ![s][n] = "reaped"]
    /\ tasks' = [tasks EXCEPT ![s] = 0]
    /\ reader' = [reader EXCEPT ![s][n] = IdleReader]
    /\ UNCHANGED <<config, file, buffer, status, opening, stopEvents, created, rstop,
                   hpc, handler, phase, awaited, countVars>>

-----------------------------------------------------------------------------
(* The request handlers.                                                   *)

Receive(h) ==
    /\ phase = "up"
    /\ hpc[h] = "idle"
    /\ requests < MaxRequests
    /\ requests' = requests + 1
    /\ UNCHANGED <<deaths, file, buffer, status, opening, phase, awaited>>

Reply(h) ==
    /\ hpc' = [hpc EXCEPT ![h] = "idle"]
    /\ handler' = [handler EXCEPT ![h] = IdleHandler]

Continue(h, rec, todo) ==
    IF todo = <<>>
    THEN Reply(h)
    ELSE /\ hpc' = [hpc EXCEPT ![h] = "work"]
         /\ handler' = [handler EXCEPT ![h] = [rec EXCEPT !.todo = todo]]

\* ConfigStore.update assigns the new configuration and then saves it; when
\* the save raises, the handler ends there with an error response.
Update(h, rec, value, todo) ==
    /\ config' = [config EXCEPT ![rec.src] = value]
    /\ \/ Continue(h, rec, todo) /\ UNCHANGED failures
       \/ /\ failures < MaxFailures
          /\ failures' = failures + 1
          /\ Reply(h)

\* The rest of a PUT or a DELETE once no reader is waited for.  A PUT maps
\* over the list of sources, so it changes nothing if the source has gone.
AfterStop(h, rec) ==
    IF rec.op = "put"
    THEN Update(h, rec, IF Configured(rec.src) THEN rec.body ELSE NoSource,
                Plan(rec.prev, rec.body))
    ELSE Update(h, rec, NoSource, <<"delete_source">>)

BadStopThen(h, rec) ==
    /\ SignalStop(rec.src)
    /\ ForgetReader(rec.src)
    /\ AfterStop(h, rec)

\* manager.stop, then the rest; with no task to wait for there is no await.
StopThen(h, rec) ==
    LET s == rec.src IN
    /\ SignalStop(s)
    /\ IF tasks[s] # 0
       THEN /\ hpc' = [hpc EXCEPT ![h] = "stopping"]
            /\ handler' = [handler EXCEPT ![h] = [rec EXCEPT !.wait = tasks[s]]]
            /\ UNCHANGED <<config, tasks, stopEvents, failures>>
       ELSE /\ ForgetReader(s)
            /\ AfterStop(h, rec)

\* POST /api/sources
Create(h, s, body) ==
    /\ Receive(h)
    /\ ~Configured(s)
    /\ config' = [config EXCEPT ![s] = body]
    /\ \/ /\ IF body.enabled THEN StartReader(s, body) ELSE UNCHANGED readerVars
          /\ UNCHANGED failures
       \/ /\ failures < MaxFailures
          /\ failures' = failures + 1
          /\ UNCHANGED readerVars
    /\ UNCHANGED <<hpc, handler>>

UpdateSource(h, s, body) ==
    LET rec == [IdleHandler EXCEPT !.op = "put", !.src = s, !.body = body,
                                   !.prev = config[s]]
    IN
    /\ Configured(s)
    /\ IF StopRequired(config[s], body)
       THEN StopThen(h, rec) /\ UNCHANGED <<created, rpc, reader>>
       ELSE AfterStop(h, rec) /\ UNCHANGED readerVars

\* PUT /api/sources/{id}
Put(h, s, body) ==
    /\ Receive(h)
    /\ UpdateSource(h, s, body)

\* POST /api/sources/{id}/start and /stop: the body is the configured one.
StartSource(h, s) ==
    /\ Receive(h)
    /\ Configured(s)
    /\ IF config[s].enabled
       THEN StartReader(s, config[s]) /\ UNCHANGED <<config, hpc, handler, failures>>
       ELSE UpdateSource(h, s, [config[s] EXCEPT !.enabled = TRUE])
StopSource(h, s) ==
    /\ Receive(h)
    /\ Configured(s)
    /\ UpdateSource(h, s, [config[s] EXCEPT !.enabled = FALSE])

\* DELETE /api/sources/{id}
Delete(h, s) ==
    /\ Receive(h)
    /\ Configured(s)
    /\ StopThen(h, [IdleHandler EXCEPT !.op = "delete", !.src = s])
    /\ UNCHANGED <<created, rpc, reader>>

\* The handler resumes when the gathered task and its callback have run.
Stopped(h) ==
    LET rec == handler[h] IN
    /\ hpc[h] = "stopping"
    /\ rpc[rec.src][rec.wait] = "reaped"
    /\ ForgetReader(rec.src)
    /\ AfterStop(h, [rec EXCEPT !.wait = 0])
    /\ UNCHANGED <<file, buffer, status, opening, created, rpc, rstop, reader, phase, awaited,
                   requests, deaths>>

\* What an EventStore call of a plan makes of the events of the source.
Stored(q, stage, body) ==
    CASE stage = "delete_source" -> <<>>
      [] stage = "shift_source"  -> [k \in DOMAIN q |-> [q[k] EXCEPT !.offset = body.offset]]
      [] stage = "trim_source"   -> LastN(q, body.history)
      [] stage = "delete_latest" -> DropLast(q, body.history)

\* One awaited EventStore call of the plan, or the closing manager.start.  A
\* call that raises has changed nothing, its transaction is rolled back, and
\* ends the handler there.
Work(h) ==
    LET rec == handler[h]
        s == rec.src
        stage == Head(rec.todo)
    IN
    /\ hpc[h] = "work"
    /\ \/ /\ IF stage = "start"
             THEN StartReader(s, rec.body) /\ UNCHANGED buffer
             ELSE /\ buffer' = [buffer EXCEPT ![s] = Stored(buffer[s], stage, rec.body)]
                  /\ UNCHANGED readerVars
          /\ Continue(h, rec, Tail(rec.todo))
          /\ UNCHANGED failures
       \/ /\ stage # "start"
          /\ failures < MaxFailures
          /\ failures' = failures + 1
          /\ Reply(h)
          /\ UNCHANGED <<buffer, readerVars>>
    /\ UNCHANGED <<config, file, status, opening, phase, awaited, requests, deaths>>

-----------------------------------------------------------------------------
(* The lifespan, and the program that writes the logs.                     *)

\* start_all: every configured and enabled source, before any request.
StartAll ==
    /\ phase = "boot"
    /\ phase' = "up"
    /\ MaxReaders > 0
    /\ tasks' = [s \in Sources |-> IF Enabled(s) THEN 1 ELSE 0]
    /\ stopEvents' = tasks'
    /\ created' = tasks'
    /\ rpc' = [s \in Sources |-> IF Enabled(s) THEN [rpc[s] EXCEPT ![1] = "open"] ELSE rpc[s]]
    /\ reader' = [s \in Sources |->
                     IF Enabled(s) THEN [reader[s] EXCEPT ![1].body = config[s]] ELSE reader[s]]
    /\ UNCHANGED <<config, file, buffer, status, opening, rstop, hpc, handler, awaited, countVars>>

BadStopAll ==
    /\ phase = "up"
    /\ \A h \in Handlers : hpc[h] = "idle"
    /\ phase' = "stopping"
    /\ awaited' = {p \in Sources \X Ids : tasks[p[1]] = p[2]}
    /\ UNCHANGED <<config, file, buffer, status, opening, readerVars, hpc, handler, countVars>>

\* stop_all: the server lets the requests in flight finish first.
StopAll ==
    /\ phase = "up"
    /\ \A h \in Handlers : hpc[h] = "idle"
    /\ phase' = "stopping"
    /\ rstop' = [s \in Sources |-> [n \in Ids |-> rstop[s][n] \/ stopEvents[s] = n]]
    /\ awaited' = {p \in Sources \X Ids : tasks[p[1]] = p[2]}
    /\ UNCHANGED <<config, file, buffer, status, opening, tasks, stopEvents, created, rpc, reader,
                   hpc, handler, countVars>>

BadClose ==
    /\ phase = "stopping"
    /\ phase' = "closed"
    /\ tasks' = [s \in Sources |-> 0]
    /\ stopEvents' = [s \in Sources |-> 0]
    /\ UNCHANGED <<config, file, buffer, status, opening, created, rpc, rstop, reader,
                   hpc, handler, awaited, countVars>>

\* The gather is over: the tables are cleared and both stores are closed.
Close ==
    /\ phase = "stopping"
    /\ \A p \in awaited : rpc[p[1]][p[2]] = "reaped"
    /\ phase' = "closed"
    /\ tasks' = [s \in Sources |-> 0]
    /\ stopEvents' = [s \in Sources |-> 0]
    /\ UNCHANGED <<config, file, buffer, status, opening, created, rpc, rstop, reader,
                   hpc, handler, awaited, countVars>>

Append1(d) ==
    /\ file[d] < MaxLines
    /\ file' = [file EXCEPT ![d] = @ + 1]
    /\ UNCHANGED <<config, buffer, status, opening, readerVars, hpc, handler, phase, awaited, countVars>>

-----------------------------------------------------------------------------
Init ==
    /\ config \in [Sources -> Body \cup {NoSource}]
    /\ file \in [Definitions -> 0..MaxLines]
    /\ buffer = [s \in Sources |-> <<>>]
    /\ status = [s \in Sources |-> "none"]
    /\ tasks = [s \in Sources |-> 0]
    /\ stopEvents = [s \in Sources |-> 0]
    /\ created = [s \in Sources |-> 0]
    /\ rpc = [s \in Sources |-> [n \in Ids |-> "unborn"]]
    /\ rstop = [s \in Sources |-> [n \in Ids |-> FALSE]]
    /\ reader = [s \in Sources |-> [n \in Ids |-> IdleReader]]
    /\ opening = [s \in Sources |-> [tail |-> 0, from |-> 0]]
    /\ hpc = [h \in Handlers |-> "idle"]
    /\ handler = [h \in Handlers |-> IdleHandler]
    /\ phase = "boot"
    /\ awaited = {}
    /\ requests = 0
    /\ deaths = 0
    /\ failures = 0

ReaderStep(s, n) ==
    \/ ReaderTail(s, n)
    \/ ReaderOpen(s, n)
    \/ ReaderPoll(s, n)
    \/ ReaderStop(s, n)
    \/ ReaderInsert(s, n)
    \/ ReaderFails(s, n)
    \/ Reap(s, n)

HandlerStep(h) == Stopped(h) \/ Work(h)

Request(h, s) ==
    \/ \E body \in Body : Create(h, s, body) \/ Put(h, s, body)
    \/ StartSource(h, s)
    \/ StopSource(h, s)
    \/ Delete(h, s)

Next ==
    \/ \E s \in Sources, n \in Ids : ReaderStep(s, n)
    \/ \E h \in Handlers : HandlerStep(h)
    \/ \E h \in Handlers, s \in Sources : Request(h, s)
    \/ StartAll
    \/ StopAll
    \/ Close
    \/ \E d \in Definitions : Append1(d)

Spec == Init /\ [][Next]_vars

(* The loop runs every ready task, a worker thread ends, a poll interval   *)
(* ends; nobody is obliged to send a request, to write a line or to stop   *)
(* the program.                                                            *)
Fairness ==
    /\ \A s \in Sources, n \in Ids : WF_vars(ReaderStep(s, n))
    /\ \A h \in Handlers : WF_vars(HandlerStep(h))
    /\ WF_vars(StartAll)
    /\ WF_vars(Close)

FairSpec == Spec /\ Fairness

-----------------------------------------------------------------------------
(* Properties.                                                             *)

(* Every variable stays in its range.                                      *)
TypeOK ==
    /\ config \in [Sources -> Body \cup {NoSource}]
    /\ file \in [Definitions -> 0..MaxLines]
    /\ buffer \in [Sources -> Seq(Event)]
    /\ status \in [Sources -> {"none", "running", "error", "stopped"}]
    /\ tasks \in [Sources -> Ref]
    /\ stopEvents \in [Sources -> Ref]
    /\ created \in [Sources -> Ref]
    /\ rpc \in [Sources -> [Ids -> ReaderStates]]
    /\ rstop \in [Sources -> [Ids -> BOOLEAN]]
    /\ reader \in [Sources -> [Ids -> ReaderRec]]
    /\ opening \in [Sources -> Opening]
    /\ hpc \in [Handlers -> {"idle", "stopping", "work"}]
    /\ handler \in [Handlers -> HandlerRec]
    /\ phase \in {"boot", "up", "stopping", "closed"}
    /\ awaited \subseteq Sources \X Ids
    /\ requests \in 0..MaxRequests
    /\ deaths \in 0..MaxDeaths
    /\ failures \in 0..MaxFailures

(* A source never has two readers: its file is read, and its events are    *)
(* stored and published, once (docs/ARCHITECTURE.md, "Single read stream   *)
(* per source"; start's test of tasks[source.id].done()).                  *)
AtMostOneReader == \A s \in Sources : Cardinality(Live(s)) <= 1

(* A registered task is the one whose stop event is registered, whatever   *)
(* requests overlap: otherwise stop would set no event, or another one, and*)
(* wait for ever for the task (stop reads the two tables separately).      *)
RegisteredReaderCanBeStopped ==
    \A s \in Sources : tasks[s] # 0 => stopEvents[s] = tasks[s]

(* A reader that was not told to stop works for a source that is still     *)
(* configured and enabled, with the settings now configured: no reader     *)
(* outlives a DELETE, a stop or a change it should have been restarted for.*)
ReaderFollowsConfig ==
    \A s \in Sources : \A n \in Live(s) :
        ~rstop[s][n] => config[s] = reader[s][n].body

Quiet(s) == \A h \in Handlers : hpc[h] # "idle" => handler[h].src # s

(* Once no request about a source is in progress its buffer holds events of*)
(* the configured definition only, displayed with the configured shift and *)
(* within the configured limit, and nothing if the source is gone (a save  *)
(* or a storage call that fails ends a handler before it adjusted the      *)
(* buffer).                                                                *)
BufferFollowsConfig ==
    \A s \in Sources : Quiet(s) /\ failures = 0 =>
        IF Configured(s)
        THEN /\ Len(buffer[s]) <= config[s].history
             /\ \A k \in DOMAIN buffer[s] :
                    /\ buffer[s][k].def = config[s].def
                    /\ buffer[s][k].offset = config[s].offset
        ELSE buffer[s] = <<>>

(* The buffer of a source holds lines of one log, oldest first, each the   *)
(* next one of the log, but where the reader opened it: what was written   *)
(* between the tail read and the opening is skipped, at the end of the tail*)
(* and nowhere else.  No restart stores a line twice, and none leaves a    *)
(* hole before the tail it rereads (docs/BUGFIX_SPEC.md, LM-003).  Not     *)
(* after a failed save or storage call: it can leave an enabled source     *)
(* unread, and POST start then starts a reader without removing the tail.  *)
OnlyTheOpeningSkips ==
    failures = 0 => \A s \in Sources : \A k \in 2..Len(buffer[s]) :
        LET before == buffer[s][k-1]
            event == buffer[s][k]
        IN  /\ event.def = before.def
            /\ \/ event.line = before.line + 1
               \/ before.line = opening[s].tail /\ event.line = opening[s].from + 1

(* No reader is left when the stores are closed: none can fail on a closed *)
(* database or write after the session directory was removed.              *)
NoReaderAfterClose ==
    phase = "closed" => \A s \in Sources : Live(s) = {}

(* A source that is enabled has a reader once no request about it is in    *)
(* progress: no change, stop or start leaves it unread (a save or a storage*)
(* call that fails ends a handler between its stop and its start).         *)
EnabledSourceHasReader ==
    \A s \in Sources :
        phase = "up" /\ Quiet(s) /\ Enabled(s) /\ failures = 0 => Live(s) # {}

(* An enabled source without a reader is reported as failed: a failure     *)
(* updates the state the UI shows (docs/ARCHITECTURE.md, "Source failures  *)
(* are isolated").                                                         *)
DeadReaderIsReported ==
    \A s \in Sources :
        phase = "up" /\ Quiet(s) /\ Enabled(s) /\ Live(s) = {} => status[s] = "error"

(* Every request that was accepted is answered: no handler waits for ever  *)
(* for a reader to stop.                                                   *)
RequestsComplete ==
    \A h \in Handlers : hpc[h] # "idle" ~> hpc[h] = "idle"

(* A shutdown comes to its end: stop_all does not wait for ever.           *)
ShutdownCompletes == phase = "stopping" ~> phase = "closed"

-----------------------------------------------------------------------------
(* Refinement: the readers of SourceLifecycle are the tasks not yet done.  *)
LiveReaders == [s \in Sources |-> {<<n, reader[s][n].body>> : n \in Live(s)}]

Lifecycle == INSTANCE SourceLifecycle WITH live <- LiveReaders

(* When requests do not overlap, a reader is created only for an enabled   *)
(* source that has none, with the configuration in force, and the          *)
(* configuration changes only while the source has no reader.              *)
ImplementsLifecycle == Lifecycle!Spec
=============================================================================

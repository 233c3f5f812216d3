# A verification project for log-viewer

log-viewer follows local and remote log files, keeps the latest events in an
SQLite buffer, groups errors into persistent incidents, and shows both in a
browser that is fed over HTTP and one WebSocket. This directory holds TLA+
models of the parts whose steps interleave, fail or are repeated, the TLC
configurations that check them on small instances, and TLAPS proofs of the
properties that matter most, for every value of the constants.

## 1. The system

| Part | Source | State | Operations |
|---|---|---|---|
| Source manager | `manager.py` | `tasks`, `stop_events`, `statuses`, `subscribers` | `start_all`, `stop_all`, `start`, `stop`, done-callback, `_on_events`, `_on_status`, `subscribe` |
| Source endpoints | `api.py` 39–63, 158–258 | handlers suspended in an `await` | create, update, delete, start, stop a source; the lifespan |
| Local reader | `readers.py` 22–202 | handle, inode, offset, partial line, decoder | `initialize`, `poll_once`, `_consume`, `_flush_pending`, `run` |
| SSH reader | `readers.py` 205–365 | connection, signature, offset, partial line | `_connect`, `_read_new`, `run` |
| Assembler and parsers | `parser.py` | pending event, sequence | `feed`, `flush`, `parse_lines`, timestamp and level patterns |
| Event buffer | `storage.py` | table `events`, counter `logical_bytes`, `max_bytes` | insert, query, shift, trim, delete, evict |
| Incident register | `incidents.py` | tables `incidents`, `incident_occurrences` | `record_many`, list, delete, clear, cleanup, migration |
| Configuration | `config.py`, `models.py` 168–185 | `_config` and `config.json` | load, update, save, validation |
| Workspaces | `api.py` 291–340 | the configuration | create, copy, save, delete, activate a workspace |
| Filters | `filters.py`, `app.js` | none | validate and evaluate a filter tree, twice |
| Live delivery | `manager.py` 99–143, `api.py` 386–430 | a queue and a sort buffer per connection | publish, subscribe, collect, flush, send |
| Browser | `static/app.js` | copy of the configuration, panel lists, socket, timers | bootstrap, load a panel, connect, reconnect, insert, trim, save a workspace |
| Aggregation | `aggregation.py` | none | a pure function of events |
| Command line, packaging | `cli.py`, `scripts/` | none | start-up only |

How they interact. Everything but the SQLite work runs on one asyncio loop. A
reader task reads its file, has the assembler turn lines into events and awaits
`SourceManager._on_events`, which inserts the batch into the event buffer and
then into the incident register, each in a worker thread, and finally puts each
event into the queue of every subscriber. The source endpoints change the
configuration, stop and start readers, and adjust the event buffer between the
two. The `/ws` endpoint reads its queue, sorts for a moment, and sends. The
browser opens one socket for all enabled sources, asks for each panel's
history over `/api/query`, and saves the workspace it shows as a whole, 350 ms
after an edit.

What is hard here:

* Handlers suspend in `stop` and in every storage call; two requests about the
  same source, a reader that ends by itself, and its done-callback interleave.
* A restart rereads the tail of the file. The event buffer has to drop exactly
  that tail, the incident register has to recognise it.
* Files are truncated, removed and replaced while they are read, lines arrive
  in pieces, and a remote connection breaks in any call.
* A timed wait on a generator cancels the generator.
* A panel is fed by a query and by the socket, which overlap.
* The page edits a copy of the configuration, and its requests overtake each
  other; it may be loaded again while they are served, and a panel may be loaded
  again while it is being loaded.
* Limits are enforced in several places (per source, in bytes, per queue, per
  panel), and counters are kept beside the data.
* Saves fail after the assignment; a storage call fails between the stop of a
  reader and the start of the next; a reader dies of an exception nobody reads.

What makes each part correct: one reader per source, following the present
configuration; a buffer of lines of one definition that leaves out none but at
the opening of the file, under one shift, within the limits; queries that return
the newest matches; the same filter verdict on the server and on the page; each
line counted once in one incident with the right span; each event delivered once
to a connected browser and shown once in its panel; no line skipped or joined
with another file's; an answered change of the configuration that survives a
crash, and edits that reach the server; every request, shutdown, reconnection
and retry comes to its end. `PROJECT.json` lists the hazards line by line with
the properties that watch them.

## 2. The modules

| Module | Models | Used by |
|---|---|---|
| `SourceLifecycle` | abstract: a source has at most one reader, created from the present configuration | refined by `SourceManager` |
| `SourceManager` | endpoints, manager tables, reader tasks as the manager sees them, lifespan | `MCSourceManager` |
| `SourceManagerProofs` | types, stop events, one reader, shutdown | `LifecycleProofs` |
| `LifecycleProofs` | `SourceManager` implements `SourceLifecycle`, every enabled source is read, what the buffer holds | |
| `SourceBuffers` | abstract: each source's buffer as a queue that changes only at its ends | refined by `EventStore` |
| `Filters` | `filters.py` and `clientMatches` of the page | `EventStore` |
| `EventStore` | `storage.py` with the readers that feed it | `MCEventStore`, `StoreProofs` |
| `IncidentStore` | `incidents.py` with readers that reread their tail, and restarts into a later release | `MCIncidentStore`, `IncidentProofs` |
| `InductionFacts` | no code: induction, folds, sums, extrema and arrangements of finite sets, flattened sequences | `StoreProofs`, `IncidentProofs`, `StreamProofs`, `FollowersProofs` |
| `LogFile` | the log and its writer, `EventAssembler`, what both followers do with lines | `LocalFollower`, `SSHFollower` |
| `LocalFollower`, `SSHFollower` | `LocalFileFollower`; `SSHFileFollower` with failing calls | `Followers` |
| `Followers` | composition: one follower of either kind against the writer | `MCFollowers`, `FollowersProofs` |
| `WebSocketStream` | publication, `subscribe`, `/ws`, the browser's socket | `PanelView`, `MCWebSocketStream` |
| `PanelView` | composition: buffer, query and a panel on the socket | `MCPanelView`, `StreamProofs` |
| `ConfigStore` | `config.py` and the endpoints that change what exists, with any client, crashes and failed saves | `Workspaces` |
| `Workspaces` | composition: the page's copy and its requests over `ConfigStore` | `MCWorkspaces`, `WorkspacesProofs` |

An action is the code between two suspension points, or one transaction under
a store's lock. State and actions carry the names of the code where TLA+ allows
(`tasks`, `stopEvents`, `ForgetReader` for the two pops at the end of `stop`,
`PollRotated` for the branch of `poll_once`); the map of every definition to its
lines is in `PROJECT.json`. A definition `BadX` before `X` is a faulty variant
that nothing uses: with it in place of `X`, the property it was written for
fails in its own run, which shows that the property says something.

### SourceManager

`tasks` and `stopEvents` hold the number of the registered reader of each
source; `rpc` is the control state of each reader task (open, tail, insert,
poll, done, reaped). A local reader parses the tail in a thread (`ReaderTail`)
and opens the file at the size it has by then (`ReaderOpen`); `opening` is
history, the last line of that tail and the line the reader goes on behind.
`done` and `reaped` are two states because the loop can run a handler between
the end of a task and its callback. A handler that awaits is `stopping`, or is
at `work` through the list of storage calls `Plan` computes, in the order of
`update_source`. `ConfigStore.update` is `Update`: it assigns, and the save may
then fail, which ends the handler; so does a storage call that raises (`Work`),
which leaves the buffer as it was. A file is a number of lines, and the buffer
keeps of an event its definition, line and shift. `SourceManager.restart` and
`sync_sources` are called by tests only and are left out.

### EventStore and Filters

`rows` is the table, `logical` the byte counter kept next to it. A batch is
created (`pending`) before it is inserted, so insertions of several sources
interleave in another order than their reception. Timestamps keep the hour and
the zone they were written in, because the table compares ISO texts. Eviction
batches and query pages are constants. `SourceBuffers` says what remains for
one source: events are added at the new end and removed, but for a filterless
removal of everything, from one end. The scan of `query` is given by what it
has matched after so many pages (`Paged`, `Matching`) and by the first page at
which it stops; its two orderings are arrangements of a set of rows (`Sorted`).

`Filters` has both evaluations of a filter tree side by side. Values keep what
the two languages tell apart: the kind, the words of a text, the number a text
reads as, the hour and the zone of a timestamp. The groups inside a tree are
evaluated by a recursive function on the tree's groups.

### IncidentStore

Each public method is one transaction. A batch carries the settings that were
in force when it was read, a listing or cleanup the retention of its request.
`Normal` gives each text its normalised form in each release, so a restart can
run the migration that merges groups. A reader starts under a time shift
(`shift`), which a PUT may have changed since its last start: the fingerprint
holds the display time, so the same line has another one then. `shifts` is
history, the shifts a file was read with. Identifiers are numbers in order of
creation; in the code they are random, so a tie that is broken by identifier is
broken in one of its possible ways. `LIMIT 200` on the candidates is left out.

### LogFile, LocalFollower, SSHFollower

Files are inodes made of cells, what one write adds; a cell may begin an event
(`stamp`) and end its line (`end`). A `wide` log has cells that end within a
character, so a payload may fail to decode and the local follower's incremental
decoder keeps a half character. The places where the file system can change
under a follower are steps of their own: between the tail parsed in a thread
and the opening of the file, between `exists` and `stat`, between the last read
of the old file and the opening of the new one, between `stat` and `open` of a
remote file. Any remote call may fail. `surprises` is a history variable that
records what happened at a moment when the code cannot notice; the properties
name exactly those surprises under which they do not hold. `since` is history,
too: what had been written at the very first read. `pc` is the point
the loop has reached, so stopping the follower is possible at its head only.

### WebSocketStream and PanelView

Each connection has the endpoint's control state, its queue and sort buffer, and
what is still to be sent. `wait_for(anext(stream))` cancels the generator at the
deadline; its `finally` unsubscribes, and the endpoint ends at the next `anext`.
A deadline found passed at the head of the loop makes the timeout 0: the task is
cancelled before it has started, the generator goes on, and the flush begins
(the second disjunct of `Collect`). Only the current socket's end schedules a
reconnection. `wanted` says whether a source is enabled: with none,
`connectWebSocket` returns before it opens a socket or sets a timer (`Close`).
`Flushed` keeps only the order the sort gives, by timestamp and then by
reception.

`PanelView` adds a panel of one source. An event is stored before it is
published; `Answer` is the moment the query reads the buffer, `Replaced` the
moment its result replaces the list, `Failed` a query that fails. Any number of
queries up to `MaxLoads` is under way together, answered and shown in any order.
`expected`, `exact` and `fresh` are history: what the panel should show, whether
none of the listed moments has passed since it was last loaded, and which of the
answers on their way would show it. The panel only observes the stream
(`ViewImplementsStream`).

### ConfigStore and Workspaces

`memory` is `_config`, `file` is `config.json`, and a save is a step after the
assignment, because the process may die, the disk may fail, in the middle.
`since` holds every configuration memory has had since the last change that was
answered: a crash may fall back to any of them and to nothing older. A request
is `sent`, perhaps `stopping` (the removal of a source awaits its reader),
`saving`, then answered. The page has its copy, one debounce timer, and sends
the workspace that is active when the timer fires. `dialog` holds the sources the
dialog for a new panel offers, those of the moment it was opened; it is modal, so
the user edits nothing else meanwhile, but answers come and the timer fires.
`Open` is `bootstrap`, at any time, also of a page that is loaded again: requests
that have not reached the server may be lost with their connection
(`Disconnect`), the others are served all the same, their numbers are kept in
`former`, and nobody takes their answers (`LoseAnswer`). Names of workspaces are
left out, so a new workspace may be refused for its name at any time
(`Reject`). `excused` and `troubled` are
history: the workspaces and sources for which one of the listed things has
happened.

## 3. The runs

Passing runs, and what each shows:

* `source_serial`: with one request at a time, whatever sequence of edits, stops,
  starts, creations and deletions, and a save or a storage call that
  fails: at most one reader, that reader has the present configuration, the
  buffer holds lines of the present definition, shift and limit, each the next
  one of the log but where the reader opened it, none reads after close, and
  every step is a step of `SourceLifecycle` (909,188 distinct states).
* `source_overlap`: two requests at a time, a death and a failed save or storage
  call: `stop` never waits for a reader it did not signal, each request is
  answered, shutdown ends.
* `event_store`: two sources, batches inserted out of order, shifts, trims,
  evictions and queries with filters and paging: the counter is exact, the shift
  is applied once, a query returns the newest matches, the server and the page
  agree on every unambiguous filter, and the store implements `SourceBuffers`.
* `incident_store`: lines in and out of time order, rereads, changed shifts,
  crashes between reading and recording, restarts into a later release, deletion
  and expiry (1,535,912 distinct states).
* `followers`: a log written in pieces, truncated, removed and replaced at any
  step, under either follower, whose calls fail and payloads do not decode
  (898,270 distinct states).
* `stream`: deadlines, replaced and cut sockets, a full queue, a changed delay,
  the last enabled source switched off and the first one on, and a panel that is
  paused and resumed meanwhile, and loaded by queries that overlap, fail and
  overtake each other.
* `workspaces`: a browser edits, saves late, switches, creates, copies and
  deletes workspaces and sources, and is loaded again; requests, those of the
  former page among them, overtake each other, saves fail, the process crashes
  and the file is edited by hand (3,245,598 distinct states).

Runs that show a disagreement between a document and the code (each is a
finding of `PROJECT.json`, with the line that is quoted):

* `source_two_readers`: two overlapping requests leave two readers on a source.
* `source_dead_reader`: a storage error ends a local reader, and no error is
  reported. In the trace the reader dies of the batch of its first tail, before
  it has reported anything, so the API goes on to show the source as `starting`;
  one that dies later stays `running`.
* `event_zones`: events with different UTC offsets are ordered by their text.
* `stream_drop`: the sort deadline ends the subscription; the connected browser
  misses what comes until it reconnects.
* `incident_replay`: when the tail begins at a later line, the same lines have
  other sequence numbers, hence other fingerprints, and are counted again.

The exceptions that the passing properties list are behaviour of the code as
well.

* `OnlyTheOpeningSkips`: what is written between the parsed tail and the opening
  of a local file is skipped. A failed save or storage call may leave an
  enabled source unread; a later start then reads its tail into a buffer from
  which nobody removed it.
* `WholeFileIsCountedOnce`: a file is counted once for every shift it was read
  with, as the fingerprint holds the display time.
* `NothingElseIsSkipped`, `OneFilePerEvent`, `OnceInOrder`: what is written
  between the parsed tail and the opening of the file is skipped; a path that
  vanishes between `exists` and `stat` leaves the pending event and the decoder
  to the next file, and what was not read of the old one is lost, as the handle
  is closed and the next tail begins at its window; a file that grew back to the
  offset is read on from its middle; a payload that does not decode, or is not
  stored, is skipped. A remote file that was truncated or replaced is read with
  the partial line and the pending event of the former one, while
  `docs/BUGFIX_SPEC.md` (LM-004) asks for a flush; replaced between `stat` and
  `open` it is read twice.
* `PanelIsExact`: an event in the sort buffer when a query reads the table is
  shown twice, and pushes an older one out; one that arrives between the
  reading and the replacement of the list is lost from it; when two queries are
  under way and the older answer comes last, it replaces the newer list, and
  nothing corrects it; a paused panel skips
  what arrives and is not loaded again when it is resumed.
* `EditsReachTheServer`: an edit is not sent when the user switches workspaces
  within the debounce interval; two saves of one workspace may be served in the
  other order; a workspace saved or copied while one of its sources is being
  removed has the source again on the server, or in the page's copy alone; a
  change whose save failed stays in memory though an error was answered, and
  goes at the next start; a page loaded, or a workspace saved, while a request of
  the former page that changes the workspace is under way is not told of the
  change.
* `DeadSourcesHaveACause`: a workspace saved or copied while one of its sources
  is being removed puts the source back into a panel of the server; so does a
  request whose answer was an error, the addition of a source while its removal
  is under way, a page loaded while the server removes a source for the former
  one, a source removed while the dialog for a new panel offers it, and a file
  written by hand.
* `FiltersAgree`: the two evaluations differ on values that are false in
  Python (0, `false`) as texts, on objects as texts, on `True` and `true`, on
  null and empty values as numbers, on events without a timestamp, on
  timestamps without a zone and timestamps as texts, on patterns only one
  language can compile, and on letters that `casefold` and `toLowerCase` treat
  differently.

### Bounds

Every bound is a constant that a guard names.

* Sources: each component treats sources apart but for the byte limit and the
  order of insertion, so one source is enough except in `event_store`, which has
  two, and `workspaces`, where a panel shows one source and not the other.
* Readers and requests: the two-reader behaviour needs two handlers and three
  readers; `source_serial` allows three readers and two requests after any
  initial configuration, so any edit can follow any state an edit leaves.
* Lines: three in `source_serial` with limits 1 and 2 (a tail shorter than the
  file, a restart that overlaps it, and a line between the tail and the
  opening); three events in `event_store` with pages and eviction batches of one
  row (a full page, a match on a later page); two lines and two starts in
  `incident_store` with a clock of three, a window of one and two shifts (equal,
  near and far times, two groups a release merges, and a file reread under
  another shift); three cells in two generations in `followers` (a half line,
  its end and one more, around one rotation or truncation), one failure of a
  remote call, which takes the place of a cell (`Room`), and a first window of
  two cells (`Window`).
* Filters: every condition there is over nine operands and nine JSON paths, and
  every tree of two groups inside one (`MaxDepth` = 1), nearly three thousand,
  against the ten events the store can hold.
* Connections: two slots, three events and a queue of one (a full queue, a
  replaced socket that is still served). `Bounded` makes the behaviours with a
  panel smaller, and only these: three events (`MaxWithPanel`), one more than the
  window of the panel, two queries under way together (`MaxLoads`, enough for one
  to overtake the other), no socket given up before the server ends it, the
  settings and the enabled sources as they were at the start. Each socket the
  sort deadline ends is still replaced.
* Configuration: two workspaces (the default cannot be deleted), four requests
  of the page (`MaxRequests`, the loading of the page counts: a save, one that
  overtakes it, and a page loaded in between) and two crashes, failed saves or
  edits by hand (`MaxFailures`); after a failure the page sends one request less
  (`Room`).

A later release only normalises more in `incident_store`; `SimilarIsClose`
speaks of the release that runs.

No run checks for deadlock: the system may rest, when nobody writes, asks or
stops it, and the counters bound what they do.

### Fairness

`SourceManager`: weak fairness of each reader, each handler that is suspended,
start-up and close; the loop runs every ready task, threads end and polls
recur. No request, line or stop is owed. `WebSocketStream`: weak fairness of
the endpoint, of the end of a socket that was closed and of the reconnection
timer; neither events nor deadlines with an empty buffer are owed. `PanelView`
adds none: a query need not be answered.
`Followers`: weak fairness of the follower's next step; `run` polls until its
stop event is set, and each wait there has a timeout or a backoff that ends.
Failures are bounded, so a call that is tried again succeeds in the end, and
liveness is claimed for a path that names one file from some time on.
`ConfigStore` and `Workspaces` claim safety only and assume no fairness.

## 4. The proofs

Eight modules hold theorems; `PROJECT.json` lists those a reader should know of.

`InductionFacts` is about no code. The library's induction theorems take a
predicate as a parameter, which the provers cannot instantiate; here induction
speaks of a set, that of the numbers, or of the finite subsets, which have the
property, and rests on `NatLessThanWellFounded` and `WFMin`. From it come what a
fold with a given step preserves, sums over finite sets of numbers, the least
and greatest of a finite set, cardinalities of images and of unions, and, for a
relation that orders a finite set strictly, that the set has exactly one
arrangement; and what flattening a sequence of sequences does when one is added.
With these facts what a batch, a sum over the table or a sort
computes can be proved for inputs of any size.

`SourceManagerProofs`:

* `TypeCorrect` (`Spec => []TypeOK`) for all constants. `TypeOK` is inductive
  together with `WorkLeft`, which says that a handler at work has a stage left:
  without it `Head` of an empty list is unspecified.
* `StopFindsReader` (`Spec => []RegisteredReaderCanBeStopped`) for all
  constants, overlapping requests, deaths, failed saves and storage calls
  included. Only `start`, the pops of `stop` and the callback write the tables,
  and none leaves a task without its event.
* `SerialOneReader` and `SerialNoReaderAfterClose`, for one handler and no
  deaths. The inductive invariant `SerialInv` adds what `AtMostOneReader` alone
  does not say: readers are numbered in order of creation; a reader that is
  not yet reaped is registered; one that is stopping is waited for by a
  handler; the handler waits for the registered reader; a shutdown waits
  for every reader there is. Both readers of a source would be the registered
  one, so they are the same. The assumptions are needed: with two handlers
  `source_two_readers` shows the second reader, and a reader that dies can be
  started again between its end and its callback.

`LifecycleProofs`, under the same assumptions:

* `SerialImplementsLifecycle` (`Spec => ImplementsLifecycle`), the refinement.
  To map a step one has to know, besides `SerialInv`, what readers read and what
  the handler is about to start: `Follows` says that every reader that has not
  ended reads an enabled source by the body now configured, so a PUT may change
  a disabled source without waiting for anybody; `HandlerKnows` says that a PUT
  that waited finds its source again, as it was, and starts a reader only with
  the enabled body it stored. Each step is then one of five kinds (nothing seen,
  a configuration without readers, a new reader, a source created with its
  reader, the end of the only reader), or start-up.
* `SerialReaderFollowsConfig`, which follows from `Follows`.
* `SerialEnabledHasReader`. `ServedInv`: an enabled source has a reader, or a
  handler on it that waits for one to stop or has `start` left to do; and a
  handler at work is on a source without a reader.
* `SerialBufferFollowsConfig` and `SerialOnlyTheOpeningSkips`. `BufferInv`
  relates the buffer to three things. To the configuration: without a handler at
  work the buffer fits it (`Fits`). To the handler: what `Plan` has still to do
  is what separates the buffer from the stored body (`Adjusting`), and the calls
  that are left stand in the order of `update_source`, so a `start` finds the
  buffer empty unless `delete_latest` still comes first. To the reader: the
  buffer, the batch being inserted and the lines held back are one run that ends
  at the last line read (`Continues`), and a reader that has yet to open finds
  nothing in the buffer. A run may jump at one place, from the end of the tail
  to where the file was opened: lines are counted past that gap (`At`), so that
  an opening makes consecutive numbers of what it reads, and a new opening is
  only made when the buffer holds nothing of the former one. All four speak of
  executions without a failed save or storage call, as the properties do: a
  handler that ends with one leaves the buffer as it was, or a source without
  the reader it stopped.

`StoreProofs`, for any sources, contents, shifts, limits, page and batch sizes:

* `DisplayIsCurrent` (`Spec => []DisplayFollowsShift`). The
  rows alone are not inductive: an insertion brings in a batch
  that was created earlier, so the invariant speaks of the batches too, and holds
  because a shift changes only while the source has no batch.
* `StoreTypeCorrect` and `BytesAreCounted`. `StoreInv` adds that rows and
  batches are numbered apart, a source's rows before its batch, and that the
  counter is the sum. Each operation changes the counter by the sum over the
  rows it adds or removes, which is the difference of the sums.
* `StoreIsABuffer`, the refinement. Victims of a trim, of a rolling limit and of
  a byte eviction are chosen by order of insertion, over all sources; what
  they take from one source is the older end of it, since its numbers are in
  that order, and `delete_latest` takes the newer end. A set of rows cut at
  an end is arranged as the sequence cut there (`CutOldest`, `CutNewest`).
* `EvaluationsSelectAlike`. For one condition the verdict of the server is
  that of the page unless the condition is one that `Ambiguous` lists, case by
  case over the operators and kinds of values; over the tree both evaluations
  are the same recursive function of equal verdicts.
* `UtcQueriesAreExact`, under the hypothesis that every content has offset
  zero (`event_zones` shows that it is false otherwise). Then the text the
  table orders by is the hour: the place of a row in the order of the pages is
  unique, what is matched after k pages is the matching part of the newest
  k * `PageSize` rows, and the scan stops only when the limit is reached or
  nothing is left, in both cases with the newest matches.

`IncidentProofs`, for any sources, texts, releases, scores and bounds:
`TypeCorrect`, `CountsCorrect`, `GroupsUnique`, `SpanCorrect`, `SimilarCorrect`,
`WholeFileCorrect`. The argument is about the tables as a value. `Sound` says what a
transaction may rely on: ids and fingerprints are unique, each occurrence has
its group, and a count is the number of occurrences, one group per normalised
message, first and last are extremes, and what was added for being similar has a
near neighbour. Removing groups keeps it (deletion, clearing,
expiry); so does recording one event, whether it is known, joins a group or makes
one; a batch by induction on its events. A start into a later release is two
passes: `Rename` keeps all of `Sound` but that groups are unique (`Kept`), `Unite`
merges the groups that are now alike: counts add up because the merged groups
share no occurrence, extremes are extremes of extremes. `WholeFileCorrect` adds
that a fingerprint of a file that fits in the tail is that of one of its lines
under one of the shifts the file was read with (`OfLine`), which needs that
readers number events as lines (`Reading`); so there are at most as many
fingerprints as pairs of a line and a shift.
`SimilarCorrect` uses `MergingAssumption`: a later release does not
tell apart what an earlier one normalised alike.

`StreamProofs`, for any number of slots and events, any queue size and any
order of timestamps:

* `TypeCorrect`, `NeverTwice` (`Spec => []DeliveredOnce`) and
  `SubscribedMissesNothing` (`Spec => []NothingMissedWhileSubscribed`), from one
  invariant. `DeliveredOnce` needs to know that what an open socket may still
  bring (`Ahead`) has not been delivered; that needs one open socket at a
  time (`OneSocket`), since each connection has its own copy of an event, that
  queue, sort buffer and output of a connection share nothing but what has been
  sent (`Single`), and that everything on its way was published (`Past`), so
  that a new event is new everywhere. `Shape` says at which control states a
  connection is subscribed and where it may hold events.
* `OneOrdering`: a set of events has exactly one display order, so what a flush
  sends and what a panel shows when it is loaded are determined. (`Ordered` is
  an arrangement of a set, because the sort of the library is opaque to the
  provers.)
* `ViewImplementsStream`: with a panel the stream takes the same steps, so the
  above holds of the composition that `stream` checks.
* `ViewTypeCorrect` and `PanelShowsNewest` (`ViewSpec => []PanelIsExact`).
  `expected` is past: no open socket will bring it again (`ExpectedInv`), which is
  preserved because a step puts nothing on the line of an open socket but the
  event being published (`LineKept`). While `exact` holds the list is the one
  ordering of `expected` (`ExactInv`); and an answer that is `fresh` holds nothing
  that an open socket has yet to bring (`FreshInv`), until an event is received or
  an answer that holds more is shown. So it does not matter how many queries
  overlap, nor which answer comes first.
  An insertion at the place `insertSorted` finds, followed by the trim of the
  oldest, gives the ordering of the newest of the set with the event in it.

`WorkspacesProofs`, for any sources, workspaces, files and bounds:

* `AnsweredSurvivesCrashes` and `ActiveWorkspaceExists`, first of `ConfigStore`
  with any client. The invariant says that memory is one of `since` while the
  process runs, that what a start would read is one of them, that nothing is
  being saved while the process is down, and that each of them is as validation
  left it, so a file that was saved is read back unchanged.
* `WorkspacesImplementStore`: the browser is one such client. `TypeCorrect` of
  the composition.
* `DeadSourcesExplained`. A source that is not troubled is followed from the
  page to the server and back: every configuration a crash may bring back has
  each source the page knows, unless its removal is under way (`PageSources`),
  no answer on its way would undo that (`Added`, `Gone`), and what is in
  the body of a request shows only such sources (`BodiesKnown`). A source is not
  added while it is removed (`AddedApart`), and one whose removal a former page
  asked for is troubled (`FormerKnown`). Requests are told apart by their numbers,
  which grow as they are sent (`Numbered`).
* `EditsArrive`. A workspace that is not excused and has no save pending or
  under way is on the server as the page shows it, up to sources being removed, in
  memory and in everything a crash may bring back (`AgreeMemory`,
  `AgreeSince`); a body under way is the page's present one unless another
  save is due (`LayoutsSent`), and a workspace being created for the present page
  (`Making`) is not touched meanwhile (`Alone`, `Created`). What a former page
  asked for changes only excused workspaces, and removes only sources that none
  but excused ones show (`OrphansKnown`).

`FollowersProofs`, for any sources, window, history, number of files, cells and
failed calls:

* `TypeCorrect` (`Spec => []TypeOK`). `TypeInv` adds to the ranges what the
  files are: each holds the cells written in its generation, in the order
  written, a later inode is of a later generation, and the path names the last
  one or none; and that the buffers are those of an assembler: a partial line has
  no end, a pending event begins with a timestamp and ends with its line.
* `LinesWait` (`Spec => []UnendedLineWaits`). After the first read a line is
  cut only by a flush, and every flush is after a change of the file. That the
  change is one needs
  `WaitInv`: what is pending is of the file that is open or of an earlier one,
  and of the present content only if the offset is still within it, so a size
  below the offset means that the line's generation is over.
* `EventsAreOfOneFile` (`Spec => []OneFilePerEvent`). What is pending is of the
  generation that is read (`One`), and nothing is pending when another one is
  entered, unless that counts as a surprise. An assembler that holds and gives
  out cells of one generation does so whatever it takes of it
  (`OneOfAssembler`): the lemmas about assemblers speak of any set of cells and
  of any set of events that has the lines they make, so each property reuses them.
* `CellsAreTakenOnceInOrder` (`Spec => []OnceInOrder`). What was emitted, the
  pending event and the partial line, one after the other, are what was taken: a
  payload comes after it (`TakenReads`) and a flush leaves it as it is
  (`TakenStays`), by induction on the payload. What was taken is in order and lies
  before the place the follower has reached (`Order`), as cells of an earlier
  generation or of the first `offset` cells of the file; the writer only adds
  beyond that or begins another generation (`ReadStays`). Losing the end or the
  middle of what was taken, as a failed call does, leaves the rest in order
  (`LostEnd`, `LostMiddle`).
* `NothingIsSkipped` (`Spec => []NothingElseIsSkipped`). As long as nothing happened
  that the follower could not be expected to read (`Calm`), every cell written
  since the first read is `Accounted` for: it was taken, or lies beyond the offset
  in the file that is read, or is of a generation still to be entered, that of the
  open file of a local follower or that of the path. This needs `Place`: the
  offset lies within the file while its generation is the one read, so a size below
  it means a truncation; a remote file that left the path was read to its end;
  and when a local follower changes files, what is not taken yet is in the
  path's file. A read moves the place and what was taken together (`SkipReads`); the
  writer adds beyond the place (`SkipByWrite`), moves the path (`SkipByMove`) or
  truncates (`SkipByTruncation`), and where that leaves cells behind it is one of
  the surprises. A handle that is closed because the path vanished is another:
  `since` stays where the first read put it.

Three attempts at a proof failed for good reasons, and changed the model.
A copy of a workspace, like a save, can be overtaken by the removal of a source
it shows, and so can the re-addition of a source; both properties of `Workspaces`
were false without these causes, in states the bounds of the run had not
reached, and a file written by hand can show a source it does not define. In
`Filters`, two guards of a `CASE` overlapped for an empty group with the logic
OR, so the choice was left open; the code takes the first
(`app.js`:135). `SimilarCorrect` needs to know that a later release tells
nothing apart that an earlier one did not, which the constants did not say
(`MergingAssumption`).

The assumptions about constants are the named `ASSUME`s of the modules, which
TLC evaluates: bounds and sizes are natural numbers, pages and batches are not
empty, a configuration file that is missing or broken is no configuration
(`FileAssumption`), each release normalises every text to a text
(`NormalAssumption`), a score is a percentage (`ScoreAssumption`), `"True"` and
`"true"` read alike once in lower case (`TrueAssumption`), contents and
filters have the fields their types require (`ContentAssumption`,
`FilterAssumption`).

Model-checked only: the liveness properties, as neither fairness nor `ENABLED` is
within the prover's reach, and what the violated runs refute.

## 5. Not modelled

Aggregation (a pure function of a query's result), the patterns of the parsers
and the similarity score (constants), the block-wise search for the tail of a
file, arrays inside JSON fields and unusual numerals in filters, paths that are
not regular files, panels of several sources and what is drawn, saved filters
and diagnostics (independent fields of the configuration), field validation,
markup, command line and packaging. `PROJECT.json` gives the reason for each;
hazards that no property covers say so there.

## 6. Plan

What could follow, in order of what matters most:

1. A panel of several sources in `PanelView`, whose windows are trimmed apart
   while the list is one.
2. A clock that is set back in `EventStore`: `received_at` then no longer agrees
   with the order of reading, and the rolling limit evicts new events.
3. Deleted incidents that come back, in `IncidentStore`.

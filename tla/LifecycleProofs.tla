--------------------------- MODULE LifecycleProofs ---------------------------
(***************************************************************************)
(* SourceManager with one handler and readers that do not die: it          *)
(* implements SourceLifecycle, an enabled source is read, and the buffer   *)
(* holds what the configuration allows: one run of lines, but for the gap  *)
(* that the opening of the log leaves.  With two handlers TLC finds a      *)
(* reader that is created beside another one (source_two_readers.cfg).     *)
(*                                                                         *)
(* SerialInv says which readers there are; to map a step, one has to know  *)
(* in addition what they read and what the handler is about to start.      *)
(* Follows: a reader reads an enabled source by the body now configured;   *)
(* so a source that is not configured or not enabled may be changed        *)
(* without waiting for anybody.  HandlerKnows: a request that waits finds  *)
(* its source again, as it was, and the reader it will start has the body  *)
(* it stored.  ServedInv says which sources have a reader or will get one, *)
(* and that a handler works on a source without a reader.  BufferInv       *)
(* relates the buffer of a source to its configuration, to what a handler  *)
(* has left to do and to what its reader has in hand.                      *)
(***************************************************************************)
EXTENDS SourceManagerProofs, Integers

Follows ==
    \A s \in Sources : \A n \in Ids :
        rpc[s][n] \in Active =>
            config[s] = reader[s][n].body /\ reader[s][n].body.enabled

HandlerKnows ==
    \A h \in Handlers :
        /\ hpc[h] = "stopping" =>
               /\ Configured(handler[h].src)
               /\ handler[h].op = "put" =>
                      /\ handler[h].prev = config[handler[h].src]
                      /\ handler[h].body # handler[h].prev
        /\ hpc[h] = "work" =>
               IF handler[h].op = "put"
               THEN /\ config[handler[h].src] = handler[h].body
                    /\ \A k \in DOMAIN handler[h].todo :
                           handler[h].todo[k] = "start" => handler[h].body.enabled
               ELSE /\ config[handler[h].src] = NoSource
                    /\ handler[h].todo = <<"delete_source">>

\* A step of SourceLifecycle, or none of its variables changes.
Maps == Lifecycle!Next \/ UNCHANGED Lifecycle!vars

Running(s) == {<<n, reader[s][n].body>> : n \in Live(s)}

\* The readers of s go on with what they read.
Kept(s) ==
    \A n \in Ids :
        /\ rpc'[s][n] \in Active <=> rpc[s][n] \in Active
        /\ rpc[s][n] \in Active => reader'[s][n].body = reader[s][n].body

-----------------------------------------------------------------------------
\* Readers that go on are the readers there were.
LEMMA KeptRunning ==
    ASSUME NEW s, Kept(s)
    PROVE  Running(s)' = Running(s)
  BY DEF Kept, Running, Live

\* The only reader of a source is the registered one.
LEMMA OnlyRegisteredRuns ==
    ASSUME TypeOK, SerialInv, NEW s \in Sources
    PROVE  /\ \A n \in Live(s) : n \in Ids /\ n = tasks[s]
           /\ ~HasRunningTask(s) => Live(s) = {}
  BY DEF SerialInv, PresentIsRegistered, Present, Live, HasRunningTask, Ids

\* No reader reads a source that is gone or disabled.
LEMMA IdleSourceIsFree ==
    ASSUME TypeOK, Follows, NEW s \in Sources, ~Enabled(s)
    PROVE  Live(s) = {}
  <1> SUFFICES ASSUME NEW n \in Live(s) PROVE FALSE
    OBVIOUS
  <1>1. n \in Ids /\ rpc[s][n] \in Active
    BY DEF Live
  <1>2. reader[s][n].body \in Body
    BY <1>1 DEF TypeOK, ReaderRec
  <1>3. config[s] = reader[s][n].body /\ reader[s][n].body.enabled
    BY <1>1 DEF Follows
  <1> QED  BY <1>2, <1>3, NoSourceAssumption DEF Enabled, Configured

-----------------------------------------------------------------------------
(* The kinds of steps.                                                     *)

\* Nothing that SourceLifecycle sees.
LEMMA QuietMaps ==
    ASSUME Follows, UNCHANGED config, \A s \in Sources : Kept(s)
    PROVE  Maps /\ Follows'
  <1>1. \A s \in Sources : Running(s)' = Running(s)
    BY KeptRunning
  <1>2. LiveReaders' = LiveReaders
    BY <1>1 DEF LiveReaders, Running
  <1>3. Maps
    BY <1>2 DEF Maps, Lifecycle!vars
  <1>4. Follows'
    BY DEF Follows, Kept
  <1> QED  BY <1>3, <1>4

\* The configuration of a source without readers changes.
LEMMA ConfigureMaps ==
    ASSUME TypeOK, Follows, NEW s \in Sources, Live(s) = {},
           NEW value \in Body \cup {NoSource},
           config' = [config EXCEPT ![s] = value], \A t \in Sources : Kept(t)
    PROVE  Maps /\ Follows'
  <1>1. \A t \in Sources : Running(t)' = Running(t)
    BY KeptRunning
  <1>2. LiveReaders' = LiveReaders
    BY <1>1 DEF LiveReaders, Running
  <1>3. LiveReaders[s] = {}
    BY DEF LiveReaders
  <1>4. Lifecycle!Configure(s)
    BY <1>2, <1>3 DEF Lifecycle!Configure
  <1>5. Follows'
    <2> SUFFICES ASSUME NEW t \in Sources, NEW n \in Ids,
                        rpc'[t][n] \in Active
                 PROVE  config'[t] = reader'[t][n].body /\ reader'[t][n].body.enabled
      BY DEF Follows
    <2>1. rpc[t][n] \in Active /\ reader'[t][n].body = reader[t][n].body
      BY DEF Kept
    <2>2. t # s
      BY <2>1 DEF Live
    <2> QED  BY <2>1, <2>2 DEF Follows, TypeOK
  <1> QED  BY <1>4, <1>5 DEF Maps, Lifecycle!Next

\* What a new reader changes.
LEMMA CreateRunning ==
    ASSUME TypeOK, SerialInv, NEW s \in Sources, NEW body \in Body,
           CreateReader(s, body), Live(s) = {}
    PROVE  \E n \in Ids :
               /\ Running(s)' = {<<n, body>>}
               /\ \A t \in Sources \ {s} : Kept(t)
               /\ \A m \in Ids : rpc'[s][m] \in Active => m = n
               /\ reader'[s][n].body = body
  <1> DEFINE n == created[s] + 1
  <1>1. /\ n \in Ids
        /\ rpc' = [rpc EXCEPT ![s][n] = "open"]
        /\ reader' = [reader EXCEPT ![s][n] = [IdleReader EXCEPT !.body = body]]
    BY DEF CreateReader
  <1> HIDE DEF n
  <1>2. [IdleReader EXCEPT !.body = body].body = body
    BY DEF IdleReader
  <1>3. reader'[s][n].body = body /\ rpc'[s][n] = "open"
    BY <1>1, <1>2 DEF TypeOK
  <1>4. \A t \in Sources \ {s} : Kept(t)
    BY <1>1 DEF Kept, TypeOK
  <1>5. \A m \in Ids : rpc'[s][m] \in Active <=> m = n
    BY <1>1, <1>3 DEF TypeOK, Live, Active
  <1>6. Live(s)' = {n}
    BY <1>1, <1>5 DEF Live
  <1>7. Running(s)' = {<<n, body>>}
    BY <1>3, <1>6 DEF Running
  <1> QED  BY <1>1, <1>3, <1>4, <1>5, <1>7

\* A reader is created with the body that is configured.
LEMMA StartMaps ==
    ASSUME TypeOK, SerialInv, Follows, NEW s \in Sources, NEW body \in Body,
           StartReader(s, body), config[s] = body, body.enabled, UNCHANGED config
    PROVE  Maps /\ Follows'
  <1>1. CASE HasRunningTask(s)
    <2>1. \A t \in Sources : Kept(t)
      BY <1>1 DEF StartReader, readerVars, Kept
    <2> QED  BY <2>1, QuietMaps
  <1>2. CASE ~HasRunningTask(s)
    <2>1. CreateReader(s, body) /\ Live(s) = {}
      BY <1>2, OnlyRegisteredRuns DEF StartReader
    <2>2. PICK n \in Ids :
              /\ Running(s)' = {<<n, body>>}
              /\ \A t \in Sources \ {s} : Kept(t)
              /\ \A m \in Ids : rpc'[s][m] \in Active => m = n
              /\ reader'[s][n].body = body
      BY <2>1, CreateRunning
    <2>3. \A t \in Sources \ {s} : Running(t)' = Running(t)
      BY <2>2, KeptRunning
    <2>4. LiveReaders' = [LiveReaders EXCEPT ![s] = {<<n, body>>}]
      BY <2>2, <2>3 DEF LiveReaders, Running
    <2>5. LiveReaders[s] = {}
      BY <2>1 DEF LiveReaders
    <2>6. body # NoSource
      BY NoSourceAssumption
    <2>7. Lifecycle!StartReader(s)
      BY <2>4, <2>5, <2>6 DEF Lifecycle!StartReader, Lifecycle!Runs
    <2>8. Follows'
      BY <2>2 DEF Follows, Kept
    <2> QED  BY <2>7, <2>8 DEF Maps, Lifecycle!Next
  <1> QED  BY <1>1, <1>2

\* A source is added and its reader is created at once.
LEMMA CreateMaps ==
    ASSUME TypeOK, SerialInv, Follows, NEW s \in Sources, NEW body \in Body,
           ~Configured(s), Live(s) = {}, body.enabled,
           config' = [config EXCEPT ![s] = body], StartReader(s, body)
    PROVE  Maps /\ Follows'
  <1>1. ~HasRunningTask(s)
    BY DEF HasRunningTask, Live, TypeOK, Ref, Ids
  <1>2. CreateReader(s, body)
    BY <1>1 DEF StartReader
  <1>3. PICK n \in Ids :
            /\ Running(s)' = {<<n, body>>}
            /\ \A t \in Sources \ {s} : Kept(t)
            /\ \A m \in Ids : rpc'[s][m] \in Active => m = n
            /\ reader'[s][n].body = body
    BY <1>2, CreateRunning
  <1>4. \A t \in Sources \ {s} : Running(t)' = Running(t)
    BY <1>3, KeptRunning
  <1>5. LiveReaders' = [LiveReaders EXCEPT ![s] = {<<n, body>>}]
    <2>1. LiveReaders = [t \in Sources |-> Running(t)] /\ LiveReaders' = [t \in Sources |-> Running(t)']
      BY DEF LiveReaders, Running
    <2> QED  BY <1>3, <1>4, <2>1
  <1>6. LiveReaders[s] = {} /\ config[s] = NoSource
    BY DEF LiveReaders, Configured
  <1>7. Lifecycle!CreateRunning(s)
    BY <1>5, <1>6 DEF Lifecycle!CreateRunning
  <1>8. config'[s] = body /\ \A t \in Sources \ {s} : config'[t] = config[t]
    BY DEF TypeOK
  <1>9. Follows'
    <2> SUFFICES ASSUME NEW t \in Sources, NEW m \in Ids,
                        rpc'[t][m] \in Active
                 PROVE  config'[t] = reader'[t][m].body /\ reader'[t][m].body.enabled
      BY DEF Follows
    <2>1. CASE t = s
      BY <1>3, <1>8, <2>1
    <2>2. CASE t # s
      <3>1. rpc[t][m] \in Active /\ reader'[t][m].body = reader[t][m].body
        BY <1>3, <2>2 DEF Kept
      <3> QED  BY <1>8, <2>2, <3>1 DEF Follows
    <2> QED  BY <2>1, <2>2
  <1> QED  BY <1>7, <1>9 DEF Maps, Lifecycle!Next

\* The only reader of a source comes to its end.
LEMMA EndMaps ==
    ASSUME TypeOK, SerialInv, Follows, NEW s \in Sources, NEW n \in Live(s),
           UNCHANGED config, \A t \in Sources \ {s} : Kept(t),
           \A m \in Ids : rpc'[s][m] \in Active => rpc[s][m] \in Active /\ m # n
    PROVE  Maps /\ Follows'
  <1>1. Live(s) = {n}
    BY OnlyRegisteredRuns
  <1>2. \A m \in Ids : rpc'[s][m] \notin Active
    BY <1>1 DEF Live
  <1>3. Running(s)' = {}
    BY <1>2 DEF Running, Live
  <1>4. \A t \in Sources \ {s} : Running(t)' = Running(t)
    BY KeptRunning
  <1>5. LiveReaders' = [LiveReaders EXCEPT ![s] = {}]
    BY <1>3, <1>4 DEF LiveReaders, Running
  <1>6. LiveReaders[s] # {}
    BY <1>1 DEF LiveReaders
  <1>7. Lifecycle!EndReader(s)
    BY <1>5, <1>6 DEF Lifecycle!EndReader
  <1>8. Follows'
    <2> SUFFICES ASSUME NEW t \in Sources, NEW m \in Ids,
                        rpc'[t][m] \in Active
                 PROVE  config'[t] = reader'[t][m].body /\ reader'[t][m].body.enabled
      BY DEF Follows
    <2>1. t # s
      BY <1>2
    <2>2. rpc[t][m] \in Active /\ reader'[t][m].body = reader[t][m].body
      BY <2>1 DEF Kept
    <2> QED  BY <2>2 DEF Follows
  <1> QED  BY <1>7, <1>8 DEF Maps, Lifecycle!Next

-----------------------------------------------------------------------------
(* The steps of readers.                                                   *)

\* A reader step moves its reader only and leaves what it reads; a reader
\* that has ended does not run again.
LEMMA ReaderShape ==
    ASSUME TypeOK, NEW s \in Sources, NEW n \in Ids, ReaderStep(s, n)
    PROVE  /\ UNCHANGED <<config, hpc, handler>>
           /\ \E state, rec :
                  /\ rpc' = [rpc EXCEPT ![s][n] = state]
                  /\ reader' = [reader EXCEPT ![s][n] = rec]
                  /\ state \in Active =>
                         rpc[s][n] \in Active /\ rec.body = reader[s][n].body
  <1> DEFINE r == reader[s][n]
             Shape(state, rec) ==
                 /\ rpc' = [rpc EXCEPT ![s][n] = state]
                 /\ reader' = [reader EXCEPT ![s][n] = rec]
                 /\ state \in Active => rpc[s][n] \in Active /\ rec.body = r.body
  <1>1. r \in ReaderRec /\ rpc = [rpc EXCEPT ![s][n] = rpc[s][n]]
        /\ reader = [reader EXCEPT ![s][n] = r]
    BY DEF TypeOK
  <1>2. UNCHANGED <<config, hpc, handler>>
    BY DEF ReaderStep, ReaderTail, ReaderOpen, ReaderPoll, ReaderStop, ReaderInsert,
           ReaderFails, Reap
  <1>3. CASE ReaderOpen(s, n)
    <2> DEFINE opened == [r EXCEPT !.read = file[r.body.def]]
               end == IF Remote(s, n) THEN file[r.body.def] ELSE r.read
               batch == LastN(Lines(1, end), r.body.history)
               emitted == [opened EXCEPT !.batch = batch, !.limit = LimitNow(s)]
    <2>1. opened.body = r.body /\ emitted.body = r.body
      BY <1>1 DEF ReaderRec
    <2>2. /\ rpc[s][n] \in Active
          /\ \/ /\ rpc' = [rpc EXCEPT ![s][n] = "poll"]
                /\ reader' = [reader EXCEPT ![s][n] = opened]
             \/ /\ rpc' = [rpc EXCEPT ![s][n] = "insert"]
                /\ reader' = [reader EXCEPT ![s][n] = emitted]
      BY <1>3 DEF ReaderOpen, EmitBatch, Active
    <2> HIDE DEF opened, emitted, r
    <2>3. Shape("poll", opened) \/ Shape("insert", emitted)
      BY <2>1, <2>2
    <2> QED  BY <1>2, <2>3 DEF r
  <1>4. CASE ReaderPoll(s, n)
    <2> DEFINE size == file[r.body.def]
               all == r.held \o Lines(r.read + 1, size)
               idle == size = r.read
               batch == IF idle THEN all ELSE DropLast(all, 1)
               next == [r EXCEPT !.read = size, !.held = IF idle THEN <<>> ELSE LastN(all, 1)]
               emitted == [next EXCEPT !.batch = batch, !.limit = LimitNow(s)]
    <2>1. next.body = r.body /\ emitted.body = r.body
      BY <1>1 DEF ReaderRec
    <2>2. /\ rpc[s][n] = "poll" /\ "poll" \in Active
          /\ \/ /\ UNCHANGED rpc
                /\ reader' = [reader EXCEPT ![s][n] = next]
             \/ /\ rpc' = [rpc EXCEPT ![s][n] = "insert"]
                /\ reader' = [reader EXCEPT ![s][n] = emitted]
      BY <1>4 DEF ReaderPoll, EmitBatch, Active
    <2> HIDE DEF next, emitted, r
    <2>3. Shape("poll", next) \/ Shape("insert", emitted)
      BY <1>1, <2>1, <2>2
    <2> QED  BY <1>2, <2>3 DEF r
  <1>5. CASE ReaderStop(s, n)
    <2> DEFINE last == [r EXCEPT !.held = <<>>, !.final = TRUE]
               emitted == [last EXCEPT !.batch = r.held, !.limit = LimitNow(s)]
    <2>1. emitted.body = r.body
      BY <1>1 DEF ReaderRec
    <2>2. /\ rpc[s][n] \in Active
          /\ \/ /\ rpc' = [rpc EXCEPT ![s][n] = "done"]
                /\ UNCHANGED reader
             \/ /\ rpc' = [rpc EXCEPT ![s][n] = "insert"]
                /\ reader' = [reader EXCEPT ![s][n] = emitted]
      BY <1>5 DEF ReaderStop, EmitBatch, Active
    <2> HIDE DEF emitted, r
    <2>3. Shape("done", r) \/ Shape("insert", emitted)
      BY <1>1, <2>1, <2>2 DEF Active
    <2> QED  BY <1>2, <2>3 DEF r
  <1>6. CASE ReaderInsert(s, n) \/ ReaderFails(s, n)
    <2> DEFINE stored == [r EXCEPT !.batch = <<>>, !.limit = 0]
    <2>1. stored.body = r.body
      BY <1>1 DEF ReaderRec
    <2>2. /\ rpc[s][n] \in Active
          /\ reader' = [reader EXCEPT ![s][n] = stored]
          /\ \/ rpc' = [rpc EXCEPT ![s][n] = "done"]
             \/ rpc' = [rpc EXCEPT ![s][n] = "poll"]
      BY <1>6 DEF ReaderInsert, ReaderFails, Active
    <2> HIDE DEF stored, r
    <2>3. Shape("done", stored) \/ Shape("poll", stored)
      BY <2>1, <2>2
    <2> QED  BY <1>2, <2>3 DEF r
  <1>7. CASE Reap(s, n)
    <2>1. Shape("reaped", IdleReader)
      BY <1>7 DEF Reap, Active
    <2> QED  BY <1>2, <2>1
  <1>8. CASE ReaderTail(s, n)
    <2> DEFINE new == [r EXCEPT !.read = file[r.body.def]]
    <2>1. new.body = r.body
      BY <1>1 DEF ReaderRec
    <2>2. /\ rpc[s][n] \in Active
          /\ rpc' = [rpc EXCEPT ![s][n] = "tail"]
          /\ reader' = [reader EXCEPT ![s][n] = new]
      BY <1>8 DEF ReaderTail, Active
    <2> HIDE DEF new, r
    <2>3. Shape("tail", new)
      BY <2>1, <2>2
    <2> QED  BY <1>2, <2>3 DEF r
  <1> QED  BY <1>3, <1>4, <1>5, <1>6, <1>7, <1>8 DEF ReaderStep

\* A step of a reader ends it or is nothing to SourceLifecycle.
LEMMA ReaderStepMaps ==
    ASSUME TypeOK, SerialInv, Follows, NEW s \in Sources, NEW n \in Ids,
           ReaderStep(s, n)
    PROVE  Maps /\ Follows'
  <1>1. UNCHANGED config
    BY ReaderShape
  <1>2. PICK state, rec :
            /\ rpc' = [rpc EXCEPT ![s][n] = state]
            /\ reader' = [reader EXCEPT ![s][n] = rec]
            /\ state \in Active => rpc[s][n] \in Active /\ rec.body = reader[s][n].body
    BY ReaderShape
  <1>3. \A t \in Sources, m \in Ids :
            /\ rpc'[t][m] = IF t = s /\ m = n THEN state ELSE rpc[t][m]
            /\ reader'[t][m] = IF t = s /\ m = n THEN rec ELSE reader[t][m]
    BY <1>2 DEF TypeOK
  <1>4. \A t \in Sources \ {s} : Kept(t)
    BY <1>1, <1>3 DEF Kept
  <1>5. CASE state \in Active \/ rpc[s][n] \notin Active
    <2>1. Kept(s)
      BY <1>1, <1>2, <1>3, <1>5 DEF Kept
    <2> QED  BY <1>1, <1>4, <2>1, QuietMaps
  <1>6. CASE state \notin Active /\ rpc[s][n] \in Active
    <2>1. n \in Live(s)
      BY <1>6 DEF Live
    <2>2. \A m \in Ids : rpc'[s][m] \in Active => rpc[s][m] \in Active /\ m # n
      BY <1>3, <1>6
    <2> QED  BY <1>1, <1>4, <2>1, <2>2, EndMaps
  <1> QED  BY <1>5, <1>6

-----------------------------------------------------------------------------
(* The handler.                                                            *)

\* A plan starts a reader only for an enabled body.
LEMMA PlanStarts ==
    ASSUME NEW prev \in Body, NEW new \in Body, NEW k \in DOMAIN Plan(prev, new),
           Plan(prev, new)[k] = "start"
    PROVE  new.enabled
  <1> SUFFICES ASSUME ~RestartRequired(prev, new) PROVE FALSE
    BY DEF RestartRequired
  <1> DEFINE Others == {"delete_source", "shift_source", "trim_source"}
  <1>1. \A c \in BOOLEAN : \A t \in Others : When(c, t) \in Seq(Others)
    BY DEF When
  <1>2. /\ When(RestartRequired(prev, new) /\ ~DefinitionChanged(prev, new), "delete_latest")
               \in Seq(Others)
        /\ When(RestartRequired(prev, new), "start") \in Seq(Others)
    BY DEF When
  <1>3. /\ When(DefinitionChanged(prev, new), "delete_source") \in Seq(Others)
        /\ When(prev.offset # new.offset, "shift_source") \in Seq(Others)
        /\ When(prev.history # new.history, "trim_source") \in Seq(Others)
    BY <1>1 DEF DefinitionChanged
  <1> HIDE DEF Others
  <1>4. Plan(prev, new) \in Seq(Others)
    BY <1>2, <1>3 DEF Plan
  <1>5. Plan(prev, new)[k] \in Others
    BY <1>4
  <1> QED  BY <1>5 DEF Others

\* The rest of a PUT or DELETE leaves a handler that knows its source.
LEMMA AfterStopKnows ==
    ASSUME TypeOK, NEW h \in Handlers, Handlers = {h}, NEW rec \in HandlerRec,
           Configured(rec.src), AfterStop(h, rec)
    PROVE  HandlerKnows'
  <1>1. rec.src \in Sources /\ rec.body \in Body /\ rec.prev \in Body
    BY DEF HandlerRec
  <1>2. CASE Reply(h)
    BY <1>2 DEF Reply, HandlerKnows, TypeOK
  <1>3. ASSUME NEW todo, Continue(h, rec, todo),
               IF rec.op = "put"
               THEN /\ config'[rec.src] = rec.body
                    /\ \A k \in DOMAIN todo : todo[k] = "start" => rec.body.enabled
               ELSE config'[rec.src] = NoSource /\ todo = <<"delete_source">>
        PROVE  HandlerKnows'
    <2>1. CASE todo = <<>>
      BY <1>2, <1>3, <2>1 DEF Continue
    <2>2. CASE todo # <<>>
      <3> DEFINE new == [rec EXCEPT !.todo = todo]
      <3>1. /\ new.todo = todo /\ new.src = rec.src
            /\ new.body = rec.body /\ new.op = rec.op
        BY DEF HandlerRec
      <3>2. hpc'[h] = "work" /\ handler'[h] = new
        BY <1>3, <2>2 DEF Continue, TypeOK
      <3> HIDE DEF new
      <3> QED  BY <1>3, <3>1, <3>2 DEF HandlerKnows
    <2> QED  BY <2>1, <2>2
  <1>4. CASE rec.op = "put"
    <2>1. config'[rec.src] = rec.body
      BY <1>1, <1>4 DEF AfterStop, Update, TypeOK
    <2>2. Reply(h) \/ Continue(h, rec, Plan(rec.prev, rec.body))
      BY <1>4 DEF AfterStop, Update
    <2>3. \A k \in DOMAIN Plan(rec.prev, rec.body) :
              Plan(rec.prev, rec.body)[k] = "start" => rec.body.enabled
      BY <1>1, PlanStarts
    <2>4. ASSUME Continue(h, rec, Plan(rec.prev, rec.body))
          PROVE  HandlerKnows'
      BY <1>3, <1>4, <2>1, <2>3, <2>4
    <2> QED  BY <1>2, <2>2, <2>4
  <1>5. CASE rec.op # "put"
    <2>1. Reply(h) \/ Continue(h, rec, <<"delete_source">>)
      BY <1>5 DEF AfterStop, Update
    <2>2. config'[rec.src] = NoSource
      BY <1>1, <1>5 DEF AfterStop, Update, TypeOK
    <2> QED  BY <1>2, <1>3, <1>5, <2>1, <2>2
  <1> QED  BY <1>4, <1>5

\* Once a source has no readers the rest of a PUT or DELETE configures it.
LEMMA AfterStopMaps ==
    ASSUME TypeOK, Follows, NEW h \in Handlers, NEW rec \in HandlerRec,
           Live(rec.src) = {}, AfterStop(h, rec), \A t \in Sources : Kept(t)
    PROVE  Maps /\ Follows'
  <1>1. rec.src \in Sources /\ rec.body \in Body
    BY DEF HandlerRec
  <1>2. PICK value \in Body \cup {NoSource} : config' = [config EXCEPT ![rec.src] = value]
    BY <1>1 DEF AfterStop, Update
  <1> QED  BY <1>1, <1>2, ConfigureMaps

\* Stopping a reader, and what follows if there is none.
LEMMA StopThenMaps ==
    ASSUME TypeOK, SerialInv, Follows, NEW h \in Handlers, Handlers = {h},
           NEW rec \in HandlerRec, Configured(rec.src),
           rec.op = "put" => rec.prev = config[rec.src] /\ rec.body # rec.prev,
           StopThen(h, rec), UNCHANGED <<created, rpc, reader>>
    PROVE  Maps /\ Follows' /\ HandlerKnows'
  <1>1. rec.src \in Sources
    BY DEF HandlerRec
  <1>2. \A t \in Sources : Kept(t)
    BY <1>1 DEF StopThen, SignalStop, Kept, TypeOK
  <1>3. CASE tasks[rec.src] # 0
    <2> DEFINE new == [rec EXCEPT !.wait = tasks[rec.src]]
    <2>1. /\ new.src = rec.src /\ new.op = rec.op
          /\ new.body = rec.body /\ new.prev = rec.prev
      BY DEF HandlerRec
    <2>2. UNCHANGED config /\ hpc'[h] = "stopping" /\ handler'[h] = new
      BY <1>3 DEF StopThen, TypeOK
    <2> HIDE DEF new
    <2>3. HandlerKnows'
      BY <2>1, <2>2 DEF HandlerKnows, Configured
    <2> QED  BY <1>2, <2>2, <2>3, QuietMaps
  <1>4. CASE tasks[rec.src] = 0
    <2>1. AfterStop(h, rec)
      BY <1>4 DEF StopThen
    <2>2. Live(rec.src) = {}
      BY <1>1, <1>4, OnlyRegisteredRuns DEF HasRunningTask
    <2> QED  BY <1>2, <2>1, <2>2, AfterStopMaps, AfterStopKnows
  <1> QED  BY <1>3, <1>4

\* A PUT, or a start or stop that is one.
LEMMA UpdateSourceMaps ==
    ASSUME TypeOK, SerialInv, Follows, NEW h \in Handlers, Handlers = {h},
           phase = "up", hpc[h] = "idle",
           NEW s \in Sources, NEW body \in Body, UpdateSource(h, s, body)
    PROVE  Maps /\ Follows' /\ HandlerKnows'
  <1> DEFINE rec == [IdleHandler EXCEPT !.op = "put", !.src = s, !.body = body,
                                        !.prev = config[s]]
  <1>1. Configured(s) /\ config[s] \in Body
    BY DEF UpdateSource, Configured, TypeOK
  <1>2. /\ rec \in HandlerRec
        /\ rec.op = "put" /\ rec.src = s /\ rec.body = body /\ rec.prev = config[s]
    BY <1>1, IdleType DEF HandlerRec
  <1>3. \/ /\ StopRequired(config[s], body)
           /\ StopThen(h, rec) /\ UNCHANGED <<created, rpc, reader>>
        \/ /\ ~StopRequired(config[s], body)
           /\ AfterStop(h, rec) /\ UNCHANGED readerVars
    BY DEF UpdateSource
  <1> HIDE DEF rec
  <1>4. CASE /\ StopRequired(config[s], body)
             /\ StopThen(h, rec) /\ UNCHANGED <<created, rpc, reader>>
    <2>1. body # config[s]
      BY <1>4 DEF StopRequired, RuntimeChanged, DefinitionChanged
    <2> QED  BY <1>1, <1>2, <1>4, <2>1, StopThenMaps
  <1>5. CASE ~StopRequired(config[s], body) /\ AfterStop(h, rec) /\ UNCHANGED readerVars
    <2>1. \A t \in Sources : Kept(t)
      BY <1>5 DEF readerVars, Kept
    <2>2. HandlerKnows'
      BY <1>1, <1>2, <1>5, AfterStopKnows
    <2>3. CASE config[s].enabled
      <3>1. /\ body.enabled /\ body.def = config[s].def
            /\ body.offset = config[s].offset /\ body.history = config[s].history
        BY <1>5, <2>3 DEF StopRequired, RuntimeChanged, DefinitionChanged
      <3>2. body = config[s]
        BY <1>1, <2>3, <3>1 DEF Body
      <3>3. config' = [config EXCEPT ![s] = body]
        BY <1>1, <1>2, <1>5 DEF AfterStop, Update
      <3>4. UNCHANGED config
        BY <3>2, <3>3 DEF TypeOK
      <3> QED  BY <2>1, <2>2, <3>4, QuietMaps
    <2>4. CASE ~config[s].enabled
      <3>1. Live(s) = {}
        BY <2>4, IdleSourceIsFree DEF Enabled
      <3> QED  BY <1>2, <1>5, <2>1, <2>2, <3>1, AfterStopMaps
    <2> QED  BY <2>3, <2>4
  <1> QED  BY <1>3, <1>4, <1>5

\* A request up to its first await.
LEMMA RequestMaps ==
    ASSUME TypeOK, SerialInv, Follows, NEW h \in Handlers, Handlers = {h},
           NEW s \in Sources, Request(h, s)
    PROVE  Maps /\ Follows' /\ HandlerKnows'
  <1>1. phase = "up" /\ hpc[h] = "idle"
    BY DEF Request, Create, Put, StartSource, StopSource, Delete, Receive
  <1>2. ASSUME UNCHANGED hpc
        PROVE  HandlerKnows'
    BY <1>1, <1>2 DEF HandlerKnows
  <1>3. ASSUME NEW body \in Body, Create(h, s, body)
        PROVE  Maps /\ Follows' /\ HandlerKnows'
    <2>1. Live(s) = {} /\ ~Configured(s)
      BY <1>1, <1>3, IdleSourceIsFree DEF Create, Enabled
    <2>2. config' = [config EXCEPT ![s] = body] /\ UNCHANGED hpc
      BY <1>3 DEF Create
    <2>3. CASE UNCHANGED readerVars
      <3>1. \A t \in Sources : Kept(t)
        BY <2>3 DEF readerVars, Kept
      <3> QED  BY <1>2, <2>1, <2>2, <3>1, ConfigureMaps
    <2>4. CASE body.enabled /\ StartReader(s, body)
      BY <1>2, <2>1, <2>2, <2>4, CreateMaps
    <2> QED  BY <1>3, <2>3, <2>4 DEF Create
  <1>4. ASSUME NEW body \in Body, Put(h, s, body)
        PROVE  Maps /\ Follows' /\ HandlerKnows'
    BY <1>1, <1>4, UpdateSourceMaps DEF Put
  <1>5. CASE StartSource(h, s)
    <2>1. config[s] \in Body /\ [config[s] EXCEPT !.enabled = TRUE] \in Body
      BY <1>5 DEF StartSource, Configured, TypeOK, Body
    <2>2. CASE config[s].enabled
      <3>1. StartReader(s, config[s]) /\ UNCHANGED <<config, hpc>>
        BY <1>5, <2>2 DEF StartSource
      <3> QED  BY <1>2, <2>1, <2>2, <3>1, StartMaps
    <2>3. CASE ~config[s].enabled
      <3>1. UpdateSource(h, s, [config[s] EXCEPT !.enabled = TRUE])
        BY <1>5, <2>3 DEF StartSource
      <3> QED  BY <1>1, <2>1, <3>1, UpdateSourceMaps
    <2> QED  BY <2>2, <2>3
  <1>6. CASE StopSource(h, s)
    <2>1. [config[s] EXCEPT !.enabled = FALSE] \in Body
      BY <1>6, ZenonT(30) DEF StopSource, Configured, TypeOK, Body
    <2> QED  BY <1>1, <1>6, <2>1, UpdateSourceMaps DEF StopSource
  <1>7. CASE Delete(h, s)
    <2> DEFINE rec == [IdleHandler EXCEPT !.op = "delete", !.src = s]
    <2>1. rec \in HandlerRec /\ rec.op = "delete" /\ rec.src = s
      BY IdleType DEF HandlerRec
    <2>2. StopThen(h, rec) /\ UNCHANGED <<created, rpc, reader>> /\ Configured(s)
      BY <1>7 DEF Delete
    <2> HIDE DEF rec
    <2> QED  BY <2>1, <2>2, StopThenMaps
  <1> QED  BY <1>3, <1>4, <1>5, <1>6, <1>7 DEF Request

\* A stage of a plan that fails ends the handler; one that does not is done.
Raised(h) ==
    /\ failures' # 0 /\ hpc'[h] = "idle"
    /\ UNCHANGED <<config, file, phase, opening, buffer, rpc, reader>>

Done(h) ==
    LET rec == handler[h] IN
    /\ IF Head(rec.todo) = "start"
       THEN StartReader(rec.src, rec.body) /\ UNCHANGED buffer
       ELSE /\ buffer' = [buffer EXCEPT ![rec.src] =
                             Stored(buffer[rec.src], Head(rec.todo), rec.body)]
            /\ UNCHANGED readerVars
    /\ Continue(h, rec, Tail(rec.todo))
    /\ UNCHANGED <<config, file, phase, opening, failures>>

LEMMA RaisedOrDone ==
    ASSUME TypeOK, NEW h \in Handlers, Work(h)
    PROVE  hpc[h] = "work" /\ (Raised(h) \/ Done(h))
  <1>1. /\ hpc[h] = "work" /\ UNCHANGED <<config, file, phase, opening>>
        /\ failures \in Nat
    BY DEF Work, TypeOK
  <1>2. ASSUME failures' = failures + 1, Reply(h), UNCHANGED <<buffer, readerVars>>
        PROVE  Raised(h)
    BY <1>1, <1>2 DEF Raised, Reply, readerVars, TypeOK
  <1> QED  BY <1>1, <1>2 DEF Work, Done

\* A handler resumes.
LEMMA HandlerStepMaps ==
    ASSUME TypeOK, WorkLeft, SerialInv, Follows, HandlerKnows,
           NEW h \in Handlers, Handlers = {h}, HandlerStep(h)
    PROVE  Maps /\ Follows' /\ HandlerKnows'
  <1> DEFINE rec == handler[h]
             s == rec.src
  <1>1. rec \in HandlerRec
    BY DEF TypeOK
  <1>2. s \in Sources /\ rec.body \in Body /\ rec.todo \in Seq(Stage)
    BY <1>1 DEF HandlerRec
  <1>3. CASE Stopped(h)
    <2> DEFINE resumed == [rec EXCEPT !.wait = 0]
    <2>1. /\ hpc[h] = "stopping"
          /\ rpc[s][rec.wait] = "reaped"
          /\ AfterStop(h, resumed)
          /\ UNCHANGED <<rpc, reader>>
      BY <1>3 DEF Stopped
    <2>2. rec.wait \in Ids /\ tasks[s] \in {0, rec.wait}
      BY <2>1 DEF SerialInv, WaitingForRegistered
    <2>3. Live(s) = {}
      BY <1>2, <2>1, <2>2, OnlyRegisteredRuns DEF HasRunningTask, Active
    <2>4. resumed \in HandlerRec /\ resumed.src = s /\ resumed.op = rec.op
      BY <1>1, BoundAssumption DEF HandlerRec, Ref
    <2>5. Configured(s)
      BY <2>1 DEF HandlerKnows
    <2>6. \A t \in Sources : Kept(t)
      BY <2>1 DEF Kept
    <2> HIDE DEF resumed
    <2> QED  BY <2>1, <2>3, <2>4, <2>5, <2>6, AfterStopMaps, AfterStopKnows
  <1>4. CASE Work(h)
    <2>4. hpc[h] = "work" /\ (Raised(h) \/ Done(h))
      BY <1>4, RaisedOrDone
    <2>5. CASE Raised(h)
      <3>1. \A t \in Sources : Kept(t)
        BY <2>5 DEF Raised, Kept
      <3>2. HandlerKnows'
        BY <2>5 DEF Raised, HandlerKnows
      <3> QED  BY <2>5, <3>1, <3>2, QuietMaps DEF Raised
    <2> SUFFICES ASSUME Done(h) PROVE Maps /\ Follows' /\ HandlerKnows'
      BY <2>4, <2>5
    <2>1. hpc[h] = "work" /\ rec.todo # <<>> /\ UNCHANGED config
      BY <2>4 DEF Done, WorkLeft
    <2>2. Maps /\ Follows'
      <3>1. CASE Head(rec.todo) = "start"
        <4>1. config[s] = rec.body /\ rec.body.enabled
          <5>1. 1 \in DOMAIN rec.todo /\ rec.todo[1] = "start" /\ rec.todo # <<"delete_source">>
            BY <1>2, <2>1, <3>1
          <5> QED  BY <2>1, <5>1 DEF HandlerKnows
        <4>2. StartReader(s, rec.body)
          BY <3>1 DEF Done
        <4> QED  BY <1>2, <2>1, <4>1, <4>2, StartMaps
      <3>2. CASE Head(rec.todo) # "start"
        <4>1. \A t \in Sources : Kept(t)
          BY <3>2 DEF Done, readerVars, Kept
        <4> QED  BY <2>1, <4>1, QuietMaps
      <3> QED  BY <3>1, <3>2
    <2>3. HandlerKnows'
      <3>1. CASE Reply(h)
        BY <3>1 DEF Reply, HandlerKnows, TypeOK
      <3>2. CASE ~Reply(h)
        <4> DEFINE new == [rec EXCEPT !.todo = Tail(rec.todo)]
        <4>1. /\ new.todo = Tail(rec.todo) /\ new.src = s
              /\ new.body = rec.body /\ new.op = rec.op
          BY <1>1 DEF HandlerRec
        <4>2. hpc'[h] = "work" /\ handler'[h] = new
          BY <2>1, <3>2 DEF Done, Continue, TypeOK
        <4>3. \A k \in DOMAIN Tail(rec.todo) :
                  k + 1 \in DOMAIN rec.todo /\ Tail(rec.todo)[k] = rec.todo[k + 1]
          BY <1>2, <2>1
        <4>4. rec.op = "put"
          <5> SUFFICES ASSUME rec.todo = <<"delete_source">> PROVE FALSE
            BY <2>1 DEF HandlerKnows
          <5>1. Tail(rec.todo) = <<>>
            OBVIOUS
          <5> QED  BY <1>4, <3>2, <5>1 DEF Work, Continue
        <4>5. /\ config[s] = rec.body
              /\ \A k \in DOMAIN rec.todo : rec.todo[k] = "start" => rec.body.enabled
          BY <2>1, <4>4 DEF HandlerKnows
        <4> HIDE DEF new
        <4>6. /\ config'[s] = new.body /\ new.op = "put"
              /\ \A k \in DOMAIN new.todo : new.todo[k] = "start" => new.body.enabled
          BY <2>1, <4>1, <4>3, <4>4, <4>5
        <4> QED  BY <4>1, <4>2, <4>6, ZenonT(30) DEF HandlerKnows
      <3> QED  BY <3>1, <3>2
    <2> QED  BY <2>2, <2>3
  <1> QED  BY <1>3, <1>4 DEF HandlerStep

-----------------------------------------------------------------------------
(* The lifespan.                                                           *)

\* The program starts a reader for each enabled source.
LEMMA StartAllMaps ==
    ASSUME TypeOK, SerialInv, Follows, StartAll
    PROVE  Maps /\ Follows'
  <1>1. /\ 1 \in Ids /\ UNCHANGED config
        /\ rpc' = [s \in Sources |->
                      IF Enabled(s) THEN [rpc[s] EXCEPT ![1] = "open"] ELSE rpc[s]]
        /\ reader' = [s \in Sources |->
                      IF Enabled(s) THEN [reader[s] EXCEPT ![1].body = config[s]]
                                    ELSE reader[s]]
    BY BoundAssumption DEF StartAll, Ids
  <1>2. \A s \in Sources, n \in Ids : rpc[s][n] = "unborn"
    BY DEF StartAll, SerialInv, PhaseInv, NumberedInOrder, Ids
  <1>3. \A s \in Sources, n \in Ids : rpc'[s][n] \in Active <=> Enabled(s) /\ n = 1
    BY <1>1, <1>2 DEF TypeOK, Active
  <1>4. \A s \in Sources : Enabled(s) => reader'[s][1].body = config[s]
    BY <1>1 DEF TypeOK, ReaderRec
  <1>5. \A s \in Sources : Live(s)' = IF Enabled(s) THEN {1} ELSE {}
    BY <1>1, <1>3 DEF Live
  <1>6. \A s \in Sources : Running(s)' = IF Enabled(s) THEN {<<1, config[s]>>} ELSE {}
    BY <1>4, <1>5 DEF Running
  <1>7. /\ LiveReaders = [s \in Sources |-> Running(s)]
        /\ LiveReaders' = [s \in Sources |-> Running(s)']
    BY DEF LiveReaders, Running
  <1>8. \A s \in Sources : LiveReaders[s] = {}
    BY <1>2 DEF LiveReaders, Live, Active
  <1> DEFINE first == [s \in Sources |-> 1]
  <1>9. first \in [Sources -> Ids] /\ \A s \in Sources : first[s] = 1
    BY <1>1
  <1> HIDE DEF first
  <1>10. LiveReaders' = [s \in Sources |->
                            IF Lifecycle!Runs(config[s]) THEN {<<first[s], config[s]>>} ELSE {}]
    BY <1>6, <1>7, <1>9 DEF Lifecycle!Runs, Enabled, Configured
  <1>11. Lifecycle!StartAll
    BY <1>1, <1>8, <1>9, <1>10 DEF Lifecycle!StartAll
  <1>12. Follows'
    BY <1>1, <1>3, <1>4 DEF Follows, Enabled
  <1> QED  BY <1>11, <1>12 DEF Maps, Lifecycle!Next

\* Every step maps to a step of SourceLifecycle or to none.
LEMMA StepMaps ==
    ASSUME TypeOK, WorkLeft, SerialInv, Follows, HandlerKnows, [Next]_vars,
           NEW h, Handlers = {h}
    PROVE  Maps /\ Follows' /\ HandlerKnows'
  <1>1. ASSUME UNCHANGED <<config, rpc, reader>>, UNCHANGED <<hpc, handler>>
        PROVE  Maps /\ Follows' /\ HandlerKnows'
    <2>1. \A s \in Sources : Kept(s)
      BY <1>1 DEF Kept
    <2>2. HandlerKnows'
      BY <1>1 DEF HandlerKnows, Configured
    <2> QED  BY <1>1, <2>1, <2>2, QuietMaps
  <1>2. CASE UNCHANGED vars
    BY <1>1, <1>2 DEF vars, readerVars
  <1>3. ASSUME NEW s \in Sources, NEW n \in Ids, ReaderStep(s, n)
        PROVE  Maps /\ Follows' /\ HandlerKnows'
    <2>1. HandlerKnows'
      BY <1>3, ReaderShape DEF HandlerKnows, Configured
    <2> QED  BY <1>3, <2>1, ReaderStepMaps
  <1>4. ASSUME NEW g \in Handlers, HandlerStep(g)
        PROVE  Maps /\ Follows' /\ HandlerKnows'
    BY <1>4, HandlerStepMaps
  <1>5. ASSUME NEW g \in Handlers, NEW s \in Sources, Request(g, s)
        PROVE  Maps /\ Follows' /\ HandlerKnows'
    BY <1>5, RequestMaps
  <1>6. CASE StartAll
    <2>1. HandlerKnows'
      BY <1>6 DEF StartAll, HandlerKnows, Configured
    <2> QED  BY <1>6, <2>1, StartAllMaps
  <1>7. CASE StopAll
    BY <1>1, <1>7 DEF StopAll
  <1>8. CASE Close
    BY <1>1, <1>8 DEF Close
  <1>9. ASSUME NEW d \in Definitions, Append1(d)
        PROVE  Maps /\ Follows' /\ HandlerKnows'
    BY <1>1, <1>9 DEF Append1, readerVars
  <1> QED  BY <1>2, <1>3, <1>4, <1>5, <1>6, <1>7, <1>8, <1>9 DEF Next

\* The initial states map to initial states.
LEMMA InitMaps == Init => Lifecycle!Init /\ Follows /\ HandlerKnows
  <1> SUFFICES ASSUME Init PROVE Lifecycle!Init /\ Follows /\ HandlerKnows
    OBVIOUS
  <1>1. \A s \in Sources, n \in Ids : rpc[s][n] \notin Active
    BY DEF Init, Active
  <1>2. LiveReaders = [s \in Sources |-> {}]
    BY <1>1 DEF LiveReaders, Live
  <1>3. Lifecycle!Init
    BY <1>2 DEF Init, Lifecycle!Init
  <1>4. Follows /\ HandlerKnows
    BY <1>1 DEF Init, Follows, HandlerKnows
  <1> QED  BY <1>3, <1>4

-----------------------------------------------------------------------------
(* With one request at a time and no reader killed by an exception, every  *)
(* reader is created for an enabled source that has none, with the         *)
(* configuration in force, and a configuration changes only while its      *)
(* source has no reader.                                                   *)
THEOREM SerialImplementsLifecycle ==
    ASSUME NEW h, Handlers = {h}, MaxDeaths = 0
    PROVE  Spec => ImplementsLifecycle
  <1> DEFINE Inv == TypeOK /\ WorkLeft /\ SerialInv /\ Follows /\ HandlerKnows
  <1>1. Init => Inv /\ Lifecycle!Init
    BY TypeInit, SerialInit, InitMaps
  <1>2. Inv /\ [Next]_vars => Inv' /\ [Lifecycle!Next]_Lifecycle!vars
    <2> SUFFICES ASSUME Inv, [Next]_vars
                 PROVE  Inv' /\ [Lifecycle!Next]_Lifecycle!vars
      OBVIOUS
    <2>1. TypeOK' /\ WorkLeft' /\ SerialInv'
      BY TypeInductive, SerialStep
    <2>2. Maps /\ Follows' /\ HandlerKnows'
      BY StepMaps
    <2> QED  BY <2>1, <2>2 DEF Maps
  <1> HIDE DEF Inv
  <1> QED  BY <1>1, <1>2, PTL DEF Spec, ImplementsLifecycle, Lifecycle!Spec

(* Under the same conditions no reader outlives a DELETE, a stop or an     *)
(* edit that changes what it should read.                                  *)
THEOREM SerialReaderFollowsConfig ==
    ASSUME NEW h, Handlers = {h}, MaxDeaths = 0
    PROVE  Spec => []ReaderFollowsConfig
  <1> DEFINE Inv == TypeOK /\ WorkLeft /\ SerialInv /\ Follows /\ HandlerKnows
  <1>1. Init => Inv
    BY TypeInit, SerialInit, InitMaps
  <1>2. Inv /\ [Next]_vars => Inv'
    BY TypeInductive, SerialStep, StepMaps
  <1>3. Inv => ReaderFollowsConfig
    BY DEF Follows, ReaderFollowsConfig, Live
  <1> HIDE DEF Inv
  <1> QED  BY <1>1, <1>2, <1>3, PTL DEF Spec

-----------------------------------------------------------------------------
(* What is left of a plan.                                                 *)

Has(todo, stage) == \E k \in DOMAIN todo : todo[k] = stage

Rank(stage) ==
    CASE stage = "delete_source" -> 1
      [] stage = "shift_source"  -> 2
      [] stage = "trim_source"   -> 3
      [] stage = "delete_latest" -> 4
      [] stage = "start"         -> 5

InOrder(todo) ==
    \A i, j \in DOMAIN todo : i < j => Rank(todo[i]) < Rank(todo[j])

\* A stage put behind earlier ones, if the condition c holds.
LEMMA AddStage ==
    ASSUME NEW q \in Seq(Stage), InOrder(q), NEW t \in Stage, NEW c \in BOOLEAN,
           \A i \in DOMAIN q : Rank(q[i]) < Rank(t)
    PROVE  /\ q \o When(c, t) \in Seq(Stage)
           /\ InOrder(q \o When(c, t))
           /\ \A i \in DOMAIN (q \o When(c, t)) : Rank((q \o When(c, t))[i]) <= Rank(t)
           /\ \A u \in Stage : Has(q \o When(c, t), u) <=> Has(q, u) \/ (c /\ u = t)
  <1>1. \A u \in Stage : Rank(u) \in Nat
    BY DEF Rank, Stage
  <1>2. CASE c
    <2> DEFINE n == Len(q)
               r == q \o <<t>>
    <2>1. q \o When(c, t) = r
      BY <1>2 DEF When
    <2>2. /\ n \in Nat /\ r \in Seq(Stage) /\ Len(r) = n + 1
          /\ DOMAIN r = 1..(n + 1) /\ DOMAIN q = 1..n
          /\ r[n + 1] = t /\ \A i \in 1..n : r[i] = q[i] /\ q[i] \in Stage
      OBVIOUS
    <2> HIDE DEF n, r
    <2>3. \A i \in DOMAIN r : r[i] \in Stage /\ (i = n + 1 \/ (i \in DOMAIN q /\ r[i] = q[i]))
      BY <2>2
    <2>4. InOrder(r)
      <3> SUFFICES ASSUME NEW i \in 1..(n + 1), NEW j \in 1..(n + 1), i < j
                   PROVE  Rank(r[i]) < Rank(r[j])
        BY <2>2 DEF InOrder
      <3>1. i \in 1..n /\ r[i] = q[i]
        BY <2>2
      <3>2. CASE j = n + 1
        BY <2>2, <3>1, <3>2
      <3>3. CASE j \in 1..n
        BY <2>2, <3>1, <3>3 DEF InOrder
      <3> QED  BY <2>2, <3>2, <3>3
    <2>5. \A i \in DOMAIN r : Rank(r[i]) <= Rank(t)
      BY <1>1, <2>2, <2>3
    <2>6. \A u \in Stage : Has(r, u) <=> Has(q, u) \/ u = t
      <3>1. \A i \in 1..n : i \in DOMAIN r /\ r[i] = q[i]
        BY <2>2
      <3>2. n + 1 \in DOMAIN r /\ r[n + 1] = t
        BY <2>2
      <3> QED  BY <2>2, <2>3, <3>1, <3>2 DEF Has
    <2> QED  BY <1>2, <2>1, <2>2, <2>4, <2>5, <2>6
  <1>3. CASE ~c
    <2>1. q \o When(c, t) = q
      BY <1>3 DEF When
    <2>2. \A i \in DOMAIN q : Rank(q[i]) <= Rank(t)
      BY <1>1
    <2> QED  BY <1>3, <2>1, <2>2
  <1> QED  BY <1>2, <1>3

\* What a plan holds, and in which order.
LEMMA PlanOrder ==
    ASSUME NEW prev \in Body, NEW new \in Body
    PROVE  LET plan == Plan(prev, new) IN
           /\ plan \in Seq(Stage)
           /\ InOrder(plan)
           /\ Has(plan, "delete_source") <=> DefinitionChanged(prev, new)
           /\ Has(plan, "shift_source") <=> prev.offset # new.offset
           /\ Has(plan, "trim_source") <=> prev.history # new.history
           /\ Has(plan, "delete_latest") <=>
                  RestartRequired(prev, new) /\ ~DefinitionChanged(prev, new)
           /\ Has(plan, "start") <=> RestartRequired(prev, new)
  <1> DEFINE c1 == DefinitionChanged(prev, new)
             c2 == prev.offset # new.offset
             c3 == prev.history # new.history
             c5 == RestartRequired(prev, new)
             c4 == c5 /\ ~c1
             p0 == <<>>
             p1 == p0 \o When(c1, "delete_source")
             p2 == p1 \o When(c2, "shift_source")
             p3 == p2 \o When(c3, "trim_source")
             p4 == p3 \o When(c4, "delete_latest")
             p5 == p4 \o When(c5, "start")
  <1>1. c1 \in BOOLEAN /\ c2 \in BOOLEAN /\ c3 \in BOOLEAN /\ c4 \in BOOLEAN /\ c5 \in BOOLEAN
    BY DEF DefinitionChanged, RestartRequired, RuntimeChanged, Body
  <1>2. Plan(prev, new) = p5
    <2>1. p1 = When(c1, "delete_source")
      BY DEF When
    <2> QED  BY <2>1 DEF Plan
  <1>3. /\ Rank("delete_source") = 1 /\ Rank("shift_source") = 2 /\ Rank("trim_source") = 3
        /\ Rank("delete_latest") = 4 /\ Rank("start") = 5
        /\ \A u \in Stage : Rank(u) \in Nat
    BY DEF Rank, Stage
  <1>4. p0 \in Seq(Stage) /\ InOrder(p0) /\ \A u \in Stage : ~Has(p0, u)
    BY DEF InOrder, Has
  <1> DEFINE Good(q, k) == /\ q \in Seq(Stage) /\ InOrder(q)
                           /\ \A i \in DOMAIN q : Rank(q[i]) <= k
  <1>5. ASSUME NEW q, NEW k \in Nat, Good(q, k), NEW c \in BOOLEAN, NEW t \in Stage, Rank(t) = k + 1
        PROVE  /\ Good(q \o When(c, t), k + 1)
               /\ \A u \in Stage : Has(q \o When(c, t), u) <=> Has(q, u) \/ (c /\ u = t)
    <2>1. q \in Seq(Stage) /\ InOrder(q)
      BY <1>5
    <2>2. \A i \in DOMAIN q : Rank(q[i]) < Rank(t)
      <3> TAKE i \in DOMAIN q
      <3>1. q[i] \in Stage
        BY <2>1
      <3> QED  BY <1>3, <1>5, <3>1
    <2>3. /\ q \o When(c, t) \in Seq(Stage)
          /\ InOrder(q \o When(c, t))
          /\ \A i \in DOMAIN (q \o When(c, t)) : Rank((q \o When(c, t))[i]) <= Rank(t)
          /\ \A u \in Stage : Has(q \o When(c, t), u) <=> Has(q, u) \/ (c /\ u = t)
      BY <2>1, <2>2, AddStage
    <2> QED  BY <1>5, <2>3
  <1> HIDE DEF c1, c2, c3, c4, c5
  <1>6. Good(p0, 0)
    BY <1>4
  <1>7. /\ "delete_source" \in Stage /\ "shift_source" \in Stage /\ "trim_source" \in Stage
        /\ "delete_latest" \in Stage /\ "start" \in Stage
    BY DEF Stage
  <1> HIDE DEF Good, p0, p1, p2, p3, p4, p5
  <1>8. Good(p1, 1) /\ \A u \in Stage : Has(p1, u) <=> Has(p0, u) \/ (c1 /\ u = "delete_source")
    <2>1. Rank("delete_source") = 0 + 1
      BY <1>3
    <2> QED  BY <1>1, <1>5, <1>6, <1>7, <2>1 DEF p1
  <1>9. Good(p2, 2) /\ \A u \in Stage : Has(p2, u) <=> Has(p1, u) \/ (c2 /\ u = "shift_source")
    <2>1. Rank("shift_source") = 1 + 1
      BY <1>3
    <2> QED  BY <1>1, <1>5, <1>7, <1>8, <2>1 DEF p2
  <1>10. Good(p3, 3) /\ \A u \in Stage : Has(p3, u) <=> Has(p2, u) \/ (c3 /\ u = "trim_source")
    <2>1. Rank("trim_source") = 2 + 1
      BY <1>3
    <2> QED  BY <1>1, <1>5, <1>7, <1>9, <2>1 DEF p3
  <1>11. Good(p4, 4) /\ \A u \in Stage : Has(p4, u) <=> Has(p3, u) \/ (c4 /\ u = "delete_latest")
    <2>1. Rank("delete_latest") = 3 + 1
      BY <1>3
    <2> QED  BY <1>1, <1>5, <1>7, <1>10, <2>1 DEF p4
  <1>12. Good(p5, 5) /\ \A u \in Stage : Has(p5, u) <=> Has(p4, u) \/ (c5 /\ u = "start")
    <2>1. Rank("start") = 4 + 1
      BY <1>3
    <2> QED  BY <1>1, <1>5, <1>7, <1>11, <2>1 DEF p5
  <1>13. p5 \in Seq(Stage) /\ InOrder(p5)
    BY <1>12 DEF Good
  <1>14. /\ Has(p5, "delete_source") <=> c1
         /\ Has(p5, "shift_source") <=> c2
         /\ Has(p5, "trim_source") <=> c3
         /\ Has(p5, "delete_latest") <=> c4
         /\ Has(p5, "start") <=> c5
    BY <1>4, <1>7, <1>8, <1>9, <1>10, <1>11, <1>12 DEF p0
  <1> QED  BY <1>2, <1>13, <1>14 DEF c1, c2, c3, c4, c5

\* The stage at the head of a plan is done before those behind it.
LEMMA HeadOfPlan ==
    ASSUME NEW todo \in Seq(Stage), todo # <<>>, InOrder(todo)
    PROVE  /\ Head(todo) \in Stage /\ Tail(todo) \in Seq(Stage) /\ InOrder(Tail(todo))
           /\ Has(todo, Head(todo))
           /\ \A u \in Stage : Has(todo, u) <=> u = Head(todo) \/ Has(Tail(todo), u)
           /\ \A u \in Stage : Has(Tail(todo), u) => Rank(Head(todo)) < Rank(u)
           /\ Head(todo) = "start" => Tail(todo) = <<>>
  <1> DEFINE n == Len(todo)
             tail == Tail(todo)
  <1>1. /\ n \in Nat \ {0} /\ DOMAIN todo = 1..n /\ Head(todo) = todo[1]
        /\ \A i \in 1..n : todo[i] \in Stage
        /\ tail \in Seq(Stage) /\ Len(tail) = n - 1 /\ DOMAIN tail = 1..(n - 1)
        /\ \A i \in 1..(n - 1) : tail[i] = todo[i + 1]
    OBVIOUS
  <1> HIDE DEF n, tail
  <1>2. InOrder(tail)
    <2> SUFFICES ASSUME NEW i \in 1..(n - 1), NEW j \in 1..(n - 1), i < j
                 PROVE  Rank(tail[i]) < Rank(tail[j])
      BY <1>1 DEF InOrder
    <2>1. i + 1 \in 1..n /\ j + 1 \in 1..n /\ i + 1 < j + 1
      BY <1>1
    <2>2. Rank(todo[i + 1]) < Rank(todo[j + 1])
      BY <1>1, <2>1 DEF InOrder
    <2> QED  BY <1>1, <2>2
  <1>3. \A i \in 2..n : Rank(todo[1]) < Rank(todo[i])
    BY <1>1 DEF InOrder
  <1>4. \A i \in 2..n : i - 1 \in DOMAIN tail /\ tail[i - 1] = todo[i]
    BY <1>1
  <1>5. \A i \in DOMAIN tail : i + 1 \in 2..n /\ tail[i] = todo[i + 1]
    BY <1>1
  <1>6. \A u \in Stage : Has(todo, u) <=> u = Head(todo) \/ Has(tail, u)
    <2> TAKE u \in Stage
    <2>1. ASSUME Has(todo, u) PROVE u = Head(todo) \/ Has(tail, u)
      <3>1. PICK i \in 1..n : todo[i] = u
        BY <1>1, <2>1 DEF Has
      <3>2. CASE i = 1
        BY <1>1, <3>1, <3>2
      <3>3. CASE i # 1
        <4>1. i \in 2..n
          BY <3>3
        <4> QED  BY <1>4, <3>1, <4>1 DEF Has
      <3> QED  BY <3>2, <3>3
    <2>2. ASSUME u = Head(todo) PROVE Has(todo, u)
      BY <1>1, <2>2 DEF Has
    <2>3. ASSUME Has(tail, u) PROVE Has(todo, u)
      BY <1>1, <1>5, <2>3 DEF Has
    <2> QED  BY <2>1, <2>2, <2>3
  <1>7. \A u \in Stage : Has(tail, u) => Rank(Head(todo)) < Rank(u)
    BY <1>1, <1>3, <1>5 DEF Has
  <1>8. Head(todo) = "start" => tail = <<>>
    <2> SUFFICES ASSUME Head(todo) = "start", n - 1 # 0 PROVE FALSE
      BY <1>1
    <2>1. 2 \in 2..n /\ todo[2] \in Stage
      BY <1>1
    <2>2. 5 < Rank(todo[2])
      BY <1>1, <1>3, <2>1 DEF Rank
    <2> QED  BY <2>1, <2>2 DEF Rank, Stage
  <1> QED  BY <1>1, <1>2, <1>6, <1>7, <1>8 DEF tail

-----------------------------------------------------------------------------
(* The kinds of steps, for one handler.                                    *)

\* The rest of a PUT or a DELETE: the source has no reader, or the PUT
\* changes nothing.
Reconfigures(h, rec) ==
    /\ rec \in HandlerRec
    /\ config[rec.src] \in Body
    /\ hpc[h] \in {"idle", "stopping"}
    /\ hpc[h] = "stopping" => handler[h].src = rec.src
    /\ rec.op = "put" => rec.prev = config[rec.src]
    /\ IF rec.op = "put" /\ rec.body = rec.prev
       THEN hpc[h] = "idle"
       ELSE Live(rec.src) = {}
    /\ AfterStop(h, rec)
    /\ UNCHANGED <<file, buffer, opening, rpc, reader, phase>>

\* A request waits for the reader of its source.
Waits(h, s) ==
    /\ hpc[h] = "idle" /\ hpc'[h] = "stopping" /\ handler'[h].src = s
    /\ UNCHANGED <<config, file, buffer, opening, rpc, reader, phase, failures>>

\* Stopping a reader waits for it, or there is none to wait for.
LEMMA StopThenKind ==
    ASSUME TypeOK, SerialInv, NEW h \in Handlers, hpc[h] = "idle",
           NEW rec \in HandlerRec, config[rec.src] \in Body,
           rec.op = "put" => rec.prev = config[rec.src] /\ rec.body # rec.prev,
           StopThen(h, rec), UNCHANGED <<rpc, reader, file, buffer, opening, phase>>
    PROVE  Waits(h, rec.src) \/ Reconfigures(h, rec)
  <1>1. rec.src \in Sources
    BY DEF HandlerRec
  <1>2. CASE tasks[rec.src] # 0
    <2> DEFINE new == [rec EXCEPT !.wait = tasks[rec.src]]
    <2>1. new.src = rec.src
      BY DEF HandlerRec
    <2>2. UNCHANGED <<config, failures>> /\ hpc'[h] = "stopping" /\ handler'[h] = new
      BY <1>2 DEF StopThen, TypeOK
    <2> QED  BY <2>1, <2>2 DEF Waits
  <1>3. CASE tasks[rec.src] = 0
    <2>1. AfterStop(h, rec)
      BY <1>3 DEF StopThen
    <2>2. Live(rec.src) = {}
      BY <1>1, <1>3, OnlyRegisteredRuns DEF HasRunningTask
    <2> QED  BY <2>1, <2>2 DEF Reconfigures
  <1> QED  BY <1>2, <1>3

\* A PUT waits, or goes on at once.
LEMMA UpdateSourceKind ==
    ASSUME TypeOK, SerialInv, Follows, NEW h \in Handlers, hpc[h] = "idle",
           NEW s \in Sources, NEW body \in Body, UpdateSource(h, s, body),
           UNCHANGED <<file, buffer, opening, phase>>
    PROVE  Waits(h, s) \/ \E rec : Reconfigures(h, rec)
  <1> DEFINE rec == [IdleHandler EXCEPT !.op = "put", !.src = s, !.body = body,
                                        !.prev = config[s]]
  <1>1. Configured(s) /\ config[s] \in Body
    BY DEF UpdateSource, Configured, TypeOK
  <1>2. /\ rec \in HandlerRec
        /\ rec.op = "put" /\ rec.src = s /\ rec.body = body /\ rec.prev = config[s]
    BY <1>1, IdleType DEF HandlerRec
  <1>3. \/ /\ StopRequired(config[s], body)
           /\ StopThen(h, rec) /\ UNCHANGED <<created, rpc, reader>>
        \/ /\ ~StopRequired(config[s], body)
           /\ AfterStop(h, rec) /\ UNCHANGED readerVars
    BY DEF UpdateSource
  <1> HIDE DEF rec
  <1>4. CASE /\ StopRequired(config[s], body)
             /\ StopThen(h, rec) /\ UNCHANGED <<created, rpc, reader>>
    <2>1. body # config[s]
      BY <1>4 DEF StopRequired, RuntimeChanged, DefinitionChanged
    <2>2. Waits(h, rec.src) \/ Reconfigures(h, rec)
      BY <1>1, <1>2, <1>4, <2>1, StopThenKind
    <2> QED  BY <1>2, <2>2
  <1>5. CASE ~StopRequired(config[s], body) /\ AfterStop(h, rec) /\ UNCHANGED readerVars
    <2>1. UNCHANGED <<rpc, reader>>
      BY <1>5 DEF readerVars
    <2>2. body # config[s] => Live(s) = {}
      <3>1. CASE config[s].enabled
        <4>1. /\ body.enabled /\ body.def = config[s].def
              /\ body.offset = config[s].offset /\ body.history = config[s].history
          BY <1>5, <3>1 DEF StopRequired, RuntimeChanged, DefinitionChanged
        <4>2. body = config[s]
          BY <1>1, <3>1, <4>1 DEF Body
        <4> QED  BY <4>2
      <3>2. CASE ~config[s].enabled
        BY <3>2, IdleSourceIsFree DEF Enabled
      <3> QED  BY <3>1, <3>2
    <2>3. Reconfigures(h, rec)
      BY <1>1, <1>2, <1>5, <2>1, <2>2 DEF Reconfigures
    <2> QED  BY <2>3
  <1> QED  BY <1>3, <1>4, <1>5

\* A source is added, with a reader or without.
Adds(h, s, body) ==
    /\ config[s] = NoSource /\ config' = [config EXCEPT ![s] = body]
    /\ \/ body.enabled /\ StartReader(s, body) /\ failures' = failures
       \/ ~body.enabled /\ UNCHANGED <<rpc, reader, failures>>
       \/ failures' # 0
    /\ UNCHANGED <<file, buffer, opening, phase, hpc, handler>>

\* An enabled source is started again.
StartsAgain(h, s) ==
    /\ Enabled(s) /\ StartReader(s, config[s])
    /\ UNCHANGED <<config, file, buffer, opening, phase, hpc, handler, failures>>

\* A request does one of four things.
LEMMA RequestKind ==
    ASSUME TypeOK, SerialInv, Follows, NEW h \in Handlers, NEW s \in Sources,
           Request(h, s)
    PROVE  /\ phase = "up" /\ hpc[h] = "idle"
           /\ \/ Waits(h, s)
              \/ \E rec : Reconfigures(h, rec)
              \/ \E body \in Body : Adds(h, s, body)
              \/ StartsAgain(h, s)
  <1>1. phase = "up" /\ hpc[h] = "idle"
    BY DEF Request, Create, Put, StartSource, StopSource, Delete, Receive
  <1>2. UNCHANGED <<file, buffer, opening, phase>>
    BY DEF Request, Create, Put, StartSource, StopSource, Delete, Receive
  <1>3. ASSUME NEW body \in Body, Create(h, s, body)
        PROVE  Adds(h, s, body)
    <2>1. config[s] = NoSource /\ config' = [config EXCEPT ![s] = body] /\ UNCHANGED <<hpc, handler>>
      BY <1>3 DEF Create, Configured
    <2>2. \/ body.enabled /\ StartReader(s, body) /\ failures' = failures
          \/ ~body.enabled /\ UNCHANGED readerVars /\ UNCHANGED failures
          \/ failures' = failures + 1
      BY <1>3 DEF Create
    <2>3. failures + 1 # 0
      BY DEF TypeOK
    <2> QED  BY <1>2, <2>1, <2>2, <2>3 DEF Adds, readerVars
  <1>4. ASSUME NEW body \in Body, UpdateSource(h, s, body)
        PROVE  Waits(h, s) \/ \E rec : Reconfigures(h, rec)
    BY <1>1, <1>2, <1>4, UpdateSourceKind
  <1>5. ASSUME NEW body \in Body, Put(h, s, body)
        PROVE  Waits(h, s) \/ \E rec : Reconfigures(h, rec)
    BY <1>4, <1>5 DEF Put
  <1>6. CASE StartSource(h, s)
    <2>1. config[s] \in Body /\ [config[s] EXCEPT !.enabled = TRUE] \in Body
      BY <1>6 DEF StartSource, Configured, TypeOK, Body
    <2>2. CASE config[s].enabled
      BY <1>1, <1>2, <1>6, <2>2 DEF StartSource, StartsAgain, Enabled
    <2>3. CASE ~config[s].enabled
      <3> DEFINE body == [config[s] EXCEPT !.enabled = TRUE]
      <3>1. body \in Body /\ UpdateSource(h, s, body)
        BY <1>6, <2>1, <2>3 DEF StartSource
      <3> HIDE DEF body
      <3>2. Waits(h, s) \/ \E rec : Reconfigures(h, rec)
        BY <1>4, <3>1
      <3> QED  BY <1>1, <3>2
    <2> QED  BY <1>1, <2>2, <2>3
  <1>7. CASE StopSource(h, s)
    <2>1. [config[s] EXCEPT !.enabled = FALSE] \in Body
      BY <1>7 DEF StopSource, Configured, TypeOK, Body
    <2> QED  BY <1>1, <1>4, <1>7, <2>1 DEF StopSource
  <1>8. CASE Delete(h, s)
    <2> DEFINE rec == [IdleHandler EXCEPT !.op = "delete", !.src = s]
    <2>1. rec \in HandlerRec /\ rec.op = "delete" /\ rec.src = s
      BY IdleType DEF HandlerRec
    <2>2. StopThen(h, rec) /\ UNCHANGED <<created, rpc, reader>> /\ config[s] \in Body
      BY <1>8 DEF Delete, Configured, TypeOK
    <2> HIDE DEF rec
    <2>3. Waits(h, rec.src) \/ Reconfigures(h, rec)
      BY <1>1, <1>2, <2>1, <2>2, StopThenKind
    <2> QED  BY <1>1, <2>1, <2>3
  <1> QED  BY <1>1, <1>3, <1>5, <1>6, <1>7, <1>8 DEF Request

\* A handler that waited goes on when its source has no reader.
LEMMA StoppedKind ==
    ASSUME TypeOK, SerialInv, HandlerKnows, NEW h \in Handlers, Stopped(h)
    PROVE  \E rec : Reconfigures(h, rec)
  <1> DEFINE rec == handler[h]
             s == rec.src
             resumed == [rec EXCEPT !.wait = 0]
  <1>1. rec \in HandlerRec /\ s \in Sources
    BY DEF TypeOK, HandlerRec
  <1>2. /\ hpc[h] = "stopping"
        /\ rpc[s][rec.wait] = "reaped"
        /\ AfterStop(h, resumed)
        /\ UNCHANGED <<file, buffer, opening, rpc, reader, phase>>
    BY DEF Stopped
  <1>3. rec.wait \in Ids /\ tasks[s] \in {0, rec.wait}
    BY <1>2 DEF SerialInv, WaitingForRegistered
  <1>4. Live(s) = {}
    BY <1>1, <1>2, <1>3, OnlyRegisteredRuns DEF HasRunningTask, Active
  <1>5. /\ resumed \in HandlerRec /\ resumed.src = s /\ resumed.op = rec.op
        /\ resumed.body = rec.body /\ resumed.prev = rec.prev
    BY <1>1, BoundAssumption DEF HandlerRec, Ref
  <1>6. /\ Configured(s)
        /\ rec.op = "put" => rec.prev = config[s] /\ rec.body # rec.prev
    BY <1>2 DEF HandlerKnows
  <1>7. config[s] \in Body
    BY <1>1, <1>6 DEF Configured, TypeOK
  <1> HIDE DEF resumed
  <1>8. Reconfigures(h, resumed)
    BY <1>2, <1>4, <1>5, <1>6, <1>7 DEF Reconfigures
  <1> QED  BY <1>8

\* What a reconfiguration leaves behind: the new body and what is to do about
\* it, or a failure.
Value(rec) == IF rec.op = "put" THEN rec.body ELSE NoSource
ToDo(rec) == IF rec.op = "put" THEN Plan(rec.prev, rec.body) ELSE <<"delete_source">>

\* The outcomes of Reconfigures.
LEMMA Reconfigured ==
    ASSUME TypeOK, NEW h \in Handlers, NEW rec, Reconfigures(h, rec)
    PROVE  /\ rec.src \in Sources /\ rec.body \in Body /\ rec.prev \in Body
           /\ config' = [config EXCEPT ![rec.src] = Value(rec)]
           /\ \/ failures' # 0 /\ hpc'[h] = "idle"
              \/ failures' = failures /\ ToDo(rec) = <<>> /\ hpc'[h] = "idle"
              \/ /\ failures' = failures /\ ToDo(rec) # <<>> /\ hpc'[h] = "work"
                 /\ handler'[h] = [rec EXCEPT !.todo = ToDo(rec)]
  <1>1. rec.src \in Sources /\ rec.body \in Body /\ rec.prev \in Body
    BY DEF Reconfigures, HandlerRec
  <1>2. Update(h, rec, Value(rec), ToDo(rec))
    BY <1>1, NoSourceAssumption DEF Reconfigures, AfterStop, Value, ToDo, Configured
  <1>3. failures + 1 # 0
    BY DEF TypeOK
  <1>4. config' = [config EXCEPT ![rec.src] = Value(rec)]
    BY <1>2 DEF Update
  <1>5. \/ failures' # 0 /\ Reply(h)
        \/ failures' = failures /\ ToDo(rec) = <<>> /\ Reply(h)
        \/ /\ failures' = failures /\ ToDo(rec) # <<>>
           /\ hpc' = [hpc EXCEPT ![h] = "work"]
           /\ handler' = [handler EXCEPT ![h] = [rec EXCEPT !.todo = ToDo(rec)]]
    BY <1>2, <1>3 DEF Update, Continue
  <1>6. Reply(h) => hpc'[h] = "idle"
    BY DEF Reply, TypeOK
  <1> QED  BY <1>1, <1>4, <1>5, <1>6 DEF TypeOK

-----------------------------------------------------------------------------
(* An enabled source has a reader, or the handler is about to give it one. *)

Pending(s) ==
    \E h \in Handlers :
        /\ handler[h].src = s
        /\ hpc[h] = "stopping" \/ (hpc[h] = "work" /\ Has(handler[h].todo, "start"))

Served ==
    phase = "up" /\ failures = 0 =>
        \A s \in Sources : Enabled(s) => Live(s) # {} \/ Pending(s)

(* The handler works on a source that has no reader.                       *)
WorkAlone ==
    \A h \in Handlers :
        hpc[h] = "work" => Live(handler[h].src) = {} /\ InOrder(handler[h].todo)

ServedInv == Served /\ WorkAlone

\* What a step of a reader does to its control state.
LEMMA ReaderMoves ==
    ASSUME TypeOK, SerialInv, MaxDeaths = 0, NEW s \in Sources, NEW n \in Ids,
           ReaderStep(s, n)
    PROVE  /\ UNCHANGED <<config, hpc, handler, phase, failures>>
           /\ \A t \in Sources, m \in Ids :
                  t # s \/ m # n => rpc'[t][m] = rpc[t][m] /\ reader'[t][m] = reader[t][m]
           /\ \A t \in Sources : Live(t)' \subseteq Live(t)
           /\ n \in Live(s) /\ n \notin Live(s)' => rstop[s][n] \/ phase = "closed"
  <1>1. UNCHANGED <<config, hpc, handler, phase, failures>>
    BY DEF ReaderStep, ReaderTail, ReaderOpen, ReaderPoll, ReaderStop, ReaderInsert,
           ReaderFails, Reap,
           countVars
  <1>2. PICK state, rec :
            /\ rpc' = [rpc EXCEPT ![s][n] = state]
            /\ reader' = [reader EXCEPT ![s][n] = rec]
            /\ state \in Active => rpc[s][n] \in Active /\ rec.body = reader[s][n].body
    BY ReaderShape
  <1>3. \A t \in Sources, m \in Ids :
            /\ rpc'[t][m] = IF t = s /\ m = n THEN state ELSE rpc[t][m]
            /\ reader'[t][m] = IF t = s /\ m = n THEN rec ELSE reader[t][m]
    BY <1>2 DEF TypeOK
  <1>4. \A t \in Sources : Live(t)' \subseteq Live(t)
    BY <1>2, <1>3 DEF Live
  <1>5. ASSUME n \in Live(s), n \notin Live(s)'
        PROVE  rstop[s][n] \/ phase = "closed"
    <2>1. rpc[s][n] \in Active /\ rpc'[s][n] \notin Active
      BY <1>5 DEF Live
    <2>2. ~ReaderOpen(s, n)
      BY <2>1 DEF ReaderOpen, EmitBatch, TypeOK, Active
    <2>3. ~ReaderPoll(s, n)
      BY <2>1 DEF ReaderPoll, EmitBatch, TypeOK, Active
    <2>4. ~Reap(s, n)
      BY <2>1 DEF Reap, Active
    <2>5. CASE ReaderStop(s, n)
      BY <2>5 DEF ReaderStop
    <2>6. CASE ReaderInsert(s, n)
      <3>1. reader[s][n].final
        BY <2>1, <2>6 DEF ReaderInsert, TypeOK, Active
      <3> QED  BY <3>1 DEF SerialInv, FinalIsStopping
    <2>7. CASE ReaderFails(s, n)
      <3>1. ~(deaths < MaxDeaths)
        BY DEF TypeOK
      <3> QED  BY <2>7, <3>1 DEF ReaderFails
    <2>8. ~ReaderTail(s, n)
      BY <2>1 DEF ReaderTail, TypeOK, Active
    <2> QED  BY <2>2, <2>3, <2>4, <2>5, <2>6, <2>7, <2>8 DEF ReaderStep
  <1> QED  BY <1>1, <1>3, <1>4, <1>5

\* A reader ends only if a handler waits for it.
LEMMA ServedReader ==
    ASSUME TypeOK, SerialInv, ServedInv, MaxDeaths = 0,
           NEW s \in Sources, NEW n \in Ids, ReaderStep(s, n)
    PROVE  ServedInv'
  <1>1. /\ UNCHANGED <<config, hpc, handler, phase, failures>>
        /\ \A t \in Sources, m \in Ids :
               t # s \/ m # n => rpc'[t][m] = rpc[t][m] /\ reader'[t][m] = reader[t][m]
        /\ \A t \in Sources : Live(t)' \subseteq Live(t)
        /\ n \in Live(s) /\ n \notin Live(s)' => rstop[s][n] \/ phase = "closed"
    BY ReaderMoves
  <1>2. WorkAlone'
    <2> SUFFICES ASSUME NEW h \in Handlers, hpc'[h] = "work"
                 PROVE  (Live(handler[h].src) = {} /\ InOrder(handler[h].todo))'
      BY DEF WorkAlone
    <2>1. PICK u \in Sources : u = handler[h].src
      BY DEF TypeOK, HandlerRec
    <2>2. Live(u) = {} /\ InOrder(handler[h].todo)
      BY <1>1, <2>1 DEF ServedInv, WorkAlone
    <2>3. Live(u)' = {}
      BY <1>1, <2>2
    <2> QED  BY <1>1, <2>1, <2>2, <2>3
  <1>3. Served'
    <2> SUFFICES ASSUME phase' = "up", failures' = 0, NEW t \in Sources, Enabled(t)'
                 PROVE  Live(t)' # {} \/ Pending(t)'
      BY DEF Served
    <2>1. Enabled(t) /\ phase = "up" /\ failures = 0
      BY <1>1 DEF Enabled, Configured
    <2>2. Pending(t)' <=> Pending(t)
      BY <1>1 DEF Pending
    <2>3. ASSUME NEW m \in Live(t) PROVE Live(t)' # {} \/ Pending(t)
      <3>1. CASE t # s \/ m # n
        BY <1>1, <3>1 DEF Live
      <3>2. CASE t = s /\ m = n
        <4>1. CASE n \in Live(s)'
          BY <3>2, <4>1
        <4>2. CASE n \notin Live(s)'
          <5>1. rstop[s][n] /\ Present(s, n)
            BY <1>1, <2>1, <2>3, <3>2, <4>2 DEF Present, Live
          <5>2. StopPending(s, n)
            BY <2>1, <5>1 DEF SerialInv, StoppingIsAwaited
          <5> QED  BY <3>2, <5>2 DEF StopPending, Pending
        <4> QED  BY <4>1, <4>2
      <3> QED  BY <3>1, <3>2
    <2> QED  BY <2>1, <2>2, <2>3 DEF ServedInv, Served
  <1> QED  BY <1>2, <1>3 DEF ServedInv

\* An enabled body that replaces another has its start in the plan.
LEMMA ServedReconfigures ==
    ASSUME TypeOK, ServedInv, NEW h, Handlers = {h}, NEW rec, Reconfigures(h, rec)
    PROVE  ServedInv'
  <1> DEFINE s == rec.src
             new == [rec EXCEPT !.todo = ToDo(rec)]
  <1>1. /\ s \in Sources /\ rec.body \in Body /\ rec.prev \in Body
        /\ config' = [config EXCEPT ![s] = Value(rec)]
        /\ \/ failures' # 0 /\ hpc'[h] = "idle"
           \/ failures' = failures /\ ToDo(rec) = <<>> /\ hpc'[h] = "idle"
           \/ /\ failures' = failures /\ ToDo(rec) # <<>> /\ hpc'[h] = "work"
              /\ handler'[h] = new
    BY Reconfigured
  <1>2. /\ hpc[h] \in {"idle", "stopping"}
        /\ hpc[h] = "stopping" => handler[h].src = s
        /\ rec.op = "put" => rec.prev = config[s]
        /\ IF rec.op = "put" /\ rec.body = rec.prev THEN hpc[h] = "idle" ELSE Live(s) = {}
        /\ UNCHANGED <<rpc, phase>>
        /\ rec \in HandlerRec
    BY DEF Reconfigures
  <1>3. new.src = s /\ new.todo = ToDo(rec)
    BY <1>2 DEF HandlerRec
  <1>4. rec.op = "put" =>
            /\ InOrder(ToDo(rec))
            /\ Has(ToDo(rec), "start") <=> RestartRequired(rec.prev, rec.body)
            /\ rec.body = rec.prev => ToDo(rec) = <<>>
    <2> SUFFICES ASSUME rec.op = "put"
                 PROVE  /\ InOrder(ToDo(rec))
                        /\ Has(ToDo(rec), "start") <=> RestartRequired(rec.prev, rec.body)
                        /\ rec.body = rec.prev => ToDo(rec) = <<>>
      OBVIOUS
    <2> DEFINE plan == Plan(rec.prev, rec.body)
    <2>1. ToDo(rec) = plan
      BY DEF ToDo
    <2>2. InOrder(plan) /\ (Has(plan, "start") <=> RestartRequired(rec.prev, rec.body))
      BY <1>1, PlanOrder
    <2>3. ASSUME rec.body = rec.prev PROVE plan = <<>>
      <3>1. /\ ~DefinitionChanged(rec.prev, rec.body) /\ rec.prev.offset = rec.body.offset
            /\ rec.prev.history = rec.body.history /\ ~RestartRequired(rec.prev, rec.body)
        BY <1>1, <2>3 DEF DefinitionChanged, RestartRequired, RuntimeChanged, Body
      <3> QED  BY <3>1 DEF Plan, When
    <2> QED  BY <2>1, <2>2, <2>3
  <1>5. rec.op # "put" => ToDo(rec) = <<"delete_source">> /\ Value(rec) = NoSource
    BY DEF ToDo, Value
  <1> HIDE DEF new
  <1>6. \A t : Live(t)' = Live(t)
    BY <1>2 DEF Live
  <1>7. WorkAlone'
    <2> SUFFICES ASSUME hpc'[h] = "work"
                 PROVE  Live(handler'[h].src) = {} /\ InOrder(handler'[h].todo)
      BY <1>6 DEF WorkAlone
    <2>1. handler'[h].src = s /\ handler'[h].todo = ToDo(rec) /\ ToDo(rec) # <<>>
      BY <1>1, <1>3
    <2>2. Live(s) = {}
      BY <1>2, <1>4, <2>1
    <2>3. InOrder(ToDo(rec))
      <3>1. InOrder(<<"delete_source">>)
        BY DEF InOrder
      <3> QED  BY <1>4, <1>5, <3>1
    <2> QED  BY <2>1, <2>2, <2>3
  <1>8. Served'
    <2> SUFFICES ASSUME phase' = "up", failures' = 0, NEW t \in Sources, Enabled(t)'
                 PROVE  Live(t) # {} \/ Pending(t)'
      BY <1>6 DEF Served
    <2>1. phase = "up" /\ failures = 0
      BY <1>1, <1>2
    <2>2. config'[s] = Value(rec) /\ \A u \in Sources \ {s} : config'[u] = config[u]
      BY <1>1 DEF TypeOK
    <2>3. CASE t # s
      <3>1. Enabled(t)
        BY <2>2, <2>3 DEF Enabled, Configured
      <3>2. ~Pending(t)
        BY <1>2, <2>3 DEF Pending
      <3> QED  BY <2>1, <3>1, <3>2 DEF ServedInv, Served
    <2>4. CASE t = s
      <3>1. Value(rec) # NoSource /\ Value(rec).enabled
        BY <2>2, <2>4 DEF Enabled, Configured
      <3>2. rec.op = "put" /\ rec.body.enabled
        BY <3>1 DEF Value
      <3>3. CASE rec.body = rec.prev
        <4>1. hpc[h] = "idle" /\ config[s] = rec.body /\ config[s] # NoSource
          BY <1>1, <1>2, <3>2, <3>3, NoSourceAssumption
        <4>2. Enabled(s) /\ ~Pending(s)
          BY <3>2, <4>1 DEF Enabled, Configured, Pending
        <4> QED  BY <2>1, <2>4, <4>2 DEF ServedInv, Served
      <3>4. CASE rec.body # rec.prev
        <4>1. RestartRequired(rec.prev, rec.body)
          BY <1>1, <3>2, <3>4 DEF RestartRequired, RuntimeChanged, DefinitionChanged, Body
        <4>2. Has(ToDo(rec), "start")
          BY <1>4, <3>2, <4>1
        <4>3. ToDo(rec) # <<>>
          BY <4>2 DEF Has
        <4>4. hpc'[h] = "work" /\ handler'[h] = new
          BY <1>1, <4>3
        <4> QED  BY <1>3, <2>4, <4>2, <4>4 DEF Pending
      <3> QED  BY <3>3, <3>4
    <2> QED  BY <2>3, <2>4
  <1> QED  BY <1>7, <1>8 DEF ServedInv

\* After manager.start the source has a reader.
LEMMA Started ==
    ASSUME TypeOK, SerialInv, NEW s \in Sources, NEW body \in Body, StartReader(s, body)
    PROVE  /\ Live(s)' # {}
           /\ \A t \in Sources \ {s} : Live(t)' = Live(t)
  <1>1. CASE HasRunningTask(s)
    <2>1. UNCHANGED <<rpc, tasks>>
      BY <1>1 DEF StartReader, readerVars
    <2>2. tasks[s] \in Live(s)
      BY <1>1 DEF HasRunningTask, Live, TypeOK, Ref, Ids
    <2> QED  BY <2>1, <2>2 DEF Live
  <1>2. CASE ~HasRunningTask(s)
    <2>1. created[s] + 1 \in Ids /\ rpc' = [rpc EXCEPT ![s][created[s] + 1] = "open"]
      BY <1>2 DEF StartReader, CreateReader
    <2>2. created[s] + 1 \in Live(s)'
      BY <2>1 DEF Live, TypeOK, Active
    <2> QED  BY <2>1, <2>2 DEF Live, TypeOK
  <1> QED  BY <1>1, <1>2

\* The plan of a handler ends with the start.
LEMMA ServedWork ==
    ASSUME TypeOK, WorkLeft, SerialInv, Follows, HandlerKnows, ServedInv,
           NEW h, Handlers = {h}, Work(h)
    PROVE  ServedInv'
  <1>0. PICK rec \in HandlerRec : rec = handler[h]
    BY DEF TypeOK
  <1>1. PICK s \in Sources : s = rec.src
    BY DEF HandlerRec
  <1>10. hpc[h] = "work" /\ (Raised(h) \/ Done(h))
    BY RaisedOrDone
  <1>11. CASE Raised(h)
    <2>1. WorkAlone'
      BY <1>11 DEF Raised, WorkAlone
    <2> QED  BY <1>11, <2>1 DEF Raised, Served, ServedInv
  <1> SUFFICES ASSUME Done(h) PROVE ServedInv'
    BY <1>10, <1>11
  <1> DEFINE new == [rec EXCEPT !.todo = Tail(rec.todo)]
  <1>2. rec.body \in Body /\ rec.todo \in Seq(Stage)
    BY DEF HandlerRec
  <1>3. hpc[h] = "work" /\ rec.todo # <<>> /\ UNCHANGED <<config, phase, failures>>
    BY <1>0, <1>10 DEF Done, WorkLeft
  <1>4. Live(s) = {} /\ InOrder(rec.todo)
    BY <1>0, <1>1, <1>3 DEF ServedInv, WorkAlone
  <1>5. /\ InOrder(Tail(rec.todo))
        /\ \A u \in Stage : Has(rec.todo, u) <=> u = Head(rec.todo) \/ Has(Tail(rec.todo), u)
        /\ Head(rec.todo) = "start" => Tail(rec.todo) = <<>>
    BY <1>2, <1>3, <1>4, HeadOfPlan
  <1>6. \/ Tail(rec.todo) = <<>> /\ hpc'[h] = "idle"
        \/ Tail(rec.todo) # <<>> /\ hpc'[h] = "work" /\ handler'[h] = new
    BY <1>0 DEF Done, Continue, Reply, TypeOK
  <1>7. new.src = s /\ new.todo = Tail(rec.todo)
    BY <1>1 DEF HandlerRec
  <1> HIDE DEF new
  <1>8. CASE Head(rec.todo) = "start"
    <2>1. StartReader(s, rec.body) /\ hpc'[h] = "idle"
      BY <1>0, <1>1, <1>5, <1>6, <1>8 DEF Done
    <2>2. Live(s)' # {} /\ \A t \in Sources \ {s} : Live(t)' = Live(t)
      BY <1>2, <2>1, Started
    <2>3. WorkAlone'
      BY <2>1 DEF WorkAlone
    <2>4. Served'
      <3> SUFFICES ASSUME phase' = "up", failures' = 0, NEW t \in Sources \ {s}, Enabled(t)'
                   PROVE  Live(t)' # {}
        BY <2>2 DEF Served
      <3>1. Enabled(t) /\ phase = "up" /\ failures = 0 /\ ~Pending(t)
        BY <1>0, <1>1, <1>3 DEF Enabled, Configured, Pending
      <3> QED  BY <2>2, <3>1 DEF ServedInv, Served
    <2> QED  BY <2>3, <2>4 DEF ServedInv
  <1>9. CASE Head(rec.todo) # "start"
    <2>1. UNCHANGED rpc
      BY <1>0, <1>9 DEF Done, readerVars
    <2>2. \A t : Live(t)' = Live(t)
      BY <2>1 DEF Live
    <2>3. WorkAlone'
      BY <1>4, <1>5, <1>6, <1>7, <2>2 DEF WorkAlone
    <2>4. Served'
      <3> SUFFICES ASSUME phase' = "up", failures' = 0, NEW t \in Sources, Enabled(t)'
                   PROVE  Live(t) # {} \/ Pending(t)'
        BY <2>2 DEF Served
      <3>1. Enabled(t) /\ phase = "up" /\ failures = 0
        BY <1>3 DEF Enabled, Configured
      <3>2. ASSUME Pending(t) PROVE Pending(t)'
        <4>1. t = s /\ Has(rec.todo, "start")
          BY <1>0, <1>1, <1>3, <3>2 DEF Pending
        <4>2. Has(Tail(rec.todo), "start")
          BY <1>5, <1>9, <4>1 DEF Stage
        <4>3. Tail(rec.todo) # <<>>
          BY <4>2 DEF Has
        <4> QED  BY <1>6, <1>7, <4>1, <4>2, <4>3 DEF Pending
      <3> QED  BY <3>1, <3>2 DEF ServedInv, Served
    <2> QED  BY <2>3, <2>4 DEF ServedInv
  <1> QED  BY <1>8, <1>9

\* A request keeps enabled sources served.
LEMMA ServedRequest ==
    ASSUME TypeOK, SerialInv, Follows, ServedInv,
           NEW h, Handlers = {h}, NEW s \in Sources, Request(h, s)
    PROVE  ServedInv'
  <1>1. /\ phase = "up" /\ hpc[h] = "idle"
        /\ \/ Waits(h, s)
           \/ \E rec : Reconfigures(h, rec)
           \/ \E body \in Body : Adds(h, s, body)
           \/ StartsAgain(h, s)
    BY RequestKind
  <1>2. \A t \in Sources : failures = 0 /\ Enabled(t) => Live(t) # {}
    BY <1>1 DEF ServedInv, Served, Pending
  <1>3. CASE Waits(h, s)
    <2>1. \A t : Live(t)' = Live(t) /\ (Enabled(t)' <=> Enabled(t))
      BY <1>3 DEF Waits, Live, Enabled, Configured
    <2>2. Served'
      BY <1>2, <1>3, <2>1 DEF Served, Waits
    <2>3. WorkAlone'
      BY <1>3 DEF WorkAlone, Waits
    <2> QED  BY <2>2, <2>3 DEF ServedInv
  <1>4. ASSUME NEW body \in Body, Adds(h, s, body)
        PROVE  ServedInv'
    <2>1. WorkAlone'
      BY <1>1, <1>4 DEF WorkAlone, Adds
    <2>2. Served'
      <3> SUFFICES ASSUME failures' = 0, NEW t \in Sources, Enabled(t)'
                   PROVE  Live(t)' # {}
        BY DEF Served
      <3>1. /\ config'[s] = body /\ \A u \in Sources \ {s} : config'[u] = config[u]
            /\ failures = 0
        BY <1>4 DEF Adds, TypeOK
      <3>2. CASE t = s
        <4>1. StartReader(s, body)
          BY <1>4, <3>1, <3>2 DEF Adds, Enabled
        <4> QED  BY <3>2, <4>1, Started
      <3>3. CASE t # s
        <4>1. Live(t) # {}
          BY <1>2, <3>1, <3>3 DEF Enabled, Configured
        <4>2. CASE StartReader(s, body)
          BY <3>3, <4>1, <4>2, Started
        <4>3. CASE UNCHANGED rpc
          BY <4>1, <4>3 DEF Live
        <4> QED  BY <1>4, <4>2, <4>3 DEF Adds
      <3> QED  BY <3>2, <3>3
    <2> QED  BY <2>1, <2>2 DEF ServedInv
  <1>5. CASE StartsAgain(h, s)
    <2>1. config[s] \in Body /\ StartReader(s, config[s])
          /\ UNCHANGED <<config, phase, hpc, handler, failures>>
      BY <1>5 DEF StartsAgain, Enabled, Configured, TypeOK
    <2>2. Live(s)' # {} /\ \A t \in Sources \ {s} : Live(t)' = Live(t)
      BY <2>1, Started
    <2>3. \A t : Enabled(t)' <=> Enabled(t)
      BY <2>1 DEF Enabled, Configured
    <2>4. Served'
      <3> SUFFICES ASSUME failures' = 0, NEW t \in Sources, Enabled(t)' PROVE Live(t)' # {}
        BY DEF Served
      <3> QED  BY <1>2, <2>1, <2>2, <2>3
    <2>5. WorkAlone'
      BY <1>1, <2>1 DEF WorkAlone
    <2> QED  BY <2>4, <2>5 DEF ServedInv
  <1> QED  BY <1>1, <1>3, <1>4, <1>5, ServedReconfigures

\* Every step keeps enabled sources served.
LEMMA ServedStep ==
    ASSUME TypeOK, WorkLeft, SerialInv, Follows, HandlerKnows, ServedInv, [Next]_vars,
           MaxDeaths = 0, NEW h, Handlers = {h}
    PROVE  ServedInv'
  <1>1. ASSUME UNCHANGED <<rpc, config, hpc, handler, failures>>,
               phase' = "up" => phase = "up"
        PROVE  ServedInv'
    <2>1. \A t : Live(t)' = Live(t) /\ (Enabled(t)' <=> Enabled(t)) /\ (Pending(t)' <=> Pending(t))
      BY <1>1 DEF Live, Enabled, Configured, Pending
    <2>2. Served'
      BY <1>1, <2>1 DEF ServedInv, Served
    <2>3. WorkAlone'
      BY <1>1, <2>1 DEF ServedInv, WorkAlone
    <2> QED  BY <2>2, <2>3 DEF ServedInv
  <1>2. CASE UNCHANGED vars
    BY <1>1, <1>2 DEF vars, readerVars, countVars
  <1>3. ASSUME NEW s \in Sources, NEW n \in Ids, ReaderStep(s, n) PROVE ServedInv'
    BY <1>3, ServedReader
  <1>4. CASE HandlerStep(h)
    BY <1>4, StoppedKind, ServedReconfigures, ServedWork DEF HandlerStep
  <1>5. ASSUME NEW s \in Sources, Request(h, s) PROVE ServedInv'
    BY <1>5, ServedRequest
  <1>6. CASE StartAll
    <2>1. /\ UNCHANGED <<config, hpc, handler>> /\ 1 \in Ids
          /\ rpc' = [s \in Sources |->
                        IF Enabled(s) THEN [rpc[s] EXCEPT ![1] = "open"] ELSE rpc[s]]
      BY <1>6, BoundAssumption DEF StartAll, Ids
    <2>2. hpc[h] = "idle"
      BY <1>6 DEF StartAll, SerialInv, PhaseInv
    <2>3. \A s \in Sources : Enabled(s)' => 1 \in Live(s)'
      BY <2>1 DEF Enabled, Configured, Live, TypeOK, Active
    <2> QED  BY <2>1, <2>2, <2>3 DEF ServedInv, Served, WorkAlone
  <1>7. CASE StopAll
    BY <1>1, <1>7 DEF StopAll, countVars
  <1>8. CASE Close
    BY <1>1, <1>8 DEF Close, countVars
  <1>9. ASSUME NEW d \in Definitions, Append1(d) PROVE ServedInv'
    BY <1>1, <1>9 DEF Append1, readerVars, countVars
  <1> QED  BY <1>2, <1>3, <1>4, <1>5, <1>6, <1>7, <1>8, <1>9 DEF Next

\* Before the program starts nothing is promised.
LEMMA ServedInit == Init => ServedInv
  BY DEF Init, ServedInv, Served, WorkAlone

(* With one request at a time and no reader killed by an exception, an     *)
(* enabled source has a reader whenever no request about it is in          *)
(* progress.                                                               *)
THEOREM SerialEnabledHasReader ==
    ASSUME NEW h, Handlers = {h}, MaxDeaths = 0
    PROVE  Spec => []EnabledSourceHasReader
  <1> DEFINE Inv == TypeOK /\ WorkLeft /\ SerialInv /\ Follows /\ HandlerKnows /\ ServedInv
  <1>1. Init => Inv
    BY TypeInit, SerialInit, InitMaps, ServedInit
  <1>2. Inv /\ [Next]_vars => Inv'
    <2> SUFFICES ASSUME Inv, [Next]_vars PROVE Inv'
      OBVIOUS
    <2>1. TypeOK' /\ WorkLeft' /\ SerialInv'
      BY TypeInductive, SerialStep
    <2>2. Follows' /\ HandlerKnows'
      BY StepMaps
    <2>3. ServedInv'
      BY ServedStep
    <2> QED  BY <2>1, <2>2, <2>3
  <1>3. Inv => EnabledSourceHasReader
    BY DEF ServedInv, Served, EnabledSourceHasReader, Quiet, Pending
  <1> HIDE DEF Inv
  <1> QED  BY <1>1, <1>2, <1>3, PTL DEF Spec

-----------------------------------------------------------------------------
(* What the buffer holds.                                                  *)

\* The position of line l among the lines that are read of a log opened as g
\* says: the tail moves up to where the rest begins, and the lines that are
\* skipped have no place next to any other.
At(l, g) ==
    IF l <= g.tail THEN l + g.from - g.tail ELSE IF l <= g.from THEN 0 - 5 ELSE l

\* The numbers of q end at position e and follow each other.
Numbers(q, e, g) == \A k \in DOMAIN q : At(q[k], g) = e - Len(q) + k

\* The same for the lines of events.
Consecutive(q, e, g) == \A k \in DOMAIN q : At(q[k].line, g) = e - Len(q) + k

OneDefinition(q) == \A i, j \in DOMAIN q : q[i].def = q[j].def

OneRun(q, g) ==
    /\ OneDefinition(q)
    /\ \E e \in Int : Consecutive(q, e, g)
    /\ g.tail <= g.from

\* The buffer q is what the configuration value allows.
Fits(q, value) ==
    IF value = NoSource
    THEN q = <<>>
    ELSE /\ Len(q) <= value.history
         /\ \A k \in DOMAIN q : q[k].def = value.def /\ q[k].offset = value.offset

\* The buffer q is what a PUT of body leaves that still has todo to do.
Adjusting(q, body, todo) ==
    ~Has(todo, "delete_source") =>
        /\ \A k \in DOMAIN q : q[k].def = body.def
        /\ ~Has(todo, "shift_source") => \A k \in DOMAIN q : q[k].offset = body.offset
        /\ ~Has(todo, "trim_source") => Len(q) <= body.history
        /\ Has(todo, "start") /\ ~Has(todo, "delete_latest") => q = <<>>

Worked(s) == \E h \in Handlers : hpc[h] = "work" /\ handler[h].src = s

\* A reader r of a log of so many lines has in hand the lines that follow
\* those in the buffer q, up to the last it read.
Continues(r, lines, q, state, g) ==
    /\ r.read <= lines
    /\ Numbers(r.held, r.read, g)
    /\ Numbers(r.batch, r.read - Len(r.held), g)
    /\ Consecutive(q, r.read - Len(r.held) - Len(r.batch), g)
    /\ state \in {"open", "tail"} => q = <<>> /\ r.held = <<>>
    /\ state \notin {"open", "tail"} => g.tail <= g.from /\ g.from <= r.read
    /\ state = "insert" => r.limit = r.body.history
    /\ state # "insert" => r.batch = <<>>

Reading(s, n) ==
    Continues(reader[s][n], file[reader[s][n].body.def], buffer[s], rpc[s][n], opening[s])

Runs == \A s \in Sources : OneRun(buffer[s], opening[s])
Fitting == \A s \in Sources : ~Worked(s) => Fits(buffer[s], config[s])
Adjusted ==
    \A h \in Handlers :
        hpc[h] = "work" /\ handler[h].op = "put" =>
            Adjusting(buffer[handler[h].src], handler[h].body, handler[h].todo)
AllReading == \A s \in Sources : \A n \in Ids : rpc[s][n] \in Active => Reading(s, n)

BufferInv ==
    /\ phase = "boot" => \A s \in Sources : buffer[s] = <<>>
    /\ phase = "boot" => \A s \in Sources, n \in Ids : reader[s][n] = IdleReader
    /\ failures = 0 => Runs /\ Fitting /\ Adjusted /\ AllReading

\* The last elements of a sequence, and the others.
LEMMA Trimmed ==
    ASSUME NEW S, NEW q \in Seq(S), NEW n \in Nat
    PROVE  /\ LastN(q, n) \in Seq(S) /\ DropLast(q, n) \in Seq(S)
           /\ Len(LastN(q, n)) <= n
           /\ Len(LastN(q, n)) + Len(DropLast(q, n)) = Len(q)
           /\ Len(q) <= n => DropLast(q, n) = <<>>
           /\ \A k \in DOMAIN LastN(q, n) :
                  /\ k + Len(q) - Len(LastN(q, n)) \in DOMAIN q
                  /\ LastN(q, n)[k] = q[k + Len(q) - Len(LastN(q, n))]
           /\ \A k \in DOMAIN DropLast(q, n) : k \in DOMAIN q /\ DropLast(q, n)[k] = q[k]
  <1>1. CASE Len(q) <= n
    <2>1. LastN(q, n) = q /\ DropLast(q, n) = <<>>
      BY <1>1 DEF LastN, DropLast
    <2>2. Len(q) \in Nat /\ DOMAIN q = 1..Len(q) /\ Len(<<>>) = 0 /\ DOMAIN <<>> = {}
      OBVIOUS
    <2>3. \A k \in DOMAIN q : k + Len(q) - Len(q) = k
      BY <2>2
    <2> QED  BY <1>1, <2>1, <2>2, <2>3
  <1>2. CASE ~(Len(q) <= n)
    <2> DEFINE m == Len(q)
               last == SubSeq(q, m - n + 1, m)
               first == SubSeq(q, 1, m - n)
    <2>1. LastN(q, n) = last /\ DropLast(q, n) = first
      BY <1>2 DEF LastN, DropLast
    <2>2. m \in Nat /\ m > n /\ DOMAIN q = 1..m /\ q \in [1..m -> S]
      BY <1>2
    <2>3. /\ last \in Seq(S) /\ Len(last) = n /\ DOMAIN last = 1..n
          /\ \A k \in 1..n : last[k] = q[k + m - n]
      <3>1. last = [k \in 1..n |-> q[k + m - n]]
        BY <2>2
      <3>2. \A k \in 1..n : k + m - n \in 1..m
        BY <2>2
      <3>3. \A k \in 1..n : q[k + m - n] \in S
        BY <2>2, <3>2
      <3> HIDE DEF last, m
      <3> QED  BY <3>1, <3>3
    <2>4. /\ first \in Seq(S) /\ Len(first) = m - n /\ DOMAIN first = 1..(m - n)
          /\ \A k \in 1..(m - n) : first[k] = q[k]
      <3>1. first = [k \in 1..(m - n) |-> q[k]]
        BY <2>2
      <3>2. m - n \in Nat /\ \A k \in 1..(m - n) : q[k] \in S
        BY <2>2
      <3> HIDE DEF first, m
      <3> QED  BY <3>1, <3>2
    <2> HIDE DEF last, first, m
    <2>5. \A k \in DOMAIN last : k + m - Len(last) \in DOMAIN q /\ last[k] = q[k + m - Len(last)]
      BY <2>2, <2>3
    <2>6. \A k \in DOMAIN first : k \in DOMAIN q /\ first[k] = q[k]
      BY <2>2, <2>4
    <2>7. Len(last) <= n /\ Len(last) + Len(first) = m /\ ~(m <= n)
      BY <2>2, <2>3, <2>4
    <2> QED  BY <2>1, <2>3, <2>4, <2>5, <2>6, <2>7 DEF m
  <1> QED  BY <1>1, <1>2

\* Trimming keeps what ends at e.
LEMMA NumbersTrimmed ==
    ASSUME NEW q \in Seq(Nat), NEW n \in Nat, NEW e \in Int, NEW g, Numbers(q, e, g)
    PROVE  /\ Numbers(LastN(q, n), e, g)
           /\ Numbers(DropLast(q, n), e - Len(LastN(q, n)), g)
  <1> DEFINE l == LastN(q, n)
             d == DropLast(q, n)
  <1>1. /\ l \in Seq(Nat) /\ d \in Seq(Nat)
        /\ Len(l) + Len(d) = Len(q)
        /\ \A k \in DOMAIN l : k + Len(q) - Len(l) \in DOMAIN q /\ l[k] = q[k + Len(q) - Len(l)]
        /\ \A k \in DOMAIN d : k \in DOMAIN q /\ d[k] = q[k]
    <2>1. l \in Seq(Nat) /\ d \in Seq(Nat) /\ Len(l) + Len(d) = Len(q)
      BY Trimmed
    <2>2. \A k \in DOMAIN l :
              k + Len(q) - Len(l) \in DOMAIN q /\ l[k] = q[k + Len(q) - Len(l)]
      BY Trimmed
    <2>3. \A k \in DOMAIN d : k \in DOMAIN q /\ d[k] = q[k]
      BY Trimmed
    <2> QED  BY <2>1, <2>2, <2>3
  <1>2. /\ Len(l) \in Nat /\ Len(d) \in Nat /\ Len(q) \in Nat
        /\ DOMAIN l = 1..Len(l) /\ DOMAIN d = 1..Len(d)
    BY <1>1
  <1> HIDE DEF l, d
  <1>3. Numbers(l, e, g)
    BY <1>1, <1>2 DEF Numbers
  <1>4. Numbers(d, e - Len(l), g)
    <2> SUFFICES ASSUME NEW k \in 1..Len(d) PROVE At(d[k], g) = e - Len(l) - Len(d) + k
      BY <1>2 DEF Numbers
    <2>1. k \in DOMAIN q /\ d[k] = q[k]
      BY <1>1, <1>2
    <2>2. At(d[k], g) = e - Len(q) + k
      BY <2>1 DEF Numbers
    <2>3. Len(l) + Len(d) = Len(q)
      BY <1>1
    <2> QED  BY <1>2, <2>2, <2>3, SMTT(30)
  <1> QED  BY <1>3, <1>4 DEF l, d

\* A run of events is still a run when it is trimmed at either end.
LEMMA RunTrimmed ==
    ASSUME NEW q \in Seq(Event), NEW n \in Nat, NEW g
    PROVE  /\ \A e \in Int : Consecutive(q, e, g) => Consecutive(LastN(q, n), e, g)
           /\ OneRun(q, g) => OneRun(LastN(q, n), g) /\ OneRun(DropLast(q, n), g)
  <1> DEFINE l == LastN(q, n)
             d == DropLast(q, n)
  <1>1. /\ l \in Seq(Event) /\ d \in Seq(Event)
        /\ Len(l) + Len(d) = Len(q)
        /\ \A k \in DOMAIN l : k + Len(q) - Len(l) \in DOMAIN q /\ l[k] = q[k + Len(q) - Len(l)]
        /\ \A k \in DOMAIN d : k \in DOMAIN q /\ d[k] = q[k]
    <2>1. l \in Seq(Event) /\ d \in Seq(Event) /\ Len(l) + Len(d) = Len(q)
      BY Trimmed
    <2>2. \A k \in DOMAIN l :
              k + Len(q) - Len(l) \in DOMAIN q /\ l[k] = q[k + Len(q) - Len(l)]
      BY Trimmed
    <2>3. \A k \in DOMAIN d : k \in DOMAIN q /\ d[k] = q[k]
      BY Trimmed
    <2> QED  BY <2>1, <2>2, <2>3
  <1>2. /\ Len(l) \in Nat /\ Len(d) \in Nat /\ Len(q) \in Nat
        /\ DOMAIN l = 1..Len(l) /\ DOMAIN d = 1..Len(d)
    BY <1>1
  <1> HIDE DEF l, d
  <1>3. ASSUME NEW e \in Int, Consecutive(q, e, g)
        PROVE  Consecutive(l, e, g) /\ Consecutive(d, e - Len(l), g)
    <2>1. ASSUME NEW k \in DOMAIN l PROVE At(l[k].line, g) = e - Len(l) + k
      <3>1. /\ k + Len(q) - Len(l) \in DOMAIN q
            /\ l[k] = q[k + Len(q) - Len(l)]
            /\ k \in Nat
        BY <1>1, <1>2
      <3>2. At(l[k].line, g) = e - Len(q) + (k + Len(q) - Len(l))
        BY <1>3, <3>1 DEF Consecutive
      <3> QED  BY <1>2, <3>1, <3>2
    <2>2. ASSUME NEW k \in DOMAIN d PROVE At(d[k].line, g) = e - Len(l) - Len(d) + k
      <3>1. k \in DOMAIN q /\ d[k] = q[k] /\ k \in Nat
        BY <1>1, <1>2
      <3>2. At(d[k].line, g) = e - Len(q) + k
        BY <1>3, <3>1 DEF Consecutive
      <3>3. Len(l) + Len(d) = Len(q)
        BY <1>1
      <3>4. e - Len(q) + k = e - Len(l) - Len(d) + k
        BY <1>2, <3>1, <3>3
      <3> QED  BY <3>2, <3>4
    <2> QED  BY <2>1, <2>2 DEF Consecutive
  <1>4. OneDefinition(q) => OneDefinition(l) /\ OneDefinition(d)
    BY <1>1 DEF OneDefinition
  <1>5. \A e \in Int : e - Len(l) \in Int
    BY <1>2
  <1> QED  BY <1>3, <1>4, <1>5 DEF OneRun, l, d

\* Lines i to j.
LEMMA LinesAre ==
    ASSUME NEW i \in Nat \ {0}, NEW j \in Nat, i <= j + 1
    PROVE  /\ Lines(i, j) \in Seq(Nat) /\ Len(Lines(i, j)) = j - i + 1
           /\ DOMAIN Lines(i, j) = 1..(j - i + 1)
           /\ \A k \in 1..(j - i + 1) : Lines(i, j)[k] = i + k - 1
  <1> DEFINE n == j - i + 1
  <1>1. n \in Nat /\ Lines(i, j) = [k \in 1..n |-> i + k - 1]
    BY DEF Lines
  <1>2. \A k \in 1..n : i + k - 1 \in Nat
    OBVIOUS
  <1> HIDE DEF n
  <1>3. Lines(i, j) \in Seq(Nat) /\ Len(Lines(i, j)) = n /\ DOMAIN Lines(i, j) = 1..n
    BY <1>1, <1>2
  <1>4. \A k \in 1..n : Lines(i, j)[k] = i + k - 1
    BY <1>1
  <1> QED  BY <1>3, <1>4 DEF n

\* The lines behind the opening of the log are where they are.
LEMMA LinesNumbers ==
    ASSUME NEW i \in Nat \ {0}, NEW j \in Nat, i <= j + 1, NEW g \in Opening,
           g.tail <= g.from, g.from < i
    PROVE  /\ Lines(i, j) \in Seq(Nat) /\ Len(Lines(i, j)) = j - i + 1
           /\ Numbers(Lines(i, j), j, g)
  <1>1. g.tail \in Nat /\ g.from \in Nat
    BY BoundAssumption DEF Opening
  <1>2. \A l \in Nat : l >= i => At(l, g) = l
    BY <1>1 DEF At
  <1>3. /\ Lines(i, j) \in Seq(Nat) /\ Len(Lines(i, j)) = j - i + 1
        /\ DOMAIN Lines(i, j) = 1..(j - i + 1)
        /\ \A k \in 1..(j - i + 1) : Lines(i, j)[k] = i + k - 1
    BY LinesAre
  <1>4. ASSUME NEW k \in 1..(j - i + 1)
        PROVE  At(Lines(i, j)[k], g) = j - (j - i + 1) + k
    <2>1. i + k - 1 \in Nat /\ i + k - 1 >= i /\ i + k - 1 = j - (j - i + 1) + k
      OBVIOUS
    <2> QED  BY <1>2, <1>3, <2>1
  <1> QED  BY <1>3, <1>4 DEF Numbers

\* The tail moves up to where the rest begins.
LEMMA TailNumbers ==
    ASSUME NEW j \in Nat, NEW g \in Opening, g.tail = j
    PROVE  Lines(1, j) \in Seq(Nat) /\ Numbers(Lines(1, j), g.from, g)
  <1>1. g.from \in Nat /\ 1 \in Nat \ {0} /\ 1 <= j + 1 /\ j - 1 + 1 = j
    BY BoundAssumption DEF Opening
  <1>2. /\ Lines(1, j) \in Seq(Nat) /\ Len(Lines(1, j)) = j
        /\ DOMAIN Lines(1, j) = 1..j
        /\ \A k \in 1..j : Lines(1, j)[k] = 1 + k - 1
    <2>1. /\ Lines(1, j) \in Seq(Nat) /\ Len(Lines(1, j)) = j - 1 + 1
          /\ DOMAIN Lines(1, j) = 1..(j - 1 + 1)
          /\ \A k \in 1..(j - 1 + 1) : Lines(1, j)[k] = 1 + k - 1
      BY <1>1, LinesAre
    <2> QED  BY <1>1, <2>1
  <1>3. ASSUME NEW k \in 1..j PROVE At(Lines(1, j)[k], g) = g.from - j + k
    <2>1. Lines(1, j)[k] = k /\ k <= j
      BY <1>2
    <2> QED  BY <1>1, <2>1 DEF At
  <1> QED  BY <1>2, <1>3 DEF Numbers

\* Two runs that follow each other are one.
LEMMA NumbersConcat ==
    ASSUME NEW a \in Seq(Nat), NEW b \in Seq(Nat), NEW e \in Int, NEW g,
           Numbers(a, e, g), Numbers(b, e + Len(b), g)
    PROVE  /\ a \o b \in Seq(Nat) /\ Len(a \o b) = Len(a) + Len(b)
           /\ Numbers(a \o b, e + Len(b), g)
  <1>1. /\ Len(a) \in Nat /\ Len(b) \in Nat
        /\ DOMAIN a = 1..Len(a) /\ DOMAIN b = 1..Len(b)
        /\ a \o b \in Seq(Nat) /\ Len(a \o b) = Len(a) + Len(b)
        /\ DOMAIN (a \o b) = 1..(Len(a) + Len(b))
    OBVIOUS
  <1>2. \A k \in 1..(Len(a) + Len(b)) :
            (a \o b)[k] = IF k <= Len(a) THEN a[k] ELSE b[k - Len(a)]
    OBVIOUS
  <1>3. \A k \in 1..(Len(a) + Len(b)) : At((a \o b)[k], g) = e - Len(a) + k
    <2> TAKE k \in 1..(Len(a) + Len(b))
    <2>1. CASE k <= Len(a)
      BY <1>1, <1>2, <2>1, SMTT(30) DEF Numbers
    <2>2. CASE ~(k <= Len(a))
      <3>1. k - Len(a) \in 1..Len(b)
        BY <1>1, <2>2
      <3>2. At(b[k - Len(a)], g) = e + Len(b) - Len(b) + (k - Len(a))
        <4>1. \A j \in 1..Len(b) : At(b[j], g) = e + Len(b) - Len(b) + j
          BY <1>1, SMTT(30) DEF Numbers
        <4> QED  BY <3>1, <4>1
      <3> QED  BY <1>1, <1>2, <2>2, <3>2
    <2> QED  BY <2>1, <2>2
  <1> QED  BY <1>1, <1>3 DEF Numbers

\* What an insertion does to a run the batch continues.
LEMMA Inserted ==
    ASSUME NEW q \in Seq(Event), NEW r \in ReaderRec, NEW e \in Int, NEW limit \in Nat \ {0},
           NEW g, g.tail <= g.from,
           Consecutive(q, e, g), Numbers(r.batch, e + Len(r.batch), g),
           \A k \in DOMAIN q : q[k].def = r.body.def /\ q[k].offset = r.body.offset
    PROVE  LET all == LastN(q \o Events(r), limit) IN
           /\ Consecutive(all, e + Len(r.batch), g) /\ OneRun(all, g)
           /\ Len(all) <= limit
           /\ \A k \in DOMAIN all : all[k].def = r.body.def /\ all[k].offset = r.body.offset
  <1> DEFINE n == Len(r.batch)
             ev == Events(r)
             whole == q \o ev
             all == LastN(whole, limit)
  <1>1. /\ n \in Nat /\ r.batch \in Seq(1..MaxLines) /\ DOMAIN r.batch = 1..n
        /\ \A k \in 1..n : r.batch[k] \in 1..MaxLines
        /\ r.body \in Body
    <2>1. r.batch \in Seq(1..MaxLines) /\ r.body \in Body
      BY DEF ReaderRec
    <2>2. ASSUME NEW S, NEW b \in Seq(S)
          PROVE  Len(b) \in Nat /\ DOMAIN b = 1..Len(b) /\ \A k \in 1..Len(b) : b[k] \in S
      OBVIOUS
    <2> QED  BY <2>1, <2>2
  <1>2. /\ ev \in Seq(Event) /\ Len(ev) = n /\ DOMAIN ev = 1..n
        /\ \A k \in 1..n : /\ ev[k].def = r.body.def /\ ev[k].offset = r.body.offset
                           /\ ev[k].line = r.batch[k]
    <2>1. r.body.def \in Definitions /\ r.body.offset \in Offsets
      BY <1>1 DEF Body
    <2>2. ev = [k \in 1..n |-> [def |-> r.body.def, line |-> r.batch[k], offset |-> r.body.offset]]
      BY DEF Events
    <2>3. \A k \in 1..n : [def |-> r.body.def, line |-> r.batch[k], offset |-> r.body.offset] \in Event
      BY <1>1, <2>1 DEF Event
    <2> HIDE DEF ev, n
    <2> QED  BY <1>1, <2>2, <2>3
  <1>3. \A k \in 1..n : At(r.batch[k], g) = e + k
    BY <1>1 DEF Numbers
  <1> HIDE DEF ev, n
  <1>4. /\ whole \in Seq(Event) /\ Len(q) \in Nat /\ Len(whole) = Len(q) + n
        /\ DOMAIN whole = 1..(Len(q) + n) /\ DOMAIN q = 1..Len(q)
        /\ \A k \in 1..(Len(q) + n) : whole[k] = IF k <= Len(q) THEN q[k] ELSE ev[k - Len(q)]
    <2>1. ev \in Seq(Event) /\ Len(ev) = n
      BY <1>2
    <2> QED  BY <2>1
  <1>5. \A k \in 1..(Len(q) + n) :
            /\ whole[k].def = r.body.def /\ whole[k].offset = r.body.offset
            /\ At(whole[k].line, g) = e - Len(q) + k
    <2> TAKE k \in 1..(Len(q) + n)
    <2>1. CASE k <= Len(q)
      BY <1>4, <2>1 DEF Consecutive
    <2>2. CASE ~(k <= Len(q))
      <3>1. k - Len(q) \in 1..n /\ whole[k] = ev[k - Len(q)]
        BY <1>1, <1>4, <2>2
      <3>2. At(ev[k - Len(q)].line, g) = e + (k - Len(q))
        BY <1>2, <1>3, <3>1
      <3> QED  BY <1>2, <1>4, <3>1, <3>2
    <2> QED  BY <2>1, <2>2
  <1> HIDE DEF whole
  <1>6. Consecutive(whole, e + n, g) /\ OneDefinition(whole) /\ e + n \in Int
    BY <1>1, <1>4, <1>5 DEF Consecutive, OneDefinition
  <1>7. Consecutive(all, e + n, g) /\ OneRun(all, g)
    BY <1>4, <1>6, RunTrimmed DEF OneRun
  <1>8. /\ Len(all) <= limit
        /\ \A k \in DOMAIN all :
              /\ k + Len(whole) - Len(all) \in DOMAIN whole
              /\ all[k] = whole[k + Len(whole) - Len(all)]
    BY <1>4, Trimmed, SMTT(30)
  <1>9. \A k \in DOMAIN all : all[k].def = r.body.def /\ all[k].offset = r.body.offset
    BY <1>4, <1>5, <1>8
  <1>10. all = LastN(q \o Events(r), limit) /\ n = Len(r.batch)
    BY DEF n, ev, whole
  <1> HIDE DEF all
  <1> QED  BY <1>7, <1>8, <1>9, <1>10

-----------------------------------------------------------------------------
(* One stage of a plan.                                                    *)

\* A buffer that fits the old body needs no more than what is planned.
LEMMA PlanAdjusts ==
    ASSUME NEW prev \in Body, NEW body \in Body, NEW q, Fits(q, prev)
    PROVE  Adjusting(q, body, Plan(prev, body))
  <1> DEFINE plan == Plan(prev, body)
  <1>1. /\ Has(plan, "delete_source") <=> DefinitionChanged(prev, body)
        /\ Has(plan, "shift_source") <=> prev.offset # body.offset
        /\ Has(plan, "trim_source") <=> prev.history # body.history
        /\ Has(plan, "delete_latest") <=>
               RestartRequired(prev, body) /\ ~DefinitionChanged(prev, body)
        /\ Has(plan, "start") <=> RestartRequired(prev, body)
    BY PlanOrder
  <1>2. prev # NoSource
    BY NoSourceAssumption
  <1> HIDE DEF plan
  <1>3. Adjusting(q, body, plan)
    BY <1>1, <1>2 DEF Adjusting, Fits, DefinitionChanged
  <1> QED  BY <1>3 DEF plan

\* When all is done the buffer fits the new body.
LEMMA NothingLeft ==
    ASSUME NEW body \in Body, NEW q, Adjusting(q, body, <<>>)
    PROVE  Fits(q, body)
  <1>1. \A stage : ~Has(<<>>, stage)
    BY DEF Has
  <1> QED  BY <1>1, NoSourceAssumption DEF Adjusting, Fits

\* Each stage keeps the run and does its part of the plan.
LEMMA StageStored ==
    ASSUME NEW q \in Seq(Event), NEW body \in Body, NEW todo \in Seq(Stage), NEW g,
           todo # <<>>, InOrder(todo), Head(todo) # "start", g.tail <= g.from
    PROVE  LET r == Stored(q, Head(todo), body) IN
           /\ OneRun(q, g) => OneRun(r, g)
           /\ Adjusting(q, body, todo) => Adjusting(r, body, Tail(todo))
           /\ Head(todo) = "delete_source" => r = <<>>
  <1> DEFINE stage == Head(todo)
             tail == Tail(todo)
             r == Stored(q, stage, body)
  <1>1. /\ stage \in Stage
        /\ \A u \in Stage : Has(todo, u) <=> u = stage \/ Has(tail, u)
        /\ \A u \in Stage : Has(tail, u) => Rank(stage) < Rank(u)
    BY HeadOfPlan
  <1>2. /\ "delete_source" \in Stage /\ "shift_source" \in Stage /\ "trim_source" \in Stage
        /\ "delete_latest" \in Stage /\ "start" \in Stage
        /\ Rank("delete_source") = 1 /\ Rank("shift_source") = 2 /\ Rank("trim_source") = 3
        /\ Rank("delete_latest") = 4 /\ Rank("start") = 5
    BY DEF Stage, Rank
  <1>3. body.history \in Nat
    BY HistoryAssumption DEF Body
  <1>4. Len(q) \in Nat /\ DOMAIN q = 1..Len(q)
    OBVIOUS
  <1> HIDE DEF stage, tail
  <1>5. CASE stage = "delete_source"
    <2>1. r = <<>>
      BY <1>5 DEF Stored
    <2>2. OneRun(r, g)
      BY <2>1 DEF OneRun, OneDefinition, Consecutive
    <2>3. Adjusting(r, body, tail)
      BY <1>3, <2>1 DEF Adjusting
    <2> QED  BY <2>1, <2>2, <2>3 DEF stage, tail
  <1>6. CASE stage = "shift_source"
    <2>1. r = [k \in DOMAIN q |-> [q[k] EXCEPT !.offset = body.offset]]
      BY <1>6 DEF Stored
    <2>2. /\ Len(r) = Len(q) /\ DOMAIN r = DOMAIN q
          /\ \A k \in DOMAIN q :
                r[k].def = q[k].def /\ r[k].line = q[k].line /\ r[k].offset = body.offset
      <3> HIDE DEF r
      <3>1. \A k \in DOMAIN q : r[k] = [q[k] EXCEPT !.offset = body.offset] /\ q[k] \in Event
        BY <1>4, <2>1
      <3>2. DOMAIN r = 1..Len(q) /\ Len(r) = Len(q)
        BY <1>4, <2>1
      <3> QED  BY <1>4, <3>1, <3>2 DEF Event
    <2> HIDE DEF r
    <2>3. OneRun(q, g) => OneRun(r, g)
      BY <2>2 DEF OneRun, OneDefinition, Consecutive
    <2>4. ~Has(tail, "delete_source") /\ ~Has(tail, "shift_source")
      BY <1>1, <1>2, <1>6
    <2>5. Adjusting(q, body, todo) => Adjusting(r, body, tail)
      <3>1. \A u \in Stage \ {"shift_source"} : Has(todo, u) <=> Has(tail, u)
        BY <1>1, <1>6
      <3>2. q = <<>> => r = <<>>
        BY <2>1
      <3> QED  BY <1>2, <2>2, <2>4, <3>1, <3>2 DEF Adjusting
    <2> QED  BY <1>6, <2>3, <2>5 DEF r, stage, tail
  <1>7. CASE stage = "trim_source"
    <2>1. r = LastN(q, body.history)
      BY <1>7 DEF Stored
    <2>2. /\ Len(r) <= body.history
          /\ OneRun(q, g) => OneRun(r, g)
          /\ \A k \in DOMAIN r : k + Len(q) - Len(r) \in DOMAIN q /\ r[k] = q[k + Len(q) - Len(r)]
      <3>1. /\ Len(LastN(q, body.history)) <= body.history
            /\ \A k \in DOMAIN LastN(q, body.history) :
                  /\ k + Len(q) - Len(LastN(q, body.history)) \in DOMAIN q
                  /\ LastN(q, body.history)[k] = q[k + Len(q) - Len(LastN(q, body.history))]
        BY <1>3, Trimmed
      <3>2. OneRun(q, g) => OneRun(LastN(q, body.history), g)
        BY <1>3, RunTrimmed
      <3> QED  BY <2>1, <3>1, <3>2
    <2>3. q = <<>> => r = <<>>
      BY <1>3, <2>1 DEF LastN
    <2>4. \A u \in Stage \ {"trim_source"} : Has(todo, u) <=> Has(tail, u)
      BY <1>1, <1>7
    <2> HIDE DEF r
    <2>5. ASSUME Adjusting(q, body, todo) PROVE Adjusting(r, body, tail)
      <3> SUFFICES ASSUME ~Has(tail, "delete_source")
                   PROVE  /\ \A k \in DOMAIN r : r[k].def = body.def
                          /\ ~Has(tail, "shift_source") =>
                                 \A k \in DOMAIN r : r[k].offset = body.offset
                          /\ Has(tail, "start") /\ ~Has(tail, "delete_latest") => r = <<>>
        BY <2>2 DEF Adjusting
      <3>1. /\ ~Has(todo, "delete_source")
            /\ Has(todo, "shift_source") <=> Has(tail, "shift_source")
            /\ Has(todo, "start") <=> Has(tail, "start")
            /\ Has(todo, "delete_latest") <=> Has(tail, "delete_latest")
        BY <1>2, <2>4
      <3>2. /\ \A k \in DOMAIN q : q[k].def = body.def
            /\ ~Has(todo, "shift_source") => \A k \in DOMAIN q : q[k].offset = body.offset
            /\ Has(todo, "start") /\ ~Has(todo, "delete_latest") => q = <<>>
        BY <2>5, <3>1 DEF Adjusting
      <3> QED  BY <2>2, <2>3, <3>1, <3>2
    <2>6. stage # "delete_source"
      BY <1>7
    <2> QED  BY <2>2, <2>5, <2>6 DEF r, stage, tail
  <1>8. CASE stage = "delete_latest"
    <2>1. r = DropLast(q, body.history)
      BY <1>8 DEF Stored
    <2>2. OneRun(q, g) => OneRun(r, g)
      BY <1>3, <2>1, RunTrimmed
    <2>3. ~Has(tail, "delete_source") /\ ~Has(tail, "shift_source") /\ ~Has(tail, "trim_source")
      BY <1>1, <1>2, <1>8
    <2>4. ASSUME Adjusting(q, body, todo) PROVE Adjusting(r, body, tail)
      <3>1. ~Has(todo, "delete_source") /\ ~Has(todo, "trim_source")
        BY <1>1, <1>2, <1>8, <2>3
      <3>2. Len(q) <= body.history
        BY <2>4, <3>1 DEF Adjusting
      <3>3. r = <<>>
        BY <2>1, <3>2 DEF DropLast
      <3> QED  BY <1>3, <3>3 DEF Adjusting
    <2> QED  BY <1>8, <2>2, <2>4 DEF stage, tail
  <1> QED  BY <1>1, <1>5, <1>6, <1>7, <1>8 DEF Stage, stage

-----------------------------------------------------------------------------
(* Steps.                                                                  *)

\* A reader that goes on, or a new one.
New(s, n) ==
    /\ buffer'[s] = <<>> /\ rpc'[s][n] = "open" /\ reader'[s][n].read = 0
    /\ opening'[s] = opening[s]
    /\ reader'[s][n].held = <<>> /\ reader'[s][n].batch = <<>>

ReadsOn(s, n) ==
    /\ rpc'[s][n] = rpc[s][n] /\ reader'[s][n] = reader[s][n]
    /\ buffer'[s] = buffer[s] /\ opening'[s] = opening[s]

FilesGrow == \A d \in Definitions : file[d] \in Nat /\ file'[d] \in Nat /\ file[d] <= file'[d]

\* A reader that goes on, or a new one, continues its buffer.
LEMMA ReadingKept ==
    ASSUME TypeOK, TypeOK', FilesGrow, NEW s \in Sources, NEW n \in Ids,
           rpc[s][n] \in Active => Reading(s, n), rpc'[s][n] \in Active,
           ReadsOn(s, n) \/ New(s, n)
    PROVE  Reading(s, n)'
  <1>1. reader'[s][n].body.def \in Definitions
    BY DEF TypeOK, ReaderRec, Body
  <1>2. CASE ReadsOn(s, n)
    <2> DEFINE d == reader[s][n].body.def
    <2>1. Reading(s, n)
      BY <1>2 DEF ReadsOn
    <2>2. d \in Definitions /\ reader'[s][n].body.def = d
      BY <1>1, <1>2 DEF ReadsOn
    <2>3. reader[s][n].read \in Nat
      BY DEF TypeOK, ReaderRec
    <2>4. reader[s][n].read <= file'[d]
      BY <2>1, <2>2, <2>3 DEF Reading, Continues, FilesGrow
    <2> QED  BY <1>2, <2>1, <2>2, <2>4 DEF Reading, Continues, ReadsOn
  <1>3. CASE New(s, n)
    BY <1>1, <1>3 DEF New, Reading, Continues, Numbers, Consecutive, FilesGrow
  <1> QED  BY <1>2, <1>3

\* The readers of a step that is none of theirs.
LEMMA AllReadingKept ==
    ASSUME TypeOK, TypeOK', FilesGrow, AllReading,
           \A s \in Sources, n \in Ids : rpc'[s][n] \in Active => ReadsOn(s, n) \/ New(s, n)
    PROVE  AllReading'
  BY ReadingKept DEF AllReading

\* A step that writes no log keeps the logs.
LEMMA FilesStay ==
    ASSUME TypeOK, UNCHANGED file
    PROVE  FilesGrow
  BY BoundAssumption DEF TypeOK, FilesGrow

\* Neither buffers nor configurations change, and no handler goes to work.
LEMMA BufferQuiet ==
    ASSUME TypeOK, TypeOK', BufferInv, FilesGrow,
           UNCHANGED <<buffer, config, opening, failures>>,
           phase' = "boot" => phase = "boot" /\ UNCHANGED reader,
           \A h \in Handlers :
               /\ hpc'[h] = "work" <=> hpc[h] = "work"
               /\ hpc[h] = "work" => handler'[h] = handler[h],
           \A s \in Sources, n \in Ids :
               rpc'[s][n] \in Active => rpc'[s][n] = rpc[s][n] /\ reader'[s][n] = reader[s][n]
    PROVE  BufferInv'
  <1> SUFFICES ASSUME failures = 0 PROVE Runs' /\ Fitting' /\ Adjusted' /\ AllReading'
    BY DEF BufferInv
  <1>1. Runs /\ Fitting /\ Adjusted /\ AllReading
    BY DEF BufferInv
  <1>2. AllReading'
    BY <1>1, AllReadingKept DEF ReadsOn
  <1>3. Runs'
    BY <1>1 DEF Runs
  <1>4. Fitting'
    BY <1>1 DEF Fitting, Worked
  <1>5. Adjusted'
    BY <1>1 DEF Adjusted
  <1> QED  BY <1>2, <1>3, <1>4, <1>5

\* The only reader of a source moves, with its buffer.
LEMMA BufferReader ==
    ASSUME TypeOK, TypeOK', SerialInv, ServedInv, BufferInv,
           NEW s \in Sources, NEW n \in Live(s),
           UNCHANGED <<config, file, hpc, handler, failures, phase>>,
           \A t \in Sources, m \in Ids :
               t # s \/ m # n => rpc'[t][m] = rpc[t][m] /\ reader'[t][m] = reader[t][m],
           \A t \in Sources : t # s => buffer'[t] = buffer[t] /\ opening'[t] = opening[t],
           phase # "boot",
           failures = 0 =>
               /\ OneRun(buffer'[s], opening'[s]) /\ Fits(buffer'[s], config[s])
               /\ rpc'[s][n] \in Active => Reading(s, n)'
    PROVE  BufferInv'
  <1> SUFFICES ASSUME failures = 0 PROVE Runs' /\ Fitting' /\ Adjusted' /\ AllReading'
    BY DEF BufferInv
  <1>1. Runs /\ Fitting /\ Adjusted /\ AllReading
    BY DEF BufferInv
  <1>2. \A h \in Handlers : hpc[h] = "work" => handler[h].src # s /\ handler[h].src \in Sources
    BY DEF ServedInv, WorkAlone, TypeOK, HandlerRec
  <1>3. FilesGrow
    BY FilesStay
  <1>4. AllReading'
    <2> SUFFICES ASSUME NEW t \in Sources, NEW m \in Ids, rpc'[t][m] \in Active
                 PROVE  Reading(t, m)'
      BY DEF AllReading
    <2>1. CASE t = s /\ m = n
      BY <2>1
    <2>2. CASE t = s /\ m # n
      <3>1. m \in Live(s)
        BY <2>2 DEF Live
      <3> QED  BY <2>2, <3>1, OnlyRegisteredRuns
    <2>3. CASE t # s
      <3>1. ReadsOn(t, m)
        BY <2>3 DEF ReadsOn
      <3>2. rpc[t][m] \in Active => Reading(t, m)
        BY <1>1 DEF AllReading
      <3> QED  BY <1>3, <3>1, <3>2, ReadingKept
    <2> QED  BY <2>1, <2>2, <2>3
  <1>5. Runs'
    BY <1>1 DEF Runs
  <1>6. Fitting'
    BY <1>1 DEF Fitting, Worked
  <1>7. Adjusted'
    BY <1>1, <1>2 DEF Adjusted
  <1> QED  BY <1>4, <1>5, <1>6, <1>7

-----------------------------------------------------------------------------
(* The steps of readers.                                                   *)

\* A reader that emits: batch goes to the store, kept stays in hand.
LEMMA Emitted ==
    ASSUME NEW r \in ReaderRec, NEW next \in ReaderRec, NEW batch, NEW limit, NEW lines, NEW q,
           NEW g, g.tail <= g.from, g.from <= next.read,
           next.body = r.body, next.read <= lines, limit = r.body.history,
           Numbers(next.held, next.read, g), Numbers(batch, next.read - Len(next.held), g),
           Consecutive(q, next.read - Len(next.held) - Len(batch), g)
    PROVE  Continues([next EXCEPT !.batch = batch, !.limit = limit], lines, q, "insert", g)
  <1> DEFINE new == [next EXCEPT !.batch = batch, !.limit = limit]
  <1>1. /\ new.batch = batch /\ new.limit = limit /\ new.held = next.held
        /\ new.read = next.read /\ new.body = next.body
    BY DEF ReaderRec
  <1> HIDE DEF new
  <1>2. Continues(new, lines, q, "insert", g)
    BY <1>1 DEF Continues
  <1> QED  BY <1>2 DEF new

\* A reader that reads the tail has nothing in hand yet.
LEMMA TailContinues ==
    ASSUME NEW r \in ReaderRec, NEW lines \in 0..MaxLines, NEW q, NEW g,
           Continues(r, lines, q, "open", g)
    PROVE  Continues([r EXCEPT !.read = lines], lines, q, "tail", g)
  <1> DEFINE new == [r EXCEPT !.read = lines]
  <1>1. q = <<>> /\ r.held = <<>> /\ r.batch = <<>> /\ lines \in Nat
    BY BoundAssumption DEF Continues
  <1>2. new.read = lines /\ new.held = <<>> /\ new.batch = <<>> /\ new.body = r.body
    BY <1>1 DEF ReaderRec
  <1>3. Numbers(<<>>, lines, g) /\ lines - Len(<<>>) = lines /\ Consecutive(<<>>, lines, g)
    BY <1>1 DEF Numbers, Consecutive
  <1> HIDE DEF new
  <1>4. Continues(new, lines, q, "tail", g)
    BY <1>1, <1>2, <1>3 DEF Continues
  <1> QED  BY <1>4 DEF new

\* A reader that opens its log hands over the tail of it.
LEMMA OpenContinues ==
    ASSUME NEW r \in ReaderRec, NEW lines \in 0..MaxLines, NEW q, NEW limit, NEW old,
           NEW tail \in 0..MaxLines, tail <= lines, NEW state \in {"open", "tail"},
           limit = r.body.history, Continues(r, lines, q, state, old)
    PROVE  LET g == [tail |-> tail, from |-> lines]
               opened == [r EXCEPT !.read = lines]
               batch == LastN(Lines(1, tail), r.body.history)
           IN  /\ tail = 0 => Continues(opened, lines, q, "poll", g)
               /\ Continues([opened EXCEPT !.batch = batch, !.limit = limit], lines, q, "insert", g)
  <1> DEFINE g == [tail |-> tail, from |-> lines]
             opened == [r EXCEPT !.read = lines]
             all == Lines(1, tail)
             batch == LastN(all, r.body.history)
  <1>1. /\ lines \in Nat /\ tail \in Nat
        /\ r.body.history \in Nat /\ MaxLines \in Nat
    BY BoundAssumption, HistoryAssumption DEF ReaderRec, Body
  <1>2. q = <<>> /\ r.held = <<>> /\ r.batch = <<>>
    BY DEF Continues
  <1>0. g \in Opening /\ g.tail = tail /\ g.from = lines
    BY DEF Opening
  <1> HIDE DEF g
  <1>3. /\ opened \in ReaderRec /\ opened.body = r.body /\ opened.read = lines
        /\ opened.held = <<>> /\ opened.batch = <<>>
    BY <1>2 DEF ReaderRec
  <1>4. all \in Seq(Nat) /\ Numbers(all, lines, g)
    BY <1>0, <1>1, TailNumbers
  <1> HIDE DEF opened, all
  <1>5. Numbers(batch, lines, g) /\ lines - Len(<<>>) = lines
    <2>1. lines \in Int
      BY <1>1
    <2> QED  BY <1>1, <1>4, <2>1, NumbersTrimmed
  <1> HIDE DEF batch
  <1>6. Numbers(<<>>, lines, g) /\ \A e : Consecutive(<<>>, e, g)
    BY DEF Numbers, Consecutive
  <1>7. Continues([opened EXCEPT !.batch = batch, !.limit = limit], lines, q, "insert", g)
    <2>1. opened.read <= lines /\ g.tail <= g.from /\ g.from <= opened.read
      BY <1>0, <1>1, <1>3
    <2> QED  BY <1>2, <1>3, <1>5, <1>6, <2>1, Emitted
  <1>8. Continues(opened, lines, q, "poll", g)
    BY <1>0, <1>1, <1>2, <1>3, <1>6 DEF Continues, Numbers
  <1> QED  BY <1>7, <1>8 DEF opened, batch, all, g

\* A reader that polls hands over the lines it had not read, but the last.
LEMMA PollContinues ==
    ASSUME NEW r \in ReaderRec, NEW lines \in 0..MaxLines, NEW q, NEW limit,
           NEW g \in Opening, limit = r.body.history, Continues(r, lines, q, "poll", g)
    PROVE  LET all == r.held \o Lines(r.read + 1, lines)
               idle == lines = r.read
               batch == IF idle THEN all ELSE DropLast(all, 1)
               next == [r EXCEPT !.read = lines, !.held = IF idle THEN <<>> ELSE LastN(all, 1)]
           IN  /\ batch = <<>> => Continues(next, lines, q, "poll", g)
               /\ Continues([next EXCEPT !.batch = batch, !.limit = limit], lines, q, "insert", g)
  <1> DEFINE rest == Lines(r.read + 1, lines)
             all == r.held \o rest
             idle == lines = r.read
             batch == IF idle THEN all ELSE DropLast(all, 1)
             kept == IF idle THEN <<>> ELSE LastN(all, 1)
             next == [r EXCEPT !.read = lines, !.held = kept]
  <1>1. lines \in Nat /\ r.read \in Nat /\ MaxLines \in Nat
    BY BoundAssumption DEF ReaderRec
  <1>2. /\ r.read <= lines /\ Numbers(r.held, r.read, g) /\ r.batch = <<>>
        /\ Consecutive(q, r.read - Len(r.held) - Len(<<>>), g)
        /\ g.tail <= g.from /\ g.from <= r.read
    BY DEF Continues
  <1>12. g.tail \in Nat /\ g.from \in Nat
    BY BoundAssumption DEF Opening
  <1>3. r.held \in Seq(1..MaxLines) /\ r.held \in Seq(Nat) /\ Len(r.held) \in Nat
    <2>1. r.held \in Seq(1..MaxLines)
      BY DEF ReaderRec
    <2>2. 1..MaxLines \subseteq Nat
      BY <1>1
    <2>3. ASSUME NEW S, NEW T, S \subseteq T, NEW b \in Seq(S) PROVE b \in Seq(T) /\ Len(b) \in Nat
      BY <2>3
    <2> QED  BY <2>1, <2>2, <2>3
  <1>4. /\ rest \in Seq(Nat) /\ Len(rest) = lines - r.read /\ Numbers(rest, lines, g)
        /\ rest \in Seq(1..MaxLines)
    <2>1. r.read + 1 \in Nat \ {0} /\ r.read + 1 <= lines + 1 /\ r.read + 1 \in 1..(MaxLines + 1)
      BY <1>1, <1>2
    <2>5. g.from < r.read + 1
      BY <1>1, <1>2, <1>12
    <2>2. Len(rest) = lines - (r.read + 1) + 1
      BY <1>1, <1>2, <2>1, <2>5, LinesNumbers
    <2>3. rest \in Seq(Nat) /\ Numbers(rest, lines, g)
      BY <1>1, <1>2, <2>1, <2>5, LinesNumbers
    <2>4. rest \in Seq(1..MaxLines)
      BY <2>1, LinesType
    <2> QED  BY <1>1, <2>2, <2>3, <2>4
  <1> HIDE DEF rest
  <1>5. /\ all \in Seq(Nat) /\ all \in Seq(1..MaxLines)
        /\ Len(all) = Len(r.held) + lines - r.read /\ Numbers(all, lines, g)
    <2>1. r.read \in Int /\ r.read + Len(rest) = lines
      BY <1>1, <1>4
    <2>2. all \in Seq(Nat) /\ Len(all) = Len(r.held) + Len(rest) /\ Numbers(all, r.read + Len(rest), g)
      BY <1>2, <1>3, <1>4, <2>1, NumbersConcat
    <2>3. all \in Seq(1..MaxLines)
      BY <1>3, <1>4
    <2> QED  BY <1>1, <1>3, <1>4, <2>1, <2>2, <2>3
  <1>6. idle => all = r.held
    <2> SUFFICES ASSUME idle PROVE all = r.held
      OBVIOUS
    <2>1. Len(rest) = 0
      BY <1>1, <1>4
    <2>2. rest = <<>>
      BY <1>4, <2>1
    <2> QED  BY <1>3, <2>2
  <1> HIDE DEF all
  <1>7. /\ Numbers(kept, lines, g) /\ Numbers(batch, lines - Len(kept), g)
        /\ Len(kept) \in Nat /\ Len(batch) \in Nat /\ Len(kept) + Len(batch) = Len(all)
        /\ kept \in Seq(1..MaxLines)
    <2>1. CASE idle
      <3>1. kept = <<>> /\ batch = all /\ lines - Len(<<>>) = lines
        BY <1>1, <2>1
      <3>2. Numbers(<<>>, lines, g)
        BY DEF Numbers
      <3>3. Len(all) \in Nat /\ Len(<<>>) = 0 /\ <<>> \in Seq(1..MaxLines)
        BY <1>5
      <3> HIDE DEF kept, batch
      <3> QED  BY <1>5, <3>1, <3>2, <3>3
    <2>2. CASE ~idle
      <3>1. kept = LastN(all, 1) /\ batch = DropLast(all, 1)
        BY <2>2
      <3>2. lines \in Int /\ 1 \in Nat
        BY <1>1
      <3>3. Numbers(LastN(all, 1), lines, g) /\ Numbers(DropLast(all, 1), lines - Len(LastN(all, 1)), g)
        BY <1>5, <3>2, NumbersTrimmed
      <3>4. /\ LastN(all, 1) \in Seq(1..MaxLines) /\ DropLast(all, 1) \in Seq(1..MaxLines)
            /\ Len(LastN(all, 1)) + Len(DropLast(all, 1)) = Len(all)
        BY <1>5, <3>2, Trimmed
      <3> HIDE DEF kept, batch
      <3> QED  BY <3>1, <3>3, <3>4
    <2> QED  BY <2>1, <2>2
  <1> HIDE DEF kept, batch
  <1>8. /\ next \in ReaderRec /\ next.body = r.body /\ next.read = lines
        /\ next.held = kept /\ next.batch = <<>>
    BY <1>2, <1>7 DEF ReaderRec
  <1> HIDE DEF next
  <1>9. Consecutive(q, lines - Len(kept) - Len(batch), g)
    <2>1. r.read - Len(r.held) - Len(<<>>) = lines - Len(kept) - Len(batch)
      <3>1. \A a, b, c, x, y \in Int : b + c = a + x - y => y - a - 0 = x - b - c
        OBVIOUS
      <3>2. Len(kept) + Len(batch) = Len(r.held) + lines - r.read /\ Len(<<>>) = 0
        BY <1>5, <1>7
      <3>3. /\ Len(r.held) \in Int /\ Len(kept) \in Int /\ Len(batch) \in Int
            /\ lines \in Int /\ r.read \in Int
        BY <1>1, <1>3, <1>7
      <3> QED  BY <3>1, <3>2, <3>3
    <2> QED  BY <1>2, <2>1
  <1>10. Continues([next EXCEPT !.batch = batch, !.limit = limit], lines, q, "insert", g)
    <2>1. next.read <= lines /\ g.from <= next.read
      BY <1>1, <1>2, <1>8, <1>12
    <2> QED  BY <1>2, <1>7, <1>8, <1>9, <2>1, Emitted
  <1>11. batch = <<>> => Continues(next, lines, q, "poll", g)
    BY <1>1, <1>2, <1>7, <1>8, <1>9, <1>12 DEF Continues, Numbers
  <1> QED  BY <1>10, <1>11 DEF next, kept, batch, all, rest, idle

\* A reader that stops hands over what it held back.
LEMMA StopContinues ==
    ASSUME NEW r \in ReaderRec, NEW lines \in 0..MaxLines, NEW q, NEW limit, NEW state, NEW g,
           limit = r.body.history, state \notin {"open", "tail", "insert"},
           Continues(r, lines, q, state, g)
    PROVE  LET next == [r EXCEPT !.held = <<>>, !.final = TRUE]
           IN  Continues([next EXCEPT !.batch = r.held, !.limit = limit], lines, q, "insert", g)
  <1> DEFINE next == [r EXCEPT !.held = <<>>, !.final = TRUE]
  <1>1. r.read \in Nat /\ MaxLines \in Nat /\ <<>> \in Seq(1..MaxLines)
    BY BoundAssumption DEF ReaderRec
  <1>2. /\ r.read <= lines /\ Numbers(r.held, r.read, g)
        /\ Consecutive(q, r.read - Len(r.held) - Len(<<>>), g)
        /\ g.tail <= g.from /\ g.from <= r.read
    BY DEF Continues
  <1>3. next \in ReaderRec /\ next.body = r.body /\ next.read = r.read /\ next.held = <<>>
    BY <1>1 DEF ReaderRec
  <1>4. Len(r.held) \in Nat
    BY DEF ReaderRec
  <1> HIDE DEF next
  <1>5. /\ Numbers(<<>>, r.read, g) /\ r.read - Len(<<>>) = r.read
        /\ r.read - Len(r.held) - Len(<<>>) = r.read - Len(<<>>) - Len(r.held)
    BY <1>1, <1>4 DEF Numbers
  <1>6. Continues([next EXCEPT !.batch = r.held, !.limit = limit], lines, q, "insert", g)
    BY <1>2, <1>3, <1>5, Emitted, ZenonT(30)
  <1> QED  BY <1>6 DEF next

\* What is known of a running reader and its source.
LEMMA ReaderKnown ==
    ASSUME TypeOK, SerialInv, Follows, ServedInv, BufferInv, failures = 0,
           NEW s \in Sources, NEW n \in Live(s)
    PROVE  /\ n \in Ids /\ rpc[s][n] \in Active
           /\ reader[s][n] \in ReaderRec /\ reader[s][n].body \in Body
           /\ config[s] = reader[s][n].body /\ LimitNow(s) = reader[s][n].body.history
           /\ reader[s][n].body.history \in Nat \ {0}
           /\ file[reader[s][n].body.def] \in 0..MaxLines
           /\ buffer[s] \in Seq(Event) /\ opening[s] \in Opening
           /\ OneRun(buffer[s], opening[s]) /\ Fits(buffer[s], config[s]) /\ Reading(s, n)
  <1>1. n \in Ids /\ rpc[s][n] \in Active
    BY DEF Live
  <1>2. /\ reader[s][n] \in ReaderRec /\ buffer[s] \in Seq(Event)
        /\ config[s] = reader[s][n].body /\ opening[s] \in Opening
    BY <1>1 DEF TypeOK, Follows
  <1>3. reader[s][n].body \in Body
    BY <1>2 DEF ReaderRec
  <1>4. reader[s][n].body.history \in Nat \ {0} /\ reader[s][n].body.def \in Definitions
    BY <1>3, HistoryAssumption DEF Body
  <1>5. LimitNow(s) = reader[s][n].body.history
    BY <1>2, <1>3, NoSourceAssumption DEF LimitNow, Configured
  <1>6. file[reader[s][n].body.def] \in 0..MaxLines
    BY <1>4 DEF TypeOK
  <1>7. ~Worked(s)
    BY DEF Worked, ServedInv, WorkAlone
  <1>8. OneRun(buffer[s], opening[s]) /\ Fits(buffer[s], config[s]) /\ Reading(s, n)
    BY <1>1, <1>7 DEF BufferInv, Runs, Fitting, AllReading
  <1> QED  BY <1>1, <1>2, <1>3, <1>4, <1>5, <1>6, <1>8

\* Every step of a reader keeps the buffers.
LEMMA BufferReaderStep ==
    ASSUME TypeOK, TypeOK', SerialInv, Follows, ServedInv, BufferInv, MaxDeaths = 0,
           NEW s \in Sources, NEW n \in Ids, ReaderStep(s, n)
    PROVE  BufferInv'
  <1>1. /\ UNCHANGED <<config, hpc, handler, phase, failures>>
        /\ \A t \in Sources, m \in Ids :
               t # s \/ m # n => rpc'[t][m] = rpc[t][m] /\ reader'[t][m] = reader[t][m]
    BY ReaderMoves
  <1>2. UNCHANGED file /\ FilesGrow
    <2>1. UNCHANGED file
      BY DEF ReaderStep, ReaderTail, ReaderOpen, ReaderPoll, ReaderStop, ReaderInsert,
           ReaderFails, Reap
    <2> QED  BY <2>1, FilesStay
  <1>3. CASE Reap(s, n)
    <2>1. UNCHANGED <<buffer, opening>> /\ rpc'[s][n] \notin Active
      BY <1>3 DEF Reap, TypeOK, Active
    <2>2. phase # "boot"
      BY <1>3 DEF Reap, SerialInv, PhaseInv, NumberedInOrder, Ids
    <2> QED  BY <1>1, <1>2, <2>1, <2>2, BufferQuiet
  <1>4. ASSUME ~Reap(s, n)
        PROVE  n \in Live(s) /\ phase # "boot"
    <2>1. n \in Live(s)
      BY <1>4 DEF ReaderStep, ReaderTail, ReaderOpen, ReaderPoll, ReaderStop, ReaderInsert,
                  ReaderFails,
                  Live, Active
    <2>2. phase # "boot"
      BY <2>1 DEF SerialInv, PhaseInv, NumberedInOrder, Live, Active, Ids
    <2> QED  BY <2>1, <2>2
  <1> DEFINE r == reader[s][n]
             lines == file[r.body.def]
             g == opening[s]
             Known == /\ r \in ReaderRec /\ config[s] = r.body /\ LimitNow(s) = r.body.history
                      /\ r.body.history \in Nat \ {0} /\ lines \in 0..MaxLines
                      /\ OneRun(buffer[s], g) /\ Fits(buffer[s], config[s])
                      /\ Continues(r, lines, buffer[s], rpc[s][n], g)
                      /\ r.body \in Body /\ buffer[s] \in Seq(Event) /\ g \in Opening
  <1>5. ASSUME ~Reap(s, n), failures = 0 PROVE Known
    BY <1>4, <1>5, ReaderKnown DEF Reading
  \* A step that leaves the buffer alone.
  <1>12. ASSUME NEW new, NEW state, NEW then, ~Reap(s, n), UNCHANGED buffer,
               opening' = [opening EXCEPT ![s] = then],
               reader' = [reader EXCEPT ![s][n] = new], rpc' = [rpc EXCEPT ![s][n] = state],
               new.body = r.body,
               Known => /\ OneRun(buffer[s], then)
                        /\ state \in Active => Continues(new, lines, buffer[s], state, then)
        PROVE  BufferInv'
    <2>1. /\ reader'[s][n] = new /\ rpc'[s][n] = state /\ opening'[s] = then
          /\ \A t \in Sources : t # s => opening'[t] = opening[t]
      BY <1>12 DEF TypeOK
    <2>2. ASSUME failures = 0
          PROVE  /\ OneRun(buffer'[s], opening'[s]) /\ Fits(buffer'[s], config[s])
                 /\ rpc'[s][n] \in Active => Reading(s, n)'
      <3>1. Known
        BY <1>5, <1>12, <2>2
      <3>2. state \in Active => Continues(new, file'[new.body.def], buffer'[s], state, then)
        BY <1>2, <1>12, <3>1
      <3> QED  BY <1>12, <2>1, <3>1, <3>2 DEF Reading
    <2> HIDE DEF Known
    <2> QED  BY <1>1, <1>2, <1>4, <1>12, <2>1, <2>2, BufferReader
  \* One that does not open the log either.
  <1>6. ASSUME NEW new, NEW state, ~Reap(s, n), UNCHANGED <<buffer, opening>>,
               reader' = [reader EXCEPT ![s][n] = new], rpc' = [rpc EXCEPT ![s][n] = state],
               new.body = r.body,
               Known /\ state \in Active => Continues(new, lines, buffer[s], state, g)
        PROVE  BufferInv'
    <2>1. opening' = [opening EXCEPT ![s] = g]
      BY <1>6 DEF TypeOK
    <2>2. Known => OneRun(buffer[s], g)
      OBVIOUS
    <2> HIDE DEF Known, g, r, lines
    <2> QED  BY <1>6, <1>12, <2>1, <2>2
  <1>7. CASE ReaderOpen(s, n)
    <2> DEFINE tail == IF Remote(s, n) THEN lines ELSE r.read
               then == [tail |-> tail, from |-> lines]
               opened == [r EXCEPT !.read = lines]
               batch == LastN(Lines(1, tail), r.body.history)
               emitted == [opened EXCEPT !.batch = batch, !.limit = LimitNow(s)]
    <2>1. r \in ReaderRec
      BY DEF TypeOK
    <2>2. opened.body = r.body /\ emitted.body = r.body
      BY <2>1 DEF ReaderRec
    <2>3. /\ rpc[s][n] \in {"open", "tail"} /\ ~Reap(s, n) /\ UNCHANGED buffer
          /\ opening' = [opening EXCEPT ![s] = then]
          /\ \/ /\ tail = 0
                /\ rpc' = [rpc EXCEPT ![s][n] = "poll"]
                /\ reader' = [reader EXCEPT ![s][n] = opened]
             \/ /\ rpc' = [rpc EXCEPT ![s][n] = "insert"]
                /\ reader' = [reader EXCEPT ![s][n] = emitted]
      BY <1>7 DEF ReaderOpen, EmitBatch, Reap
    <2>4. Known => /\ OneRun(buffer[s], then)
                   /\ tail = 0 => Continues(opened, lines, buffer[s], "poll", then)
                   /\ Continues(emitted, lines, buffer[s], "insert", then)
      <3> SUFFICES ASSUME Known
                   PROVE  /\ OneRun(buffer[s], then)
                          /\ tail = 0 => Continues(opened, lines, buffer[s], "poll", then)
                          /\ Continues(emitted, lines, buffer[s], "insert", then)
        OBVIOUS
      <3>1. /\ buffer[s] = <<>> /\ r.read <= lines /\ r.read \in 0..MaxLines
            /\ lines \in 0..MaxLines
        BY <2>3 DEF Continues, ReaderRec
      <3>2. tail \in 0..MaxLines /\ tail <= lines
        BY <3>1, BoundAssumption
      <3>3. OneRun(buffer[s], then)
        <4>1. 0 \in Int /\ \A k \in DOMAIN <<>> : FALSE
          OBVIOUS
        <4>2. then.tail <= then.from
          BY <3>2
        <4> HIDE DEF then
        <4> QED  BY <3>1, <4>1, <4>2 DEF OneRun, OneDefinition, Consecutive
      <3>4. /\ Continues(r, lines, buffer[s], rpc[s][n], g) /\ rpc[s][n] \in {"open", "tail"}
            /\ r \in ReaderRec /\ lines \in 0..MaxLines /\ LimitNow(s) = r.body.history
        BY <2>3
      <3> HIDE DEF tail, r, lines, g
      <3>5. /\ tail = 0 => Continues(opened, lines, buffer[s], "poll", then)
            /\ Continues(emitted, lines, buffer[s], "insert", then)
        BY <3>2, <3>4, OpenContinues
      <3> QED  BY <3>3, <3>5
    <2> HIDE DEF opened, emitted, then, tail, Known, r, lines
    <2> QED  BY <1>12, <2>2, <2>3, <2>4
  <1>8. CASE ReaderPoll(s, n)
    <2> DEFINE all == r.held \o Lines(r.read + 1, lines)
               idle == lines = r.read
               batch == IF idle THEN all ELSE DropLast(all, 1)
               next == [r EXCEPT !.read = lines, !.held = IF idle THEN <<>> ELSE LastN(all, 1)]
               emitted == [next EXCEPT !.batch = batch, !.limit = LimitNow(s)]
    <2>1. r \in ReaderRec
      BY DEF TypeOK
    <2>2. next.body = r.body /\ emitted.body = r.body
      BY <2>1 DEF ReaderRec
    <2>3. /\ rpc[s][n] = "poll" /\ ~Reap(s, n) /\ UNCHANGED <<buffer, opening>>
          /\ \/ /\ batch = <<>>
                /\ UNCHANGED rpc
                /\ reader' = [reader EXCEPT ![s][n] = next]
             \/ /\ rpc' = [rpc EXCEPT ![s][n] = "insert"]
                /\ reader' = [reader EXCEPT ![s][n] = emitted]
      BY <1>8 DEF ReaderPoll, EmitBatch, Reap
    <2>4. UNCHANGED rpc => rpc' = [rpc EXCEPT ![s][n] = "poll"]
      BY <2>3, SMTT(30) DEF TypeOK
    <2>5. Known => /\ batch = <<>> => Continues(next, lines, buffer[s], "poll", g)
                   /\ Continues(emitted, lines, buffer[s], "insert", g)
      <3> SUFFICES ASSUME Known
                   PROVE  /\ batch = <<>> => Continues(next, lines, buffer[s], "poll", g)
                          /\ Continues(emitted, lines, buffer[s], "insert", g)
        OBVIOUS
      <3>1. /\ Continues(r, lines, buffer[s], "poll", g) /\ g \in Opening
            /\ r \in ReaderRec /\ lines \in 0..MaxLines /\ LimitNow(s) = r.body.history
        BY <2>3
      <3> HIDE DEF r, lines, g
      <3> QED  BY <3>1, PollContinues
    <2> HIDE DEF all, idle, batch, next, emitted, Known, r, lines
    <2> QED  BY <1>6, <2>2, <2>3, <2>4, <2>5
  <1>9. CASE ReaderStop(s, n)
    <2> DEFINE next == [r EXCEPT !.held = <<>>, !.final = TRUE]
               emitted == [next EXCEPT !.batch = r.held, !.limit = LimitNow(s)]
    <2>1. r \in ReaderRec
      BY DEF TypeOK
    <2>2. emitted.body = r.body
      BY <2>1 DEF ReaderRec
    <2>3. /\ rpc[s][n] # "insert" /\ ~Reap(s, n) /\ UNCHANGED <<buffer, opening>>
          /\ \/ /\ rpc' = [rpc EXCEPT ![s][n] = "done"]
                /\ UNCHANGED reader
             \/ /\ r.held # <<>>
                /\ rpc' = [rpc EXCEPT ![s][n] = "insert"]
                /\ reader' = [reader EXCEPT ![s][n] = emitted]
      BY <1>9 DEF ReaderStop, EmitBatch, Reap
    <2>4. UNCHANGED reader => reader' = [reader EXCEPT ![s][n] = r]
      BY DEF TypeOK
    <2>5. Known /\ r.held # <<>> => Continues(emitted, lines, buffer[s], "insert", g)
      <3> SUFFICES ASSUME Known, r.held # <<>>
                   PROVE  Continues(emitted, lines, buffer[s], "insert", g)
        OBVIOUS
      <3>1. /\ Continues(r, lines, buffer[s], rpc[s][n], g)
            /\ r \in ReaderRec /\ lines \in 0..MaxLines /\ LimitNow(s) = r.body.history
        OBVIOUS
      <3>2. rpc[s][n] \notin {"open", "tail", "insert"}
        BY <2>3, <3>1 DEF Continues
      <3> HIDE DEF r, lines, g
      <3> QED  BY <3>1, <3>2, StopContinues
    <2>6. "done" \notin Active
      BY DEF Active
    <2> HIDE DEF next, emitted, Known, r, lines
    <2> QED  BY <1>6, <2>2, <2>3, <2>4, <2>5, <2>6
  <1>10. CASE ReaderInsert(s, n)
    <2> DEFINE new == [r EXCEPT !.batch = <<>>, !.limit = 0]
               all == LastN(buffer[s] \o Events(r), r.body.history)
    <2>1. r \in ReaderRec
      BY DEF TypeOK
    <2>2. /\ new.body = r.body /\ new.read = r.read /\ new.held = r.held /\ new.batch = <<>>
      BY <2>1 DEF ReaderRec
    <2>3. /\ rpc[s][n] = "insert" /\ ~Reap(s, n)
          /\ buffer' = [buffer EXCEPT ![s] = Insert(s, r)]
          /\ reader' = [reader EXCEPT ![s][n] = new]
          /\ rpc'[s][n] \in {"done", "poll"}
      BY <1>10 DEF ReaderInsert, Reap, TypeOK
    <2>4. /\ buffer'[s] = Insert(s, r) /\ reader'[s][n] = new
          /\ \A t \in Sources : t # s => buffer'[t] = buffer[t] /\ opening'[t] = opening[t]
          /\ opening'[s] = g
      BY <1>10, <2>3 DEF TypeOK, ReaderInsert
    <2> HIDE DEF new
    <2>5. ASSUME failures = 0
          PROVE  /\ OneRun(buffer'[s], opening'[s]) /\ Fits(buffer'[s], config[s])
                 /\ rpc'[s][n] \in Active => Reading(s, n)'
      <3>1. Known
        BY <1>5, <2>3, <2>5
      <3>2. /\ r.limit = r.body.history /\ r.limit # 0
            /\ r.read <= lines /\ Numbers(r.held, r.read, g)
            /\ Numbers(r.batch, r.read - Len(r.held), g)
            /\ Consecutive(buffer[s], r.read - Len(r.held) - Len(r.batch), g)
            /\ g.tail <= g.from /\ g.from <= r.read
        BY <2>3, <3>1 DEF Continues
      <3>3. Insert(s, r) = all
        BY <3>2 DEF Insert
      <3>4. \A k \in DOMAIN buffer[s] :
                buffer[s][k].def = r.body.def /\ buffer[s][k].offset = r.body.offset
        BY <3>1, NoSourceAssumption DEF Fits
      <3> DEFINE e == r.read - Len(r.held) - Len(r.batch)
      <3>5. /\ r.read \in Int /\ Len(r.held) \in Nat /\ Len(r.batch) \in Nat
            /\ e \in Int /\ e + Len(r.batch) = r.read - Len(r.held)
        <4>1. r.read \in Int /\ Len(r.held) \in Nat /\ Len(r.batch) \in Nat
          BY <2>1, BoundAssumption DEF ReaderRec
        <4>2. \A a, b, c \in Int : a - b - c \in Int /\ a - b - c + c = a - b
          OBVIOUS
        <4>3. r.read \in Int /\ Len(r.held) \in Int /\ Len(r.batch) \in Int
          BY <4>1
        <4> HIDE DEF r
        <4> QED  BY <4>1, <4>2, <4>3
      <3> HIDE DEF e
      <3>6. Consecutive(buffer[s], e, g) /\ Numbers(r.batch, e + Len(r.batch), g)
        BY <3>2, <3>5 DEF e
      <3>7. /\ Consecutive(all, e + Len(r.batch), g) /\ OneRun(all, g)
            /\ Len(all) <= r.body.history
            /\ \A k \in DOMAIN all : all[k].def = r.body.def /\ all[k].offset = r.body.offset
        BY <2>1, <3>1, <3>2, <3>4, <3>5, <3>6, Inserted
      <3>8. Fits(all, config[s])
        BY <3>1, <3>7, NoSourceAssumption DEF Fits
      <3>9. Continues(new, lines, all, rpc'[s][n], g)
        <4>1. Numbers(<<>>, r.read - Len(r.held), g)
          BY DEF Numbers
        <4>2. r.read - Len(r.held) - Len(<<>>) = e + Len(r.batch)
          BY <3>5
        <4> QED  BY <2>2, <2>3, <3>2, <3>7, <4>1, <4>2 DEF Continues
      <3>10. Reading(s, n)'
        BY <1>2, <2>2, <2>4, <3>3, <3>9 DEF Reading
      <3> QED  BY <2>4, <3>3, <3>7, <3>8, <3>10
    <2> HIDE DEF Known, r
    <2> QED  BY <1>1, <1>2, <1>4, <2>3, <2>4, <2>5, BufferReader
  <1>11. CASE ReaderFails(s, n)
    <2>1. n \in Live(s) /\ phase = "closed"
      <3>1. ~(deaths < MaxDeaths)
        BY DEF TypeOK
      <3> QED  BY <1>11, <3>1 DEF ReaderFails, Live, Active
    <2>2. ~Present(s, n)
      BY <2>1 DEF SerialInv, PhaseInv
    <2> QED  BY <2>1, <2>2 DEF Present, Live
  <1>13. CASE ReaderTail(s, n)
    <2> DEFINE new == [r EXCEPT !.read = lines]
    <2>1. r \in ReaderRec
      BY DEF TypeOK
    <2>2. new.body = r.body
      BY <2>1 DEF ReaderRec
    <2>3. /\ rpc[s][n] = "open" /\ ~Reap(s, n) /\ UNCHANGED <<buffer, opening>>
          /\ rpc' = [rpc EXCEPT ![s][n] = "tail"]
          /\ reader' = [reader EXCEPT ![s][n] = new]
      BY <1>13 DEF ReaderTail, Reap
    <2>4. Known => Continues(new, lines, buffer[s], "tail", g)
      <3> SUFFICES ASSUME Known PROVE Continues(new, lines, buffer[s], "tail", g)
        OBVIOUS
      <3> QED  BY <2>3, TailContinues
    <2> HIDE DEF new, Known, r, lines, g
    <2> QED  BY <1>6, <2>2, <2>3, <2>4
  <1> QED  BY <1>3, <1>7, <1>8, <1>9, <1>10, <1>11, <1>13 DEF ReaderStep

-----------------------------------------------------------------------------
(* The handler, the lifespan and the log.                                  *)

\* What manager.start does to the readers: the new one, if there is one,
\* finds an empty buffer.
LEMMA ReadersStarted ==
    ASSUME TypeOK, NEW s \in Sources, NEW body \in Body, StartReader(s, body),
           HasRunningTask(s) \/ buffer'[s] = <<>>, UNCHANGED opening,
           \A t \in Sources : t # s \/ HasRunningTask(s) => buffer'[t] = buffer[t],
           NEW t \in Sources, NEW m \in Ids, rpc'[t][m] \in Active
    PROVE  \/ rpc'[t][m] = rpc[t][m] /\ reader'[t][m] = reader[t][m] /\ t = s /\ ~HasRunningTask(s)
           \/ ReadsOn(t, m) \/ New(t, m)
  <1>1. CASE HasRunningTask(s)
    BY <1>1 DEF StartReader, readerVars, ReadsOn
  <1>2. CASE ~HasRunningTask(s)
    <2> DEFINE n == created[s] + 1
               new == [IdleReader EXCEPT !.body = body]
    <2>1. /\ n \in Ids
          /\ rpc' = [rpc EXCEPT ![s][n] = "open"]
          /\ reader' = [reader EXCEPT ![s][n] = new]
      BY <1>2 DEF StartReader, CreateReader
    <2>2. new.read = 0 /\ new.held = <<>> /\ new.batch = <<>>
      BY DEF IdleReader
    <2> HIDE DEF n, new
    <2>3. /\ rpc'[t][m] = IF t = s /\ m = n THEN "open" ELSE rpc[t][m]
          /\ reader'[t][m] = IF t = s /\ m = n THEN new ELSE reader[t][m]
      BY <2>1 DEF TypeOK
    <2>4. CASE t = s /\ m = n
      BY <1>2, <2>2, <2>3, <2>4 DEF New
    <2>5. CASE t # s
      BY <2>3, <2>5 DEF ReadsOn
    <2>6. CASE t = s /\ m # n
      BY <1>2, <2>3, <2>6
    <2> QED  BY <2>4, <2>5, <2>6
  <1> QED  BY <1>1, <1>2

\* A reader is started for a source whose buffer is empty if it has none.
LEMMA AllReadingStarted ==
    ASSUME TypeOK, TypeOK', SerialInv, AllReading, UNCHANGED <<file, opening>>,
           NEW s \in Sources, NEW body \in Body, StartReader(s, body),
           HasRunningTask(s) \/ buffer'[s] = <<>>,
           \A t \in Sources : t # s \/ HasRunningTask(s) => buffer'[t] = buffer[t]
    PROVE  AllReading'
  <1>1. ASSUME NEW t \in Sources, NEW m \in Ids, rpc'[t][m] \in Active
        PROVE  ReadsOn(t, m) \/ New(t, m)
    <2>1. ASSUME rpc'[t][m] = rpc[t][m], t = s, ~HasRunningTask(s) PROVE FALSE
      <3>1. m \in Live(s)
        BY <1>1, <2>1 DEF Live
      <3> QED  BY <2>1, <3>1, OnlyRegisteredRuns
    <2> QED  BY <1>1, <2>1, ReadersStarted
  <1>2. FilesGrow
    BY FilesStay
  <1> QED  BY <1>1, <1>2, AllReadingKept

\* The rest of a PUT or DELETE up to its next await keeps the buffers.
LEMMA BufferReconfigures ==
    ASSUME TypeOK, TypeOK', BufferInv, NEW h, Handlers = {h}, NEW rec, Reconfigures(h, rec)
    PROVE  BufferInv'
  <1> DEFINE s == rec.src
             new == [rec EXCEPT !.todo = ToDo(rec)]
  <1>1. /\ s \in Sources /\ rec.body \in Body /\ rec.prev \in Body
        /\ config' = [config EXCEPT ![s] = Value(rec)]
        /\ \/ failures' # 0 /\ hpc'[h] = "idle"
           \/ failures' = failures /\ ToDo(rec) = <<>> /\ hpc'[h] = "idle"
           \/ /\ failures' = failures /\ ToDo(rec) # <<>> /\ hpc'[h] = "work"
              /\ handler'[h] = new
    BY Reconfigured
  <1>2. /\ hpc[h] \in {"idle", "stopping"}
        /\ rec.op = "put" => rec.prev = config[s]
        /\ UNCHANGED <<rpc, reader, buffer, opening, file, phase>>
        /\ rec \in HandlerRec
    BY DEF Reconfigures
  <1>3. new.src = s /\ new.todo = ToDo(rec) /\ new.body = rec.body /\ new.op = rec.op
    BY <1>2 DEF HandlerRec
  <1> HIDE DEF new
  <1> SUFFICES ASSUME failures' = 0 PROVE Runs' /\ Fitting' /\ Adjusted' /\ AllReading'
    BY <1>2 DEF BufferInv
  <1>4. /\ failures = 0 /\ Runs /\ Fitting /\ AllReading
        /\ \/ ToDo(rec) = <<>> /\ hpc'[h] = "idle"
           \/ ToDo(rec) # <<>> /\ hpc'[h] = "work" /\ handler'[h] = new
    BY <1>1 DEF BufferInv
  <1>5. \A t \in Sources : Fits(buffer[t], config[t])
    BY <1>2, <1>4 DEF Fitting, Worked
  <1>6. rec.op = "put" => /\ ToDo(rec) = Plan(rec.prev, rec.body) /\ Value(rec) = rec.body
                          /\ Adjusting(buffer[s], rec.body, ToDo(rec))
    <2> SUFFICES ASSUME rec.op = "put"
                 PROVE  Adjusting(buffer[s], rec.body, Plan(rec.prev, rec.body))
      BY DEF ToDo, Value
    <2> QED  BY <1>1, <1>2, <1>5, PlanAdjusts
  <1>7. rec.op # "put" => ToDo(rec) # <<>>
    BY DEF ToDo
  <1>8. AllReading'
    BY <1>2, <1>4, AllReadingKept, FilesStay DEF ReadsOn
  <1>9. Runs'
    BY <1>2, <1>4 DEF Runs
  <1>10. Adjusted'
    <2> SUFFICES ASSUME hpc'[h] = "work", (handler[h].op)' = "put"
                 PROVE  Adjusting(buffer[handler[h].src], handler[h].body, handler[h].todo)'
      BY DEF Adjusted
    <2>1. handler'[h] = new
      BY <1>4
    <2>2. Adjusting(buffer[s], rec.body, ToDo(rec))
      BY <1>3, <1>6, <2>1
    <2> QED  BY <1>2, <1>3, <2>1, <2>2
  <1>11. Fitting'
    <2> SUFFICES ASSUME NEW t \in Sources, ~Worked(t)'
                 PROVE  Fits(buffer[t], config'[t])
      BY <1>2 DEF Fitting
    <2>1. CASE t # s
      <3>1. config'[t] = config[t]
        BY <1>1, <2>1 DEF TypeOK
      <3> QED  BY <1>5, <3>1
    <2>2. CASE t = s
      <3>1. ToDo(rec) = <<>>
        BY <1>3, <1>4, <2>2 DEF Worked
      <3>2. rec.op = "put"
        BY <1>7, <3>1
      <3>3. Adjusting(buffer[s], rec.body, <<>>)
        BY <1>6, <3>1, <3>2
      <3>4. Fits(buffer[s], rec.body)
        BY <1>1, <3>3, NothingLeft
      <3>5. config'[s] = rec.body
        BY <1>1, <1>6, <3>2 DEF TypeOK
      <3> QED  BY <2>2, <3>4, <3>5
    <2> QED  BY <2>1, <2>2
  <1> QED  BY <1>8, <1>9, <1>10, <1>11

\* A stage of a plan keeps the buffers.
LEMMA BufferWork ==
    ASSUME TypeOK, TypeOK', WorkLeft, SerialInv, HandlerKnows, ServedInv, BufferInv,
           NEW h, Handlers = {h}, Work(h)
    PROVE  BufferInv'
  <1>0. PICK rec \in HandlerRec : rec = handler[h]
    BY DEF TypeOK
  <1>1. PICK s \in Sources : s = rec.src
    BY DEF HandlerRec
  <1>15. hpc[h] = "work" /\ (Raised(h) \/ Done(h))
    BY RaisedOrDone
  <1>16. phase # "boot"
    BY <1>15 DEF SerialInv, PhaseInv
  <1>17. CASE Raised(h)
    BY <1>16, <1>17 DEF Raised, BufferInv
  <1> SUFFICES ASSUME Done(h) PROVE BufferInv'
    BY <1>15, <1>17
  <1> DEFINE stage == Head(rec.todo)
             tail == Tail(rec.todo)
             new == [rec EXCEPT !.todo = tail]
  <1>2. rec.body \in Body /\ rec.todo \in Seq(Stage)
    BY DEF HandlerRec
  <1>3. /\ hpc[h] = "work" /\ rec.todo # <<>>
        /\ UNCHANGED <<config, file, phase, opening, failures>>
    BY <1>0, <1>15 DEF Done, WorkLeft
  <1>4. Live(s) = {} /\ InOrder(rec.todo)
    BY <1>0, <1>1, <1>3 DEF ServedInv, WorkAlone
  <1>5. /\ \A u \in Stage : Has(rec.todo, u) <=> u = stage \/ Has(tail, u)
        /\ stage = "start" => tail = <<>>
        /\ stage \in Stage
    BY <1>2, <1>3, <1>4, HeadOfPlan
  <1>6. \/ tail = <<>> /\ hpc'[h] = "idle"
        \/ tail # <<>> /\ hpc'[h] = "work" /\ handler'[h] = new
    BY <1>0 DEF Done, Continue, Reply, TypeOK
  <1>7. new.src = s /\ new.todo = tail /\ new.body = rec.body /\ new.op = rec.op
    BY <1>1 DEF HandlerRec
  <1>8. IF rec.op = "put" THEN config[s] = rec.body
        ELSE config[s] = NoSource /\ rec.todo = <<"delete_source">>
    BY <1>0, <1>1, <1>3 DEF HandlerKnows
  <1> HIDE DEF new, stage, tail
  <1> SUFFICES ASSUME failures = 0 PROVE Runs' /\ Fitting' /\ Adjusted' /\ AllReading'
    BY <1>3, <1>16 DEF BufferInv
  <1>10. /\ Runs /\ Fitting /\ AllReading /\ buffer[s] \in Seq(Event)
         /\ rec.op = "put" => Adjusting(buffer[s], rec.body, rec.todo)
    BY <1>0, <1>1, <1>3 DEF BufferInv, Adjusted, TypeOK
  <1>11. \A t \in Sources : t # s => ~Worked(t) /\ ~Worked(t)'
    BY <1>0, <1>1, <1>6, <1>7 DEF Worked
  \* What is left to show, once it is known what the stage does to the buffer.
  <1>12. ASSUME \A t \in Sources : t # s => buffer'[t] = buffer[t],
                OneRun(buffer'[s], opening[s]),
                rec.op = "put" => Adjusting(buffer'[s], rec.body, tail),
                rec.op # "put" => buffer'[s] = <<>> /\ tail = <<>>
         PROVE  Runs' /\ Fitting' /\ Adjusted'
    <2>1. Runs'
      BY <1>3, <1>10, <1>12 DEF Runs
    <2>2. Adjusted'
      <3> SUFFICES ASSUME hpc'[h] = "work", (handler[h].op)' = "put"
                   PROVE  Adjusting(buffer[handler[h].src], handler[h].body, handler[h].todo)'
        BY DEF Adjusted
      <3>1. handler'[h] = new
        BY <1>6
      <3>2. Adjusting(buffer'[s], rec.body, tail)
        BY <1>7, <1>12, <3>1
      <3> QED  BY <1>7, <3>1, <3>2
    <2>3. Fitting'
      <3> SUFFICES ASSUME NEW t \in Sources, ~Worked(t)'
                   PROVE  Fits(buffer'[t], config[t])
        BY <1>3 DEF Fitting
      <3>1. CASE t # s
        BY <1>10, <1>11, <1>12, <3>1 DEF Fitting
      <3>2. CASE t = s
        <4>1. tail = <<>>
          BY <1>6, <1>7, <3>2 DEF Worked
        <4>2. CASE rec.op = "put"
          <5>1. Fits(buffer'[s], rec.body)
            BY <1>2, <1>12, <4>1, <4>2, NothingLeft
          <5> QED  BY <1>8, <3>2, <4>2, <5>1
        <4>3. CASE rec.op # "put"
          BY <1>8, <1>12, <3>2, <4>3 DEF Fits
        <4> QED  BY <4>2, <4>3
      <3> QED  BY <3>1, <3>2
    <2> QED  BY <2>1, <2>2, <2>3
  <1>13. CASE stage = "start"
    <2>1. StartReader(s, rec.body) /\ UNCHANGED buffer /\ tail = <<>>
      BY <1>0, <1>1, <1>5, <1>13 DEF Done, stage
    <2>2. rec.op = "put"
      BY <1>2, <1>3, <1>8, <1>13 DEF stage
    <2>3. \A u : ~Has(tail, u)
      BY <2>1 DEF Has
    <2>4. /\ Has(rec.todo, "start") /\ ~Has(rec.todo, "delete_latest")
          /\ ~Has(rec.todo, "delete_source")
      BY <1>5, <1>13, <2>3 DEF Stage
    <2>5. buffer[s] = <<>>
      BY <1>10, <2>2, <2>4 DEF Adjusting
    <2>6. Adjusting(buffer[s], rec.body, tail)
      <3>1. rec.body.history \in Nat
        BY <1>2, HistoryAssumption DEF Body
      <3>2. Len(<<>>) = 0 /\ \A k \in DOMAIN <<>> : FALSE
        OBVIOUS
      <3> QED  BY <2>3, <2>5, <3>1, <3>2 DEF Adjusting
    <2>7. Runs' /\ Fitting' /\ Adjusted'
      BY <1>10, <1>12, <2>1, <2>2, <2>6 DEF Runs
    <2>8. AllReading'
      BY <1>2, <1>3, <1>10, <2>1, <2>5, AllReadingStarted
    <2> QED  BY <2>7, <2>8
  <1>14. CASE stage # "start"
    <2> DEFINE r == Stored(buffer[s], stage, rec.body)
    <2>1. buffer' = [buffer EXCEPT ![s] = r] /\ UNCHANGED <<rpc, reader>>
      BY <1>0, <1>1, <1>14 DEF Done, readerVars, stage
    <2>2. buffer'[s] = r /\ \A t \in Sources : t # s => buffer'[t] = buffer[t]
      BY <2>1 DEF TypeOK
    <2>0. opening[s].tail <= opening[s].from /\ OneRun(buffer[s], opening[s])
      BY <1>10 DEF Runs, OneRun
    <2>3. /\ OneRun(buffer[s], opening[s]) => OneRun(r, opening[s])
          /\ Adjusting(buffer[s], rec.body, rec.todo) => Adjusting(r, rec.body, tail)
          /\ stage = "delete_source" => r = <<>>
      BY <1>2, <1>3, <1>4, <1>10, <1>14, <2>0, StageStored DEF stage, tail
    <2> HIDE DEF r
    <2>4. rec.op # "put" => r = <<>> /\ tail = <<>>
      <3> SUFFICES ASSUME rec.todo = <<"delete_source">> PROVE r = <<>> /\ tail = <<>>
        BY <1>8
      <3>1. stage = "delete_source" /\ tail = <<>>
        BY DEF stage, tail
      <3> QED  BY <2>3, <3>1
    <2>5. Runs' /\ Fitting' /\ Adjusted'
      BY <1>10, <1>12, <2>2, <2>3, <2>4 DEF Runs
    <2>6. AllReading'
      <3>1. \A t \in Sources, n \in Ids : rpc'[t][n] \in Active => ReadsOn(t, n)
        BY <1>3, <1>4, <2>1, <2>2 DEF ReadsOn, Live
      <3> QED  BY <1>3, <1>10, <3>1, AllReadingKept, FilesStay
    <2> QED  BY <2>5, <2>6
  <1> QED  BY <1>13, <1>14

\* A request up to its first await keeps the buffers.
LEMMA BufferRequest ==
    ASSUME TypeOK, TypeOK', SerialInv, Follows, ServedInv, BufferInv,
           NEW h, Handlers = {h}, NEW s \in Sources, Request(h, s)
    PROVE  BufferInv'
  <1>1. /\ phase = "up" /\ hpc[h] = "idle"
        /\ \/ Waits(h, s)
           \/ \E rec : Reconfigures(h, rec)
           \/ \E body \in Body : Adds(h, s, body)
           \/ StartsAgain(h, s)
    BY RequestKind
  <1>2. CASE Waits(h, s)
    <2>1. UNCHANGED <<config, file, buffer, opening, rpc, reader, phase, failures>>
          /\ hpc[h] # "work" /\ hpc'[h] # "work"
      BY <1>2 DEF Waits
    <2>2. FilesGrow
      BY <2>1, FilesStay
    <2> QED  BY <2>1, <2>2, BufferQuiet
  <1>3. \A t \in Sources : failures = 0 => Fits(buffer[t], config[t])
    BY <1>1 DEF BufferInv, Fitting, Worked
  <1>4. ASSUME NEW body \in Body, Adds(h, s, body)
        PROVE  BufferInv'
    <2>1. /\ config[s] = NoSource /\ config' = [config EXCEPT ![s] = body]
          /\ UNCHANGED <<file, buffer, opening, phase, hpc, handler>>
      BY <1>4 DEF Adds
    <2> SUFFICES ASSUME failures' = 0 PROVE Runs' /\ Fitting' /\ Adjusted' /\ AllReading'
      BY <1>1, <2>1 DEF BufferInv
    <2>2. failures = 0 /\ (StartReader(s, body) \/ UNCHANGED <<rpc, reader>>)
      BY <1>4 DEF Adds
    <2>3. Runs /\ Fitting /\ AllReading
      BY <2>2 DEF BufferInv
    <2>4. buffer[s] = <<>>
      BY <1>3, <2>1, <2>2 DEF Fits
    <2>5. AllReading'
      <3>1. CASE StartReader(s, body)
        BY <2>1, <2>3, <2>4, <3>1, AllReadingStarted
      <3>2. CASE UNCHANGED <<rpc, reader>>
        BY <2>1, <2>3, <3>2, AllReadingKept, FilesStay DEF ReadsOn
      <3> QED  BY <2>2, <3>1, <3>2
    <2>6. Fitting'
      <3> SUFFICES ASSUME NEW t \in Sources PROVE Fits(buffer[t], config'[t])
        BY <2>1 DEF Fitting
      <3>1. CASE t = s
        <4>1. config'[t] = body /\ body # NoSource /\ body.history \in Nat
          BY <2>1, <3>1, NoSourceAssumption, HistoryAssumption DEF TypeOK, Body
        <4> QED  BY <2>4, <3>1, <4>1 DEF Fits
      <3>2. CASE t # s
        <4>1. config'[t] = config[t]
          BY <2>1, <3>2 DEF TypeOK
        <4> QED  BY <1>3, <2>2, <4>1
      <3> QED  BY <3>1, <3>2
    <2>7. Runs' /\ Adjusted'
      BY <1>1, <2>1, <2>3 DEF Runs, Adjusted
    <2> QED  BY <2>5, <2>6, <2>7
  <1>5. CASE StartsAgain(h, s)
    <2>1. /\ config[s] \in Body /\ Enabled(s) /\ StartReader(s, config[s])
          /\ UNCHANGED <<config, file, buffer, opening, phase, hpc, handler, failures>>
      BY <1>5 DEF StartsAgain, Enabled, Configured, TypeOK
    <2> SUFFICES ASSUME failures = 0 PROVE Runs' /\ Fitting' /\ Adjusted' /\ AllReading'
      BY <1>1, <2>1 DEF BufferInv
    <2>2. Runs /\ Fitting /\ AllReading
      BY DEF BufferInv
    <2>3. HasRunningTask(s)
      <3>1. Live(s) # {}
        BY <1>1, <2>1 DEF ServedInv, Served, Pending
      <3> QED  BY <3>1, OnlyRegisteredRuns
    <2>4. AllReading'
      BY <2>1, <2>2, <2>3, AllReadingStarted
    <2>5. Runs' /\ Adjusted' /\ Fitting'
      BY <1>1, <1>3, <2>1, <2>2 DEF Runs, Adjusted, Fitting
    <2> QED  BY <2>4, <2>5
  <1> QED  BY <1>1, <1>2, <1>4, <1>5, BufferReconfigures

\* The first readers find empty buffers.
LEMMA BufferStartAll ==
    ASSUME TypeOK, TypeOK', SerialInv, BufferInv, StartAll
    PROVE  BufferInv'
  <1>1. /\ 1 \in Ids /\ UNCHANGED <<config, file, buffer, opening, hpc, handler, failures>>
        /\ phase = "boot" /\ phase' = "up"
        /\ rpc' = [s \in Sources |->
                      IF Enabled(s) THEN [rpc[s] EXCEPT ![1] = "open"] ELSE rpc[s]]
        /\ reader' = [s \in Sources |->
                      IF Enabled(s) THEN [reader[s] EXCEPT ![1].body = config[s]]
                                    ELSE reader[s]]
    BY BoundAssumption DEF StartAll, Ids, countVars
  <1>2. \A s \in Sources, n \in Ids : rpc[s][n] = "unborn"
    BY <1>1 DEF SerialInv, PhaseInv, NumberedInOrder, Ids
  <1>3. \A s \in Sources : buffer[s] = <<>>
    BY <1>1 DEF BufferInv
  <1> SUFFICES ASSUME failures = 0 PROVE Runs' /\ Fitting' /\ Adjusted' /\ AllReading'
    BY <1>1 DEF BufferInv
  <1>4. Runs /\ Fitting /\ Adjusted /\ AllReading
    BY DEF BufferInv
  <1>5. Runs' /\ Fitting' /\ Adjusted'
    BY <1>1, <1>4 DEF Runs, Fitting, Adjusted, Worked
  <1>6. AllReading'
    <2> SUFFICES ASSUME NEW s \in Sources, NEW n \in Ids, rpc'[s][n] \in Active
                 PROVE  New(s, n)
      BY <1>1, <1>4, AllReadingKept, FilesStay
    <2>1. Enabled(s) /\ n = 1
      BY <1>1, <1>2 DEF TypeOK, Active
    <2>2. rpc'[s][n] = "open"
      BY <1>1, <2>1 DEF TypeOK
    <2>3. reader'[s][n] = [IdleReader EXCEPT !.body = config[s]]
      <3>1. reader[s][1] = IdleReader /\ reader[s] \in [Ids -> ReaderRec]
        BY <1>1 DEF BufferInv, TypeOK
      <3>2. reader'[s] = [reader[s] EXCEPT ![1].body = config[s]]
        BY <1>1, <2>1
      <3> QED  BY <1>1, <2>1, <3>1, <3>2
    <2>4. LET new == [IdleReader EXCEPT !.body = config[s]]
          IN  new.read = 0 /\ new.held = <<>> /\ new.batch = <<>>
      BY DEF IdleReader
    <2> QED  BY <1>1, <1>3, <2>2, <2>3, <2>4 DEF New
  <1> QED  BY <1>5, <1>6

\* Every step keeps the buffers.
LEMMA BufferStep ==
    ASSUME TypeOK, TypeOK', WorkLeft, SerialInv, Follows, HandlerKnows, ServedInv, BufferInv,
           [Next]_vars, MaxDeaths = 0, NEW h, Handlers = {h}
    PROVE  BufferInv'
  <1>1. ASSUME UNCHANGED <<buffer, rpc, config, opening, reader, hpc, handler, failures>>,
               FilesGrow, phase' = "boot" => phase = "boot"
        PROVE  BufferInv'
    BY <1>1, BufferQuiet
  <1>2. UNCHANGED file => FilesGrow
    BY FilesStay
  <1>3. CASE UNCHANGED vars
    BY <1>1, <1>2, <1>3 DEF vars, readerVars, countVars
  <1>4. ASSUME NEW s \in Sources, NEW n \in Ids, ReaderStep(s, n) PROVE BufferInv'
    BY <1>4, BufferReaderStep
  <1>5. CASE HandlerStep(h)
    BY <1>5, StoppedKind, BufferReconfigures, BufferWork DEF HandlerStep
  <1>6. ASSUME NEW s \in Sources, Request(h, s) PROVE BufferInv'
    BY <1>6, BufferRequest
  <1>7. CASE StartAll
    BY <1>7, BufferStartAll
  <1>8. CASE StopAll
    BY <1>1, <1>2, <1>8 DEF StopAll, countVars
  <1>9. CASE Close
    BY <1>1, <1>2, <1>9 DEF Close, countVars
  <1>10. ASSUME NEW d \in Definitions, Append1(d) PROVE BufferInv'
    <2>1. FilesGrow
      BY <1>10, BoundAssumption DEF Append1, FilesGrow, TypeOK
    <2> QED  BY <1>1, <1>10, <2>1 DEF Append1, readerVars, countVars
  <1> QED  BY <1>3, <1>4, <1>5, <1>6, <1>7, <1>8, <1>9, <1>10 DEF Next

\* The buffers are empty at first.
LEMMA BufferInit == Init => BufferInv
  <1> SUFFICES ASSUME Init PROVE BufferInv
    OBVIOUS
  <1>1. /\ \A s \in Sources : buffer[s] = <<>> /\ opening[s] = [tail |-> 0, from |-> 0]
        /\ \A s \in Sources, n \in Ids : reader[s][n] = IdleReader /\ rpc[s][n] \notin Active
        /\ \A h \in Handlers : hpc[h] = "idle"
        /\ \A s \in Sources : config[s] \in Body \cup {NoSource}
    BY DEF Init, Active
  <1>2. Runs
    <2>1. 0 \in Int /\ \A k \in DOMAIN <<>> : FALSE
      OBVIOUS
    <2>2. \A g : OneDefinition(<<>>) /\ Consecutive(<<>>, 0, g)
      BY <2>1 DEF OneDefinition, Consecutive
    <2>3. \A s \in Sources : opening[s].tail <= opening[s].from
      BY <1>1
    <2> QED  BY <1>1, <2>1, <2>2, <2>3 DEF Runs, OneRun
  <1>3. Fitting
    <2> SUFFICES ASSUME NEW s \in Sources, config[s] # NoSource
                 PROVE  Fits(<<>>, config[s])
      BY <1>1 DEF Fitting, Fits
    <2>1. config[s].history \in Nat
      BY <1>1, HistoryAssumption DEF Body
    <2>2. Len(<<>>) = 0 /\ \A k \in DOMAIN <<>> : FALSE
      OBVIOUS
    <2> QED  BY <2>1, <2>2 DEF Fits
  <1> QED  BY <1>1, <1>2, <1>3 DEF BufferInv, Adjusted, AllReading

\* The inductive invariant of one handler and readers that do not die.
WholeInv ==
    TypeOK /\ WorkLeft /\ SerialInv /\ Follows /\ HandlerKnows /\ ServedInv /\ BufferInv

\* WholeInv is inductive.
LEMMA WholeInductive ==
    ASSUME NEW h, Handlers = {h}, MaxDeaths = 0
    PROVE  /\ Init => WholeInv
           /\ WholeInv /\ [Next]_vars => WholeInv'
  <1>1. Init => WholeInv
    BY TypeInit, SerialInit, InitMaps, ServedInit, BufferInit DEF WholeInv
  <1>2. ASSUME WholeInv, [Next]_vars PROVE WholeInv'
    <2>1. TypeOK' /\ WorkLeft' /\ SerialInv'
      BY <1>2, TypeInductive, SerialStep DEF WholeInv
    <2>2. Follows' /\ HandlerKnows'
      BY <1>2, StepMaps DEF WholeInv
    <2>3. ServedInv'
      BY <1>2, ServedStep DEF WholeInv
    <2>4. BufferInv'
      BY <1>2, <2>1, BufferStep DEF WholeInv
    <2> QED  BY <2>1, <2>2, <2>3, <2>4 DEF WholeInv
  <1> QED  BY <1>1, <1>2

(* With one request at a time and no reader killed by an exception, the    *)
(* buffer of a source that no request is about holds what its present      *)
(* configuration allows and nothing else.                                  *)
THEOREM SerialBufferFollowsConfig ==
    ASSUME NEW h, Handlers = {h}, MaxDeaths = 0
    PROVE  Spec => []BufferFollowsConfig
  <1>1. WholeInv => BufferFollowsConfig
    <2> SUFFICES ASSUME WholeInv, NEW s \in Sources, Quiet(s), failures = 0
                 PROVE  IF Configured(s)
                        THEN /\ Len(buffer[s]) <= config[s].history
                             /\ \A k \in DOMAIN buffer[s] :
                                    /\ buffer[s][k].def = config[s].def
                                    /\ buffer[s][k].offset = config[s].offset
                        ELSE buffer[s] = <<>>
      BY DEF BufferFollowsConfig
    <2>1. ~Worked(s)
      BY DEF Quiet, Worked
    <2>2. Fits(buffer[s], config[s])
      BY <2>1 DEF WholeInv, BufferInv, Fitting
    <2> QED  BY <2>2 DEF Fits, Configured
  <1>2. /\ Init => WholeInv
        /\ WholeInv /\ [Next]_vars => WholeInv'
    BY WholeInductive
  <1> QED  BY <1>1, <1>2, PTL DEF Spec

(* Under the same conditions the buffer of a source holds lines of one log *)
(* in their order, and only where the reader opened the log are lines of it*)
(* skipped: those written between the tail read and the opening.  No       *)
(* restart stores a line twice or leaves another hole.                     *)
THEOREM SerialOnlyTheOpeningSkips ==
    ASSUME NEW h, Handlers = {h}, MaxDeaths = 0
    PROVE  Spec => []OnlyTheOpeningSkips
  <1>1. WholeInv => OnlyTheOpeningSkips
    <2> SUFFICES ASSUME WholeInv, failures = 0, NEW s \in Sources,
                        NEW k \in 2..Len(buffer[s])
                 PROVE  /\ buffer[s][k].def = buffer[s][k-1].def
                        /\ \/ buffer[s][k].line = buffer[s][k-1].line + 1
                           \/ /\ buffer[s][k-1].line = opening[s].tail
                              /\ buffer[s][k].line = opening[s].from + 1
      BY DEF OnlyTheOpeningSkips
    <2> DEFINE g == opening[s]
    <2>1. buffer[s] \in Seq(Event) /\ OneRun(buffer[s], g) /\ g \in Opening
      BY DEF WholeInv, TypeOK, BufferInv, Runs
    <2> HIDE DEF g
    <2>2. Len(buffer[s]) \in Nat /\ k \in DOMAIN buffer[s] /\ k - 1 \in DOMAIN buffer[s]
      BY <2>1
    <2>3. PICK e \in Int : Consecutive(buffer[s], e, g)
      BY <2>1 DEF OneRun
    <2>4. At(buffer[s][k].line, g) = At(buffer[s][k-1].line, g) + 1
      <3>1. /\ At(buffer[s][k].line, g) = e - Len(buffer[s]) + k
            /\ At(buffer[s][k-1].line, g) = e - Len(buffer[s]) + (k - 1)
        BY <2>2, <2>3 DEF Consecutive
      <3> QED  BY <2>2, <3>1, SMTT(30)
    <2>5. buffer[s][k].def = buffer[s][k-1].def
      BY <2>1, <2>2 DEF OneRun, OneDefinition
    <2>6. /\ buffer[s][k].line \in Nat \ {0} /\ buffer[s][k-1].line \in Nat \ {0}
          /\ g.tail \in Nat /\ g.from \in Nat /\ g.tail <= g.from
      <3>1. buffer[s][k] \in Event /\ buffer[s][k-1] \in Event
        BY <2>1, <2>2
      <3> QED  BY <2>1, <3>1, BoundAssumption DEF Event, Opening, OneRun
    <2>7. \A a, b \in Nat \ {0} :
              At(b, g) = At(a, g) + 1 => b = a + 1 \/ (a = g.tail /\ b = g.from + 1)
      <3> DEFINE t == g.tail
                 f == g.from
      <3> SUFFICES ASSUME NEW a \in Nat \ {0}, NEW b \in Nat \ {0}, At(b, g) = At(a, g) + 1
                   PROVE  b = a + 1 \/ (a = t /\ b = f + 1)
        OBVIOUS
      <3>1. /\ At(a, g) = IF a <= t THEN a + f - t ELSE IF a <= f THEN 0 - 5 ELSE a
            /\ At(b, g) = IF b <= t THEN b + f - t ELSE IF b <= f THEN 0 - 5 ELSE b
        BY DEF At
      <3>2. t \in Nat /\ f \in Nat /\ t <= f
        BY <2>6
      <3> HIDE DEF t, f
      <3> QED  BY <3>1, <3>2, SMTT(30)
    <2> QED  BY <2>4, <2>5, <2>6, <2>7 DEF g
  <1>2. /\ Init => WholeInv
        /\ WholeInv /\ [Next]_vars => WholeInv'
    BY WholeInductive
  <1> QED  BY <1>1, <1>2, PTL DEF Spec
=============================================================================

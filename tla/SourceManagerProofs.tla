------------------------ MODULE SourceManagerProofs ------------------------
(***************************************************************************)
(* Theorems of SourceManager.  TypeCorrect and StopFindsReader hold for    *)
(* every value of the constants.  The others are for requests that do not  *)
(* overlap (one handler) and readers that do not die: with two handlers    *)
(* TLC finds two readers for one source (source_two_readers.cfg).          *)
(***************************************************************************)
EXTENDS SourceManager, FiniteSetTheorems, SequenceTheorems, TLAPS

(* Not yet reaped: the task still runs, or its done-callback is pending.   *)
Present(s, n) == rpc[s][n] \in Active \cup {"done"}

(* A handler is inside SourceManager.stop, waiting for reader s, n.        *)
StopPending(s, n) ==
    \E h \in Handlers :
        hpc[h] = "stopping" /\ handler[h].src = s /\ handler[h].wait = n

(* Readers are numbered in the order of their creation.                    *)
NumberedInOrder ==
    \A s \in Sources : \A n \in Ids :
        /\ n > created[s] <=> rpc[s][n] = "unborn"
        /\ rpc[s][n] = "unborn" => ~rstop[s][n]

(* The tables point at created readers.                                    *)
TablesKnowCreated ==
    \A s \in Sources :
        /\ tasks[s] <= created[s]
        /\ stopEvents[s] <= created[s]

(* A reader is in the table until its callback has run.                    *)
PresentIsRegistered ==
    \A s \in Sources : \A n \in Ids : Present(s, n) => tasks[s] = n

(* A reader that is stopping is waited for.                                *)
StoppingIsAwaited ==
    \A s \in Sources : \A n \in Ids :
        Present(s, n) /\ (rstop[s][n] \/ rpc[s][n] = "done") /\ phase = "up"
            => StopPending(s, n)

(* Only a reader told to stop makes its last insertion.                    *)
FinalIsStopping ==
    \A s \in Sources : \A n \in Ids : reader[s][n].final => rstop[s][n]

(* Nobody else registers a reader while a handler waits for one.           *)
WaitingForRegistered ==
    \A h \in Handlers :
        hpc[h] = "stopping" =>
            /\ handler[h].wait \in Ids
            /\ tasks[handler[h].src] \in {0, handler[h].wait}

(* Requests are served while the application is up, and a shutdown waits   *)
(* for every reader there is.                                              *)
PhaseInv ==
    /\ \A h \in Handlers : hpc[h] # "idle" => phase = "up"
    /\ phase = "boot" => \A s \in Sources : created[s] = 0
    /\ phase = "stopping" =>
           \A s \in Sources : \A n \in Ids : Present(s, n) => <<s, n>> \in awaited
    /\ phase = "closed" => \A s \in Sources : \A n \in Ids : ~Present(s, n)

SerialInv ==
    /\ RegisteredReaderCanBeStopped
    /\ NumberedInOrder
    /\ TablesKnowCreated
    /\ PresentIsRegistered
    /\ StoppingIsAwaited
    /\ FinalIsStopping
    /\ WaitingForRegistered
    /\ PhaseInv

-----------------------------------------------------------------------------
(* Sequences and records the actions build.                                *)

(* The last n elements of a sequence, and all but them, are sequences over *)
(* the same set.                                                           *)
LEMMA TrimType ==
    ASSUME NEW S, NEW q \in Seq(S), NEW n \in Nat
    PROVE  LastN(q, n) \in Seq(S) /\ DropLast(q, n) \in Seq(S)
<1>1. Len(q) \in Nat /\ \A i \in 1..Len(q) : q[i] \in S
  OBVIOUS
<1>2. LastN(q, n) \in Seq(S)
  <2>1. CASE Len(q) <= n
    BY <2>1 DEF LastN
  <2>2. CASE ~(Len(q) <= n)
    BY <1>1, <2>2 DEF LastN
  <2> QED BY <2>1, <2>2
<1>3. DropLast(q, n) \in Seq(S)
  <2>1. CASE Len(q) <= n
    BY <2>1 DEF DropLast
  <2>2. CASE ~(Len(q) <= n)
    BY <1>1, <2>2 DEF DropLast
  <2> QED BY <2>1, <2>2
<1> QED BY <1>2, <1>3

(* A run of line numbers is a sequence of line numbers.                    *)
LEMMA LinesType ==
    ASSUME NEW i \in 1..(MaxLines + 1), NEW j \in 0..MaxLines
    PROVE  Lines(i, j) \in Seq(1..MaxLines)
<1> MaxLines \in Nat
  BY BoundAssumption
<1> DEFINE n == IF j < i THEN 0 ELSE j - i + 1
<1>1. n \in Nat
  OBVIOUS
<1>2. \A k \in 1..n : i + k - 1 \in 1..MaxLines
  OBVIOUS
<1>3. Lines(i, j) = [k \in 1..n |-> i + k - 1]
  BY DEF Lines
<1> HIDE DEF n
<1> QED BY <1>1, <1>2, <1>3

(* A plan is a sequence of stages.                                         *)
LEMMA PlanType ==
    ASSUME NEW prev \in Body, NEW new \in Body
    PROVE  Plan(prev, new) \in Seq(Stage)
<1>1. \A c \in BOOLEAN : \A t \in Stage : When(c, t) \in Seq(Stage)
  BY DEF When
<1>2. /\ DefinitionChanged(prev, new) \in BOOLEAN
      /\ RestartRequired(prev, new) \in BOOLEAN
  BY DEF DefinitionChanged, RestartRequired, RuntimeChanged, Body
<1>3. /\ When(DefinitionChanged(prev, new), "delete_source") \in Seq(Stage)
      /\ When(prev.offset # new.offset, "shift_source") \in Seq(Stage)
      /\ When(prev.history # new.history, "trim_source") \in Seq(Stage)
      /\ When(RestartRequired(prev, new) /\ ~DefinitionChanged(prev, new), "delete_latest")
             \in Seq(Stage)
      /\ When(RestartRequired(prev, new), "start") \in Seq(Stage)
  BY <1>1, <1>2 DEF Stage
<1> QED BY <1>3 DEF Plan

(* The idle records are records.                                           *)
LEMMA IdleType == IdleReader \in ReaderRec /\ IdleHandler \in HandlerRec
<1>1. SomeBody \in Body
  BY NonEmptyAssumption DEF SomeBody
<1>2. (CHOOSE s \in Sources : TRUE) \in Sources
  BY NonEmptyAssumption
<1>3. 0 \in Ref /\ 0 \in 0..MaxLines
  BY BoundAssumption DEF Ref
<1>4. << >> \in Seq(1..MaxLines) /\ << >> \in Seq(Stage)
  OBVIOUS
<1>5. IdleReader \in ReaderRec
  BY <1>1, <1>3, <1>4 DEF IdleReader, ReaderRec
<1>6. IdleHandler \in HandlerRec
  BY <1>1, <1>2, <1>3, <1>4 DEF IdleHandler, HandlerRec
<1> QED BY <1>5, <1>6

-----------------------------------------------------------------------------
(* Typing, in the groups of variables the operators change together.       *)

ReaderTypes ==
    /\ tasks \in [Sources -> Ref]
    /\ stopEvents \in [Sources -> Ref]
    /\ created \in [Sources -> Ref]
    /\ rpc \in [Sources -> [Ids -> ReaderStates]]
    /\ rstop \in [Sources -> [Ids -> BOOLEAN]]
    /\ reader \in [Sources -> [Ids -> ReaderRec]]
HandlerTypes ==
    /\ hpc \in [Handlers -> {"idle", "stopping", "work"}]
    /\ handler \in [Handlers -> HandlerRec]
ConfigTypes ==
    /\ config \in [Sources -> Body \cup {NoSource}]
    /\ failures \in 0..MaxFailures

LEMMA TypeGroups == TypeOK => ReaderTypes /\ HandlerTypes /\ ConfigTypes
BY DEF TypeOK, ReaderTypes, HandlerTypes, ConfigTypes

LEMMA CreateReaderType ==
    ASSUME ReaderTypes, NEW s \in Sources, NEW body \in Body, CreateReader(s, body)
    PROVE  ReaderTypes'
<1> DEFINE n == created[s] + 1
<1>1. n \in Ids /\ n \in Ref
  BY BoundAssumption DEF CreateReader, Ids, Ref
<1>2. [IdleReader EXCEPT !.body = body] \in ReaderRec
  BY IdleType DEF ReaderRec
<1>3. "open" \in ReaderStates
  BY DEF ReaderStates
<1>4. /\ created' = [created EXCEPT ![s] = n]
      /\ tasks' = [tasks EXCEPT ![s] = n]
      /\ stopEvents' = [stopEvents EXCEPT ![s] = n]
      /\ rpc' = [rpc EXCEPT ![s][n] = "open"]
      /\ reader' = [reader EXCEPT ![s][n] = [IdleReader EXCEPT !.body = body]]
      /\ UNCHANGED rstop
  BY DEF CreateReader
<1> HIDE DEF n
<1> QED BY <1>1, <1>2, <1>3, <1>4 DEF ReaderTypes

LEMMA StartReaderType ==
    ASSUME ReaderTypes, NEW s \in Sources, NEW body \in Body, StartReader(s, body)
    PROVE  ReaderTypes'
<1>1. CASE HasRunningTask(s)
  BY <1>1 DEF StartReader, ReaderTypes, readerVars
<1>2. CASE ~HasRunningTask(s)
  BY <1>2, CreateReaderType DEF StartReader
<1> QED BY <1>1, <1>2

LEMMA SignalStopType ==
    ASSUME ReaderTypes, NEW s \in Sources, SignalStop(s)
    PROVE  rstop' \in [Sources -> [Ids -> BOOLEAN]]
BY DEF ReaderTypes, SignalStop

LEMMA ForgetReaderType ==
    ASSUME ReaderTypes, NEW s \in Sources, ForgetReader(s)
    PROVE  tasks' \in [Sources -> Ref] /\ stopEvents' \in [Sources -> Ref]
BY BoundAssumption DEF ReaderTypes, ForgetReader, Ref

LEMMA ReplyType ==
    ASSUME HandlerTypes, NEW h \in Handlers, Reply(h)
    PROVE  HandlerTypes'
BY IdleType DEF HandlerTypes, Reply

LEMMA ContinueType ==
    ASSUME HandlerTypes, NEW h \in Handlers, NEW rec \in HandlerRec,
           NEW todo \in Seq(Stage), Continue(h, rec, todo)
    PROVE  HandlerTypes'
<1>1. CASE todo = <<>>
  BY <1>1, ReplyType DEF Continue
<1>2. CASE todo # <<>>
  <2>1. [rec EXCEPT !.todo = todo] \in HandlerRec
    BY DEF HandlerRec
  <2> QED BY <1>2, <2>1 DEF Continue, HandlerTypes
<1> QED BY <1>1, <1>2

LEMMA UpdateType ==
    ASSUME HandlerTypes, ConfigTypes, NEW h \in Handlers, NEW rec \in HandlerRec,
           NEW value \in Body \cup {NoSource}, NEW todo \in Seq(Stage),
           Update(h, rec, value, todo)
    PROVE  HandlerTypes' /\ ConfigTypes'
<1>1. config' \in [Sources -> Body \cup {NoSource}]
  BY DEF ConfigTypes, Update
<1>2. CASE Continue(h, rec, todo) /\ UNCHANGED failures
  BY <1>1, <1>2, ContinueType DEF ConfigTypes
<1>3. CASE /\ failures < MaxFailures
           /\ failures' = failures + 1
           /\ Reply(h)
  <2>1. failures' \in 0..MaxFailures
    BY <1>3, BoundAssumption DEF ConfigTypes
  <2> QED BY <1>1, <1>3, <2>1, ReplyType DEF ConfigTypes
<1> QED BY <1>2, <1>3 DEF Update

LEMMA AfterStopType ==
    ASSUME HandlerTypes, ConfigTypes, NEW h \in Handlers, NEW rec \in HandlerRec,
           AfterStop(h, rec)
    PROVE  HandlerTypes' /\ ConfigTypes'
<1>1. rec.body \in Body /\ rec.prev \in Body
  BY DEF HandlerRec
<1>2. CASE rec.op = "put"
  <2>1. (IF Configured(rec.src) THEN rec.body ELSE NoSource) \in Body \cup {NoSource}
    BY <1>1
  <2>2. Plan(rec.prev, rec.body) \in Seq(Stage)
    BY <1>1, PlanType
  <2>3. Update(h, rec, IF Configured(rec.src) THEN rec.body ELSE NoSource,
               Plan(rec.prev, rec.body))
    BY <1>2 DEF AfterStop
  <2> QED BY <2>1, <2>2, <2>3, UpdateType
<1>3. CASE rec.op # "put"
  <2>1. <<"delete_source">> \in Seq(Stage)
    BY DEF Stage
  <2> QED BY <1>3, <2>1, UpdateType DEF AfterStop
<1> QED BY <1>2, <1>3

LEMMA StopThenType ==
    ASSUME TypeOK, NEW h \in Handlers, NEW rec \in HandlerRec, StopThen(h, rec)
    PROVE  /\ HandlerTypes'
           /\ ConfigTypes'
           /\ tasks' \in [Sources -> Ref]
           /\ stopEvents' \in [Sources -> Ref]
           /\ rstop' \in [Sources -> [Ids -> BOOLEAN]]
<1>1. rec.src \in Sources
  BY DEF HandlerRec
<1>2. ReaderTypes /\ HandlerTypes /\ ConfigTypes
  BY TypeGroups
<1>3. rstop' \in [Sources -> [Ids -> BOOLEAN]]
  BY <1>1, <1>2, SignalStopType DEF StopThen
<1>4. CASE tasks[rec.src] # 0
  <2>1. [rec EXCEPT !.wait = tasks[rec.src]] \in HandlerRec
    BY <1>1, <1>2 DEF HandlerRec, ReaderTypes
  <2>2. /\ hpc' = [hpc EXCEPT ![h] = "stopping"]
        /\ handler' = [handler EXCEPT ![h] = [rec EXCEPT !.wait = tasks[rec.src]]]
        /\ UNCHANGED <<config, tasks, stopEvents, failures>>
    BY <1>4 DEF StopThen
  <2> QED BY <1>2, <1>3, <2>1, <2>2 DEF HandlerTypes, ConfigTypes, ReaderTypes
<1>5. CASE tasks[rec.src] = 0
  BY <1>1, <1>2, <1>3, <1>5, ForgetReaderType, AfterStopType DEF StopThen
<1> QED BY <1>4, <1>5

LEMMA EmitBatchType ==
    ASSUME TypeOK, NEW s \in Sources, NEW n \in Ids, NEW batch \in Seq(1..MaxLines),
           NEW next \in ReaderRec, EmitBatch(s, n, batch, next)
    PROVE  /\ reader' \in [Sources -> [Ids -> ReaderRec]]
           /\ rpc' \in [Sources -> [Ids -> ReaderStates]]
           /\ UNCHANGED status
<1>1. LimitNow(s) \in Histories \cup {0}
  BY DEF LimitNow, Configured, TypeOK, Body
<1>2. [next EXCEPT !.batch = batch, !.limit = LimitNow(s)] \in ReaderRec
  BY <1>1 DEF ReaderRec
<1>3. "insert" \in ReaderStates
  BY DEF ReaderStates
<1> QED BY <1>2, <1>3 DEF EmitBatch, TypeOK

LEMMA ReportType ==
    ASSUME TypeOK, NEW s \in Sources,
           NEW state \in {"none", "running", "error", "stopped"}, Report(s, state)
    PROVE  status' \in [Sources -> {"none", "running", "error", "stopped"}]
BY DEF TypeOK, Report

(* The variables a reader step may change.                                 *)
ReaderStepTypes ==
    /\ buffer \in [Sources -> Seq(Event)]
    /\ status \in [Sources -> {"none", "running", "error", "stopped"}]
    /\ tasks \in [Sources -> Ref]
    /\ rpc \in [Sources -> [Ids -> ReaderStates]]
    /\ reader \in [Sources -> [Ids -> ReaderRec]]
    /\ opening \in [Sources -> Opening]
    /\ deaths \in 0..MaxDeaths

LEMMA ReaderTailType ==
    ASSUME TypeOK, NEW s \in Sources, NEW n \in Ids, ReaderTail(s, n)
    PROVE  ReaderStepTypes'
<1> DEFINE r == reader[s][n]
           new == [r EXCEPT !.read = file[r.body.def]]
<1>1. r \in ReaderRec /\ r.body \in Body
  BY DEF TypeOK, ReaderRec
<1>2. file[r.body.def] \in 0..MaxLines
  BY <1>1 DEF TypeOK, Body
<1>3. new \in ReaderRec
  BY <1>1, <1>2 DEF ReaderRec
<1>4. /\ rpc' = [rpc EXCEPT ![s][n] = "tail"]
      /\ reader' = [reader EXCEPT ![s][n] = new]
      /\ UNCHANGED <<buffer, status, opening, tasks, deaths>>
  BY DEF ReaderTail, countVars
<1> HIDE DEF new
<1> QED BY <1>3, <1>4 DEF TypeOK, ReaderStepTypes, ReaderStates

LEMMA ReaderOpenType ==
    ASSUME TypeOK, NEW s \in Sources, NEW n \in Ids, ReaderOpen(s, n)
    PROVE  ReaderStepTypes'
<1> DEFINE r == reader[s][n]
           size == file[r.body.def]
           end == IF Remote(s, n) THEN size ELSE r.read
           opened == [r EXCEPT !.read = size]
           tail == LastN(Lines(1, end), r.body.history)
<1>1. r \in ReaderRec /\ r.body \in Body
  BY DEF TypeOK, ReaderRec
<1>2. size \in 0..MaxLines /\ r.body.history \in Nat
  BY <1>1, HistoryAssumption DEF TypeOK, Body
<1>3. opened \in ReaderRec /\ end \in 0..MaxLines
  BY <1>1, <1>2 DEF ReaderRec
<1> HIDE DEF end
<1>4. tail \in Seq(1..MaxLines)
  <2>1. 1 \in 1..(MaxLines + 1)
    BY BoundAssumption
  <2> QED BY <1>2, <1>3, <2>1, LinesType, TrimType
<1>9. opening' \in [Sources -> Opening]
  <2>1. opening' = [opening EXCEPT ![s] = [tail |-> end, from |-> size]]
    BY DEF ReaderOpen, end
  <2> QED BY <1>2, <1>3, <2>1 DEF TypeOK, Opening
<1>5. /\ IF end = 0
         THEN /\ rpc' = [rpc EXCEPT ![s][n] = "poll"]
              /\ reader' = [reader EXCEPT ![s][n] = opened]
              /\ Report(s, "running")
         ELSE EmitBatch(s, n, tail, opened)
      /\ UNCHANGED <<buffer, tasks, deaths>>
  BY DEF ReaderOpen, countVars, end
<1> HIDE DEF opened, tail, size
<1>6. CASE end = 0
  <2>1. Report(s, "running")
    BY <1>5, <1>6
  <2>2. status' \in [Sources -> {"none", "running", "error", "stopped"}]
    BY <2>1, ReportType
  <2>3. /\ rpc' = [rpc EXCEPT ![s][n] = "poll"]
        /\ reader' = [reader EXCEPT ![s][n] = opened]
    BY <1>5, <1>6
  <2> QED BY <1>3, <1>5, <1>9, <2>2, <2>3 DEF TypeOK, ReaderStepTypes, ReaderStates
<1>7. CASE end # 0
  <2>1. EmitBatch(s, n, tail, opened)
    BY <1>5, <1>7
  <2> QED BY <1>3, <1>4, <1>5, <1>9, <2>1, EmitBatchType DEF TypeOK, ReaderStepTypes
<1> QED BY <1>6, <1>7

LEMMA ReaderPollType ==
    ASSUME TypeOK, NEW s \in Sources, NEW n \in Ids, ReaderPoll(s, n)
    PROVE  ReaderStepTypes'
<1> DEFINE r == reader[s][n]
           size == file[r.body.def]
           all == r.held \o Lines(r.read + 1, size)
           idle == size = r.read
           batch == IF idle THEN all ELSE DropLast(all, 1)
           keep == IF idle THEN <<>> ELSE LastN(all, 1)
           next == [r EXCEPT !.read = size, !.held = keep]
<1>1. r \in ReaderRec /\ r.body \in Body
  BY DEF TypeOK, ReaderRec
<1>2. size \in 0..MaxLines
  BY <1>1 DEF TypeOK, Body
<1>3. Lines(r.read + 1, size) \in Seq(1..MaxLines)
  <2>1. r.read + 1 \in 1..(MaxLines + 1)
    BY <1>1, BoundAssumption DEF ReaderRec
  <2> QED BY <1>2, <2>1, LinesType
<1>4. all \in Seq(1..MaxLines)
  BY <1>1, <1>3 DEF ReaderRec
<1>5. DropLast(all, 1) \in Seq(1..MaxLines) /\ LastN(all, 1) \in Seq(1..MaxLines)
  BY <1>4, TrimType
<1>6. batch \in Seq(1..MaxLines) /\ keep \in Seq(1..MaxLines)
  <2>1. <<>> \in Seq(1..MaxLines)
    OBVIOUS
  <2> HIDE DEF all
  <2> QED BY <1>4, <1>5, <2>1
<1>7. next \in ReaderRec
  <2>1. size \in 0..MaxLines /\ keep \in Seq(1..MaxLines) /\ r \in ReaderRec
    BY <1>1, <1>2, <1>6
  <2> HIDE DEF keep, size, r
  <2> QED BY <2>1 DEF ReaderRec
<1>8. /\ IF batch = <<>>
         THEN /\ reader' = [reader EXCEPT ![s][n] = next]
              /\ Report(s, "running")
              /\ UNCHANGED rpc
         ELSE EmitBatch(s, n, batch, next)
      /\ UNCHANGED <<buffer, opening, tasks, deaths>>
  BY DEF ReaderPoll, countVars
<1> HIDE DEF batch, next
<1>9. CASE batch = <<>>
  <2>1. Report(s, "running")
    BY <1>8, <1>9
  <2>2. status' \in [Sources -> {"none", "running", "error", "stopped"}]
    BY <2>1, ReportType
  <2>3. reader' = [reader EXCEPT ![s][n] = next] /\ UNCHANGED rpc
    BY <1>8, <1>9
  <2> QED BY <1>7, <1>8, <2>2, <2>3 DEF TypeOK, ReaderStepTypes
<1>10. CASE batch # <<>>
  BY <1>6, <1>7, <1>8, <1>10, EmitBatchType DEF TypeOK, ReaderStepTypes
<1> QED BY <1>9, <1>10

LEMMA ReaderStopType ==
    ASSUME TypeOK, NEW s \in Sources, NEW n \in Ids, ReaderStop(s, n)
    PROVE  ReaderStepTypes'
<1> DEFINE r == reader[s][n]
           next == [r EXCEPT !.held = <<>>, !.final = TRUE]
<1>1. r \in ReaderRec
  BY DEF TypeOK
<1>2. r.held \in Seq(1..MaxLines) /\ next \in ReaderRec
  <2>1. <<>> \in Seq(1..MaxLines)
    OBVIOUS
  <2> HIDE DEF r
  <2> QED BY <1>1, <2>1 DEF ReaderRec
<1>3. /\ IF r.held = <<>>
         THEN /\ rpc' = [rpc EXCEPT ![s][n] = "done"]
              /\ Report(s, "stopped")
              /\ UNCHANGED reader
         ELSE EmitBatch(s, n, r.held, next)
      /\ UNCHANGED <<buffer, opening, tasks, deaths>>
  BY DEF ReaderStop, countVars
<1> HIDE DEF next
<1>4. CASE r.held = <<>>
  <2>1. Report(s, "stopped")
    BY <1>3, <1>4
  <2>2. status' \in [Sources -> {"none", "running", "error", "stopped"}]
    BY <2>1, ReportType
  <2>3. rpc' = [rpc EXCEPT ![s][n] = "done"] /\ UNCHANGED reader
    BY <1>3, <1>4
  <2> QED BY <1>3, <2>2, <2>3 DEF TypeOK, ReaderStepTypes, ReaderStates
<1>5. CASE r.held # <<>>
  BY <1>2, <1>3, <1>5, EmitBatchType DEF TypeOK, ReaderStepTypes
<1> QED BY <1>4, <1>5

LEMMA EndBatchType ==
    ASSUME NEW r \in ReaderRec
    PROVE  [r EXCEPT !.batch = <<>>, !.limit = 0] \in ReaderRec
<1>1. <<>> \in Seq(1..MaxLines)
  OBVIOUS
<1> QED BY <1>1 DEF ReaderRec

LEMMA InsertType ==
    ASSUME TypeOK, NEW s \in Sources, NEW r \in ReaderRec
    PROVE  Insert(s, r) \in Seq(Event)
<1>1. r.batch \in Seq(1..MaxLines) /\ r.body \in Body /\ r.limit \in Histories \cup {0}
  <2>1. r.batch \in Seq(1..MaxLines)
    BY DEF ReaderRec
  <2>2. r.body \in Body
    BY DEF ReaderRec
  <2>3. r.limit \in Histories \cup {0}
    BY DEF ReaderRec
  <2> QED BY <2>1, <2>2, <2>3
<1>2. r.limit \in Nat
  <2>1. \A x \in Histories \cup {0} : x \in Nat
    BY HistoryAssumption
  <2> QED BY <1>1, <2>1, Zenon
<1>3. Len(r.batch) \in Nat /\ \A k \in 1..Len(r.batch) : r.batch[k] \in 1..MaxLines
  BY <1>1, LenProperties, ElementOfSeq
<1>4. \A k \in 1..Len(r.batch) :
         [def |-> r.body.def, line |-> r.batch[k], offset |-> r.body.offset] \in Event
  BY <1>1, <1>3 DEF Event, Body
<1>5. Events(r) \in Seq(Event)
  BY <1>3, <1>4 DEF Events
<1>6. buffer[s] \o Events(r) \in Seq(Event)
  BY <1>5 DEF TypeOK
<1>7. LastN(buffer[s] \o Events(r), r.limit) \in Seq(Event)
  BY <1>2, <1>6, TrimType
<1> QED BY <1>6, <1>7 DEF Insert

LEMMA ReaderInsertType ==
    ASSUME TypeOK, NEW s \in Sources, NEW n \in Ids, ReaderInsert(s, n)
    PROVE  ReaderStepTypes'
<1> DEFINE r == reader[s][n]
<1>1. r \in ReaderRec
  BY DEF TypeOK
<1>2. [r EXCEPT !.batch = <<>>, !.limit = 0] \in ReaderRec
  BY <1>1, EndBatchType
<1>3. buffer' \in [Sources -> Seq(Event)]
  <2>1. Insert(s, r) \in Seq(Event)
    BY <1>1, InsertType
  <2> QED BY <2>1 DEF ReaderInsert, TypeOK
<1>4. status' \in [Sources -> {"none", "running", "error", "stopped"}]
  <2>1. Report(s, IF r.final THEN "stopped" ELSE "running")
    BY DEF ReaderInsert
  <2> QED BY <2>1, ReportType
<1>5. rpc' \in [Sources -> [Ids -> ReaderStates]]
  BY DEF ReaderInsert, TypeOK, ReaderStates
<1> QED BY <1>2, <1>3, <1>4, <1>5 DEF ReaderInsert, TypeOK, ReaderStepTypes, countVars

LEMMA ReaderFailsType ==
    ASSUME TypeOK, NEW s \in Sources, NEW n \in Ids, ReaderFails(s, n)
    PROVE  ReaderStepTypes'
<1> DEFINE r == reader[s][n]
           survives == r.body.def \in RemoteDefinitions /\ ~r.final
<1>1. [r EXCEPT !.batch = <<>>, !.limit = 0] \in ReaderRec
  BY EndBatchType, ZenonT(30) DEF TypeOK
<1>2. deaths' \in 0..MaxDeaths
  BY BoundAssumption DEF ReaderFails, TypeOK
<1>3. status' \in [Sources -> {"none", "running", "error", "stopped"}]
  <2>1. IF survives THEN Report(s, "error") ELSE UNCHANGED status
    BY DEF ReaderFails
  <2> QED BY <2>1, ReportType DEF TypeOK
<1>4. rpc' \in [Sources -> [Ids -> ReaderStates]]
  BY DEF ReaderFails, TypeOK, ReaderStates
<1> QED BY <1>1, <1>2, <1>3, <1>4 DEF ReaderFails, TypeOK, ReaderStepTypes

LEMMA ReapType ==
    ASSUME TypeOK, NEW s \in Sources, NEW n \in Ids, Reap(s, n)
    PROVE  ReaderStepTypes'
<1>1. 0 \in Ref
  BY BoundAssumption DEF Ref
<1> QED BY <1>1, IdleType DEF Reap, TypeOK, ReaderStepTypes, ReaderStates, countVars

LEMMA ReaderStepType ==
    ASSUME TypeOK, NEW s \in Sources, NEW n \in Ids, ReaderStep(s, n)
    PROVE  TypeOK'
<1>1. ReaderStepTypes'
  BY ReaderTailType, ReaderOpenType, ReaderPollType, ReaderStopType, ReaderInsertType,
     ReaderFailsType, ReapType DEF ReaderStep
<1>2. UNCHANGED <<config, file, stopEvents, created, rstop, hpc, handler, phase,
                  awaited, requests, failures>>
  BY DEF ReaderStep, ReaderTail, ReaderOpen, ReaderPoll, ReaderStop, ReaderInsert,
         ReaderFails, Reap, countVars
<1> QED BY <1>1, <1>2 DEF TypeOK, ReaderStepTypes

-----------------------------------------------------------------------------
(* Typing of the requests.                                                 *)

LEMMA StoredType ==
    ASSUME NEW q \in Seq(Event), NEW body \in Body,
           NEW stage \in Stage \ {"start"}
    PROVE  Stored(q, stage, body) \in Seq(Event)
<1>1. body.history \in Nat /\ body.offset \in Offsets
  BY HistoryAssumption DEF Body
<1>2. CASE stage = "delete_source"
  BY <1>2 DEF Stored
<1>3. CASE stage = "shift_source"
  <2>1. Len(q) \in Nat /\ DOMAIN q = 1..Len(q) /\ \A k \in 1..Len(q) : q[k] \in Event
    BY LenProperties, ElementOfSeq
  <2>2. \A k \in 1..Len(q) : [q[k] EXCEPT !.offset = body.offset] \in Event
    BY <1>1, <2>1 DEF Event
  <2>3. [k \in DOMAIN q |-> [q[k] EXCEPT !.offset = body.offset]] \in Seq(Event)
    BY <2>1, <2>2
  <2> QED BY <1>3, <2>3 DEF Stored
<1>4. CASE stage = "trim_source"
  BY <1>1, <1>4, TrimType DEF Stored
<1>5. CASE stage = "delete_latest"
  BY <1>1, <1>5, TrimType DEF Stored
<1> QED BY <1>2, <1>3, <1>4, <1>5 DEF Stage

LEMMA UpdateSourceType ==
    ASSUME TypeOK, NEW h \in Handlers, NEW s \in Sources, NEW body \in Body,
           UpdateSource(h, s, body)
    PROVE  HandlerTypes' /\ ConfigTypes' /\ ReaderTypes'
<1> DEFINE rec == [IdleHandler EXCEPT !.op = "put", !.src = s, !.body = body,
                                      !.prev = config[s]]
<1>1. ReaderTypes /\ HandlerTypes /\ ConfigTypes
  BY TypeGroups
<1>2. config[s] \in Body
  BY DEF UpdateSource, Configured, TypeOK
<1>3. rec \in HandlerRec
  BY <1>2, IdleType DEF HandlerRec
<1>4. IF StopRequired(config[s], body)
      THEN StopThen(h, rec) /\ UNCHANGED <<created, rpc, reader>>
      ELSE AfterStop(h, rec) /\ UNCHANGED readerVars
  BY DEF UpdateSource
<1> HIDE DEF rec
<1>5. CASE StopRequired(config[s], body)
  BY <1>1, <1>3, <1>4, <1>5, StopThenType DEF ReaderTypes
<1>6. CASE ~StopRequired(config[s], body)
  BY <1>1, <1>3, <1>4, <1>6, AfterStopType DEF ReaderTypes, readerVars
<1> QED BY <1>5, <1>6

LEMMA ReceiveType ==
    ASSUME TypeOK, NEW h \in Handlers, Receive(h)
    PROVE  requests' \in 0..MaxRequests
BY BoundAssumption DEF TypeOK, Receive

LEMMA RequestType ==
    ASSUME TypeOK, NEW h \in Handlers, NEW s \in Sources, Request(h, s)
    PROVE  TypeOK'
<1>1. ReaderTypes /\ HandlerTypes /\ ConfigTypes
  BY TypeGroups
<1>2. Receive(h)
  BY DEF Request, Create, Put, StartSource, StopSource, Delete
<1>3. requests' \in 0..MaxRequests
  BY <1>2, ReceiveType
<1>4. HandlerTypes' /\ ConfigTypes' /\ ReaderTypes'
  <2>1. ASSUME NEW body \in Body, Create(h, s, body)
        PROVE  HandlerTypes' /\ ConfigTypes' /\ ReaderTypes'
    <3>1. config' \in [Sources -> Body \cup {NoSource}]
      BY <2>1 DEF Create, TypeOK
    <3>2. failures' \in 0..MaxFailures
      BY <2>1, BoundAssumption DEF Create, TypeOK
    <3>3. ReaderTypes'
      <4>1. CASE StartReader(s, body)
        BY <1>1, <4>1, StartReaderType
      <4>2. CASE UNCHANGED readerVars
        BY <1>1, <4>2 DEF ReaderTypes, readerVars
      <4> QED BY <2>1, <4>1, <4>2 DEF Create
    <3>4. HandlerTypes'
      BY <1>1, <2>1 DEF Create, HandlerTypes
    <3> QED BY <3>1, <3>2, <3>3, <3>4 DEF ConfigTypes
  <2>2. ASSUME NEW body \in Body, Put(h, s, body)
        PROVE  HandlerTypes' /\ ConfigTypes' /\ ReaderTypes'
    BY <2>2, UpdateSourceType DEF Put
  <2>3. CASE StartSource(h, s)
    <3>1. config[s] \in Body
      BY <2>3 DEF StartSource, Configured, TypeOK
    <3>2. CASE config[s].enabled
      <4>1. StartReader(s, config[s]) /\ UNCHANGED <<config, hpc, handler, failures>>
        BY <2>3, <3>2 DEF StartSource
      <4>2. ReaderTypes'
        BY <1>1, <3>1, <4>1, StartReaderType
      <4> QED BY <1>1, <4>1, <4>2 DEF HandlerTypes, ConfigTypes
    <3>3. CASE ~config[s].enabled
      <4>1. [config[s] EXCEPT !.enabled = TRUE] \in Body
        BY <3>1 DEF Body
      <4>2. UpdateSource(h, s, [config[s] EXCEPT !.enabled = TRUE])
        BY <2>3, <3>3 DEF StartSource
      <4> QED BY <4>1, <4>2, UpdateSourceType
    <3> QED BY <3>2, <3>3
  <2>4. CASE StopSource(h, s)
    <3>1. config[s] \in Body
      BY <2>4 DEF StopSource, Configured, TypeOK
    <3>2. [config[s] EXCEPT !.enabled = FALSE] \in Body
      BY <3>1 DEF Body
    <3>3. UpdateSource(h, s, [config[s] EXCEPT !.enabled = FALSE])
      BY <2>4 DEF StopSource
    <3> QED BY <3>2, <3>3, UpdateSourceType
  <2>5. CASE Delete(h, s)
    <3>1. [IdleHandler EXCEPT !.op = "delete", !.src = s] \in HandlerRec
      BY IdleType DEF HandlerRec
    <3>2. /\ StopThen(h, [IdleHandler EXCEPT !.op = "delete", !.src = s])
          /\ UNCHANGED <<created, rpc, reader>>
      BY <2>5 DEF Delete
    <3> QED BY <1>1, <3>1, <3>2, StopThenType DEF ReaderTypes
  <2> QED BY <2>1, <2>2, <2>3, <2>4, <2>5 DEF Request
<1>5. UNCHANGED <<deaths, file, buffer, status, opening, phase, awaited>>
  BY <1>2 DEF Receive
<1> QED BY <1>3, <1>4, <1>5 DEF TypeOK, ReaderTypes, HandlerTypes, ConfigTypes

LEMMA StoppedType ==
    ASSUME TypeOK, NEW h \in Handlers, Stopped(h)
    PROVE  TypeOK'
<1> DEFINE rec == handler[h]
           resumed == [rec EXCEPT !.wait = 0]
<1>1. ReaderTypes /\ HandlerTypes /\ ConfigTypes
  BY TypeGroups
<1>2. rec \in HandlerRec /\ rec.src \in Sources
  BY DEF TypeOK, HandlerRec
<1>3. resumed \in HandlerRec
  BY <1>2, BoundAssumption DEF HandlerRec, Ref
<1>4. ForgetReader(rec.src) /\ AfterStop(h, resumed)
  BY DEF Stopped
<1>5. tasks' \in [Sources -> Ref] /\ stopEvents' \in [Sources -> Ref]
  BY <1>1, <1>2, <1>4, ForgetReaderType
<1>6. HandlerTypes' /\ ConfigTypes'
  BY <1>1, <1>3, <1>4, AfterStopType
<1>7. UNCHANGED <<file, buffer, status, opening, created, rpc, rstop, reader, phase, awaited,
                  requests, deaths>>
  BY DEF Stopped
<1> QED BY <1>5, <1>6, <1>7 DEF TypeOK, HandlerTypes, ConfigTypes

LEMMA WorkType ==
    ASSUME TypeOK, NEW h \in Handlers, Work(h), handler[h].todo # <<>>
    PROVE  TypeOK'
<1> DEFINE rec == handler[h]
           s == rec.src
           stage == Head(rec.todo)
<1>1. ReaderTypes /\ HandlerTypes /\ ConfigTypes
  BY TypeGroups
<1>2. rec \in HandlerRec
  BY DEF TypeOK
<1>3. s \in Sources /\ rec.body \in Body
  BY <1>2 DEF HandlerRec
<1>4. rec.todo \in Seq(Stage)
  BY <1>2 DEF HandlerRec
<1>5. stage \in Stage /\ Tail(rec.todo) \in Seq(Stage)
  BY <1>4, HeadTailProperties
<1>0. UNCHANGED <<config, file, status, opening, phase, awaited, requests, deaths>>
  BY DEF Work
<1>9. CASE /\ failures < MaxFailures
           /\ failures' = failures + 1
           /\ Reply(h)
           /\ UNCHANGED <<buffer, readerVars>>
  <2>1. failures' \in 0..MaxFailures
    BY <1>9, BoundAssumption DEF TypeOK
  <2>2. HandlerTypes'
    BY <1>1, <1>9, ReplyType
  <2> QED BY <1>0, <1>9, <2>1, <2>2 DEF TypeOK, HandlerTypes, readerVars
<1> SUFFICES ASSUME /\ IF stage = "start"
                       THEN StartReader(s, rec.body) /\ UNCHANGED buffer
                       ELSE /\ buffer' = [buffer EXCEPT ![s] =
                                             Stored(buffer[s], stage, rec.body)]
                            /\ UNCHANGED readerVars
                    /\ Continue(h, rec, Tail(rec.todo))
                    /\ UNCHANGED failures
             PROVE  TypeOK'
  BY <1>9 DEF Work
<1>6. /\ IF stage = "start"
         THEN StartReader(s, rec.body) /\ UNCHANGED buffer
         ELSE /\ buffer' = [buffer EXCEPT ![s] = Stored(buffer[s], stage, rec.body)]
              /\ UNCHANGED readerVars
      /\ Continue(h, rec, Tail(rec.todo))
      /\ UNCHANGED <<config, file, status, opening, phase, awaited, countVars>>
  BY <1>0 DEF countVars
<1> HIDE DEF rec, s, stage
<1>7. HandlerTypes'
  BY <1>1, <1>2, <1>5, <1>6, ContinueType
<1>8. ReaderTypes' /\ buffer' \in [Sources -> Seq(Event)]
  <2>1. CASE stage = "start"
    <3>1. StartReader(s, rec.body) /\ UNCHANGED buffer
      BY <1>6, <2>1
    <3>2. ReaderTypes'
      BY <1>1, <1>3, <3>1, StartReaderType
    <3> QED BY <3>1, <3>2 DEF TypeOK
  <2>2. CASE stage # "start"
    <3>1. buffer[s] \in Seq(Event)
      BY <1>3 DEF TypeOK
    <3>2. Stored(buffer[s], stage, rec.body) \in Seq(Event)
      BY <1>3, <1>5, <2>2, <3>1, StoredType
    <3>3. /\ buffer' = [buffer EXCEPT ![s] = Stored(buffer[s], stage, rec.body)]
          /\ UNCHANGED readerVars
      BY <1>6, <2>2
    <3> QED BY <1>1, <3>2, <3>3 DEF TypeOK, ReaderTypes, readerVars
  <2> QED BY <2>1, <2>2
<1> QED BY <1>6, <1>7, <1>8 DEF TypeOK, ReaderTypes, HandlerTypes, countVars

LEMMA LifespanType ==
    ASSUME TypeOK, StartAll \/ StopAll \/ Close \/ \E d \in Definitions : Append1(d)
    PROVE  TypeOK'
<1>1. CASE StartAll
  <2>1. 1 \in Ids /\ 1 \in Ref /\ 0 \in Ref
    BY <1>1, BoundAssumption DEF StartAll, Ids, Ref
  <2>2. /\ tasks' \in [Sources -> Ref]
        /\ stopEvents' \in [Sources -> Ref]
        /\ created' \in [Sources -> Ref]
    BY <1>1, <2>1 DEF StartAll
  <2>3. rpc' \in [Sources -> [Ids -> ReaderStates]]
    BY <1>1 DEF StartAll, TypeOK, ReaderStates
  <2>4. reader' \in [Sources -> [Ids -> ReaderRec]]
    <3>1. \A s \in Sources : Enabled(s) =>
              [reader[s] EXCEPT ![1].body = config[s]] \in [Ids -> ReaderRec]
      <4> SUFFICES ASSUME NEW s \in Sources, Enabled(s)
                   PROVE  [reader[s] EXCEPT ![1].body = config[s]] \in [Ids -> ReaderRec]
        OBVIOUS
      <4>1. config[s] \in Body
        BY DEF Enabled, Configured, TypeOK
      <4>2. reader[s][1] \in ReaderRec
        BY <2>1 DEF TypeOK
      <4>3. [reader[s][1] EXCEPT !.body = config[s]] \in ReaderRec
        BY <4>1, <4>2 DEF ReaderRec
      <4> QED BY <2>1, <4>3 DEF TypeOK
    <3> QED BY <1>1, <3>1 DEF StartAll, TypeOK
  <2>5. phase' \in {"boot", "up", "stopping", "closed"}
    BY <1>1 DEF StartAll
  <2> QED BY <1>1, <2>2, <2>3, <2>4, <2>5 DEF StartAll, TypeOK, countVars
<1>2. CASE StopAll
  <2>1. rstop' \in [Sources -> [Ids -> BOOLEAN]]
    BY <1>2 DEF StopAll, TypeOK
  <2>2. awaited' \subseteq Sources \X Ids /\ phase' \in {"boot", "up", "stopping", "closed"}
    BY <1>2 DEF StopAll
  <2> QED BY <1>2, <2>1, <2>2 DEF StopAll, TypeOK, countVars
<1>3. CASE Close
  <2>1. 0 \in Ref
    BY BoundAssumption DEF Ref
  <2> QED BY <1>3, <2>1 DEF Close, TypeOK, countVars
<1>4. ASSUME NEW d \in Definitions, Append1(d)
      PROVE  TypeOK'
  <2>1. file' \in [Definitions -> 0..MaxLines]
    BY <1>4, BoundAssumption DEF Append1, TypeOK
  <2> QED BY <1>4, <2>1 DEF Append1, TypeOK, readerVars, countVars
<1> QED BY <1>1, <1>2, <1>3, <1>4

(* A handler at work has something left to do.                             *)
WorkLeft == \A h \in Handlers : hpc[h] = "work" => handler[h].todo # <<>>

LEMMA WorkLeftStep ==
    ASSUME TypeOK, WorkLeft, Next
    PROVE  WorkLeft'
<1> USE DEF WorkLeft
<1>1. ASSUME NEW h \in Handlers, Reply(h)
      PROVE  WorkLeft'
  BY <1>1 DEF Reply, TypeOK
<1>2. ASSUME NEW h \in Handlers, NEW rec \in HandlerRec, NEW todo, Continue(h, rec, todo)
      PROVE  WorkLeft'
  <2>1. CASE todo = <<>>
    BY <1>1, <1>2, <2>1 DEF Continue
  <2>2. CASE todo # <<>>
    <3> DEFINE new == [rec EXCEPT !.todo = todo]
    <3>1. new.todo = todo
      BY DEF HandlerRec
    <3>2. handler' = [handler EXCEPT ![h] = new] /\ hpc' = [hpc EXCEPT ![h] = "work"]
      BY <1>2, <2>2 DEF Continue
    <3> HIDE DEF new
    <3> QED BY <2>2, <3>1, <3>2 DEF TypeOK
  <2> QED BY <2>1, <2>2
<1>3. ASSUME NEW h \in Handlers, NEW rec \in HandlerRec, AfterStop(h, rec)
      PROVE  WorkLeft'
  BY <1>1, <1>2, <1>3 DEF AfterStop, Update
<1>4. ASSUME NEW h \in Handlers, NEW rec \in HandlerRec, StopThen(h, rec)
      PROVE  WorkLeft'
  <2>1. CASE tasks[rec.src] # 0
    BY <1>4, <2>1 DEF StopThen, TypeOK
  <2>2. CASE tasks[rec.src] = 0
    BY <1>3, <1>4, <2>2 DEF StopThen
  <2> QED BY <2>1, <2>2
<1>5. CASE UNCHANGED <<hpc, handler>>
  BY <1>5
<1>6. ASSUME NEW h \in Handlers, NEW s \in Sources, NEW body \in Body,
             UpdateSource(h, s, body)
      PROVE  WorkLeft'
  <2> DEFINE rec == [IdleHandler EXCEPT !.op = "put", !.src = s, !.body = body,
                                        !.prev = config[s]]
  <2>1. rec \in HandlerRec
    BY <1>6, IdleType DEF HandlerRec, UpdateSource, Configured, TypeOK
  <2>2. StopThen(h, rec) \/ AfterStop(h, rec)
    BY <1>6 DEF UpdateSource
  <2> HIDE DEF rec
  <2> QED BY <1>3, <1>4, <2>1, <2>2
<1>7. ASSUME NEW h \in Handlers, NEW s \in Sources, Request(h, s)
      PROVE  WorkLeft'
  <2>1. ASSUME NEW body \in Body, Create(h, s, body)
        PROVE  WorkLeft'
    BY <1>5, <2>1 DEF Create
  <2>2. ASSUME NEW body \in Body, Put(h, s, body)
        PROVE  WorkLeft'
    BY <1>6, <2>2 DEF Put
  <2>3. CASE StartSource(h, s)
    <3>1. [config[s] EXCEPT !.enabled = TRUE] \in Body
      BY <2>3 DEF StartSource, Configured, TypeOK, Body
    <3> QED BY <1>5, <1>6, <2>3, <3>1 DEF StartSource
  <2>4. CASE StopSource(h, s)
    <3>1. [config[s] EXCEPT !.enabled = FALSE] \in Body
      BY <2>4 DEF StopSource, Configured, TypeOK, Body
    <3> QED BY <1>6, <2>4, <3>1 DEF StopSource
  <2>5. CASE Delete(h, s)
    <3>1. [IdleHandler EXCEPT !.op = "delete", !.src = s] \in HandlerRec
      BY IdleType DEF HandlerRec
    <3> QED BY <1>4, <2>5, <3>1 DEF Delete
  <2> QED BY <1>7, <2>1, <2>2, <2>3, <2>4, <2>5 DEF Request
<1>8. ASSUME NEW h \in Handlers, HandlerStep(h)
      PROVE  WorkLeft'
  <2> DEFINE rec == handler[h]
  <2>1. rec \in HandlerRec /\ [rec EXCEPT !.wait = 0] \in HandlerRec
    <3>1. rec \in HandlerRec
      BY DEF TypeOK
    <3> QED BY <3>1, BoundAssumption DEF HandlerRec, Ref
  <2>2. CASE Stopped(h)
    BY <1>3, <2>1, <2>2 DEF Stopped
  <2>3. CASE Work(h)
    <3>1. CASE Continue(h, rec, Tail(rec.todo))
      BY <1>2, <2>1, <3>1
    <3>2. CASE Reply(h)
      BY <1>1, <3>2
    <3> QED BY <2>3, <3>1, <3>2 DEF Work
  <2> QED BY <1>8, <2>2, <2>3 DEF HandlerStep
<1>9. ASSUME NEW s \in Sources, NEW n \in Ids, ReaderStep(s, n)
      PROVE  WorkLeft'
  BY <1>5, <1>9 DEF ReaderStep, ReaderTail, ReaderOpen, ReaderPoll, ReaderStop,
                    ReaderInsert, ReaderFails, Reap
<1>10. CASE StartAll \/ StopAll \/ Close \/ \E d \in Definitions : Append1(d)
  BY <1>5, <1>10 DEF StartAll, StopAll, Close, Append1
<1> QED BY <1>7, <1>8, <1>9, <1>10 DEF Next

LEMMA TypeStep ==
    ASSUME TypeOK, WorkLeft, Next
    PROVE  TypeOK'
<1>1. ASSUME NEW h \in Handlers, HandlerStep(h)
      PROVE  TypeOK'
  <2>1. CASE Stopped(h)
    BY <2>1, StoppedType
  <2>2. CASE Work(h)
    <3>1. handler[h].todo # <<>>
      BY <2>2 DEF Work, WorkLeft
    <3> QED BY <2>2, <3>1, WorkType
  <2> QED BY <1>1, <2>1, <2>2 DEF HandlerStep
<1> QED BY <1>1, ReaderStepType, RequestType, LifespanType DEF Next

LEMMA TypeInit == Init => TypeOK /\ WorkLeft
<1> SUFFICES ASSUME Init PROVE TypeOK /\ WorkLeft
  OBVIOUS
<1>1. 0 \in Ref /\ <<>> \in Seq(Event)
  BY BoundAssumption DEF Ref
<1>2. 0 \in 0..MaxRequests /\ 0 \in 0..MaxDeaths /\ 0 \in 0..MaxFailures
  BY BoundAssumption
<1>3. WorkLeft
  BY DEF Init, WorkLeft
<1>4. TypeOK
  <2>1. opening \in [Sources -> Opening]
    BY BoundAssumption DEF Init, Opening
  <2> QED BY <1>1, <1>2, <2>1, IdleType DEF Init, TypeOK, ReaderStates
<1> QED BY <1>3, <1>4

LEMMA TypeInductive ==
    ASSUME TypeOK, WorkLeft, [Next]_vars
    PROVE  TypeOK' /\ WorkLeft'
<1>1. CASE Next
  BY <1>1, TypeStep, WorkLeftStep
<1>2. CASE UNCHANGED vars
  BY <1>2 DEF vars, readerVars, countVars, TypeOK, WorkLeft
<1> QED BY <1>1, <1>2

(* Every variable stays in its range, whatever requests overlap, readers   *)
(* die and saves or storage calls fail.                                    *)
THEOREM TypeCorrect == Spec => []TypeOK
<1>1. Init => TypeOK /\ WorkLeft
  BY TypeInit
<1>2. TypeOK /\ WorkLeft /\ [Next]_vars => TypeOK' /\ WorkLeft'
  BY TypeInductive
<1> QED BY <1>1, <1>2, PTL DEF Spec

-----------------------------------------------------------------------------
(* Stopping finds the event of the registered task, for every overlap of   *)
(* requests, deaths and failures.                                          *)

LEMMA StartKeepsTables ==
    ASSUME TypeOK, RegisteredReaderCanBeStopped, NEW s \in Sources, NEW body,
           StartReader(s, body)
    PROVE  RegisteredReaderCanBeStopped'
<1>1. tasks \in [Sources -> Ref] /\ stopEvents \in [Sources -> Ref]
  BY DEF TypeOK
<1>2. CASE UNCHANGED readerVars
  BY <1>2 DEF RegisteredReaderCanBeStopped, readerVars
<1>3. CASE CreateReader(s, body)
  BY <1>1, <1>3 DEF RegisteredReaderCanBeStopped, CreateReader
<1> QED BY <1>2, <1>3 DEF StartReader

LEMMA ForgetKeepsTables ==
    ASSUME TypeOK, RegisteredReaderCanBeStopped, NEW s \in Sources, ForgetReader(s)
    PROVE  RegisteredReaderCanBeStopped'
BY DEF TypeOK, RegisteredReaderCanBeStopped, ForgetReader

LEMMA StopThenKeepsTables ==
    ASSUME TypeOK, RegisteredReaderCanBeStopped, NEW h \in Handlers,
           NEW rec, rec.src \in Sources, StopThen(h, rec)
    PROVE  RegisteredReaderCanBeStopped'
<1>1. CASE tasks[rec.src] # 0
  BY <1>1 DEF StopThen, RegisteredReaderCanBeStopped
<1>2. CASE tasks[rec.src] = 0
  BY <1>2, ForgetKeepsTables DEF StopThen
<1> QED BY <1>1, <1>2

LEMMA UpdateKeepsTables ==
    ASSUME TypeOK, RegisteredReaderCanBeStopped, NEW h \in Handlers,
           NEW s \in Sources, NEW body \in Body, UpdateSource(h, s, body)
    PROVE  RegisteredReaderCanBeStopped'
<1> DEFINE rec == [IdleHandler EXCEPT !.op = "put", !.src = s, !.body = body,
                                      !.prev = config[s]]
<1>1. rec.src = s
  BY DEF IdleHandler
<1>2. StopThen(h, rec) \/ UNCHANGED readerVars
  BY DEF UpdateSource
<1> HIDE DEF rec
<1> QED BY <1>1, <1>2, StopThenKeepsTables DEF readerVars, RegisteredReaderCanBeStopped

LEMMA TablesStep ==
    ASSUME TypeOK, WorkLeft, RegisteredReaderCanBeStopped, Next
    PROVE  RegisteredReaderCanBeStopped'
<1>1. CASE UNCHANGED <<tasks, stopEvents>>
  BY <1>1 DEF RegisteredReaderCanBeStopped
<1>2. ASSUME NEW s \in Sources, NEW n \in Ids, ReaderStep(s, n)
      PROVE  RegisteredReaderCanBeStopped'
  <2>1. CASE Reap(s, n)
    BY <2>1 DEF Reap, TypeOK, RegisteredReaderCanBeStopped
  <2>2. CASE ~Reap(s, n)
    BY <1>1, <1>2, <2>2 DEF ReaderStep, ReaderTail, ReaderOpen, ReaderPoll, ReaderStop,
                            ReaderInsert, ReaderFails
  <2> QED BY <2>1, <2>2
<1>3. ASSUME NEW h \in Handlers, NEW s \in Sources, Request(h, s)
      PROVE  RegisteredReaderCanBeStopped'
  <2>1. ASSUME NEW body \in Body, Create(h, s, body)
        PROVE  RegisteredReaderCanBeStopped'
    BY <1>1, <2>1, StartKeepsTables DEF Create, readerVars
  <2>2. ASSUME NEW body \in Body, Put(h, s, body)
        PROVE  RegisteredReaderCanBeStopped'
    BY <2>2, UpdateKeepsTables DEF Put
  <2>3. CASE StartSource(h, s)
    <3>1. [config[s] EXCEPT !.enabled = TRUE] \in Body
      BY <2>3 DEF StartSource, Configured, TypeOK, Body
    <3> QED BY <2>3, <3>1, StartKeepsTables, UpdateKeepsTables DEF StartSource
  <2>4. CASE StopSource(h, s)
    <3>1. [config[s] EXCEPT !.enabled = FALSE] \in Body
      BY <2>4 DEF StopSource, Configured, TypeOK, Body
    <3> QED BY <2>4, <3>1, UpdateKeepsTables DEF StopSource
  <2>5. CASE Delete(h, s)
    <3>1. [IdleHandler EXCEPT !.op = "delete", !.src = s].src = s
      BY DEF IdleHandler
    <3> QED BY <2>5, <3>1, StopThenKeepsTables DEF Delete
  <2> QED BY <1>3, <2>1, <2>2, <2>3, <2>4, <2>5 DEF Request
<1>4. ASSUME NEW h \in Handlers, HandlerStep(h)
      PROVE  RegisteredReaderCanBeStopped'
  <2>1. handler[h].src \in Sources
    BY DEF TypeOK, HandlerRec
  <2>2. CASE Stopped(h)
    BY <2>1, <2>2, ForgetKeepsTables DEF Stopped
  <2>3. CASE Work(h)
    BY <1>1, <2>1, <2>3, StartKeepsTables DEF Work, readerVars
  <2> QED BY <1>4, <2>2, <2>3 DEF HandlerStep
<1>5. CASE StartAll
  BY <1>5 DEF StartAll, RegisteredReaderCanBeStopped
<1>6. CASE Close
  BY <1>6 DEF Close, RegisteredReaderCanBeStopped
<1>7. CASE StopAll \/ \E d \in Definitions : Append1(d)
  BY <1>1, <1>7 DEF StopAll, Append1, readerVars
<1> QED BY <1>2, <1>3, <1>4, <1>5, <1>6, <1>7 DEF Next

(* The event that stop sets is the one of the task it then waits for.      *)
THEOREM StopFindsReader == Spec => []RegisteredReaderCanBeStopped
<1>1. Init => RegisteredReaderCanBeStopped
  BY DEF Init, RegisteredReaderCanBeStopped
<1>2. Init => TypeOK /\ WorkLeft
  BY TypeInit
<1>3. /\ TypeOK /\ WorkLeft /\ RegisteredReaderCanBeStopped
      /\ [Next]_vars
      => TypeOK' /\ WorkLeft' /\ RegisteredReaderCanBeStopped'
  <2>1. CASE Next
    BY <2>1, TypeStep, WorkLeftStep, TablesStep
  <2>2. CASE UNCHANGED vars
    BY <2>2 DEF vars, readerVars, countVars, TypeOK, WorkLeft,
                RegisteredReaderCanBeStopped
  <2> QED BY <2>1, <2>2
<1> QED BY <1>1, <1>2, <1>3, PTL DEF Spec

-----------------------------------------------------------------------------
(* One handler and no deaths: the inductive invariant.  Each lemma takes   *)
(* one kind of step and says what that kind does to the variables          *)
(* SerialInv reads.                                                        *)

(* A reader is created for a source that has no present reader.            *)
LEMMA SerialCreate ==
    ASSUME TypeOK, SerialInv, NEW h \in Handlers, Handlers = {h},
           NEW s \in Sources, NEW body \in Body, CreateReader(s, body),
           ~HasRunningTask(s), phase = "up", hpc[h] # "stopping",
           hpc'[h] # "stopping", UNCHANGED <<phase, awaited>>
    PROVE  SerialInv'
<1> DEFINE n == created[s] + 1
<1> USE DEF SerialInv
<1>1. /\ n \in Ids
      /\ created' = [created EXCEPT ![s] = n]
      /\ tasks' = [tasks EXCEPT ![s] = n]
      /\ stopEvents' = [stopEvents EXCEPT ![s] = n]
      /\ rpc' = [rpc EXCEPT ![s][n] = "open"]
      /\ reader' = [reader EXCEPT ![s][n] = [IdleReader EXCEPT !.body = body]]
      /\ UNCHANGED rstop
  BY DEF CreateReader
<1>2. created[s] \in Nat /\ Ids \subseteq Nat /\ \A t \in Sources : created[t] \in Nat
  BY BoundAssumption DEF TypeOK, Ref, Ids
<1>3. \A m \in Ids : ~StopPending(s, m)
  BY DEF StopPending
<1>4. \A m \in Ids : ~Present(s, m)
  BY <1>3 DEF StoppingIsAwaited, PresentIsRegistered, Present, HasRunningTask, Ids
<1>5. rpc[s][n] = "unborn" /\ ~rstop[s][n]
  BY <1>1, <1>2 DEF NumberedInOrder
<1>6. /\ \A t \in Sources, m \in Ids :
            rpc'[t][m] = IF t = s /\ m = n THEN "open" ELSE rpc[t][m]
      /\ \A t \in Sources :
            /\ tasks'[t] = IF t = s THEN n ELSE tasks[t]
            /\ stopEvents'[t] = IF t = s THEN n ELSE stopEvents[t]
            /\ created'[t] = IF t = s THEN n ELSE created[t]
      /\ \A t \in Sources, m \in Ids :
            reader'[t][m].final => reader[t][m].final
  BY <1>1 DEF TypeOK, IdleReader
<1> HIDE DEF n
<1>7. n = created[s] + 1
  BY DEF n
<1>8. RegisteredReaderCanBeStopped'
  BY <1>6 DEF RegisteredReaderCanBeStopped
<1>9. NumberedInOrder'
  <2> SUFFICES ASSUME NEW t \in Sources, NEW m \in Ids
               PROVE  /\ m > created'[t] <=> rpc'[t][m] = "unborn"
                      /\ rpc'[t][m] = "unborn" => ~rstop'[t][m]
    BY DEF NumberedInOrder
  <2>1. /\ m > created[t] <=> rpc[t][m] = "unborn"
        /\ rpc[t][m] = "unborn" => ~rstop[t][m]
    BY DEF NumberedInOrder
  <2>2. m \in Nat /\ created[t] \in Nat /\ created[s] \in Nat
    BY <1>2
  <2>3. CASE t = s
    <3>1. created'[t] = created[s] + 1 /\ n = created[s] + 1
      BY <1>6, <1>7, <2>3
    <3>2. rpc'[t][m] = IF m = n THEN "open" ELSE rpc[t][m]
      BY <1>6, <2>3
    <3> QED BY <1>1, <2>1, <2>2, <2>3, <3>1, <3>2
  <2>4. CASE t # s
    BY <1>1, <1>6, <2>1, <2>4
  <2> QED BY <2>3, <2>4
<1>10. TablesKnowCreated'
  <2> SUFFICES ASSUME NEW t \in Sources
               PROVE  tasks'[t] <= created'[t] /\ stopEvents'[t] <= created'[t]
    BY DEF TablesKnowCreated
  <2>1. CASE t = s
    BY <1>2, <1>6, <1>7, <2>1
  <2>2. CASE t # s
    BY <1>6, <2>2 DEF TablesKnowCreated
  <2> QED BY <2>1, <2>2
<1>11. PresentIsRegistered'
  BY <1>4, <1>6 DEF PresentIsRegistered, Present
<1>12. StoppingIsAwaited'
  BY <1>1, <1>4, <1>5, <1>6 DEF StoppingIsAwaited, Present, StopPending
<1>13. FinalIsStopping'
  BY <1>1, <1>6 DEF FinalIsStopping
<1>14. WaitingForRegistered'
  BY DEF WaitingForRegistered
<1>15. PhaseInv'
  BY DEF PhaseInv
<1> QED BY <1>8, <1>9, <1>10, <1>11, <1>12, <1>13, <1>14, <1>15

(* The handler moves on, the readers and the tables stay.                  *)
LEMMA SerialQuiet ==
    ASSUME TypeOK, SerialInv, NEW h \in Handlers, Handlers = {h},
           UNCHANGED <<readerVars, awaited, phase>>, phase = "up",
           hpc[h] # "stopping", hpc'[h] # "stopping"
    PROVE  SerialInv'
<1> USE DEF SerialInv
<1>1. UNCHANGED <<tasks, stopEvents, created, rpc, rstop, reader>>
  BY DEF readerVars
<1>2. /\ RegisteredReaderCanBeStopped'
      /\ NumberedInOrder'
      /\ TablesKnowCreated'
      /\ PresentIsRegistered'
      /\ FinalIsStopping'
  BY <1>1 DEF RegisteredReaderCanBeStopped, NumberedInOrder, TablesKnowCreated,
              PresentIsRegistered, FinalIsStopping, Present
<1>3. StoppingIsAwaited'
  BY <1>1 DEF StoppingIsAwaited, Present, StopPending
<1>4. WaitingForRegistered' /\ PhaseInv'
  BY <1>1 DEF WaitingForRegistered, PhaseInv
<1> QED BY <1>2, <1>3, <1>4

(* The handler sets the event of the registered reader and waits for it.   *)
LEMMA SerialBeginStop ==
    ASSUME TypeOK, SerialInv, NEW h \in Handlers, Handlers = {h},
           NEW s \in Sources, SignalStop(s), tasks[s] # 0,
           phase = "up", hpc[h] = "idle", hpc'[h] = "stopping",
           handler'[h].src = s, handler'[h].wait = tasks[s],
           UNCHANGED <<tasks, stopEvents, created, rpc, reader, awaited, phase>>
    PROVE  SerialInv'
<1> USE DEF SerialInv
<1> DEFINE n == tasks[s]
<1>1. stopEvents[s] = n /\ n \in Ids /\ n <= created[s]
  BY DEF RegisteredReaderCanBeStopped, TypeOK, Ref, Ids, TablesKnowCreated
<1>2. rstop' = [rstop EXCEPT ![s][n] = TRUE]
  BY <1>1 DEF SignalStop
<1>3. rpc[s][n] # "unborn"
  BY <1>1, BoundAssumption DEF NumberedInOrder, TypeOK, Ref, Ids
<1>4. \A t \in Sources, m \in Ids :
         rstop'[t][m] = IF t = s /\ m = n THEN TRUE ELSE rstop[t][m]
  BY <1>1, <1>2 DEF TypeOK
<1>5. /\ RegisteredReaderCanBeStopped'
      /\ TablesKnowCreated'
      /\ PresentIsRegistered'
  BY DEF RegisteredReaderCanBeStopped, TablesKnowCreated, PresentIsRegistered, Present
<1>9. PhaseInv'
  <2>1. phase' = "up"
    OBVIOUS
  <2> QED BY <2>1 DEF PhaseInv
<1>6. NumberedInOrder' /\ FinalIsStopping'
  <2>1. created' = created /\ rpc' = rpc /\ reader' = reader
    OBVIOUS
  <2>2. NumberedInOrder'
    <3> SUFFICES ASSUME NEW t \in Sources, NEW m \in Ids
                 PROVE  /\ m > created[t] <=> rpc[t][m] = "unborn"
                        /\ rpc[t][m] = "unborn" => ~rstop'[t][m]
      BY <2>1 DEF NumberedInOrder
    <3>1. /\ m > created[t] <=> rpc[t][m] = "unborn"
          /\ rpc[t][m] = "unborn" => ~rstop[t][m]
      BY DEF NumberedInOrder
    <3> QED BY <1>3, <1>4, <3>1
  <2>3. FinalIsStopping'
    <3> SUFFICES ASSUME NEW t \in Sources, NEW m \in Ids, reader[t][m].final
                 PROVE  rstop'[t][m]
      BY <2>1 DEF FinalIsStopping
    <3>1. rstop[t][m]
      BY DEF FinalIsStopping
    <3> QED BY <1>4, <3>1, ZenonT(30)
  <2> QED BY <2>2, <2>3
<1>7. WaitingForRegistered'
  BY <1>1 DEF WaitingForRegistered
<1>8. StoppingIsAwaited'
  <2>1. \A t \in Sources, m \in Ids :
           Present(t, m) /\ (rstop'[t][m] \/ rpc[t][m] = "done") => t = s /\ m = n
    BY <1>4 DEF StoppingIsAwaited, StopPending
  <2>2. StopPending(s, n)'
    BY DEF StopPending
  <2> QED BY <2>1, <2>2 DEF StoppingIsAwaited, Present
<1> QED BY <1>5, <1>6, <1>7, <1>8, <1>9

(* The tables are cleared of a source that has no present reader.          *)
LEMMA SerialEndStop ==
    ASSUME TypeOK, SerialInv, NEW h \in Handlers, Handlers = {h},
           NEW s \in Sources, ForgetReader(s), \A m \in Ids : ~Present(s, m),
           rstop' = rstop \/ SignalStop(s),
           phase = "up", hpc'[h] # "stopping",
           hpc[h] = "stopping" => handler[h].src = s,
           UNCHANGED <<created, rpc, reader, awaited, phase>>
    PROVE  SerialInv'
<1> USE DEF SerialInv
<1>1. \A t \in Sources :
         /\ tasks'[t] = IF t = s THEN 0 ELSE tasks[t]
         /\ stopEvents'[t] = IF t = s THEN 0 ELSE stopEvents[t]
  BY DEF ForgetReader, TypeOK
<1>2. \A t \in Sources, m \in Ids :
         rstop'[t][m] # rstop[t][m] => t = s /\ m = stopEvents[s] /\ rstop'[t][m]
  BY DEF SignalStop, TypeOK
<1>3. RegisteredReaderCanBeStopped' /\ TablesKnowCreated'
  <2>1. RegisteredReaderCanBeStopped'
    BY <1>1 DEF RegisteredReaderCanBeStopped
  <2>2. \A t \in Sources : 0 <= created[t]
    BY BoundAssumption DEF TypeOK, Ref
  <2>3. TablesKnowCreated'
    <3> SUFFICES ASSUME NEW t \in Sources
                 PROVE  tasks'[t] <= created[t] /\ stopEvents'[t] <= created[t]
      BY DEF TablesKnowCreated
    <3> QED BY <1>1, <2>2 DEF TablesKnowCreated
  <2> QED BY <2>1, <2>3
<1>4. NumberedInOrder'
  <2>1. \A m \in Ids : m = stopEvents[s] => rpc[s][m] # "unborn"
    BY BoundAssumption DEF NumberedInOrder, TablesKnowCreated, TypeOK, Ref, Ids
  <2> QED BY <1>2, <2>1 DEF NumberedInOrder
<1>5. PresentIsRegistered'
  BY <1>1 DEF PresentIsRegistered, Present
<1>6. StoppingIsAwaited'
  BY <1>2 DEF StoppingIsAwaited, StopPending, Present
<1>7. FinalIsStopping'
  BY <1>2 DEF FinalIsStopping, TypeOK
<1>8. WaitingForRegistered' /\ PhaseInv'
  BY DEF WaitingForRegistered, PhaseInv, Present
<1> QED BY <1>3, <1>4, <1>5, <1>6, <1>7, <1>8

(* A handler that ends its stop, or needs none, is not stopping.           *)
LEMMA NotStopping ==
    ASSUME TypeOK, NEW h \in Handlers, NEW rec, AfterStop(h, rec)
    PROVE  hpc'[h] # "stopping"
<1>1. ASSUME NEW todo, Continue(h, rec, todo)
      PROVE  hpc'[h] # "stopping"
  BY <1>1 DEF Continue, Reply, TypeOK
<1>2. ASSUME Reply(h)
      PROVE  hpc'[h] # "stopping"
  BY <1>2 DEF Reply, TypeOK
<1> QED BY <1>1, <1>2 DEF AfterStop, Update

LEMMA SerialStopThen ==
    ASSUME TypeOK, SerialInv, NEW h \in Handlers, Handlers = {h},
           NEW rec \in HandlerRec, StopThen(h, rec),
           phase = "up", hpc[h] = "idle", UNCHANGED <<created, rpc, reader, awaited, phase>>
    PROVE  SerialInv'
<1>1. rec.src \in Sources
  BY DEF HandlerRec
<1>2. CASE tasks[rec.src] # 0
  <2> DEFINE new == [rec EXCEPT !.wait = tasks[rec.src]]
  <2>1. new.src = rec.src /\ new.wait = tasks[rec.src]
    BY DEF HandlerRec
  <2>2. /\ SignalStop(rec.src)
        /\ hpc' = [hpc EXCEPT ![h] = "stopping"]
        /\ handler' = [handler EXCEPT ![h] = new]
        /\ UNCHANGED <<tasks, stopEvents>>
    BY <1>2 DEF StopThen
  <2> HIDE DEF new
  <2>3. hpc'[h] = "stopping" /\ handler'[h] = new
    BY <2>2 DEF TypeOK
  <2> QED BY <1>1, <1>2, <2>1, <2>2, <2>3, SerialBeginStop
<1>3. CASE tasks[rec.src] = 0
  <2>1. SignalStop(rec.src) /\ ForgetReader(rec.src) /\ hpc'[h] # "stopping"
    BY <1>3, NotStopping DEF StopThen
  <2>2. \A m \in Ids : ~Present(rec.src, m)
    BY <1>1, <1>3 DEF SerialInv, PresentIsRegistered, Ids
  <2> QED BY <1>1, <2>1, <2>2, SerialEndStop
<1> QED BY <1>2, <1>3

LEMMA SerialStart ==
    ASSUME TypeOK, SerialInv, NEW h \in Handlers, Handlers = {h},
           NEW s \in Sources, NEW body \in Body, StartReader(s, body),
           phase = "up", hpc[h] # "stopping", hpc'[h] # "stopping",
           UNCHANGED <<phase, awaited>>
    PROVE  SerialInv'
<1>1. CASE HasRunningTask(s)
  BY <1>1, SerialQuiet DEF StartReader
<1>2. CASE ~HasRunningTask(s)
  BY <1>2, SerialCreate DEF StartReader
<1> QED BY <1>1, <1>2

LEMMA SerialUpdateSource ==
    ASSUME TypeOK, SerialInv, NEW h \in Handlers, Handlers = {h},
           NEW s \in Sources, NEW body \in Body, UpdateSource(h, s, body),
           phase = "up", hpc[h] = "idle", UNCHANGED <<awaited, phase>>
    PROVE  SerialInv'
<1> DEFINE rec == [IdleHandler EXCEPT !.op = "put", !.src = s, !.body = body,
                                      !.prev = config[s]]
<1>1. rec \in HandlerRec
  BY IdleType DEF HandlerRec, UpdateSource, Configured, TypeOK
<1>2. \/ StopThen(h, rec) /\ UNCHANGED <<created, rpc, reader>>
      \/ AfterStop(h, rec) /\ UNCHANGED readerVars
  BY DEF UpdateSource
<1> HIDE DEF rec
<1>3. CASE StopThen(h, rec) /\ UNCHANGED <<created, rpc, reader>>
  BY <1>1, <1>3, SerialStopThen
<1>4. CASE AfterStop(h, rec) /\ UNCHANGED readerVars
  BY <1>4, NotStopping, SerialQuiet
<1> QED BY <1>2, <1>3, <1>4

LEMMA SerialRequest ==
    ASSUME TypeOK, SerialInv, NEW h \in Handlers, Handlers = {h},
           NEW s \in Sources, Request(h, s)
    PROVE  SerialInv'
<1>1. phase = "up" /\ hpc[h] = "idle" /\ UNCHANGED <<awaited, phase>>
  BY DEF Request, Create, Put, StartSource, StopSource, Delete, Receive
<1>2. ASSUME NEW body \in Body, Create(h, s, body)
      PROVE  SerialInv'
  <2>1. hpc'[h] # "stopping"
    BY <1>1, <1>2 DEF Create
  <2>2. StartReader(s, body) \/ UNCHANGED readerVars
    BY <1>2 DEF Create
  <2> QED BY <1>1, <2>1, <2>2, SerialStart, SerialQuiet
<1>3. ASSUME NEW body \in Body, Put(h, s, body)
      PROVE  SerialInv'
  BY <1>1, <1>3, SerialUpdateSource DEF Put
<1>4. CASE StartSource(h, s)
  <2>1. config[s] \in Body /\ [config[s] EXCEPT !.enabled = TRUE] \in Body
    BY <1>4 DEF StartSource, Configured, TypeOK, Body
  <2>2. CASE config[s].enabled
    <3>1. StartReader(s, config[s]) /\ hpc'[h] # "stopping"
      BY <1>1, <1>4, <2>2 DEF StartSource
    <3> QED BY <1>1, <2>1, <3>1, SerialStart
  <2>3. CASE ~config[s].enabled
    BY <1>1, <1>4, <2>1, <2>3, SerialUpdateSource DEF StartSource
  <2> QED BY <2>2, <2>3
<1>5. CASE StopSource(h, s)
  <2>1. [config[s] EXCEPT !.enabled = FALSE] \in Body
    BY <1>5 DEF StopSource, Configured, TypeOK, Body
  <2> QED BY <1>1, <1>5, <2>1, SerialUpdateSource DEF StopSource
<1>6. CASE Delete(h, s)
  <2>1. [IdleHandler EXCEPT !.op = "delete", !.src = s] \in HandlerRec
    BY IdleType DEF HandlerRec
  <2> QED BY <1>1, <1>6, <2>1, SerialStopThen DEF Delete
<1> QED BY <1>2, <1>3, <1>4, <1>5, <1>6 DEF Request

LEMMA SerialHandlerStep ==
    ASSUME TypeOK, WorkLeft, SerialInv, NEW h \in Handlers, Handlers = {h},
           HandlerStep(h)
    PROVE  SerialInv'
<1> DEFINE rec == handler[h]
           s == rec.src
<1>1. rec \in HandlerRec
  BY DEF TypeOK
<1>2. s \in Sources /\ rec.body \in Body /\ rec.todo \in Seq(Stage)
  BY <1>1 DEF HandlerRec
<1>3. hpc[h] # "idle" /\ phase = "up"
  BY DEF HandlerStep, Stopped, Work, SerialInv, PhaseInv
<1>4. CASE Stopped(h)
  <2>1. /\ hpc[h] = "stopping"
        /\ rpc[s][rec.wait] = "reaped"
        /\ ForgetReader(s)
        /\ AfterStop(h, [rec EXCEPT !.wait = 0])
        /\ UNCHANGED <<created, rpc, reader, awaited, phase, rstop>>
    BY <1>4 DEF Stopped
  <2>2. hpc'[h] # "stopping"
    BY <2>1, NotStopping
  <2>3. rec.wait \in Ids /\ tasks[s] \in {0, rec.wait}
    BY <2>1 DEF SerialInv, WaitingForRegistered
  <2>4. \A m \in Ids : ~Present(s, m)
    BY <1>2, <2>1, <2>3 DEF SerialInv, PresentIsRegistered, Present, Active, Ids
  <2> QED BY <1>2, <1>3, <2>1, <2>2, <2>4, SerialEndStop
<1>5. CASE Work(h)
  <2>1. hpc[h] # "stopping"
    BY <1>5 DEF Work
  <2>2. hpc'[h] # "stopping"
    BY <1>5 DEF Work, Continue, Reply, TypeOK
  <2>3. /\ StartReader(s, rec.body) \/ UNCHANGED readerVars
        /\ UNCHANGED <<phase, awaited>>
    BY <1>5 DEF Work
  <2> QED BY <1>2, <1>3, <2>1, <2>2, <2>3, SerialStart, SerialQuiet
<1> QED BY <1>4, <1>5 DEF HandlerStep

(* A reader opens or polls: it stays active and stays as it was stopped.   *)
LEMMA SerialReaderMoves ==
    ASSUME TypeOK, SerialInv, NEW s \in Sources, NEW n \in Ids,
           NEW state \in Active, NEW rec, rpc[s][n] \in Active,
           rpc' = [rpc EXCEPT ![s][n] = state],
           reader' = [reader EXCEPT ![s][n] = rec],
           rec.final => rstop[s][n],
           UNCHANGED <<tasks, stopEvents, created, rstop, hpc, handler, phase, awaited>>
    PROVE  SerialInv'
<1> USE DEF SerialInv
<1>1. /\ tasks' = tasks /\ stopEvents' = stopEvents /\ created' = created
      /\ rstop' = rstop /\ hpc' = hpc /\ handler' = handler
      /\ phase' = phase /\ awaited' = awaited
  OBVIOUS
<1>2. \A t \in Sources, m \in Ids :
         /\ rpc'[t][m] = IF t = s /\ m = n THEN state ELSE rpc[t][m]
         /\ reader'[t][m].final => reader[t][m].final \/ (t = s /\ m = n /\ rstop[t][m])
  BY DEF TypeOK
<1>3. \A t \in Sources, m \in Ids :
         /\ Present(t, m)' <=> Present(t, m)
         /\ rpc'[t][m] = "unborn" <=> rpc[t][m] = "unborn"
         /\ rpc'[t][m] = "done" => rpc[t][m] = "done"
         /\ StopPending(t, m)' <=> StopPending(t, m)
  BY <1>1, <1>2 DEF Present, Active, StopPending
<1>4. RegisteredReaderCanBeStopped' /\ TablesKnowCreated' /\ WaitingForRegistered'
  BY <1>1 DEF RegisteredReaderCanBeStopped, TablesKnowCreated, WaitingForRegistered
<1>5. NumberedInOrder'
  BY <1>1, <1>3 DEF NumberedInOrder
<1>6. PresentIsRegistered'
  BY <1>1, <1>3 DEF PresentIsRegistered
<1>7. StoppingIsAwaited'
  BY <1>1, <1>3 DEF StoppingIsAwaited
<1>8. FinalIsStopping'
  BY <1>1, <1>2 DEF FinalIsStopping
<1>9. PhaseInv'
  BY <1>1, <1>3 DEF PhaseInv
<1> QED BY <1>4, <1>5, <1>6, <1>7, <1>8, <1>9

(* A reader that was told to stop finishes.                                *)
LEMMA SerialReaderEnds ==
    ASSUME TypeOK, SerialInv, NEW s \in Sources, NEW n \in Ids, NEW rec,
           rpc[s][n] \in Active, rstop[s][n],
           rpc' = [rpc EXCEPT ![s][n] = "done"],
           reader' = [reader EXCEPT ![s][n] = rec],
           UNCHANGED <<tasks, stopEvents, created, rstop, hpc, handler, phase, awaited>>
    PROVE  SerialInv'
<1> USE DEF SerialInv
<1>1. /\ tasks' = tasks /\ stopEvents' = stopEvents /\ created' = created
      /\ rstop' = rstop /\ hpc' = hpc /\ handler' = handler
      /\ phase' = phase /\ awaited' = awaited
  OBVIOUS
<1>2. \A t \in Sources, m \in Ids :
         /\ rpc'[t][m] = IF t = s /\ m = n THEN "done" ELSE rpc[t][m]
         /\ reader'[t][m].final => reader[t][m].final \/ (t = s /\ m = n)
  BY DEF TypeOK
<1>3. \A t \in Sources, m \in Ids :
         /\ Present(t, m)' <=> Present(t, m)
         /\ rpc'[t][m] = "unborn" <=> rpc[t][m] = "unborn"
         /\ rpc'[t][m] = "done" => rpc[t][m] = "done" \/ rstop[t][m]
         /\ StopPending(t, m)' <=> StopPending(t, m)
  BY <1>1, <1>2 DEF Present, Active, StopPending
<1>4. RegisteredReaderCanBeStopped' /\ TablesKnowCreated' /\ WaitingForRegistered'
  BY <1>1 DEF RegisteredReaderCanBeStopped, TablesKnowCreated, WaitingForRegistered
<1>5. NumberedInOrder'
  BY <1>1, <1>3 DEF NumberedInOrder
<1>6. PresentIsRegistered'
  BY <1>1, <1>3 DEF PresentIsRegistered
<1>7. StoppingIsAwaited'
  BY <1>1, <1>3 DEF StoppingIsAwaited
<1>8. FinalIsStopping'
  BY <1>1, <1>2 DEF FinalIsStopping
<1>9. PhaseInv'
  BY <1>1, <1>3 DEF PhaseInv
<1> QED BY <1>4, <1>5, <1>6, <1>7, <1>8, <1>9

(* The callback of a finished reader clears its own table entry.           *)
LEMMA SerialReap ==
    ASSUME TypeOK, SerialInv, NEW s \in Sources, NEW n \in Ids, Reap(s, n)
    PROVE  SerialInv'
<1> USE DEF SerialInv
<1>1. /\ stopEvents' = stopEvents /\ created' = created
      /\ rstop' = rstop /\ hpc' = hpc /\ handler' = handler
      /\ phase' = phase /\ awaited' = awaited
      /\ rpc[s][n] = "done"
  BY DEF Reap
<1>2. \A t \in Sources, m \in Ids :
         /\ rpc'[t][m] = IF t = s /\ m = n THEN "reaped" ELSE rpc[t][m]
         /\ reader'[t][m].final => reader[t][m].final
  BY DEF TypeOK, Reap, IdleReader
<1>3. \A t \in Sources : tasks'[t] = IF t = s THEN 0 ELSE tasks[t]
  BY DEF TypeOK, Reap
<1>4. tasks[s] = n /\ \A m \in Ids : Present(s, m) => m = n
  BY <1>1 DEF PresentIsRegistered, Present
<1>5. \A t \in Sources, m \in Ids :
         /\ Present(t, m)' <=> Present(t, m) /\ t # s
         /\ rpc'[t][m] = "unborn" <=> rpc[t][m] = "unborn"
         /\ rpc'[t][m] = "done" => rpc[t][m] = "done"
         /\ StopPending(t, m)' <=> StopPending(t, m)
  <2> SUFFICES ASSUME NEW t \in Sources, NEW m \in Ids
               PROVE  /\ Present(t, m)' <=> Present(t, m) /\ t # s
                      /\ rpc'[t][m] = "unborn" <=> rpc[t][m] = "unborn"
                      /\ rpc'[t][m] = "done" => rpc[t][m] = "done"
                      /\ StopPending(t, m)' <=> StopPending(t, m)
    OBVIOUS
  <2>1. StopPending(t, m)' <=> StopPending(t, m)
    BY <1>1 DEF StopPending
  <2> QED BY <1>1, <1>2, <1>4, <2>1 DEF Present, Active
<1>6. RegisteredReaderCanBeStopped'
  BY <1>1, <1>3 DEF RegisteredReaderCanBeStopped
<1>7. TablesKnowCreated'
  <2>1. \A t \in Sources : 0 <= created[t]
    BY BoundAssumption DEF TypeOK, Ref
  <2> SUFFICES ASSUME NEW t \in Sources
               PROVE  tasks'[t] <= created[t] /\ stopEvents[t] <= created[t]
    BY <1>1 DEF TablesKnowCreated
  <2> QED BY <1>3, <2>1 DEF TablesKnowCreated
<1>8. WaitingForRegistered'
  BY <1>1, <1>3 DEF WaitingForRegistered, TypeOK, HandlerRec
<1>9. NumberedInOrder'
  BY <1>1, <1>5 DEF NumberedInOrder
<1>10. PresentIsRegistered'
  BY <1>3, <1>5 DEF PresentIsRegistered
<1>11. StoppingIsAwaited'
  BY <1>1, <1>5 DEF StoppingIsAwaited
<1>12. FinalIsStopping'
  BY <1>1, <1>2 DEF FinalIsStopping
<1>13. PhaseInv'
  BY <1>1, <1>5 DEF PhaseInv
<1> QED BY <1>6, <1>7, <1>8, <1>9, <1>10, <1>11, <1>12, <1>13

LEMMA SerialReaderStep ==
    ASSUME TypeOK, SerialInv, MaxDeaths = 0,
           NEW s \in Sources, NEW n \in Ids, ReaderStep(s, n)
    PROVE  SerialInv'
<1> DEFINE r == reader[s][n]
<1>1. r \in ReaderRec /\ (r.final => rstop[s][n])
  BY DEF TypeOK, SerialInv, FinalIsStopping
<1>2. CASE ReaderOpen(s, n)
  <2> DEFINE opened == [r EXCEPT !.read = file[r.body.def]]
             tail == IF Remote(s, n) THEN file[r.body.def] ELSE r.read
             batch == LastN(Lines(1, tail), r.body.history)
             emitted == [opened EXCEPT !.batch = batch, !.limit = LimitNow(s)]
  <2>1. opened.final = r.final /\ emitted.final = r.final
    BY <1>1 DEF ReaderRec
  <2>2. /\ rpc[s][n] \in Active
        /\ UNCHANGED <<tasks, stopEvents, created, rstop, hpc, handler, phase, awaited>>
    BY <1>2 DEF ReaderOpen, Active
  <2>3. \/ /\ rpc' = [rpc EXCEPT ![s][n] = "poll"]
           /\ reader' = [reader EXCEPT ![s][n] = opened]
        \/ /\ rpc' = [rpc EXCEPT ![s][n] = "insert"]
           /\ reader' = [reader EXCEPT ![s][n] = emitted]
    BY <1>2 DEF ReaderOpen, EmitBatch
  <2>4. "poll" \in Active /\ "insert" \in Active
    BY DEF Active
  <2> HIDE DEF opened, emitted
  <2> QED BY <1>1, <2>1, <2>2, <2>3, <2>4, SerialReaderMoves
<1>3. CASE ReaderPoll(s, n)
  <2> DEFINE size == file[r.body.def]
             all == r.held \o Lines(r.read + 1, size)
             idle == size = r.read
             batch == IF idle THEN all ELSE DropLast(all, 1)
             next == [r EXCEPT !.read = size, !.held = IF idle THEN <<>> ELSE LastN(all, 1)]
             emitted == [next EXCEPT !.batch = batch, !.limit = LimitNow(s)]
  <2>1. next.final = r.final /\ emitted.final = r.final
    BY <1>1 DEF ReaderRec
  <2>2. /\ rpc[s][n] = "poll"
        /\ UNCHANGED <<tasks, stopEvents, created, rstop, hpc, handler, phase, awaited>>
    BY <1>3 DEF ReaderPoll
  <2>3. \/ /\ UNCHANGED rpc
           /\ reader' = [reader EXCEPT ![s][n] = next]
        \/ /\ rpc' = [rpc EXCEPT ![s][n] = "insert"]
           /\ reader' = [reader EXCEPT ![s][n] = emitted]
    BY <1>3 DEF ReaderPoll, EmitBatch
  <2>4. "poll" \in Active /\ "insert" \in Active
    BY DEF Active
  <2>5. rpc = [rpc EXCEPT ![s][n] = "poll"]
    BY <2>2 DEF TypeOK
  <2> HIDE DEF next, emitted
  <2>6. CASE /\ UNCHANGED rpc
             /\ reader' = [reader EXCEPT ![s][n] = next]
    BY <1>1, <2>1, <2>2, <2>4, <2>5, <2>6, SerialReaderMoves
  <2>7. CASE /\ rpc' = [rpc EXCEPT ![s][n] = "insert"]
             /\ reader' = [reader EXCEPT ![s][n] = emitted]
    BY <1>1, <2>1, <2>2, <2>4, <2>7, SerialReaderMoves
  <2> QED BY <2>3, <2>6, <2>7
<1>4. CASE ReaderStop(s, n)
  <2> DEFINE last == [r EXCEPT !.held = <<>>, !.final = TRUE]
             emitted == [last EXCEPT !.batch = r.held, !.limit = LimitNow(s)]
  <2>1. /\ rpc[s][n] \in Active /\ rstop[s][n]
        /\ UNCHANGED <<tasks, stopEvents, created, rstop, hpc, handler, phase, awaited>>
    BY <1>4 DEF ReaderStop, Active
  <2>2. \/ /\ rpc' = [rpc EXCEPT ![s][n] = "done"]
           /\ UNCHANGED reader
        \/ /\ rpc' = [rpc EXCEPT ![s][n] = "insert"]
           /\ reader' = [reader EXCEPT ![s][n] = emitted]
    BY <1>4 DEF ReaderStop, EmitBatch
  <2>3. reader = [reader EXCEPT ![s][n] = r] /\ "insert" \in Active
    BY DEF TypeOK, Active
  <2> HIDE DEF emitted
  <2>4. CASE /\ rpc' = [rpc EXCEPT ![s][n] = "done"]
             /\ UNCHANGED reader
    BY <2>1, <2>3, <2>4, SerialReaderEnds
  <2>5. CASE /\ rpc' = [rpc EXCEPT ![s][n] = "insert"]
             /\ reader' = [reader EXCEPT ![s][n] = emitted]
    BY <2>1, <2>3, <2>5, SerialReaderMoves
  <2> QED BY <2>2, <2>4, <2>5
<1>5. CASE ReaderInsert(s, n)
  <2> DEFINE stored == [r EXCEPT !.batch = <<>>, !.limit = 0]
  <2>1. stored.final = r.final
    BY <1>1 DEF ReaderRec
  <2>2. /\ rpc[s][n] \in Active /\ "poll" \in Active
        /\ UNCHANGED <<tasks, stopEvents, created, rstop, hpc, handler, phase, awaited>>
        /\ reader' = [reader EXCEPT ![s][n] = stored]
        /\ rpc' = [rpc EXCEPT ![s][n] = IF r.final THEN "done" ELSE "poll"]
    BY <1>5 DEF ReaderInsert, Active
  <2> HIDE DEF stored
  <2>3. CASE r.final
    BY <1>1, <2>2, <2>3, SerialReaderEnds
  <2>4. CASE ~r.final
    BY <2>1, <2>2, <2>4, SerialReaderMoves
  <2> QED BY <2>3, <2>4
<1>6. CASE ReaderFails(s, n)
  <2>1. Present(s, n) /\ deaths \in 0..MaxDeaths
    BY <1>6 DEF ReaderFails, Present, Active, TypeOK
  <2>2. phase # "closed"
    BY <2>1 DEF SerialInv, PhaseInv
  <2>3. deaths < MaxDeaths
    BY <1>6, <2>2 DEF ReaderFails
  <2> QED BY <2>1, <2>3
<1>7. CASE Reap(s, n)
  BY <1>7, SerialReap
<1>8. CASE ReaderTail(s, n)
  <2> DEFINE new == [r EXCEPT !.read = file[r.body.def]]
  <2>1. new.final = r.final
    BY <1>1 DEF ReaderRec
  <2>2. /\ rpc[s][n] \in Active /\ "tail" \in Active
        /\ UNCHANGED <<tasks, stopEvents, created, rstop, hpc, handler, phase, awaited>>
        /\ reader' = [reader EXCEPT ![s][n] = new]
        /\ rpc' = [rpc EXCEPT ![s][n] = "tail"]
    BY <1>8 DEF ReaderTail, Active
  <2> HIDE DEF new
  <2> QED BY <1>1, <2>1, <2>2, SerialReaderMoves
<1> QED BY <1>2, <1>3, <1>4, <1>5, <1>6, <1>7, <1>8 DEF ReaderStep

LEMMA SerialStartAll ==
    ASSUME TypeOK, SerialInv, StartAll
    PROVE  SerialInv'
<1> USE DEF SerialInv
<1>1. /\ phase = "boot" /\ phase' = "up"
      /\ 1 \in Ids
      /\ tasks' = [s \in Sources |-> IF Enabled(s) THEN 1 ELSE 0]
      /\ stopEvents' = tasks' /\ created' = tasks'
      /\ rpc' = [s \in Sources |->
                    IF Enabled(s) THEN [rpc[s] EXCEPT ![1] = "open"] ELSE rpc[s]]
      /\ reader' = [s \in Sources |->
                    IF Enabled(s) THEN [reader[s] EXCEPT ![1].body = config[s]] ELSE reader[s]]
      /\ rstop' = rstop /\ hpc' = hpc /\ handler' = handler
  BY BoundAssumption DEF StartAll, Ids
<1>2. /\ \A h \in Handlers : hpc[h] = "idle"
      /\ \A s \in Sources, n \in Ids : rpc[s][n] = "unborn" /\ ~rstop[s][n]
  <2>1. \A h \in Handlers : hpc[h] = "idle"
    BY <1>1 DEF PhaseInv
  <2>2. \A s \in Sources, n \in Ids : rpc[s][n] = "unborn" /\ ~rstop[s][n]
    BY <1>1 DEF PhaseInv, NumberedInOrder, Ids
  <2> QED BY <2>1, <2>2
<1>3. \A s \in Sources, n \in Ids :
         rpc'[s][n] = IF n = 1 /\ Enabled(s) THEN "open" ELSE "unborn"
  BY <1>1, <1>2 DEF TypeOK
<1>4. \A s \in Sources : tasks'[s] = IF Enabled(s) THEN 1 ELSE 0
  BY <1>1
<1>5. \A s \in Sources, n \in Ids : reader'[s][n].final = reader[s][n].final
  <2> SUFFICES ASSUME NEW s \in Sources, NEW n \in Ids
               PROVE  reader'[s][n].final = reader[s][n].final
    OBVIOUS
  <2>1. reader[s] \in [Ids -> ReaderRec] /\ reader[s][n] \in ReaderRec
    BY DEF TypeOK
  <2>2. [reader[s][1] EXCEPT !.body = config[s]].final = reader[s][1].final
    BY <1>1 DEF TypeOK, ReaderRec
  <2>3. reader'[s] = IF Enabled(s) THEN [reader[s] EXCEPT ![1].body = config[s]]
                                   ELSE reader[s]
    BY <1>1
  <2>4. CASE Enabled(s) /\ n = 1
    BY <1>1, <2>1, <2>2, <2>3, <2>4
  <2>5. CASE ~(Enabled(s) /\ n = 1)
    BY <1>1, <2>1, <2>3, <2>5
  <2> QED BY <2>4, <2>5
<1>6. RegisteredReaderCanBeStopped' /\ TablesKnowCreated'
  <2>1. \A s \in Sources : tasks'[s] <= tasks'[s]
    BY <1>4
  <2> QED BY <1>1, <2>1 DEF RegisteredReaderCanBeStopped, TablesKnowCreated
<1>7. NumberedInOrder'
  <2> SUFFICES ASSUME NEW s \in Sources, NEW n \in Ids
               PROVE  /\ n > tasks'[s] <=> rpc'[s][n] = "unborn"
                      /\ ~rstop[s][n]
    BY <1>1 DEF NumberedInOrder
  <2> QED BY <1>2, <1>3, <1>4 DEF Ids
<1>8. PresentIsRegistered'
  BY <1>3, <1>4 DEF PresentIsRegistered, Present, Active
<1>9. StoppingIsAwaited'
  BY <1>1, <1>2, <1>3 DEF StoppingIsAwaited
<1>10. FinalIsStopping'
  BY <1>1, <1>5 DEF FinalIsStopping
<1>11. WaitingForRegistered' /\ PhaseInv'
  BY <1>1, <1>2 DEF WaitingForRegistered, PhaseInv
<1> QED BY <1>6, <1>7, <1>8, <1>9, <1>10, <1>11

LEMMA SerialStopAll ==
    ASSUME TypeOK, SerialInv, StopAll
    PROVE  SerialInv'
<1> USE DEF SerialInv
<1>1. /\ \A h \in Handlers : hpc[h] = "idle"
      /\ phase' = "stopping"
      /\ rstop' = [s \in Sources |-> [n \in Ids |-> rstop[s][n] \/ stopEvents[s] = n]]
      /\ awaited' = {p \in Sources \X Ids : tasks[p[1]] = p[2]}
      /\ tasks' = tasks /\ stopEvents' = stopEvents /\ created' = created
      /\ rpc' = rpc /\ reader' = reader /\ hpc' = hpc /\ handler' = handler
  BY DEF StopAll
<1>2. \A s \in Sources, n \in Ids : rstop'[s][n] <=> rstop[s][n] \/ stopEvents[s] = n
  BY <1>1
<1>3. RegisteredReaderCanBeStopped' /\ TablesKnowCreated' /\ PresentIsRegistered'
  BY <1>1 DEF RegisteredReaderCanBeStopped, TablesKnowCreated, PresentIsRegistered, Present
<1>4. NumberedInOrder'
  <2> SUFFICES ASSUME NEW s \in Sources, NEW n \in Ids
               PROVE  /\ n > created[s] <=> rpc[s][n] = "unborn"
                      /\ rpc[s][n] = "unborn" => ~rstop'[s][n]
    BY <1>1 DEF NumberedInOrder
  <2>1. /\ n > created[s] <=> rpc[s][n] = "unborn"
        /\ rpc[s][n] = "unborn" => ~rstop[s][n]
    BY DEF NumberedInOrder
  <2>2. rpc[s][n] = "unborn" => stopEvents[s] # n
    BY <2>1, BoundAssumption DEF TablesKnowCreated, TypeOK, Ref, Ids
  <2> QED BY <1>2, <2>1, <2>2
<1>5. StoppingIsAwaited'
  BY <1>1 DEF StoppingIsAwaited
<1>6. FinalIsStopping'
  BY <1>1, <1>2 DEF FinalIsStopping
<1>7. WaitingForRegistered'
  BY <1>1 DEF WaitingForRegistered
<1>8. PhaseInv'
  <2>1. \A s \in Sources : \A n \in Ids : Present(s, n) => <<s, n>> \in awaited'
    BY <1>1 DEF PresentIsRegistered
  <2> QED BY <1>1, <2>1 DEF PhaseInv, Present
<1> QED BY <1>3, <1>4, <1>5, <1>6, <1>7, <1>8

LEMMA SerialClose ==
    ASSUME TypeOK, SerialInv, Close
    PROVE  SerialInv'
<1> USE DEF SerialInv
<1>1. /\ phase = "stopping" /\ phase' = "closed"
      /\ \A p \in awaited : rpc[p[1]][p[2]] = "reaped"
      /\ tasks' = [s \in Sources |-> 0] /\ stopEvents' = [s \in Sources |-> 0]
      /\ created' = created /\ rpc' = rpc /\ rstop' = rstop /\ reader' = reader
      /\ hpc' = hpc /\ handler' = handler
  BY DEF Close
<1>2. \A s \in Sources, n \in Ids : ~Present(s, n) /\ ~Present(s, n)'
  <2> SUFFICES ASSUME NEW s \in Sources, NEW n \in Ids, Present(s, n)
               PROVE  FALSE
    BY <1>1 DEF Present
  <2>1. <<s, n>> \in awaited
    BY <1>1 DEF PhaseInv
  <2>2. rpc[s][n] = "reaped"
    BY <1>1, <2>1
  <2> QED BY <2>2 DEF Present, Active
<1>3. \A h \in Handlers : hpc[h] = "idle"
  BY <1>1 DEF PhaseInv
<1>4. RegisteredReaderCanBeStopped' /\ TablesKnowCreated'
  <2>1. \A s \in Sources : 0 <= created[s]
    BY BoundAssumption DEF TypeOK, Ref
  <2> QED BY <1>1, <2>1 DEF RegisteredReaderCanBeStopped, TablesKnowCreated
<1>5. NumberedInOrder' /\ FinalIsStopping'
  BY <1>1 DEF NumberedInOrder, FinalIsStopping
<1>6. PresentIsRegistered' /\ StoppingIsAwaited'
  BY <1>2 DEF PresentIsRegistered, StoppingIsAwaited
<1>7. WaitingForRegistered' /\ PhaseInv'
  BY <1>1, <1>2, <1>3 DEF WaitingForRegistered, PhaseInv
<1> QED BY <1>4, <1>5, <1>6, <1>7

(* Nothing SerialInv reads changes.                                        *)
LEMMA SerialStutter ==
    ASSUME SerialInv, UNCHANGED <<readerVars, hpc, handler, phase, awaited>>
    PROVE  SerialInv'
<1>1. /\ tasks' = tasks /\ stopEvents' = stopEvents /\ created' = created
      /\ rpc' = rpc /\ rstop' = rstop /\ reader' = reader
      /\ hpc' = hpc /\ handler' = handler /\ phase' = phase /\ awaited' = awaited
  BY DEF readerVars
<1>2. RegisteredReaderCanBeStopped' /\ NumberedInOrder' /\ TablesKnowCreated'
  BY <1>1 DEF SerialInv, RegisteredReaderCanBeStopped, NumberedInOrder, TablesKnowCreated
<1>3. PresentIsRegistered' /\ StoppingIsAwaited' /\ FinalIsStopping'
  BY <1>1 DEF SerialInv, PresentIsRegistered, StoppingIsAwaited, FinalIsStopping,
              Present, StopPending
<1>4. WaitingForRegistered' /\ PhaseInv'
  BY <1>1 DEF SerialInv, WaitingForRegistered, PhaseInv, Present
<1> QED BY <1>2, <1>3, <1>4 DEF SerialInv

LEMMA SerialStep ==
    ASSUME TypeOK, WorkLeft, SerialInv, [Next]_vars,
           NEW h, Handlers = {h}, MaxDeaths = 0
    PROVE  SerialInv'
<1>1. CASE UNCHANGED vars
  BY <1>1, SerialStutter DEF vars, readerVars, countVars
<1>2. ASSUME NEW s \in Sources, NEW n \in Ids, ReaderStep(s, n)
      PROVE  SerialInv'
  BY <1>2, SerialReaderStep
<1>3. ASSUME NEW g \in Handlers, HandlerStep(g)
      PROVE  SerialInv'
  BY <1>3, SerialHandlerStep
<1>4. ASSUME NEW g \in Handlers, NEW s \in Sources, Request(g, s)
      PROVE  SerialInv'
  BY <1>4, SerialRequest
<1>5. CASE StartAll \/ StopAll \/ Close
  BY <1>5, SerialStartAll, SerialStopAll, SerialClose
<1>6. ASSUME NEW d \in Definitions, Append1(d)
      PROVE  SerialInv'
  BY <1>6, SerialStutter DEF Append1
<1> QED BY <1>1, <1>2, <1>3, <1>4, <1>5, <1>6 DEF Next

LEMMA SerialInit == Init => SerialInv
<1> SUFFICES ASSUME Init PROVE SerialInv
  OBVIOUS
<1>1. \A s \in Sources, n \in Ids :
         rpc[s][n] = "unborn" /\ ~rstop[s][n] /\ ~reader[s][n].final
  BY DEF Init, IdleReader
<1>2. \A s \in Sources : tasks[s] = 0 /\ stopEvents[s] = 0 /\ created[s] = 0
  BY DEF Init
<1>3. phase = "boot" /\ \A h \in Handlers : hpc[h] = "idle"
  BY DEF Init
<1>4. \A s \in Sources, n \in Ids : ~Present(s, n)
  BY <1>1 DEF Present, Active
<1>5. RegisteredReaderCanBeStopped /\ TablesKnowCreated
  BY <1>2 DEF RegisteredReaderCanBeStopped, TablesKnowCreated
<1>6. NumberedInOrder
  BY <1>1, <1>2 DEF NumberedInOrder, Ids
<1>7. PresentIsRegistered /\ StoppingIsAwaited /\ FinalIsStopping
  BY <1>1, <1>4 DEF PresentIsRegistered, StoppingIsAwaited, FinalIsStopping
<1>8. WaitingForRegistered /\ PhaseInv
  BY <1>2, <1>3, <1>4 DEF WaitingForRegistered, PhaseInv
<1> QED BY <1>5, <1>6, <1>7, <1>8 DEF SerialInv

(* What the invariant says of the readers that still run.                  *)
LEMMA OneLive ==
    ASSUME SerialInv
    PROVE  AtMostOneReader /\ NoReaderAfterClose
<1>1. \A s \in Sources : \A n \in Live(s) : Present(s, n) /\ n = tasks[s] /\ n \in Ids
  BY DEF SerialInv, PresentIsRegistered, Present, Live
<1>2. AtMostOneReader
  <2> SUFFICES ASSUME NEW s \in Sources
               PROVE  Cardinality(Live(s)) <= 1
    BY DEF AtMostOneReader
  <2>1. Live(s) = {} \/ Live(s) = {tasks[s]}
    BY <1>1
  <2>2. Cardinality({}) = 0 /\ Cardinality({tasks[s]}) = 1
    BY FS_EmptySet, FS_Singleton
  <2>3. Cardinality(Live(s)) = 0 \/ Cardinality(Live(s)) = 1
    BY <2>1, <2>2
  <2> QED BY <2>3
<1>3. NoReaderAfterClose
  BY <1>1 DEF NoReaderAfterClose, SerialInv, PhaseInv, Live
<1> QED BY <1>2, <1>3

(* With one request at a time and no reader killed by an exception, a      *)
(* source never has two readers, however the handler's waits interleave    *)
(* with readers, callbacks, the shutdown and the writers of the logs.      *)
THEOREM SerialOneReader ==
    ASSUME NEW h, Handlers = {h}, MaxDeaths = 0
    PROVE  Spec => []AtMostOneReader
<1>1. Init => TypeOK /\ WorkLeft /\ SerialInv
  BY TypeInit, SerialInit
<1>2. TypeOK /\ WorkLeft /\ SerialInv /\ [Next]_vars => (TypeOK /\ WorkLeft /\ SerialInv)'
  BY TypeInductive, SerialStep
<1>3. SerialInv => AtMostOneReader
  BY OneLive
<1> QED BY <1>1, <1>2, <1>3, PTL DEF Spec

(* Under the same conditions no reader survives the shutdown: the stores   *)
(* are closed when the last one has gone.                                  *)
THEOREM SerialNoReaderAfterClose ==
    ASSUME NEW h, Handlers = {h}, MaxDeaths = 0
    PROVE  Spec => []NoReaderAfterClose
<1>1. Init => TypeOK /\ WorkLeft /\ SerialInv
  BY TypeInit, SerialInit
<1>2. TypeOK /\ WorkLeft /\ SerialInv /\ [Next]_vars => (TypeOK /\ WorkLeft /\ SerialInv)'
  BY TypeInductive, SerialStep
<1>3. SerialInv => NoReaderAfterClose
  BY OneLive
<1> QED BY <1>1, <1>2, <1>3, PTL DEF Spec
=============================================================================

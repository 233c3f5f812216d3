--------------------------- MODULE WebSocketStream ---------------------------
(***************************************************************************)
(* Live delivery: the publication at the end of SourceManager._on_events,  *)
(* the generator SourceManager.subscribe, the endpoint /ws that reads it   *)
(* and the socket the browser keeps (connectWebSocket of app.js).          *)
(*                                                                         *)
(* An event is its number in the order of publication; only events of the  *)
(* sources a connection asked for are published here.  A connection is a   *)
(* slot, used again when both ends have forgotten it.  `await              *)
(* asyncio.wait_for(anext(stream), timeout)` cancels the generator when    *)
(* the deadline passes while it waits: its finally block unsubscribes the  *)
(* queue, and the next anext ends the endpoint.                            *)
(*                                                                         *)
(* A definition whose name begins with Bad is a faulty variant of the one  *)
(* that follows it, there to try the properties on a plausible bug.        *)
(***************************************************************************)
EXTENDS Naturals, Sequences, FiniteSets, SequencesExt

CONSTANTS
    Slots,          \* connections that exist at the same time
    Delays,         \* values of sort_buffer_seconds; 0: no buffering
    QueueSize,      \* events a subscriber's queue holds (5000 in the code)
    Time,           \* the display timestamp of each event
    MaxEvents,      \* bound: events ever published
    MaxReplaced     \* bound: sockets the browser gives up or the network cuts

ASSUME SlotAssumption == Slots # {} /\ 0 \notin Slots
ASSUME TimeAssumption == Time \in [1..MaxEvents -> Nat]
ASSUME QueueAssumption == QueueSize \in Nat \ {0}
ASSUME BoundAssumption == MaxEvents \in Nat /\ MaxReplaced \in Nat

VARIABLES
    published,  \* events published so far
    setting,    \* settings.sort_buffer_seconds
    pc,         \* the endpoint of each connection
    queue,      \* its queue in SourceManager.subscribers
    subscribed, \* whether the queue is there
    delay,      \* the delay the endpoint read at the head of its loop
    buffer,     \* its sort buffer
    out,        \* what is left to send of a flush
    since,      \* events published before it subscribed
    lost,       \* events it lost because its queue was full
    socket,     \* browser: state.websocket, 0 for none
    open,       \* browser: the sockets it has not closed
    timer,      \* browser: a reconnection is scheduled
    wanted,     \* browser: state.config has an enabled source
    delivered,  \* browser: events received, in order
    replaced    \* what the bound counts

server == <<pc, queue, subscribed, delay, buffer, out, since, lost>>
browser == <<socket, open, timer, wanted, delivered>>
vars == <<published, setting, server, browser, replaced>>

Events == 1..MaxEvents
States == {"free", "accept", "get", "timed", "send", "ended"}

-----------------------------------------------------------------------------
(* SourceManager.                                                          *)

\* put_nowait, and on QueueFull the oldest event makes room.
Offer(q, e) == IF Len(q) < QueueSize THEN Append(q, e) ELSE Append(Tail(q), e)

Publish ==
    /\ published < MaxEvents
    /\ published' = published + 1
    /\ queue' = [c \in Slots |-> IF subscribed[c] THEN Offer(queue[c], published') ELSE queue[c]]
    /\ lost' = [c \in Slots |->
                   IF subscribed[c] /\ Len(queue[c]) = QueueSize
                   THEN lost[c] \cup {Head(queue[c])} ELSE lost[c]]
    /\ UNCHANGED <<setting, pc, subscribed, delay, buffer, out, since, browser, replaced>>

-----------------------------------------------------------------------------
(* The endpoint.                                                           *)

Earlier(a, b) == Time[a] < Time[b] \/ (Time[a] = Time[b] /\ a < b)

\* The handshake is over: the first anext subscribes.
Subscribe(c) ==
    /\ pc[c] = "accept"
    /\ pc' = [pc EXCEPT ![c] = "get"]
    /\ subscribed' = [subscribed EXCEPT ![c] = TRUE]
    /\ since' = [since EXCEPT ![c] = published]
    /\ delay' = [delay EXCEPT ![c] = setting]
    /\ UNCHANGED <<published, setting, queue, buffer, out, lost, browser, replaced>>

\* The first event of a batch, or an event that is not delayed.
Get(c) ==
    LET e == Head(queue[c]) IN
    /\ pc[c] = "get"
    /\ queue[c] # <<>>
    /\ queue' = [queue EXCEPT ![c] = Tail(@)]
    /\ IF delay[c] = 0
       THEN /\ pc' = [pc EXCEPT ![c] = "send"]
            /\ out' = [out EXCEPT ![c] = <<e>>]
            /\ UNCHANGED <<buffer, delay>>
       ELSE /\ pc' = [pc EXCEPT ![c] = "timed"]
            /\ buffer' = [buffer EXCEPT ![c] = <<e>>]
            /\ delay' = [delay EXCEPT ![c] = setting]
            /\ UNCHANGED out
    /\ UNCHANGED <<published, setting, subscribed, since, lost, browser, replaced>>

BadCollected(q, e) == <<e>>
Collected(q, e) == Append(q, e)

BadUnsubscribe(c) ==
    /\ subscribed' = [subscribed EXCEPT ![c] = FALSE]
    /\ UNCHANGED queue
\* The finally block of subscribe: nobody holds the queue any more.
Unsubscribe(c) ==
    /\ subscribed' = [subscribed EXCEPT ![c] = FALSE]
    /\ queue' = [queue EXCEPT ![c] = <<>>]

\* The sequences of the events in S in display order: there is one.
Ordered(S) ==
    {s \in SetToSeqs(S) : \A i, j \in DOMAIN s : i < j => Earlier(s[i], s[j])}
BadFlushed(q) == {Tail(s) : s \in Ordered(ToSet(q))}
\* buffer.sort: no two events are alike.
Flushed(q) == Ordered(ToSet(q))

Flush(c, events) ==
    /\ pc' = [pc EXCEPT ![c] = "send"]
    /\ \E sorted \in Flushed(events) : out' = [out EXCEPT ![c] = sorted]
    /\ buffer' = [buffer EXCEPT ![c] = <<>>]

\* One more event.  If the deadline has passed by then, the next timeout is
\* 0: wait_for cancels its task before it starts, which leaves the generator
\* alone, and the flush begins.
Collect(c) ==
    LET events == Collected(buffer[c], Head(queue[c])) IN
    /\ pc[c] = "timed"
    /\ queue[c] # <<>>
    /\ queue' = [queue EXCEPT ![c] = Tail(@)]
    /\ delay' = [delay EXCEPT ![c] = setting]
    /\ \/ buffer' = [buffer EXCEPT ![c] = events] /\ UNCHANGED <<pc, out>>
       \/ Flush(c, events)
    /\ UNCHANGED <<published, setting, subscribed, since, lost, browser, replaced>>

\* The deadline: the pending anext is cancelled and the flush begins.
Deadline(c) ==
    /\ pc[c] = "timed"
    /\ Unsubscribe(c)
    /\ Flush(c, buffer[c])
    /\ UNCHANGED <<published, setting, delay, since, lost, browser, replaced>>

\* Each send_text is an await; an open socket receives it.
Send(c) ==
    /\ pc[c] = "send"
    /\ out[c] # <<>>
    /\ c \in open
    /\ delivered' = Append(delivered, Head(out[c]))
    /\ out' = [out EXCEPT ![c] = Tail(@)]
    /\ UNCHANGED <<published, setting, pc, queue, subscribed, delay, buffer,
                   since, lost, socket, open, timer, wanted, replaced>>

\* Everything is sent: the head of the loop reads the setting again.
Sent(c) ==
    /\ pc[c] = "send"
    /\ out[c] = <<>>
    /\ pc' = [pc EXCEPT ![c] = "get"]
    /\ delay' = [delay EXCEPT ![c] = setting]
    /\ UNCHANGED <<published, setting, queue, subscribed, buffer, out, since, lost,
                   browser, replaced>>

End(c) ==
    /\ pc' = [pc EXCEPT ![c] = IF c \in open THEN "ended" ELSE "free"]
    /\ Unsubscribe(c)
    /\ buffer' = [buffer EXCEPT ![c] = <<>>]
    /\ out' = [out EXCEPT ![c] = <<>>]
    /\ since' = [since EXCEPT ![c] = 0]
    /\ lost' = [lost EXCEPT ![c] = {}]
    /\ delay' = [delay EXCEPT ![c] = 0]
    /\ UNCHANGED <<published, setting, browser, replaced>>

\* anext of a finished generator raises StopAsyncIteration: the endpoint ends.
Exhausted(c) ==
    /\ pc[c] = "get"
    /\ ~subscribed[c]
    /\ End(c)

\* send_text to a browser that has gone raises WebSocketDisconnect.  The
\* endpoint receives nothing, so it does not learn of it earlier.
Disconnected(c) ==
    /\ pc[c] = "send"
    /\ out[c] # <<>>
    /\ c \notin open
    /\ End(c)

-----------------------------------------------------------------------------
(* The browser.                                                            *)

BadOpened(c) == open \cup {c}
\* The old socket, if any, is closed, and its onclose is removed.
Opened(c) == (open \ {socket}) \cup {c}

\* connectWebSocket, with an enabled source to ask for.
Connect(c) ==
    /\ pc[c] = "free"
    /\ socket' = c
    /\ open' = Opened(c)
    /\ timer' = FALSE
    /\ pc' = [d \in Slots |->
                 IF d = c THEN "accept"
                 ELSE IF pc[d] = "ended" /\ d \notin Opened(c) THEN "free" ELSE pc[d]]
    /\ UNCHANGED <<published, setting, queue, subscribed, delay, buffer, out, since,
                   lost, delivered>>

\* connectWebSocket, with none: it returns before it opens a socket.
Close ==
    /\ socket' = 0
    /\ open' = open \ {socket}
    /\ timer' = FALSE
    /\ pc' = [d \in Slots |-> IF pc[d] = "ended" /\ d = socket THEN "free" ELSE pc[d]]
    /\ UNCHANGED <<published, setting, queue, subscribed, delay, buffer, out, since,
                   lost, delivered>>

\* A socket that is given up counts.
GiveUp ==
    IF socket = 0 THEN UNCHANGED replaced
    ELSE replaced < MaxReplaced /\ replaced' = replaced + 1

\* A source is saved, started, stopped or removed: the socket is replaced.
Replace(c) == wanted' = TRUE /\ Connect(c) /\ GiveUp

\* The last enabled source is stopped or removed.
Disable == wanted' = FALSE /\ Close /\ GiveUp

\* The start of the page, or the timer.
Reconnect(c) ==
    /\ timer
    /\ wanted
    /\ Connect(c)
    /\ UNCHANGED <<wanted, replaced>>
NoReconnect ==
    /\ timer
    /\ ~wanted
    /\ Close
    /\ UNCHANGED <<wanted, replaced>>

BadScheduled == UNCHANGED timer
\* setTimeout(connectWebSocket, 1500)
Scheduled == timer' = TRUE

\* onclose: the server ended the socket, or the network did.  Only the
\* current socket schedules a reconnection.
OnClose(c) ==
    /\ c \in open
    /\ \/ /\ pc[c] = "ended"
          /\ pc' = [pc EXCEPT ![c] = "free"]
          /\ UNCHANGED replaced
       \/ /\ pc[c] # "ended"
          /\ replaced < MaxReplaced
          /\ replaced' = replaced + 1
          /\ UNCHANGED pc
    /\ open' = open \ {c}
    /\ IF socket = c THEN socket' = 0 /\ Scheduled ELSE UNCHANGED <<socket, timer>>
    /\ UNCHANGED <<published, setting, queue, subscribed, delay, buffer, out, since,
                   lost, wanted, delivered>>

\* PUT /api/settings
UpdateSettings(d) ==
    /\ setting # d
    /\ setting' = d
    /\ UNCHANGED <<published, server, browser, replaced>>

-----------------------------------------------------------------------------
Init ==
    /\ published = 0
    /\ setting \in Delays
    /\ pc = [c \in Slots |-> "free"]
    /\ queue = [c \in Slots |-> <<>>]
    /\ subscribed = [c \in Slots |-> FALSE]
    /\ delay = [c \in Slots |-> 0]
    /\ buffer = [c \in Slots |-> <<>>]
    /\ out = [c \in Slots |-> <<>>]
    /\ since = [c \in Slots |-> 0]
    /\ lost = [c \in Slots |-> {}]
    /\ socket = 0
    /\ open = {}
    /\ timer = TRUE
    /\ wanted \in BOOLEAN
    /\ delivered = <<>>
    /\ replaced = 0

EndpointStep(c) ==
    \/ Subscribe(c)
    \/ Get(c)
    \/ Collect(c)
    \/ Deadline(c)
    \/ Send(c)
    \/ Sent(c)
    \/ Exhausted(c)
    \/ Disconnected(c)

Next ==
    \/ Publish
    \/ \E c \in Slots : EndpointStep(c) \/ Replace(c) \/ Reconnect(c) \/ OnClose(c)
    \/ Disable
    \/ NoReconnect
    \/ \E d \in Delays : UpdateSettings(d)

Spec == Init /\ [][Next]_vars

(* The loop runs what is ready and the timers fire; events, replacements   *)
(* and cuts of the network need not happen.                                *)
Fairness ==
    /\ \A c \in Slots :
           /\ WF_vars(EndpointStep(c))
           /\ WF_vars(Deadline(c))
           /\ WF_vars(OnClose(c) /\ pc[c] = "ended")
    /\ WF_vars(\E c \in Slots : Reconnect(c))

-----------------------------------------------------------------------------
(* Properties.                                                             *)

(* Every variable stays in its range.                                      *)
TypeOK ==
    /\ published \in 0..MaxEvents
    /\ setting \in Delays
    /\ pc \in [Slots -> States]
    /\ \A c \in Slots :
           /\ ToSet(queue[c]) \cup ToSet(buffer[c]) \cup ToSet(out[c]) \cup lost[c] \subseteq Events
           /\ Len(queue[c]) <= QueueSize
           /\ ~subscribed[c] => queue[c] = <<>>
           /\ delay[c] \in Delays \cup {0}
           /\ since[c] \in 0..published
    /\ subscribed \in [Slots -> BOOLEAN]
    /\ socket \in Slots \cup {0}
    /\ open \subseteq Slots
    /\ timer \in BOOLEAN
    /\ wanted \in BOOLEAN
    /\ ToSet(delivered) \subseteq Events
    /\ replaced \in 0..MaxReplaced

(* The browser never receives an event twice, whatever sockets it replaced *)
(* while others were still being served (LM-008).                          *)
DeliveredOnce == \A i, j \in DOMAIN delivered : i # j => delivered[i] # delivered[j]

Kept(c) == ToSet(queue[c]) \cup ToSet(buffer[c]) \cup ToSet(out[c]) \cup ToSet(delivered) \cup lost[c]
Missed(c) == {e \in Events : e > since[c] /\ e <= published} \ Kept(c)

(* While its queue is subscribed, no event published since a connection    *)
(* was made has been lost but by the queue's limit.                        *)
NothingMissedWhileSubscribed ==
    socket # 0 /\ subscribed[socket] => Missed(socket) = {}

(* Events published while the browser is connected all reach it, but for   *)
(* the queue's limit ("New events then arrive over one shared WebSocket",  *)
(* docs/ARCHITECTURE.md).                                                  *)
NothingMissedWhileConnected ==
    socket # 0 /\ pc[socket] \notin {"free", "accept", "ended"} => Missed(socket) = {}

Taken(c) == ToSet(buffer[c]) \cup ToSet(out[c])

(* What an endpoint took from its queue leaves its buffers by being        *)
(* delivered, or because the browser has no more use for the connection,   *)
(* and does leave them: the deadline ends the connection, but only after   *)
(* its sort buffer was sent.                                               *)
TakenIsDelivered ==
    /\ [][\A c \in open : Taken(c) \subseteq Taken(c)' \cup ToSet(delivered')]_vars
    /\ (socket # 0 /\ Taken(socket) # {}) ~> (socket = 0 \/ Taken(socket) = {})

(* While a source is enabled the browser always comes back: a socket that  *)
(* ended is replaced, and one is opened when the first source is enabled.  *)
Reconnects == (socket = 0 /\ wanted) ~> (socket # 0 \/ ~wanted)
=============================================================================

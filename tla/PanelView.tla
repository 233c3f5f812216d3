------------------------------ MODULE PanelView ------------------------------
(***************************************************************************)
(* A panel of one source (loadPanel, onmessage, insertSorted and           *)
(* trimSourceWindow of app.js) on the socket of WebSocketStream.  An event *)
(* is in the buffer before it is published (_on_events), and a query of    *)
(* the buffer answers with the events of its rolling window; the answer    *)
(* replaces what the panel shows, a delivered event is inserted.  Nothing  *)
(* keeps a panel from being loaded again before the answer has come, and   *)
(* answers may overtake each other.                                        *)
(*                                                                         *)
(* expected, exact and fresh are history: what the panel should show,      *)
(* whether it does, and whether an answer on its way would show it.        *)
(***************************************************************************)
EXTENDS WebSocketStream

CONSTANTS
    MaxLoads,      \* bound: queries for the panel that are under way together
    History,       \* history_events of the source
    MaxWithPanel   \* bound: events when there is a panel

ASSUME HistoryAssumption == History \in Nat \ {0}
ASSUME LoadsAssumption == MaxLoads \in Nat

VARIABLES
    hasPanel,  \* whether the active workspace has a panel of the source
    stored,    \* events inserted so far
    list,      \* state.panelEvents of the panel
    load,      \* each query, and the last event its answer holds
    fresh,     \* the answers that show the panel as it should be
    paused,    \* panel.paused
    expected,  \* the events the panel should show
    exact      \* whether the panel shows them

panel == <<hasPanel, list, load, fresh, paused, expected, exact>>
viewVars == <<vars, stored, panel>>

Newest(events) ==
    {e \in events : Cardinality({x \in events : x > e}) < History}

-----------------------------------------------------------------------------
(* The buffer.                                                             *)

\* insert_many keeps the rolling window; the publication follows.
Store ==
    /\ stored < MaxEvents
    /\ stored' = stored + 1
    /\ UNCHANGED <<vars, panel>>

PublishStored ==
    /\ published < stored
    /\ Publish
    /\ UNCHANGED <<stored, panel>>

\* Events the buffer has and a socket may yet deliver.
Coming ==
    {e \in 1..stored :
        \/ e > published
        \/ \E c \in open : e \in ToSet(queue[c]) \cup ToSet(buffer[c]) \cup ToSet(out[c])}

-----------------------------------------------------------------------------
(* The panel.                                                              *)

Loads == 1..MaxLoads
NoLoad == [pc |-> "idle", upto |-> 0]

\* loadPanel: bootstrap, an edit of the panels, a filter or the reload button.
Load(l) ==
    /\ hasPanel
    /\ load[l].pc = "idle"
    /\ \A k \in 1..l - 1 : load[k].pc # "idle"
    /\ load' = [load EXCEPT ![l].pc = "asked"]
    /\ UNCHANGED <<vars, stored, hasPanel, list, fresh, paused, expected, exact>>

\* POST /api/query
Answer(l) ==
    /\ load[l].pc = "asked"
    /\ load' = [load EXCEPT ![l] = [pc |-> "answered", upto |-> stored]]
    /\ fresh' = IF Coming = {} THEN fresh \cup {l} ELSE fresh
    /\ UNCHANGED <<vars, stored, hasPanel, list, paused, expected, exact>>

\* What the query answers with, sorted again by the panel.
Shown(l) == Ordered(Newest(1..load[l].upto))

\* The answers that do not hold all that the answer l holds.
Outdated(l) == {k \in Loads : load[k].upto < load[l].upto}

Replaced(l) ==
    /\ load[l].pc = "answered"
    /\ list' \in Shown(l)
    /\ load' = [load EXCEPT ![l] = NoLoad]
    /\ fresh' = fresh \ (Outdated(l) \cup {l})
    /\ exact' = (l \in fresh)
    /\ expected' = IF exact' THEN Newest(1..load[l].upto) ELSE {}
    /\ UNCHANGED <<vars, stored, hasPanel, paused>>

\* The query fails: a message is shown, and nothing changes.
Failed(l) ==
    /\ load[l].pc = "asked"
    /\ load' = [load EXCEPT ![l] = NoLoad]
    /\ UNCHANGED <<vars, stored, hasPanel, list, fresh, paused, expected, exact>>

\* Binary search for the place after the events that are not later.
InsertionPoint(q, e) == Cardinality({i \in DOMAIN q : ~Earlier(e, q[i])})

BadTrimmed(q) == IF Len(q) <= History THEN q ELSE Tail(q)
\* The first to have arrived leaves.
Trimmed(q) ==
    IF Len(q) <= History THEN q
    ELSE RemoveAt(q, CHOOSE i \in DOMAIN q : \A j \in DOMAIN q : q[i] <= q[j])

InsertSorted(q, e) == Trimmed(InsertAt(q, InsertionPoint(q, e) + 1, e))

\* onmessage.  A paused panel skips the event.
Receive(c) ==
    LET e == Head(out[c]) IN
    /\ hasPanel
    /\ Send(c)
    /\ list' = IF paused THEN list ELSE InsertSorted(list, e)
    /\ fresh' = {}
    /\ exact' = (exact /\ ~paused)
    /\ expected' = IF exact' THEN Newest(expected \cup {e}) ELSE {}
    /\ UNCHANGED <<stored, hasPanel, load, paused>>

\* Nothing is loaded again when the panel is resumed.
Pause ==
    /\ hasPanel
    /\ paused' = ~paused
    /\ UNCHANGED <<vars, stored, hasPanel, list, load, fresh, expected, exact>>

-----------------------------------------------------------------------------
ViewInit ==
    /\ Init
    /\ hasPanel \in BOOLEAN
    /\ stored = 0
    /\ list = <<>>
    /\ load = [l \in Loads |-> NoLoad]
    /\ fresh = {}
    /\ paused = FALSE
    /\ expected = {}
    /\ exact = TRUE

StreamStep ==
    \/ \E c \in Slots :
           \/ Subscribe(c) \/ Get(c) \/ Collect(c) \/ Deadline(c) \/ Sent(c)
           \/ Exhausted(c) \/ Disconnected(c) \/ (~hasPanel /\ Send(c))
           \/ Replace(c) \/ Reconnect(c) \/ OnClose(c)
    \/ Disable
    \/ NoReconnect
    \/ \E d \in Delays : UpdateSettings(d)

\* The instance with a panel is the smaller one: no socket is given up, the
\* settings stay.
Bounded ==
    hasPanel => stored' <= MaxWithPanel /\ replaced' = 0 /\ UNCHANGED <<setting, wanted>>

ViewNext ==
    /\ \/ Store
       \/ PublishStored
       \/ StreamStep /\ UNCHANGED <<stored, panel>>
       \/ \E c \in Slots : Receive(c)
       \/ \E l \in Loads : Load(l) \/ Answer(l) \/ Replaced(l) \/ Failed(l)
       \/ Pause
    /\ Bounded

ViewSpec == ViewInit /\ [][ViewNext]_viewVars /\ Fairness

-----------------------------------------------------------------------------
(* Properties.                                                             *)

(* Every variable stays in its range.                                      *)
ViewTypeOK ==
    /\ TypeOK
    /\ hasPanel \in BOOLEAN
    /\ stored \in published..MaxEvents
    /\ ToSet(list) \subseteq 1..stored
    /\ Len(list) <= History
    /\ load \in [Loads -> [pc: {"idle", "asked", "answered"}, upto: 0..stored]]
    /\ fresh \subseteq {l \in Loads : load[l].pc = "answered"}
    /\ paused \in BOOLEAN
    /\ expected \subseteq 1..stored
    /\ exact \in BOOLEAN

(* A panel shows the newest events that it was loaded with or received,    *)
(* each once and in order, unless, when an answer replaced what it showed, *)
(* an event had been on its way as the buffer was read, or had come since, *)
(* or an answer that holds more had been shown before it; and unless an    *)
(* event came while the panel was paused.                                  *)
PanelIsExact == exact => list \in Ordered(expected)
=============================================================================

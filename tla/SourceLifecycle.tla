--------------------------- MODULE SourceLifecycle ---------------------------
(***************************************************************************)
(* What the source endpoints promise, without handlers, tasks or callbacks:*)
(* a source is configured or not, it has a reader or none, a reader is     *)
(* started with the configuration of an enabled source that has none, and  *)
(* the configuration of a source changes only while it has no reader.      *)
(* SourceManager implements this when requests do not overlap.             *)
(***************************************************************************)
CONSTANTS
    Sources,    \* source ids
    Body,       \* source configurations, with a field enabled
    NoSource,   \* "not configured"
    Ids         \* names of reader tasks

VARIABLES
    config,     \* the configuration of each source
    live        \* the readers of each source, each with its configuration

vars == <<config, live>>

Runs(b) == b # NoSource /\ b.enabled

Init ==
    /\ config \in [Sources -> Body \cup {NoSource}]
    /\ live = [s \in Sources |-> {}]

(* A source is created, edited while it is stopped, or deleted.            *)
Configure(s) ==
    /\ live[s] = {}
    /\ \E b \in Body \cup {NoSource} : config' = [config EXCEPT ![s] = b]
    /\ UNCHANGED live

(* A source is created and read from the start.                            *)
CreateRunning(s) ==
    /\ config[s] = NoSource
    /\ live[s] = {}
    /\ \E b \in Body, n \in Ids :
           /\ b.enabled
           /\ config' = [config EXCEPT ![s] = b]
           /\ live' = [live EXCEPT ![s] = {<<n, b>>}]

StartReader(s) ==
    /\ Runs(config[s])
    /\ live[s] = {}
    /\ \E n \in Ids : live' = [live EXCEPT ![s] = {<<n, config[s]>>}]
    /\ UNCHANGED config

EndReader(s) ==
    /\ live[s] # {}
    /\ live' = [live EXCEPT ![s] = {}]
    /\ UNCHANGED config

(* The program starts: all the enabled sources at once.                    *)
StartAll ==
    /\ \A s \in Sources : live[s] = {}
    /\ \E first \in [Sources -> Ids] :
           live' = [s \in Sources |->
                       IF Runs(config[s]) THEN {<<first[s], config[s]>>} ELSE {}]
    /\ UNCHANGED config

Next ==
    \/ \E s \in Sources :
           Configure(s) \/ CreateRunning(s) \/ StartReader(s) \/ EndReader(s)
    \/ StartAll

Spec == Init /\ [][Next]_vars
=============================================================================

----------------------------- MODULE ConfigStore -----------------------------
(***************************************************************************)
(* ConfigStore (config.py) and the endpoints of api.py that change which   *)
(* sources and workspaces exist.  A configuration keeps of a workspace     *)
(* only the sources its panels show.  Handlers run on one event loop: all  *)
(* but the removal of a source, which awaits SourceManager.stop, check and *)
(* update in one step.  The save that ends an update is a step of its own, *)
(* as the process may die, and the disk fail, in the middle of it.         *)
(*                                                                         *)
(* Any client may send any request here; Workspaces adds the browser.      *)
(* A definition whose name begins with Bad is a faulty variant of the one  *)
(* that follows it, there to try the properties on a plausible bug.        *)
(***************************************************************************)
EXTENDS Naturals

CONSTANTS
    Source, Workspace,  \* identifiers
    Default,            \* the workspace "default"
    Missing, Broken,    \* there is no file; it cannot be parsed
    Files,              \* what a user may put in place of the file
    MaxFailures         \* bound: crashes, failed saves and edits by hand

Config == [sources: SUBSET Source, workspaces: SUBSET Workspace,
           active: Workspace, panels: [Workspace -> SUBSET Source]]

ASSUME DefaultAssumption == Default \in Workspace
ASSUME FileAssumption == Missing \notin Config /\ Broken \notin Config
ASSUME FilesAssumption == Files \subseteq Config \cup {Missing, Broken}
ASSUME FailuresAssumption == MaxFailures \in Nat

VARIABLES
    up,        \* the process runs
    memory,    \* ConfigStore._config
    file,      \* config.json
    requests,  \* calls of the API the client has not seen the answer of
    since,     \* what memory has been since the last change that was answered
    failures   \* what the bound counts

store == <<up, memory, file, since, failures>>
storeVars == <<store, requests>>

Kinds == {"source", "unsource", "workspace", "copy", "layout", "unworkspace", "active"}
Stages == {"sent", "stopping", "saving", "ok", "error"}

\* panels is the body of a workspace, or the source the request is about.
Request == [n: Nat, kind: Kinds, workspace: Workspace, panels: SUBSET Source, stage: Stages]

-----------------------------------------------------------------------------
(* AppConfig and the mutators.                                             *)

Defaults == [sources |-> {}, workspaces |-> {Default}, active |-> Default,
             panels |-> [w \in Workspace |-> {}]]

BadValid(c) == c
\* ensure_default_workspace
Valid(c) == [c EXCEPT !.workspaces = @ \cup {Default},
                      !.panels[Default] = IF Default \in c.workspaces THEN @ ELSE {},
                      !.active = IF @ \in c.workspaces THEN @ ELSE Default]

\* What the handler finds in the configuration, or answers 404, 409 or 400.
Known(r) ==
    CASE r.kind = "source" -> r.panels \cap memory.sources = {}
      [] r.kind = "unsource" -> r.panels \subseteq memory.sources
      [] r.kind \in {"workspace", "copy"} -> r.workspace \notin memory.workspaces
      [] r.kind \in {"layout", "active"} -> r.workspace \in memory.workspaces
      [] r.kind = "unworkspace" -> r.workspace \in memory.workspaces \ {Default}

BadMutated(c, r) ==
    CASE r.kind = "source" -> [c EXCEPT !.sources = @ \cup r.panels]
      [] r.kind = "unsource" -> [c EXCEPT !.sources = @ \ r.panels,
                                          !.panels[c.active] = @ \ r.panels]
      [] r.kind \in {"workspace", "copy"} -> [c EXCEPT !.workspaces = @ \cup {r.workspace},
                                                       !.panels[r.workspace] = r.panels]
      [] r.kind = "layout" -> [c EXCEPT !.panels[r.workspace] = r.panels]
      [] r.kind = "unworkspace" -> [c EXCEPT !.workspaces = @ \ {r.workspace},
                                             !.panels[r.workspace] = {}]
      [] r.kind = "active" -> [c EXCEPT !.active = r.workspace]
Mutated(c, r) ==
    CASE r.kind = "source" -> [c EXCEPT !.sources = @ \cup r.panels]
      [] r.kind = "unsource" ->
             [c EXCEPT !.sources = @ \ r.panels,
                       !.panels = [w \in Workspace |-> @[w] \ r.panels]]
      [] r.kind \in {"workspace", "copy"} ->
             [c EXCEPT !.workspaces = @ \cup {r.workspace}, !.panels[r.workspace] = r.panels]
      [] r.kind = "layout" -> [c EXCEPT !.panels[r.workspace] = r.panels]
      [] r.kind = "unworkspace" ->
             [c EXCEPT !.workspaces = @ \ {r.workspace}, !.panels[r.workspace] = {},
                       !.active = IF @ = r.workspace THEN Default ELSE @]
      [] r.kind = "active" -> [c EXCEPT !.active = r.workspace]

-----------------------------------------------------------------------------
(* Requests.                                                               *)

Moved(r, stage) == (requests \ {r}) \cup {[r EXCEPT !.stage = stage]}
BadSaving == FALSE
\* The event loop is in _save_locked.
Saving == \E r \in requests : r.stage = "saving"

Arrive(r) ==
    /\ r.stage = "sent"
    /\ requests' = requests \cup {r}
    /\ UNCHANGED store

\* The client takes the answer.
Answered(r) ==
    /\ r.stage \in {"ok", "error"}
    /\ requests' = requests \ {r}
    /\ UNCHANGED store

\* A client goes away: what the server has not read it may never read, and
\* nobody takes the answer of the rest.
Disconnect(kept) ==
    /\ kept \subseteq {r \in requests : r.stage \notin {"ok", "error"}}
    /\ \A r \in requests \ kept : r.stage \in {"sent", "ok", "error"}
    /\ requests' = kept
    /\ UNCHANGED store

\* It takes the answer and sends the next request at once.
AnsweredThen(r, next) ==
    /\ r.stage \in {"ok", "error"}
    /\ next.stage = "sent"
    /\ requests' = (requests \ {r}) \cup {next}
    /\ UNCHANGED store

\* The name of a new workspace may be taken, as its id may: names are left out.
Reject(r) ==
    /\ up /\ ~Saving
    /\ r.stage = "sent"
    /\ ~Known(r) \/ r.kind \in {"workspace", "copy"}
    /\ requests' = Moved(r, "error")
    /\ UNCHANGED store

\* delete_source: await manager.stop(source_id)
Stop(r) ==
    /\ up /\ ~Saving
    /\ r.stage = "sent" /\ r.kind = "unsource"
    /\ Known(r)
    /\ requests' = Moved(r, "stopping")
    /\ UNCHANGED store

Ready(r) == \/ r.stage = "sent" /\ r.kind # "unsource" /\ Known(r)
            \/ r.stage = "stopping"

\* update: the memory is replaced first, then saved.
Update(r) ==
    /\ up /\ ~Saving
    /\ Ready(r)
    /\ memory' = Valid(Mutated(memory, r))
    /\ since' = since \cup {memory'}
    /\ requests' = Moved(r, "saving")
    /\ UNCHANGED <<up, file, failures>>

BadOnDisk == {file, memory, Broken}
\* The payload is written beside the file, which os.replace then replaces.
OnDisk == {file, memory}

Save(r) ==
    /\ r.stage = "saving"
    /\ file' = memory
    /\ since' = {memory}
    /\ requests' = Moved(r, "ok")
    /\ UNCHANGED <<up, memory, failures>>

\* mkstemp, write, fsync, os.replace or os.chmod raises: HTTP 500.
SaveFails(r) ==
    /\ r.stage = "saving"
    /\ failures < MaxFailures
    /\ failures' = failures + 1
    /\ file' \in OnDisk
    /\ requests' = Moved(r, "error")
    /\ UNCHANGED <<up, memory, since>>

-----------------------------------------------------------------------------
(* The process and its file.                                               *)

\* Whatever was not answered fails for the client.
Dropped(r) == IF r.stage = "ok" THEN r ELSE [r EXCEPT !.stage = "error"]

Crash ==
    /\ up
    /\ failures < MaxFailures
    /\ failures' = failures + 1
    /\ up' = FALSE
    /\ file' \in IF Saving THEN OnDisk ELSE {file}
    /\ requests' = {Dropped(r) : r \in requests}
    /\ UNCHANGED <<memory, since>>

\* Nothing listens.
Refuse(r) ==
    /\ ~up
    /\ r.stage = "sent"
    /\ requests' = Moved(r, "error")
    /\ UNCHANGED store

Loaded(f) == IF f \in {Missing, Broken} THEN Defaults ELSE Valid(f)

EditByHand(f) ==
    /\ ~up
    /\ failures < MaxFailures
    /\ failures' = failures + 1
    /\ file' = f
    /\ since' = {Loaded(f)}
    /\ UNCHANGED <<up, memory, requests>>

\* _load: an invalid file is set aside, unless renaming it fails too.
Start ==
    /\ ~up
    /\ up' = TRUE
    /\ memory' = Loaded(file)
    /\ since' = {memory'}
    /\ file' \in IF file = Broken THEN {Missing, Broken} ELSE {file}
    /\ UNCHANGED <<requests, failures>>

-----------------------------------------------------------------------------
StoreInit ==
    /\ up = FALSE
    /\ memory = Defaults
    /\ file \in Files
    /\ requests = {}
    /\ since = {Loaded(file)}
    /\ failures = 0

Handle(r) == Reject(r) \/ Stop(r) \/ Update(r) \/ Save(r) \/ SaveFails(r) \/ Refuse(r)
Process == Crash \/ Start

StoreNext ==
    \/ \E r \in Request : Arrive(r)
    \/ \E r \in requests : Handle(r) \/ Answered(r)
    \/ \E r \in requests, next \in Request : AnsweredThen(r, next)
    \/ \E kept \in SUBSET requests : Disconnect(kept)
    \/ Process
    \/ \E f \in Files : EditByHand(f)

StoreSpec == StoreInit /\ [][StoreNext]_storeVars

-----------------------------------------------------------------------------
(* Properties.                                                             *)

(* Every variable stays in its range, and one save runs at a time.         *)
StoreTypeOK ==
    /\ up \in BOOLEAN
    /\ memory \in Config
    /\ file \in Config \cup {Missing, Broken}
    /\ requests \subseteq Request
    /\ \A r, q \in requests : r.stage = "saving" /\ q.stage = "saving" => r = q
    /\ since \subseteq Config
    /\ failures \in 0..MaxFailures

(* Whatever save fails or is cut short by a crash, the file is one a start *)
(* can read, and it holds the last change that was answered or a later one *)
(* the program had made without being able to answer ("atomically          *)
(* persisted application configuration", config.py).                       *)
AnsweredSurvives == Loaded(file) \in since

(* The workspace "default" exists and the active workspace exists, in the  *)
(* program and in what its next start will load, whatever the order of     *)
(* removals, switches and edits of the file by hand.                       *)
ActiveIsAWorkspace ==
    \A c \in {memory, Loaded(file)} : Default \in c.workspaces /\ c.active \in c.workspaces
=============================================================================

----------------------------- MODULE Workspaces -----------------------------
(***************************************************************************)
(* The browser's copy of the configuration (state.config of app.js) over   *)
(* ConfigStore.  An edit of a panel changes the copy and schedules, 350 ms *)
(* later, a PUT of the whole workspace that is active then; adding or      *)
(* removing a source or a workspace changes the copy when the answer       *)
(* arrives.  Requests in flight are served in any order, and go on being   *)
(* served when the page is loaded again, which hears nothing of them.      *)
(*                                                                         *)
(* excused and troubled are history: they name the workspaces and sources  *)
(* for which one of the listed things has happened, so that the properties *)
(* say that nothing else makes the two copies differ.                      *)
(***************************************************************************)
EXTENDS ConfigStore

CONSTANT MaxRequests  \* bound: requests the page sends, failures counted with them

ASSUME RequestsAssumption == MaxRequests \in Nat

VARIABLES
    opened,   \* the page has its copy
    page,     \* state.config
    dialog,   \* the sources the dialog for a new panel offers, none if closed
    timer,    \* state.saveTimer is set
    sent,     \* requests sent so far
    former,   \* numbers of the requests of a former page still being served
    excused,  \* workspaces whose last edit may not be on the server
    troubled  \* sources the server may not know though a panel shows them

browser == <<opened, page, dialog, timer, sent, former>>
history == <<excused, troubled>>
vars == <<storeVars, browser, history>>

-----------------------------------------------------------------------------
(* What the page does at once.                                             *)

\* activeWorkspace: the first one when the active one is gone.
Current(p) == IF p.active \in p.workspaces THEN p.active ELSE Default

\* A save is due, and would now go to another workspace.
Abandoned(p) == IF timer /\ Current(p) # Current(page) THEN {Current(page)} ELSE {}

Room == sent + failures < MaxRequests

\* The request is of the page as it was loaded last.
Ours(r) == r.n \notin former

\* Workspaces that requests of a former page are about to change.
Changing(rs) ==
    {w \in Workspace : \E r \in rs :
         \/ r.kind \in {"layout", "unworkspace"} /\ r.workspace = w
         \/ r.kind = "unsource" /\ r.panels \cap memory.panels[w] # {}}

\* Sources whose removal, or whose addition if it failed, nobody hears of.
Unheard(rs) ==
    UNION {r.panels : r \in {q \in rs : \/ q.kind = "unsource" /\ q.stage # "ok"
                                        \/ q.kind = "source" /\ q.stage = "error"}}

\* bootstrap, of a page loaded for the first time or again.  The handler of
\* GET /api/config runs between two others, so never during a save.
Open ==
    /\ up /\ ~Saving
    /\ Room
    /\ sent' = sent + 1
    /\ \E kept \in SUBSET requests : Disconnect(kept)
    /\ opened' = TRUE
    /\ page' = memory
    /\ dialog' = {}
    /\ timer' = FALSE
    /\ former' = {r.n : r \in requests'}
    /\ excused' = IF since = {memory} THEN Changing(requests') ELSE Workspace
    /\ troubled' = troubled \cup Unheard(requests)

\* The user can reach the page: a dialog covers it while it is open.
Free == opened /\ dialog = {}

\* scheduleWorkspaceSave
Edited == timer' = TRUE

\* openPanelDialog
OpenDialog ==
    /\ Free
    /\ dialog' = page.sources
    /\ UNCHANGED <<storeVars, opened, page, timer, sent, former, history>>

CancelDialog ==
    /\ dialog # {}
    /\ dialog' = {}
    /\ UNCHANGED <<storeVars, opened, page, timer, sent, former, history>>

\* The boxes are those of the sources there were when the dialog was opened.
AddPanel(chosen) ==
    /\ chosen \subseteq dialog /\ chosen # {}
    /\ page' = [page EXCEPT !.panels[Current(page)] = @ \cup chosen]
    /\ dialog' = {}
    /\ Edited
    /\ troubled' = troubled \cup (chosen \ page.sources)
    /\ UNCHANGED <<storeVars, opened, sent, former, excused>>

RemovePanel(s) ==
    /\ Free
    /\ s \in page.panels[Current(page)]
    /\ page' = [page EXCEPT !.panels[Current(page)] = @ \ {s}]
    /\ Edited
    /\ UNCHANGED <<storeVars, opened, dialog, sent, former, history>>

-----------------------------------------------------------------------------
(* What the page asks of the server.                                       *)

Ask(kind, w, panels) ==
    /\ opened
    /\ Room
    /\ sent' = sent + 1
    /\ Arrive([n |-> sent + 1, kind |-> kind, workspace |-> w, panels |-> panels,
               stage |-> "sent"])
    /\ UNCHANGED <<dialog, former>>

Bodies == {"workspace", "copy", "layout"}

\* The body is still to reach the server, or the page.
Coming(r) == \/ r.kind \in Bodies /\ r.stage = "sent"
             \/ r.kind = "copy" /\ r.stage # "error" /\ Ours(r)

\* Sources of a request that are being removed.
Raced(panels) == UNION {r.panels \cap panels : r \in {q \in requests : q.kind = "unsource"}}
\* A save not yet served, or a save or removal that a former page asked for.
Overtaken(w) ==
    \E r \in requests : /\ r.workspace = w
                        /\ \/ r.kind = "layout" /\ r.stage = "sent"
                           \/ r.kind \in {"layout", "unworkspace"} /\ ~Ours(r)

\* The request carries a copy of a workspace.
AskWithBody(kind, w, panels) ==
    /\ Ask(kind, w, panels)
    /\ excused' = IF Raced(panels) # {} \/ Overtaken(w) THEN excused \cup {w} ELSE excused \ {w}
    /\ troubled' = troubled \cup Raced(panels)

\* saveWorkspace
SaveWorkspace ==
    /\ timer
    /\ timer' = FALSE
    /\ AskWithBody("layout", Current(page), page.panels[Current(page)])
    /\ UNCHANGED <<opened, page>>

Fresh(w) == w \notin page.workspaces /\ \A r \in requests : r.workspace # w

NewWorkspace(w) ==
    /\ Free
    /\ Fresh(w)
    /\ AskWithBody("workspace", w, {})
    /\ UNCHANGED <<opened, page, timer>>

DuplicateWorkspace(w) ==
    /\ Free
    /\ Fresh(w)
    /\ AskWithBody("copy", w, page.panels[Current(page)])
    /\ UNCHANGED <<opened, page, timer>>

DeleteWorkspace ==
    /\ Free
    /\ Current(page) # Default
    /\ Ask("unworkspace", Current(page), {})
    /\ UNCHANGED <<opened, page, timer, history>>

\* The copy changes before the request is sent.
SelectWorkspace(w) ==
    /\ Free
    /\ w \in page.workspaces \ {page.active}
    /\ page' = [page EXCEPT !.active = w]
    /\ excused' = excused \cup Abandoned(page')
    /\ Ask("active", w, {})
    /\ UNCHANGED <<opened, timer, troubled>>

AddSource(s) ==
    /\ Free
    /\ s \notin page.sources
    /\ \A r \in requests : r.panels # {s} \/ r.kind # "source"
    /\ Ask("source", Default, {s})
    /\ troubled' = troubled \cup Raced({s})
    /\ UNCHANGED <<opened, page, timer, excused>>

DeleteSource(s) ==
    LET late == {r \in requests : Coming(r) /\ s \in r.panels}
        added == {r \in requests : r.kind = "source" /\ s \in r.panels}
    IN  /\ Free
        /\ s \in page.sources
        /\ Ask("unsource", Default, {s})
        /\ excused' = excused \cup {r.workspace : r \in late}
        /\ troubled' = IF late \cup added = {} THEN troubled ELSE troubled \cup {s}
        /\ UNCHANGED <<opened, page, timer>>

-----------------------------------------------------------------------------
(* What the page does with the answer.                                     *)

BadStripped(p, removed) ==
    [p EXCEPT !.sources = @ \ removed, !.panels[Current(p)] = @ \ removed]
\* A removed source leaves the panels of every workspace.
Stripped(p, removed) ==
    [p EXCEPT !.sources = @ \ removed, !.panels = [w \in Workspace |-> @[w] \ removed]]

Succeeded(r) ==
    CASE r.kind = "source" -> [page EXCEPT !.sources = @ \cup r.panels]
      [] r.kind = "unsource" -> Stripped(page, r.panels)
      [] r.kind \in {"workspace", "copy"} ->
             [page EXCEPT !.workspaces = @ \cup {r.workspace},
                          !.panels[r.workspace] = r.panels,
                          !.active = IF r.kind = "workspace" THEN r.workspace ELSE @]
      [] r.kind = "unworkspace" -> [page EXCEPT !.workspaces = @ \ {r.workspace},
                                                !.panels[r.workspace] = {},
                                                !.active = Default]
      [] OTHER -> page

\* Except after a new workspace, which is then made the active one.
TakeAnswer(r) ==
    /\ Ours(r)
    /\ r.stage = "ok" /\ r.kind # "workspace"
    /\ Answered(r)
    /\ page' = Succeeded(r)
    /\ excused' = excused \cup Abandoned(page')
    /\ UNCHANGED <<opened, dialog, timer, sent, former, troubled>>

TakeNewWorkspace(r) ==
    /\ Ours(r)
    /\ r.stage = "ok" /\ r.kind = "workspace"
    /\ Room
    /\ sent' = sent + 1
    /\ AnsweredThen(r, [r EXCEPT !.n = sent + 1, !.kind = "active", !.stage = "sent"])
    /\ page' = Succeeded(r)
    /\ excused' = excused \cup Abandoned(page')
    /\ UNCHANGED <<opened, dialog, timer, former, troubled>>

\* A message is shown and the copy stays as it is.
TakeError(r) ==
    /\ Ours(r)
    /\ r.stage = "error"
    /\ Answered(r)
    /\ excused' = excused \cup
           CASE r.kind \in {"layout", "unworkspace"} -> {r.workspace}
             [] r.kind = "unsource" -> {w \in Workspace : r.panels \subseteq page.panels[w]}
             [] OTHER -> {}
    /\ troubled' = IF r.kind \in {"source", "unsource"} THEN troubled \cup r.panels ELSE troubled
    /\ UNCHANGED browser

\* The page that asked is no more.
LoseAnswer(r) ==
    /\ ~Ours(r)
    /\ Answered(r)
    /\ troubled' = troubled \cup Unheard({r})
    /\ former' = former \ {r.n}
    /\ UNCHANGED <<opened, page, dialog, timer, sent, excused>>

-----------------------------------------------------------------------------
\* Sources that do not exist, shown by a workspace.
Dead(c) == UNION {c.panels[w] \ c.sources : w \in c.workspaces}

Init ==
    /\ StoreInit
    /\ opened = FALSE
    /\ page = Defaults
    /\ dialog = {}
    /\ timer = FALSE
    /\ sent = 0
    /\ former = {}
    /\ excused = {}
    /\ troubled = Dead(Loaded(file))

ServerStep ==
    \/ (Process \/ \E r \in requests : Handle(r)) /\ UNCHANGED <<browser, history>>
    \/ \E f \in Files : /\ EditByHand(f)
                        /\ excused' = Workspace
                        /\ troubled' = Source
                        /\ UNCHANGED browser

PageStep ==
    \/ Open
    \/ OpenDialog \/ CancelDialog
    \/ \E chosen \in SUBSET dialog : AddPanel(chosen)
    \/ SaveWorkspace
    \/ DeleteWorkspace
    \/ \E w \in Workspace : NewWorkspace(w) \/ DuplicateWorkspace(w) \/ SelectWorkspace(w)
    \/ \E s \in Source : RemovePanel(s) \/ AddSource(s) \/ DeleteSource(s)
    \/ \E r \in requests :
           TakeAnswer(r) \/ TakeNewWorkspace(r) \/ TakeError(r) \/ LoseAnswer(r)

Next == ServerStep \/ PageStep

Spec == Init /\ [][Next]_vars

-----------------------------------------------------------------------------
(* Properties.                                                             *)

(* Every variable stays in its range, and one save runs at a time.         *)
TypeOK ==
    /\ StoreTypeOK
    /\ opened \in BOOLEAN
    /\ page \in Config
    /\ dialog \subseteq Source
    /\ timer \in BOOLEAN
    /\ sent \in 0..MaxRequests
    /\ former \subseteq Nat
    /\ excused \subseteq Workspace
    /\ troubled \subseteq Source

Settled == opened /\ up /\ ~timer /\ requests = {}

(* When nothing is under way the server has every workspace as the page    *)
(* shows it, unless the page left a workspace before its save was due,     *)
(* sent two saves of it that overtook each other, saved or copied it while *)
(* a source it shows was being removed, or was told of an error, or the    *)
(* page was loaded again, or it saved the workspace, while a request of    *)
(* the former page that changes the workspace was under way.               *)
EditsReachTheServer ==
    Settled => \A w \in page.workspaces \ excused :
                   w \in memory.workspaces /\ memory.panels[w] = page.panels[w]

(* A panel on the server shows a source that does not exist only when the  *)
(* removal of that source overlapped its addition or the save or the copy  *)
(* of a workspace showing it, or the loading of the page, or the dialog it *)
(* was chosen in; a request about it was answered with an error; or a file *)
(* that was read showed it (LM-011).                                       *)
DeadSourcesHaveACause ==
    Dead(memory) \subseteq troubled
=============================================================================

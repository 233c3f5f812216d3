-------------------------- MODULE WorkspacesProofs --------------------------
(***************************************************************************)
(* Proofs about ConfigStore, for any client and any sets of sources and    *)
(* workspaces, and the step from there to the browser of Workspaces.       *)
(*                                                                         *)
(* The invariant adds to the three properties that, while the process      *)
(* runs, memory is one of the configurations of since, that each of these  *)
(* is as validation left it (a file that Save writes is then read back     *)
(* unchanged), and that nothing is being saved while the process is down.  *)
(* Two more invariants, stated where they are proved, follow a source and  *)
(* an edit from the page to the server and back.                           *)
(***************************************************************************)
EXTENDS Workspaces, TLAPS

Sound(c) == c \in Config /\ Default \in c.workspaces /\ c.active \in c.workspaces

StoreInv ==
    /\ StoreTypeOK
    /\ up => memory \in since
    /\ Saving => up
    /\ Sound(memory)
    /\ Loaded(file) \in since
    /\ \A c \in since : Sound(c)

(* Validation makes any configuration a sound one.                         *)
LEMMA ValidIsSound == ASSUME NEW c \in Config PROVE Sound(Valid(c))
  BY DefaultAssumption DEF Config, Sound, Valid

(* A sound configuration passes validation unchanged.                      *)
LEMMA SoundIsValid == ASSUME NEW c, Sound(c) PROVE Valid(c) = c
  BY DEF Config, Sound, Valid

(* What a start reads is sound, whatever the file.                         *)
LEMMA LoadedIsSound ==
  ASSUME NEW f \in Config \cup {Missing, Broken} PROVE Sound(Loaded(f))
  <1>1. Sound(Defaults)
    BY DefaultAssumption DEF Config, Sound, Defaults
  <1>2. QED
    BY <1>1, ValidIsSound DEF Loaded

(* A saved configuration is read back as it was.                           *)
LEMMA LoadedBack == ASSUME NEW c, Sound(c) PROVE Loaded(c) = c
  BY SoundIsValid, FileAssumption DEF Loaded, Sound

(* A mutator keeps a configuration well-typed.                             *)
LEMMA MutatedType ==
  ASSUME NEW c \in Config, NEW r \in Request PROVE Mutated(c, r) \in Config
  <1> /\ r.panels \subseteq Source
      /\ r.workspace \in Workspace
      /\ r.kind \in Kinds
    BY DEF Request
  <1> /\ c.sources \subseteq Source
      /\ c.workspaces \subseteq Workspace
      /\ c.active \in Workspace
      /\ c.panels \in [Workspace -> SUBSET Source]
    BY DEF Config
  <1>1. CASE r.kind = "source"
    BY <1>1 DEF Mutated, Config
  <1>2. CASE r.kind = "unsource"
    BY <1>2 DEF Mutated, Config
  <1>3. CASE r.kind \in {"workspace", "copy"}
    BY <1>3 DEF Mutated, Config
  <1>4. CASE r.kind = "layout"
    BY <1>4 DEF Mutated, Config
  <1>5. CASE r.kind = "unworkspace"
    BY <1>5, DefaultAssumption DEF Mutated, Config
  <1>6. CASE r.kind = "active"
    BY <1>6 DEF Mutated, Config
  <1>7. QED
    BY <1>1, <1>2, <1>3, <1>4, <1>5, <1>6 DEF Kinds

(* Moving a request to another stage keeps the requests well-typed, and a  *)
(* save the only one.                                                      *)
LEMMA MovedType ==
  ASSUME NEW r \in requests, NEW stage \in Stages, requests \subseteq Request,
         \A p, q \in requests : p.stage = "saving" /\ q.stage = "saving" => p = q,
         stage = "saving" => ~Saving
  PROVE  /\ Moved(r, stage) \subseteq Request
         /\ \A p, q \in Moved(r, stage) : p.stage = "saving" /\ q.stage = "saving" => p = q
  <1> DEFINE s == [r EXCEPT !.stage = stage]
  <1>1. s \in Request /\ s.stage = stage
    BY DEF Request
  <1>2. QED
    BY <1>1 DEF Moved, Saving

(* The first start has not happened yet.                                   *)
LEMMA StoreInitInv == StoreInit => StoreInv
  <1> SUFFICES ASSUME StoreInit PROVE StoreInv
    OBVIOUS
  <1>1. file \in Config \cup {Missing, Broken}
    BY FilesAssumption DEF StoreInit
  <1>2. Sound(Loaded(file))
    BY <1>1, LoadedIsSound
  <1>3. Sound(memory)
    BY DefaultAssumption DEF StoreInit, Sound, Defaults, Config
  <1>4. StoreTypeOK
    <2>1. since \subseteq Config /\ memory \in Config
      BY <1>2, <1>3 DEF StoreInit, Sound
    <2>2. failures \in 0..MaxFailures
      BY FailuresAssumption DEF StoreInit
    <2>3. QED
      BY <1>1, <2>1, <2>2 DEF StoreInit, StoreTypeOK
  <1>5. QED
    BY <1>2, <1>3, <1>4 DEF StoreInit, StoreInv, Saving

(* Steps that only move a request, other than to a save.                   *)
LEMMA RequestsOnly ==
  ASSUME StoreInv, UNCHANGED store, requests' \subseteq Request,
         \A r \in requests' : r.stage = "saving" => r \in requests
  PROVE  StoreInv'
  <1>1. StoreTypeOK'
    BY DEF StoreInv, StoreTypeOK, store
  <1>2. (Saving => up)'
    BY DEF StoreInv, Saving, store
  <1>3. QED
    BY <1>1, <1>2 DEF StoreInv, store, Sound, Loaded

(* A request comes, is refused, waits for a reader to stop, or is over.    *)
LEMMA ArriveInv ==
  ASSUME StoreInv, NEW r \in Request, Arrive(r) PROVE StoreInv'
  <1>1. /\ requests' \subseteq Request
        /\ \A q \in requests' : q.stage = "saving" => q \in requests
    BY DEF StoreInv, StoreTypeOK, Arrive
  <1>2. QED
    BY <1>1, RequestsOnly DEF Arrive

(* A client that goes away.                                                *)
LEMMA DisconnectInv ==
  ASSUME StoreInv, NEW kept \in SUBSET requests, Disconnect(kept) PROVE StoreInv'
  <1>1. /\ requests' \subseteq Request
        /\ \A q \in requests' : q.stage = "saving" => q \in requests
    BY DEF StoreInv, StoreTypeOK, Disconnect
  <1>2. QED
    BY <1>1, RequestsOnly DEF Disconnect

(* A client that takes an answer and sends the next request at once.       *)
LEMMA FollowUpInv ==
  ASSUME StoreInv, NEW r \in requests, NEW next \in Request, AnsweredThen(r, next)
  PROVE  StoreInv'
  <1>1. /\ requests' \subseteq Request
        /\ \A q \in requests' : q.stage = "saving" => q \in requests
    BY DEF StoreInv, StoreTypeOK, AnsweredThen
  <1>2. QED
    BY <1>1, RequestsOnly DEF AnsweredThen

(* A request is over, refused, or waits for a reader to stop.              *)
LEMMA QuietInv ==
  ASSUME StoreInv, NEW r \in requests,
         Answered(r) \/ Reject(r) \/ Stop(r) \/ Refuse(r)
  PROVE  StoreInv'
  <1>1. UNCHANGED store
    BY DEF Answered, Reject, Stop, Refuse
  <1>2. \/ requests' = requests \ {r}
        \/ requests' = Moved(r, "error")
        \/ requests' = Moved(r, "stopping")
    BY DEF Answered, Reject, Stop, Refuse
  <1>3. requests \subseteq Request
    BY DEF StoreInv, StoreTypeOK
  <1>4. /\ requests' \subseteq Request
        /\ \A q \in requests' : q.stage = "saving" => q \in requests
    BY <1>2, <1>3 DEF Moved, Request, Stages
  <1>5. QED
    BY <1>1, <1>4, RequestsOnly

(* The new configuration is validated before it is in memory.              *)
LEMMA UpdateInv ==
  ASSUME StoreInv, NEW r \in requests, Update(r) PROVE StoreInv'
  <1>1. r \in Request /\ memory \in Config
    BY DEF StoreInv, StoreTypeOK
  <1>2. Sound(memory')
    BY <1>1, MutatedType, ValidIsSound DEF Update
  <1>3. /\ requests' \subseteq Request
        /\ \A p, q \in requests' : p.stage = "saving" /\ q.stage = "saving" => p = q
    BY MovedType DEF Update, StoreInv, StoreTypeOK, Stages
  <1>4. StoreTypeOK'
    BY <1>2, <1>3 DEF Update, StoreInv, StoreTypeOK, Sound
  <1>5. Loaded(file)' \in since' /\ \A c \in since' : Sound(c)
    BY <1>2 DEF Update, StoreInv, Loaded
  <1>6. QED
    BY <1>2, <1>4, <1>5 DEF Update, StoreInv

(* The save is over: no other one runs.                                    *)
LEMMA AfterSaving ==
  ASSUME StoreInv, NEW r \in requests, r.stage = "saving",
         NEW stage \in {"ok", "error"}, requests' = Moved(r, stage)
  PROVE  /\ requests' \subseteq Request
         /\ \A q \in requests' : q.stage # "saving"
  <1>1. /\ requests \subseteq Request
        /\ \A q \in requests : q.stage = "saving" => q = r
    BY DEF StoreInv, StoreTypeOK
  <1>2. QED
    BY <1>1 DEF Moved, Request, Stages

(* What was saved is read back as it was.                                  *)
LEMMA SaveInv ==
  ASSUME StoreInv, NEW r \in requests, Save(r) PROVE StoreInv'
  <1>1. requests' \subseteq Request /\ \A q \in requests' : q.stage # "saving"
    BY AfterSaving DEF Save
  <1>2. Sound(memory) /\ memory' = memory /\ file' = memory /\ since' = {memory}
    BY DEF StoreInv, Save
  <1>3. Loaded(file)' \in since'
    BY <1>2, LoadedBack DEF Loaded
  <1>4. StoreTypeOK'
    BY <1>1, <1>2 DEF Save, StoreInv, StoreTypeOK, Sound
  <1>5. ~Saving'
    BY <1>1 DEF Saving
  <1>6. QED
    BY <1>2, <1>3, <1>4, <1>5 DEF Save, StoreInv

(* The file is the old one or the new one, and both are in since.          *)
LEMMA SaveFailsInv ==
  ASSUME StoreInv, NEW r \in requests, SaveFails(r) PROVE StoreInv'
  <1>1. requests' \subseteq Request /\ \A q \in requests' : q.stage # "saving"
    BY AfterSaving DEF SaveFails
  <1>2. memory \in since /\ Sound(memory)
    BY DEF StoreInv, SaveFails, Saving
  <1>3. Loaded(file)' \in since'
    BY <1>2, LoadedBack DEF SaveFails, OnDisk, StoreInv, Loaded
  <1>4. StoreTypeOK'
    BY <1>1, FailuresAssumption DEF SaveFails, OnDisk, StoreInv, StoreTypeOK
  <1>5. ~Saving'
    BY <1>1 DEF Saving
  <1>6. QED
    BY <1>2, <1>3, <1>4, <1>5 DEF SaveFails, StoreInv

(* A crash may leave the old file or the new one.                          *)
LEMMA CrashInv == ASSUME StoreInv, Crash PROVE StoreInv'
  <1>1. requests' \subseteq Request /\ \A q \in requests' : q.stage # "saving"
    BY DEF StoreInv, StoreTypeOK, Crash, Dropped, Request, Stages
  <1>2. Saving => memory \in since
    BY DEF StoreInv
  <1>3. Loaded(file)' \in since'
    BY <1>2, LoadedBack DEF Crash, OnDisk, StoreInv, Loaded
  <1>4. StoreTypeOK'
    <2>1. file' \in Config \cup {Missing, Broken}
      BY DEF Crash, OnDisk, StoreInv, StoreTypeOK
    <2>2. failures' \in 0..MaxFailures
      BY FailuresAssumption DEF Crash, StoreInv, StoreTypeOK
    <2>3. up' \in BOOLEAN
      BY Zenon DEF Crash
    <2>4. QED
      BY <1>1, <2>1, <2>2, <2>3 DEF Crash, StoreInv, StoreTypeOK
  <1>5. ~Saving' /\ ~up'
    BY <1>1 DEF Saving, Crash
  <1>6. QED
    BY <1>3, <1>4, <1>5 DEF Crash, StoreInv

(* The user leaves another file, of any content.                           *)
LEMMA EditByHandInv ==
  ASSUME StoreInv, NEW f \in Files, EditByHand(f) PROVE StoreInv'
  <1>1. f \in Config \cup {Missing, Broken} /\ Sound(Loaded(f))
    BY FilesAssumption, LoadedIsSound
  <1>2. StoreTypeOK'
    BY <1>1, FailuresAssumption DEF EditByHand, StoreInv, StoreTypeOK, Sound
  <1>3. (Saving => up)'
    BY DEF EditByHand, StoreInv, Saving
  <1>4. Loaded(file)' = Loaded(f)
    BY DEF EditByHand, Loaded
  <1>5. QED
    BY <1>1, <1>2, <1>3, <1>4 DEF EditByHand, StoreInv

(* A file that could not be set aside is read as defaults again.           *)
LEMMA StartInv == ASSUME StoreInv, Start PROVE StoreInv'
  <1>1. Sound(Loaded(file)) /\ memory' = Loaded(file) /\ since' = {Loaded(file)}
    BY DEF StoreInv, Start
  <1>2. Loaded(file)' = Loaded(file)
    BY DEF Start, Loaded
  <1>3. StoreTypeOK'
    BY <1>1 DEF Start, StoreInv, StoreTypeOK, Sound
  <1>4. QED
    BY <1>1, <1>2, <1>3 DEF Start, StoreInv

(* Every step of the store, with any client, keeps the invariant.          *)
LEMMA StoreStepInv == StoreInv /\ [StoreNext]_storeVars => StoreInv'
  <1> SUFFICES ASSUME StoreInv, [StoreNext]_storeVars PROVE StoreInv'
    OBVIOUS
  <1>1. ASSUME NEW r \in Request, Arrive(r) PROVE StoreInv'
    BY <1>1, ArriveInv
  <1>2. ASSUME NEW r \in requests, Handle(r) \/ Answered(r) PROVE StoreInv'
    BY <1>2, QuietInv, UpdateInv, SaveInv, SaveFailsInv DEF Handle
  <1>3. ASSUME NEW r \in requests, NEW next \in Request, AnsweredThen(r, next)
        PROVE  StoreInv'
    BY <1>3, FollowUpInv
  <1>4. CASE Process
    BY <1>4, CrashInv, StartInv DEF Process
  <1>5. ASSUME NEW f \in Files, EditByHand(f) PROVE StoreInv'
    BY <1>5, EditByHandInv
  <1>8. ASSUME NEW kept \in SUBSET requests, Disconnect(kept) PROVE StoreInv'
    BY <1>8, DisconnectInv
  <1>6. CASE UNCHANGED storeVars
    <2>1. UNCHANGED store /\ requests' = requests
      BY <1>6 DEF storeVars
    <2>2. QED
      BY <2>1, RequestsOnly DEF StoreInv, StoreTypeOK
  <1>7. QED
    BY <1>1, <1>2, <1>3, <1>4, <1>5, <1>6, <1>8 DEF StoreNext

(* The invariant holds the three properties.                               *)
LEMMA StoreInvImplies ==
  StoreInv => StoreTypeOK /\ AnsweredSurvives /\ ActiveIsAWorkspace
  BY DEF StoreInv, AnsweredSurvives, ActiveIsAWorkspace, Sound

(* For any client and any configuration: whatever save fails or is cut     *)
(* short, a start reads the last change that was answered or a later one.  *)
THEOREM StoreAnsweredSurvives == StoreSpec => []AnsweredSurvives
  BY StoreInitInv, StoreStepInv, StoreInvImplies, PTL DEF StoreSpec

(* For any client and any configuration: the default and the active        *)
(* workspace exist, in memory and in what a start will read.               *)
THEOREM StoreActiveIsAWorkspace == StoreSpec => []ActiveIsAWorkspace
  BY StoreInitInv, StoreStepInv, StoreInvImplies, PTL DEF StoreSpec

-----------------------------------------------------------------------------
(* The browser is a client of the store.                                   *)

(* TypeOK is inductive with the invariant of the store, and makes what the *)
(* page sends a request of the store.                                      *)
PageInv == TypeOK /\ StoreInv

(* The workspace the page shows is one.                                    *)
LEMMA CurrentType == ASSUME NEW p \in Config PROVE Current(p) \in Workspace
  BY DefaultAssumption DEF Current, Config

(* A good answer leaves the page's copy a configuration.                   *)
LEMMA SucceededType ==
  ASSUME page \in Config, NEW r \in Request PROVE Succeeded(r) \in Config
  <1> /\ r.panels \subseteq Source
      /\ r.workspace \in Workspace
      /\ r.kind \in Kinds
    BY DEF Request
  <1> /\ page.sources \subseteq Source
      /\ page.workspaces \subseteq Workspace
      /\ page.active \in Workspace
      /\ page.panels \in [Workspace -> SUBSET Source]
    BY DEF Config
  <1>1. CASE r.kind = "source"
    BY <1>1 DEF Succeeded, Config
  <1>2. CASE r.kind = "unsource"
    BY <1>2 DEF Succeeded, Stripped, Config
  <1>3. CASE r.kind \in {"workspace", "copy"}
    BY <1>3 DEF Succeeded, Config
  <1>4. CASE r.kind \in {"layout", "active"}
    BY <1>4 DEF Succeeded
  <1>5. CASE r.kind = "unworkspace"
    BY <1>5, DefaultAssumption DEF Succeeded, Config
  <1>6. QED
    BY <1>1, <1>2, <1>3, <1>4, <1>5 DEF Kinds

(* A request the page has room for keeps within the bound.                 *)
LEMMA RoomBounds == ASSUME PageInv, Room PROVE sent + 1 \in 0..MaxRequests
  <1>1. sent \in 0..MaxRequests /\ failures \in 0..MaxFailures
    BY DEF PageInv, TypeOK, StoreTypeOK
  <1>2. QED
    BY <1>1, RequestsAssumption, FailuresAssumption DEF Room

(* What the page asks is a request that arrives at the store.              *)
LEMMA AskArrives ==
  ASSUME PageInv, NEW kind \in Kinds, NEW w \in Workspace, NEW panels \in SUBSET Source,
         Ask(kind, w, panels)
  PROVE  /\ \E r \in Request : Arrive(r)
         /\ sent' \in 0..MaxRequests
         /\ UNCHANGED <<dialog, former>>
  <1> DEFINE r == [n |-> sent + 1, kind |-> kind, workspace |-> w, panels |-> panels,
                   stage |-> "sent"]
  <1>1. sent \in 0..MaxRequests
    BY DEF PageInv, TypeOK
  <1>2. r \in Request
    BY <1>1, RequestsAssumption DEF Request, Stages
  <1>3. Arrive(r)
    BY DEF Ask
  <1>4. sent' \in 0..MaxRequests
    BY RoomBounds DEF Ask
  <1>5. QED
    BY <1>2, <1>3, <1>4 DEF Ask

(* Every step of the browser and of the server is a step of the store, or  *)
(* leaves it alone, and keeps the page well-typed.                         *)
PageOK ==
    /\ opened \in BOOLEAN
    /\ page \in Config
    /\ dialog \subseteq Source
    /\ timer \in BOOLEAN
    /\ sent \in 0..MaxRequests
    /\ former \subseteq Nat
    /\ excused \subseteq Workspace
    /\ troubled \subseteq Source

(* What the server does by itself.                                         *)
LEMMA ServerMaps ==
  ASSUME PageInv, ServerStep PROVE [StoreNext]_storeVars /\ PageOK'
  <1>1. CASE Process /\ UNCHANGED <<browser, history>>
    BY <1>1 DEF PageInv, TypeOK, PageOK, StoreNext, browser, history
  <1>2. ASSUME NEW r \in requests, Handle(r), UNCHANGED <<browser, history>>
        PROVE  [StoreNext]_storeVars /\ PageOK'
    BY <1>2 DEF PageInv, TypeOK, PageOK, StoreNext, browser, history
  <1>3. ASSUME NEW f \in Files, EditByHand(f), excused' = Workspace, troubled' = Source,
               UNCHANGED browser
        PROVE  [StoreNext]_storeVars /\ PageOK'
    BY <1>3 DEF PageInv, TypeOK, PageOK, StoreNext, browser
  <1>4. QED
    BY <1>1, <1>2, <1>3 DEF ServerStep

(* The page loads the configuration.                                       *)
LEMMA OpenMaps == ASSUME PageInv, Open PROVE [StoreNext]_storeVars /\ PageOK'
  <1>1. memory \in Config /\ requests \subseteq Request
    BY DEF PageInv, TypeOK, StoreTypeOK
  <1>2. StoreNext /\ requests' \subseteq requests
    BY DEF Open, Disconnect, StoreNext
  <1>3. excused' \subseteq Workspace
    BY DEF Open, Changing
  <1>4. troubled' \subseteq Source /\ former' \subseteq Nat
    BY <1>1, <1>2 DEF Open, Unheard, Request, PageInv, TypeOK
  <1>5. sent' \in 0..MaxRequests
    BY RoomBounds DEF Open
  <1>6. page' \in Config /\ dialog' \subseteq Source /\ opened' \in BOOLEAN /\ timer' \in BOOLEAN
    BY <1>1 DEF Open
  <1>7. QED
    BY <1>2, <1>3, <1>4, <1>5, <1>6 DEF PageOK

(* The dialog for a new panel opens, or closes with nothing done.          *)
LEMMA DialogMaps ==
  ASSUME PageInv, OpenDialog \/ CancelDialog PROVE [StoreNext]_storeVars /\ PageOK'
  <1>1. dialog' \subseteq Source
    BY DEF OpenDialog, CancelDialog, PageInv, TypeOK, Config
  <1>2. UNCHANGED <<storeVars, opened, page, timer, sent, former, excused, troubled>>
    BY DEF OpenDialog, CancelDialog, history
  <1>3. QED
    BY <1>1, <1>2 DEF PageInv, TypeOK, PageOK

(* The page edits a panel: nothing for the store.                          *)
LEMMA AddPanelMaps ==
  ASSUME PageInv, NEW chosen \in SUBSET dialog, AddPanel(chosen)
  PROVE  [StoreNext]_storeVars /\ PageOK'
  <1>1. Current(page) \in Workspace /\ page \in Config /\ chosen \subseteq Source
    BY CurrentType DEF PageInv, TypeOK
  <1>2. page' \in Config
    BY <1>1 DEF AddPanel, Config
  <1>3. UNCHANGED <<storeVars, opened, sent, former, excused>> /\ timer' = TRUE /\ dialog' = {}
    BY DEF AddPanel, Edited
  <1>4. troubled' \subseteq Source
    BY <1>1 DEF AddPanel, PageInv, TypeOK
  <1>5. QED
    BY <1>2, <1>3, <1>4 DEF PageInv, TypeOK, PageOK

(* The same of the panel that is removed.                                  *)
LEMMA RemovePanelMaps ==
  ASSUME PageInv, NEW s \in Source, RemovePanel(s)
  PROVE  [StoreNext]_storeVars /\ PageOK'
  <1>1. Current(page) \in Workspace /\ page \in Config
    BY CurrentType DEF PageInv, TypeOK
  <1>2. page' \in Config
    BY <1>1 DEF RemovePanel, Config
  <1>3. UNCHANGED <<storeVars, opened, dialog, sent, former, history>> /\ timer' = TRUE
    BY DEF RemovePanel, Edited
  <1>4. QED
    BY <1>2, <1>3 DEF PageInv, TypeOK, PageOK, history

(* The page sends a workspace.                                             *)
LEMMA BodyMaps ==
  ASSUME PageInv, NEW kind \in Kinds, NEW w \in Workspace, NEW panels \in SUBSET Source,
         AskWithBody(kind, w, panels), UNCHANGED <<opened, page>>, timer' \in BOOLEAN
  PROVE  [StoreNext]_storeVars /\ PageOK'
  <1>1. /\ \E r \in Request : Arrive(r)
        /\ sent' \in 0..MaxRequests
        /\ UNCHANGED <<dialog, former>>
    BY AskArrives DEF AskWithBody
  <1>2. Raced(panels) \subseteq Source
    BY DEF Raced
  <1>3. excused' \subseteq Workspace /\ troubled' \subseteq Source
    BY <1>2 DEF AskWithBody, PageInv, TypeOK
  <1>4. QED
    BY <1>1, <1>3 DEF PageInv, TypeOK, PageOK, StoreNext

(* The other requests.                                                     *)
LEMMA AskMaps ==
  ASSUME PageInv, NEW kind \in Kinds, NEW w \in Workspace, NEW panels \in SUBSET Source,
         Ask(kind, w, panels), UNCHANGED <<opened, timer>>, page' \in Config,
         excused' \subseteq Workspace, troubled' \subseteq Source
  PROVE  [StoreNext]_storeVars /\ PageOK'
  <1>1. /\ \E r \in Request : Arrive(r)
        /\ sent' \in 0..MaxRequests
        /\ UNCHANGED <<dialog, former>>
    BY AskArrives
  <1>2. QED
    BY <1>1 DEF PageInv, TypeOK, PageOK, StoreNext

(* The workspace a late save would have been for is one.                   *)
LEMMA AbandonedType == ASSUME PageInv, NEW p PROVE Abandoned(p) \subseteq Workspace
  BY CurrentType DEF Abandoned, PageInv, TypeOK

(* The page takes an answer.                                               *)
LEMMA TakeMaps ==
  ASSUME PageInv, NEW r \in requests,
         TakeAnswer(r) \/ TakeNewWorkspace(r) \/ TakeError(r) \/ LoseAnswer(r)
  PROVE  [StoreNext]_storeVars /\ PageOK'
  <1>1. r \in Request /\ page \in Config /\ sent \in 0..MaxRequests
    BY DEF PageInv, TypeOK, StoreTypeOK
  <1>2. Succeeded(r) \in Config /\ Abandoned(page') \subseteq Workspace
    BY <1>1, SucceededType, AbandonedType
  <1>3. CASE TakeAnswer(r)
    BY <1>1, <1>2, <1>3 DEF TakeAnswer, PageInv, TypeOK, PageOK, StoreNext
  <1>4. CASE TakeNewWorkspace(r)
    <2> DEFINE next == [r EXCEPT !.n = sent + 1, !.kind = "active", !.stage = "sent"]
    <2>1. next \in Request
      <3>1. sent + 1 \in Nat
        BY <1>1, RequestsAssumption
      <3>2. "active" \in Kinds /\ "sent" \in Stages
        BY DEF Kinds, Stages
      <3>3. QED
        BY <1>1, <3>1, <3>2 DEF Request
    <2>2. StoreNext
      BY <1>4, <2>1 DEF TakeNewWorkspace, StoreNext
    <2>3. sent' \in 0..MaxRequests
      BY <1>4, RoomBounds DEF TakeNewWorkspace
    <2>4. QED
      BY <1>2, <1>4, <2>2, <2>3 DEF TakeNewWorkspace, PageInv, TypeOK, PageOK
  <1>5. CASE TakeError(r)
    <2>1. StoreNext
      BY <1>5 DEF TakeError, StoreNext
    <2>2. excused' \subseteq Workspace
      BY <1>1, <1>5 DEF TakeError, PageInv, TypeOK, Request
    <2>3. troubled' \subseteq Source
      BY <1>1, <1>5 DEF TakeError, PageInv, TypeOK, Request
    <2>4. QED
      BY <1>5, <2>1, <2>2, <2>3 DEF TakeError, PageInv, TypeOK, PageOK, browser
  <1>6. CASE LoseAnswer(r)
    <2>1. StoreNext
      BY <1>6 DEF LoseAnswer, StoreNext
    <2>2. troubled' \subseteq Source
      BY <1>1, <1>6 DEF LoseAnswer, Unheard, PageInv, TypeOK, Request
    <2>3. former' \subseteq Nat
      BY <1>6 DEF LoseAnswer, PageInv, TypeOK
    <2>4. QED
      BY <1>6, <2>1, <2>2, <2>3 DEF LoseAnswer, PageInv, TypeOK, PageOK
  <1>7. QED
    BY <1>3, <1>4, <1>5, <1>6

(* Whatever the page does.                                                 *)
LEMMA PageMaps == ASSUME PageInv, PageStep PROVE [StoreNext]_storeVars /\ PageOK'
  <1> DEFINE Maps == [StoreNext]_storeVars /\ PageOK'
  <1>1. page \in Config /\ Current(page) \in Workspace
    BY CurrentType DEF PageInv, TypeOK
  <1>2. page.panels[Current(page)] \subseteq Source
    BY <1>1 DEF Config
  <1>3. CASE SaveWorkspace
    BY <1>1, <1>2, <1>3, BodyMaps DEF SaveWorkspace, Kinds
  <1>4. CASE DeleteWorkspace
    BY <1>1, <1>4, AskMaps DEF DeleteWorkspace, Kinds, history, PageInv, TypeOK
  <1>5. ASSUME NEW w \in Workspace, NewWorkspace(w) \/ DuplicateWorkspace(w) PROVE Maps
    BY <1>1, <1>2, <1>5, BodyMaps DEF NewWorkspace, DuplicateWorkspace, Kinds, PageInv, TypeOK
  <1>6. ASSUME NEW w \in Workspace, SelectWorkspace(w) PROVE Maps
    <2>1. page' \in Config
      BY <1>1, <1>6 DEF SelectWorkspace, Config
    <2>2. excused' \subseteq Workspace /\ troubled' \subseteq Source
      BY <1>6, AbandonedType DEF SelectWorkspace, PageInv, TypeOK
    <2>3. QED
      BY <1>6, <2>1, <2>2, AskMaps DEF SelectWorkspace, Kinds
  <1>7. /\ \A s \in Source : RemovePanel(s) => Maps
        /\ \A chosen \in SUBSET dialog : AddPanel(chosen) => Maps
    BY AddPanelMaps, RemovePanelMaps
  <1>8. ASSUME NEW s \in Source, AddSource(s) PROVE Maps
    <2>1. Raced({s}) \subseteq Source
      BY DEF Raced
    <2>2. excused' \subseteq Workspace /\ troubled' \subseteq Source
      BY <1>8, <2>1 DEF AddSource, PageInv, TypeOK
    <2>3. QED
      BY <1>1, <1>8, <2>2, DefaultAssumption, AskMaps, SMTT(30) DEF AddSource, Kinds
  <1>9. ASSUME NEW s \in Source, DeleteSource(s) PROVE Maps
    <2>1. requests \subseteq Request
      BY DEF PageInv, TypeOK, StoreTypeOK
    <2>2. excused' \subseteq Workspace
      BY <1>9, <2>1 DEF DeleteSource, Request, PageInv, TypeOK
    <2>3. troubled' \subseteq Source
      BY <1>9 DEF DeleteSource, PageInv, TypeOK
    <2>4. QED
      BY <1>1, <1>9, <2>2, <2>3, DefaultAssumption, AskMaps DEF DeleteSource, Kinds
  <1>10. QED
    BY <1>3, <1>4, <1>5, <1>6, <1>7, <1>8, <1>9, OpenMaps, DialogMaps, TakeMaps DEF PageStep

(* At first the page has nothing.                                          *)
LEMMA InitInv == Init => PageInv
  <1> SUFFICES ASSUME Init PROVE PageInv
    OBVIOUS
  <1>1. StoreInv
    BY StoreInitInv DEF Init
  <1>2. Defaults \in Config
    BY DefaultAssumption DEF Defaults, Config
  <1>3. sent \in 0..MaxRequests
    BY RequestsAssumption DEF Init
  <1>4. opened \in BOOLEAN /\ timer \in BOOLEAN /\ dialog \subseteq Source /\ former \subseteq Nat
    BY Zenon DEF Init
  <1>5. page \in Config /\ excused \subseteq Workspace /\ troubled \subseteq Source
    <2>1. Loaded(file) \in Config
      BY <1>1 DEF StoreInv, Sound
    <2>2. Dead(Loaded(file)) \subseteq Source
      BY <2>1 DEF Dead, Config
    <2>3. QED
      BY <1>2, <2>2 DEF Init
  <1>6. QED
    BY <1>1, <1>3, <1>4, <1>5 DEF PageInv, TypeOK, StoreInv

(* A step of the composition is a step of the store, or none.              *)
LEMMA StepMaps == PageInv /\ [Next]_vars => [StoreNext]_storeVars /\ PageInv'
  <1> SUFFICES ASSUME PageInv, [Next]_vars PROVE [StoreNext]_storeVars /\ PageInv'
    OBVIOUS
  <1>1. [StoreNext]_storeVars /\ PageOK'
    <2>1. CASE UNCHANGED vars
      BY <2>1 DEF vars, browser, history, PageInv, TypeOK, PageOK
    <2>2. QED
      BY <2>1, ServerMaps, PageMaps DEF Next
  <1>2. StoreInv'
    BY <1>1, StoreStepInv DEF PageInv
  <1>3. QED
    BY <1>1, <1>2 DEF PageInv, TypeOK, PageOK, StoreInv

(* The store with the browser is the store with some client: whatever      *)
(* holds of ConfigStore for any client holds of Workspaces.                *)
THEOREM WorkspacesImplementStore == Spec => StoreSpec
  BY InitInv, StepMaps, PTL DEF Spec, StoreSpec, Init

(* The variables of the server and of the page stay in their ranges.       *)
THEOREM TypeCorrect == Spec => []TypeOK
  <1>1. PageInv => TypeOK
    BY DEF PageInv
  <1>2. QED
    BY <1>1, InitInv, StepMaps, PTL DEF Spec

(* Under the browser too, an answered change survives failed saves and     *)
(* crashes.                                                                *)
THEOREM AnsweredSurvivesCrashes == Spec => []AnsweredSurvives
  BY WorkspacesImplementStore, StoreAnsweredSurvives, PTL

(* Under the browser too, the default and the active workspace exist.      *)
THEOREM ActiveWorkspaceExists == Spec => []ActiveIsAWorkspace
  BY WorkspacesImplementStore, StoreActiveIsAWorkspace, PTL

-----------------------------------------------------------------------------
(* Panels that show a source that does not exist.                          *)
(*                                                                         *)
(* A source is followed from the page to the server and back: as long as   *)
(* nothing that the history notes has happened to it, it is in every       *)
(* configuration a crash may bring back if the page knows it (PageSources) *)
(* and no answer is under way that would undo this (Added, Gone); so the   *)
(* body of a workspace, which is about to reach the server or the page,    *)
(* shows only such sources (BodiesKnown).  It is not added and removed at  *)
(* the same time (AddedApart), nor removed on behalf of a page that is     *)
(* gone (FormerKnown).                                                     *)

\* Requests are numbered as they are sent.
Numbered ==
    /\ \A r \in requests : r.n <= sent
    /\ \A r, q \in requests : r.n = q.n => r = q
    /\ \A n \in former : n <= sent

\* A request of one of these kinds is about one source.
Shape ==
    /\ Sound(page)
    /\ Numbered
    /\ \A r \in requests :
           /\ r.kind = "workspace" => r.panels = {}
           /\ r.kind \in {"source", "unsource"} => \E s \in Source : r.panels = {s}
           /\ r.stage = "stopping" => r.kind = "unsource"
           /\ r.kind = "unworkspace" => r.workspace # Default

Base == PageInv /\ Shape

(* The stages of requests change, and nothing else about them.             *)
Steps(f) ==
    /\ requests' = {f[q] : q \in requests}
    /\ \A q \in requests : /\ f[q].n = q.n
                           /\ f[q].kind = q.kind
                           /\ f[q].workspace = q.workspace
                           /\ f[q].panels = q.panels

(* Moving one request changes its stage alone.                             *)
LEMMA MovedSteps ==
  ASSUME requests \subseteq Request, NEW r \in requests, NEW stage \in Stages,
         requests' = Moved(r, stage)
  PROVE  \E f : Steps(f) /\ f[r].stage = stage /\ \A q \in requests \ {r} : f[q] = q
  <1> DEFINE s == [r EXCEPT !.stage = stage]
             f == [q \in requests |-> IF q = r THEN s ELSE q]
  <1>1. /\ s.n = r.n /\ s.kind = r.kind /\ s.workspace = r.workspace /\ s.panels = r.panels
        /\ s.stage = stage
    BY DEF Request
  <1>2. requests' = (requests \ {r}) \cup {s}
    BY DEF Moved
  <1> HIDE DEF s
  <1>3. f[r] = s /\ \A q \in requests \ {r} : f[q] = q
    OBVIOUS
  <1>4. requests' = {f[q] : q \in requests}
    BY <1>2, <1>3
  <1> HIDE DEF f
  <1>5. Steps(f)
    BY <1>1, <1>3, <1>4 DEF Steps
  <1>6. QED
    BY <1>1, <1>3, <1>5

(* A crash changes stages alone, and only to an error.                     *)
LEMMA DroppedSteps ==
  ASSUME requests \subseteq Request, requests' = {Dropped(q) : q \in requests}
  PROVE  \E f : Steps(f) /\ \A q \in requests : f[q].stage \in {q.stage, "error"}
                                             /\ (f[q].stage = "ok" => q.stage = "ok")
                                             /\ f[q].stage \in {"ok", "error"}
  <1> DEFINE f == [q \in requests |-> Dropped(q)]
  <1>1. \A q \in requests : /\ Dropped(q).n = q.n
                            /\ Dropped(q).kind = q.kind
                            /\ Dropped(q).workspace = q.workspace
                            /\ Dropped(q).panels = q.panels
                            /\ Dropped(q).stage \in {q.stage, "error"}
                            /\ Dropped(q).stage = "ok" => q.stage = "ok"
                            /\ Dropped(q).stage \in {"ok", "error"}
    BY DEF Dropped, Request
  <1>2. \A q \in requests : f[q] = Dropped(q)
    OBVIOUS
  <1>3. requests' = {f[q] : q \in requests}
    BY <1>2
  <1> HIDE DEF f
  <1>4. Steps(f)
    BY <1>1, <1>2, <1>3 DEF Steps
  <1>5. QED
    BY <1>1, <1>2, <1>4

(* No request changes: a step of this kind too.                            *)
LEMMA StandStill == ASSUME requests' = requests PROVE \E f : Steps(f) /\ \A q \in requests : f[q] = q
  <1> DEFINE f == [q \in requests |-> q]
  <1>1. \A q \in requests : f[q] = q
    OBVIOUS
  <1>2. requests' = {f[q] : q \in requests}
    BY <1>1
  <1> HIDE DEF f
  <1>3. QED
    BY <1>1, <1>2 DEF Steps

Leaving(s) == \E r \in requests : r.kind = "unsource" /\ s \in r.panels
Entering(s) == \E r \in requests : r.kind = "source" /\ s \in r.panels
\* The server has taken it up.
Entered(s) == \E r \in requests : r.kind = "source" /\ s \in r.panels /\ r.stage # "sent"

(* Which sources are being added and removed is the same after it.         *)
LEMMA SamePending ==
  ASSUME NEW f, Steps(f)
  PROVE  \A s : (Leaving(s)' <=> Leaving(s)) /\ (Entering(s)' <=> Entering(s))
  BY DEF Steps, Leaving, Entering

(* The server does not forget that it has taken up an addition.            *)
LEMMA EnteredStays ==
  ASSUME NEW f, Steps(f), \A q \in requests : q.stage # "sent" => f[q].stage # "sent"
  PROVE  \A s : Entered(s) => Entered(s)'
  <1>1. \A q \in requests : f[q] \in requests' /\ f[q].kind = q.kind /\ f[q].panels = q.panels
    BY DEF Steps
  <1>2. QED
    BY <1>1 DEF Entered

-----------------------------------------------------------------------------
\* A source that is added while it is removed is noted, and so is one whose
\* removal was asked for by a former page.
AddedApart == \A s : Entering(s) /\ Leaving(s) => s \in troubled
FormerKnown == \A r \in requests : ~Ours(r) /\ r.kind = "unsource" => r.panels \subseteq troubled

\* The property, of memory and of all that a crash may bring back.
Shown(c) == \A w \in c.workspaces : \A s \in c.panels[w] : s \in c.sources \/ s \in troubled
Shows == \A c \in since \cup {memory} : Shown(c)

\* What the page knows of sources, and what its workspaces show.
PageSources ==
    \A c \in since : \A s \in page.sources : s \in c.sources \/ s \in troubled \/ Leaving(s)
PagePanels ==
    \A w \in page.workspaces : \A s \in page.panels[w] : s \in page.sources \/ s \in troubled
BodiesKnown ==
    \A r \in requests : Coming(r) =>
        \A s \in r.panels : s \in troubled \/ (s \in page.sources /\ ~Leaving(s))
\* Configurations differ in sources of requests nobody has heard the end of.
SourcesDiffer ==
    \A c, d \in since : \A s \in d.sources :
        s \in c.sources \/ s \in troubled \/ Leaving(s) \/ Entered(s)
\* What an answer about a source says is so.
Added ==
    \A r \in requests : r.kind = "source" => \A s \in r.panels :
        /\ up /\ r.stage = "saving" => s \in memory.sources
        /\ r.stage = "ok" => \A c \in since : s \in c.sources \/ s \in troubled \/ Leaving(s)
Gone ==
    \A r \in requests : r.kind = "unsource" => \A s \in r.panels :
        /\ up /\ r.stage \in {"saving", "ok"} /\ s \in memory.sources => s \in troubled
        /\ r.stage = "ok" => \A c \in since : s \in c.sources => s \in troubled

DeadInv ==
    /\ AddedApart
    /\ FormerKnown
    /\ Shows
    /\ PageSources
    /\ PagePanels
    /\ BodiesKnown
    /\ SourcesDiffer
    /\ Added
    /\ Gone

(* The shape of requests does not depend on their stage.                   *)
LEMMA ShapeMoves ==
  ASSUME Shape, NEW f, Steps(f), UNCHANGED browser,
         \A q \in requests : f[q].stage = "stopping" => q.stage = "stopping" \/ q.kind = "unsource"
  PROVE  Shape'
  <1>1. Sound(page)'
    BY DEF Shape, Sound, browser
  <1>2. Numbered'
    BY DEF Shape, Numbered, Steps, browser
  <1>3. QED
    BY <1>1, <1>2 DEF Shape, Steps

(* What the server keeps was in since before: everything that does not     *)
(* depend on the stage of a request goes on holding.                       *)
LEMMA Shrinks ==
  ASSUME DeadInv, NEW f, Steps(f), UNCHANGED <<browser, history>>,
         since' \subseteq since, memory' \in since \cup {memory},
         \A q \in requests : Coming(f[q]) => Coming(q),
         \A q \in requests : q.stage # "sent" => f[q].stage # "sent"
  PROVE  /\ AddedApart' /\ FormerKnown' /\ Shows' /\ PageSources' /\ PagePanels'
         /\ BodiesKnown' /\ SourcesDiffer'
  <1> UNCHANGED <<page, former, troubled>>
    BY DEF browser, history
  <1>1. \A s : (Leaving(s)' <=> Leaving(s)) /\ (Entering(s)' <=> Entering(s))
    BY SamePending
  <1>2. AddedApart'
    BY <1>1 DEF DeadInv, AddedApart
  <1>9. FormerKnown'
    BY DEF DeadInv, FormerKnown, Ours, Steps
  <1>3. Shows'
    BY DEF DeadInv, Shows, Shown
  <1>4. PageSources'
    BY <1>1 DEF DeadInv, PageSources
  <1>5. PagePanels'
    BY DEF DeadInv, PagePanels
  <1>6. BodiesKnown'
    BY <1>1 DEF DeadInv, BodiesKnown, Steps, Coming, Ours
  <1>7. SourcesDiffer'
    <2>1. \A s : Entered(s) => Entered(s)'
      BY EnteredStays
    <2>2. QED
      BY <1>1, <2>1 DEF DeadInv, SourcesDiffer
  <1>8. QED
    BY <1>2, <1>3, <1>4, <1>5, <1>6, <1>7, <1>9

(* No answer yet, no other configuration.                                  *)
LEMMA DeadQuiet ==
  ASSUME DeadInv, NEW f, Steps(f), UNCHANGED <<memory, since, browser, history>>,
         up' => up,
         \A q \in requests : \/ f[q].stage = q.stage
                             \/ f[q].stage = "error"
                             \/ f[q].stage = "stopping" /\ q.kind = "unsource"
  PROVE  DeadInv'
  <1> UNCHANGED <<page, former, troubled>>
    BY DEF browser, history
  <1>1. \A s : (Leaving(s)' <=> Leaving(s)) /\ (Entering(s)' <=> Entering(s))
    BY SamePending
  <1>2. /\ \A q \in requests : Coming(f[q]) => Coming(q)
        /\ \A q \in requests : q.stage # "sent" => f[q].stage # "sent"
    BY DEF Coming, Steps, Bodies, Ours
  <1>3. Added'
    BY <1>1 DEF DeadInv, Added, Steps
  <1>4. Gone'
    BY DEF DeadInv, Gone, Steps
  <1>5. QED
    BY <1>2, <1>3, <1>4, Shrinks DEF DeadInv

(* A request is refused, waits for a reader, or fails to be saved.         *)
LEMMA DeadReject ==
  ASSUME Base, DeadInv, UNCHANGED <<browser, history>>,
         NEW r \in requests, Reject(r) \/ Stop(r) \/ SaveFails(r) \/ Refuse(r)
  PROVE  Shape' /\ DeadInv'
  <1>1. requests \subseteq Request
    BY DEF Base, PageInv, TypeOK, StoreTypeOK
  <1>2. PICK stage \in {"error", "stopping"} :
            requests' = Moved(r, stage) /\ (stage = "stopping" => r.kind = "unsource")
    BY DEF Reject, Stop, SaveFails, Refuse
  <1>3. PICK f : Steps(f) /\ f[r].stage = stage /\ \A q \in requests \ {r} : f[q] = q
    BY <1>1, <1>2, MovedSteps DEF Stages
  <1>4. \A q \in requests : \/ f[q].stage = q.stage
                            \/ f[q].stage = "error"
                            \/ f[q].stage = "stopping" /\ q.kind = "unsource"
    BY <1>2, <1>3
  <1>5. UNCHANGED <<memory, since, up>>
    BY DEF Reject, Stop, SaveFails, Refuse, store
  <1>6. DeadInv'
    BY <1>3, <1>4, <1>5, DeadQuiet
  <1>7. Shape'
    BY <1>2, <1>3, <1>4, ShapeMoves DEF Base, browser
  <1>8. QED
    BY <1>6, <1>7

(* A crash: since keeps what the file may hold.                            *)
LEMMA DeadCrash ==
  ASSUME Base, DeadInv, UNCHANGED <<browser, history>>, Crash
  PROVE  Shape' /\ DeadInv'
  <1>1. requests \subseteq Request
    BY DEF Base, PageInv, TypeOK, StoreTypeOK
  <1>2. PICK f : Steps(f) /\ \A q \in requests : f[q].stage \in {q.stage, "error"}
                                             /\ (f[q].stage = "ok" => q.stage = "ok")
                                             /\ f[q].stage \in {"ok", "error"}
    BY <1>1, DroppedSteps DEF Crash
  <1>3. UNCHANGED <<memory, since>> /\ (up' => up)
    BY DEF Crash
  <1>4. DeadInv'
    BY <1>2, <1>3, DeadQuiet
  <1>5. Shape'
    BY <1>2, ShapeMoves DEF Base, browser
  <1>6. QED
    BY <1>4, <1>5

(* A start: memory is one of the configurations of since.                  *)
LEMMA DeadStart ==
  ASSUME Base, DeadInv, UNCHANGED <<browser, history>>, Start
  PROVE  Shape' /\ DeadInv'
  <1>1. PICK f : Steps(f) /\ \A q \in requests : f[q] = q
    BY StandStill DEF Start
  <1>2. memory' \in since /\ since' = {memory'}
    BY DEF Start, Base, PageInv, StoreInv
  <1>3. \A q \in requests : q.stage # "saving"
    BY DEF Start, Base, PageInv, StoreInv, Saving
  <1>4. UNCHANGED <<page, troubled, requests>>
    BY DEF Start, browser, history
  <1>5. Added'
    BY <1>2, <1>3, <1>4 DEF DeadInv, Added, Leaving
  <1>6. Gone'
    BY <1>2, <1>3, <1>4 DEF DeadInv, Gone
  <1>7. DeadInv'
    BY <1>1, <1>2, <1>5, <1>6, Shrinks DEF DeadInv
  <1>8. Shape'
    BY <1>4 DEF Base, Shape, Sound, Numbered, browser
  <1>9. QED
    BY <1>7, <1>8

(* After an edit of the file by hand every source is troubled.             *)
LEMMA DeadEdit ==
  ASSUME Base, DeadInv, NEW f \in Files, EditByHand(f), troubled' = Source, UNCHANGED browser,
         PageInv'
  PROVE  Shape' /\ DeadInv'
  <1> UNCHANGED <<page, sent, former, requests, up, memory>> /\ ~up
    BY DEF EditByHand, browser
  <1>1. /\ requests \subseteq Request
        /\ page \in Config
        /\ memory \in Config
        /\ since' \subseteq Config
    BY DEF Base, PageInv, TypeOK, StoreTypeOK
  <1>2. Shape'
    BY DEF Base, Shape, Sound, Numbered
  <1>3. AddedApart' /\ FormerKnown'
    BY <1>1 DEF AddedApart, FormerKnown, Request, Leaving
  <1>4. Shows'
    BY <1>1 DEF Shows, Shown, Config
  <1>5. PageSources' /\ PagePanels'
    BY <1>1 DEF PageSources, PagePanels, Config
  <1>6. BodiesKnown'
    BY <1>1 DEF BodiesKnown, Request
  <1>7. SourcesDiffer'
    BY <1>1 DEF SourcesDiffer, Config
  <1>8. Added' /\ Gone'
    BY <1>1 DEF Added, Gone, Request
  <1>9. QED
    BY <1>2, <1>3, <1>4, <1>5, <1>6, <1>7, <1>8 DEF DeadInv

(* Nothing else is being saved, and memory becomes the only one.           *)
LEMMA DeadSave ==
  ASSUME Base, DeadInv, UNCHANGED <<browser, history>>, NEW r \in requests, Save(r)
  PROVE  Shape' /\ DeadInv'
  <1> UNCHANGED <<page, troubled>>
    BY DEF browser, history
  <1>1. requests \subseteq Request
    BY DEF Base, PageInv, TypeOK, StoreTypeOK
  <1>2. PICK f : Steps(f) /\ f[r].stage = "ok" /\ \A q \in requests \ {r} : f[q] = q
    BY <1>1, MovedSteps DEF Save, Stages
  <1>3. /\ up /\ up' /\ r.stage = "saving"
        /\ memory \in since /\ memory' = memory /\ since' = {memory}
        /\ \A q \in requests : q.stage = "saving" => q = r
    BY DEF Save, Base, PageInv, StoreInv, StoreTypeOK, Saving
  <1>4. \A s : Leaving(s)' <=> Leaving(s)
    BY <1>2, SamePending
  <1>5. Added'
    BY <1>2, <1>3, <1>4 DEF DeadInv, Added, Steps
  <1>6. Gone'
    BY <1>2, <1>3 DEF DeadInv, Gone, Steps
  <1>7. /\ \A q \in requests : Coming(f[q]) => Coming(q)
        /\ \A q \in requests : q.stage # "sent" => f[q].stage # "sent"
    BY <1>2, <1>3 DEF Coming, Steps, Bodies, Ours
  <1>8. DeadInv'
    BY <1>2, <1>3, <1>5, <1>6, <1>7, Shrinks DEF DeadInv
  <1>9. Shape'
    BY <1>2, ShapeMoves DEF Base, browser
  <1>10. QED
    BY <1>8, <1>9

(* What an update leaves of the configuration.                             *)
LEMMA Updated ==
  ASSUME Base, NEW r \in requests, Update(r)
  PROVE  /\ memory' \in Config
         /\ r.kind \in Kinds
         /\ r.kind = "source" =>
                /\ memory'.sources = memory.sources \cup r.panels
                /\ memory'.workspaces = memory.workspaces /\ memory'.panels = memory.panels
         /\ r.kind = "unsource" =>
                /\ memory'.sources = memory.sources \ r.panels
                /\ memory'.workspaces = memory.workspaces
                /\ \A w \in Workspace : memory'.panels[w] = memory.panels[w] \ r.panels
         /\ r.kind \in {"workspace", "copy"} =>
                /\ memory'.sources = memory.sources
                /\ memory'.workspaces = memory.workspaces \cup {r.workspace}
                /\ memory'.panels = [memory.panels EXCEPT ![r.workspace] = r.panels]
         /\ r.kind = "layout" =>
                /\ memory'.sources = memory.sources
                /\ memory'.workspaces = memory.workspaces
                /\ memory'.panels = [memory.panels EXCEPT ![r.workspace] = r.panels]
                /\ r.workspace \in memory.workspaces
         /\ r.kind = "unworkspace" =>
                /\ memory'.sources = memory.sources
                /\ memory'.workspaces = memory.workspaces \ {r.workspace}
                /\ memory'.panels = [memory.panels EXCEPT ![r.workspace] = {}]
         /\ r.kind = "active" =>
                /\ memory'.sources = memory.sources
                /\ memory'.workspaces = memory.workspaces /\ memory'.panels = memory.panels
         /\ r.stage \in {"sent", "stopping"} /\ (r.stage = "stopping" => r.kind = "unsource")
  <1> DEFINE c == Mutated(memory, r)
  <1>1. r \in Request /\ memory \in Config /\ Sound(memory)
    BY DEF Base, PageInv, TypeOK, StoreTypeOK, StoreInv
  <1>2. c \in Config /\ memory' = Valid(c)
    BY <1>1, MutatedType DEF Update
  <1>3. r.kind \in Kinds
    BY <1>1 DEF Request
  <1>4. r.stage \in {"sent", "stopping"} /\ (r.stage = "stopping" => r.kind = "unsource")
    BY DEF Update, Ready, Base, Shape
  <1>5. r.kind # "unsource" => Known(r)
    BY <1>4 DEF Update, Ready
  <1>6. Default \in c.workspaces
    BY <1>1, <1>3, <1>5 DEF Mutated, Known, Sound, Kinds, Config
  <1> HIDE DEF c
  <1>7. /\ memory' \in Config
        /\ memory'.sources = c.sources
        /\ memory'.workspaces = c.workspaces
        /\ memory'.panels = c.panels
    <2>1. c.panels = [c.panels EXCEPT ![Default] = c.panels[Default]]
      BY <1>2, DefaultAssumption DEF Config
    <2>2. c.workspaces \cup {Default} = c.workspaces
      BY <1>6
    <2>3. memory' \in Config
      BY <1>2, ValidIsSound DEF Sound
    <2>4. Valid(c).sources = c.sources /\ Valid(c).workspaces = c.workspaces
      BY <1>2, <2>2 DEF Valid, Config
    <2>5. Valid(c).panels = [c.panels EXCEPT ![Default] = c.panels[Default]]
      BY <1>2, <1>6 DEF Valid, Config
    <2>6. QED
      BY <1>2, <2>1, <2>3, <2>4, <2>5
  <1> USE DEF c
  <1> /\ memory.panels \in [Workspace -> SUBSET Source]
      /\ memory = [sources |-> memory.sources, workspaces |-> memory.workspaces,
                   active |-> memory.active, panels |-> memory.panels]
    BY <1>1 DEF Config
  <1>8. CASE r.kind = "source"
    BY <1>3, <1>4, <1>7, <1>8 DEF Mutated
  <1>9. CASE r.kind = "unsource"
    BY <1>3, <1>4, <1>7, <1>9 DEF Mutated
  <1>10. CASE r.kind \in {"workspace", "copy"}
    BY <1>3, <1>4, <1>7, <1>10 DEF Mutated
  <1>11. CASE r.kind = "layout"
    BY <1>3, <1>4, <1>5, <1>7, <1>11 DEF Mutated, Known
  <1>12. CASE r.kind = "unworkspace"
    BY <1>3, <1>4, <1>7, <1>12 DEF Mutated
  <1>13. CASE r.kind = "active"
    BY <1>3, <1>4, <1>7, <1>13 DEF Mutated
  <1>14. QED
    BY <1>3, <1>8, <1>9, <1>10, <1>11, <1>12, <1>13 DEF Kinds

(* The change is in memory; what was there may come back after a crash.    *)
LEMMA DeadUpdate ==
  ASSUME Base, DeadInv, UNCHANGED <<browser, history>>, NEW r \in requests, Update(r)
  PROVE  Shape' /\ DeadInv'
  <1> UNCHANGED <<page, former, troubled>>
    BY DEF browser, history
  <1>1. /\ requests \subseteq Request
        /\ r \in Request
        /\ memory \in Config
        /\ up /\ up'
        /\ memory \in since
        /\ since' = since \cup {memory'}
        /\ ~Saving
    BY DEF Base, PageInv, TypeOK, StoreTypeOK, StoreInv, Update
  <1>2. PICK f : Steps(f) /\ f[r].stage = "saving" /\ \A q \in requests \ {r} : f[q] = q
    BY <1>1, MovedSteps DEF Update, Stages
  <1>3. \A s : (Leaving(s)' <=> Leaving(s)) /\ (Entering(s)' <=> Entering(s))
    BY <1>2, SamePending
  <1>4. Shape'
    BY <1>2, ShapeMoves DEF Base, browser
  <1>5. AddedApart' /\ FormerKnown'
    BY <1>2, <1>3 DEF DeadInv, AddedApart, FormerKnown, Ours, Steps
  <1>6. PagePanels'
    BY DEF DeadInv, PagePanels
  <1>7. BodiesKnown'
    <2>1. r.kind \in Bodies => r.stage = "sent"
      BY Updated DEF Bodies
    <2>2. \A q \in requests : Coming(f[q])' => Coming(q)
      BY <1>2, <2>1 DEF Coming, Steps, Bodies, Ours
    <2>3. \A q \in requests : Coming(q) =>
              \A s \in q.panels : s \in troubled \/ (s \in page.sources /\ ~Leaving(s)')
      BY <1>3 DEF DeadInv, BodiesKnown
    <2>4. requests' = {f[q] : q \in requests} /\ \A q \in requests : f[q].panels = q.panels
      BY <1>2 DEF Steps
    <2>5. QED
      BY <2>2, <2>3, <2>4 DEF BodiesKnown
  <1>s. \A q \in requests : f[q].stage = "saving" => q = r
    BY <1>1, <1>2 DEF Saving
  \* The sources of memory change only by those of a request about a source.
  <1>8. \A s : /\ s \in memory'.sources => s \in memory.sources \/ Entering(s)
               /\ s \in memory.sources => s \in memory'.sources \/ Leaving(s)
    BY Updated DEF Kinds, Entering, Leaving
  <1>9. PageSources'
    BY <1>1, <1>3, <1>8 DEF DeadInv, PageSources
  <1>10. SourcesDiffer'
    <2>1. r.stage \in {"sent", "stopping"}
      BY Updated
    <2>2. \A s : Entered(s) => Entered(s)'
      BY <1>2, EnteredStays
    <2>3. r.kind = "source" => \A s \in r.panels : Entered(s)'
      <3>1. f[r] \in requests' /\ f[r].kind = r.kind /\ f[r].panels = r.panels
        BY <1>2 DEF Steps
      <3>2. QED
        BY <1>2, <3>1 DEF Entered
    <2>4. \A s \in memory'.sources : s \in memory.sources \/ Entered(s)'
      BY <2>3, Updated DEF Kinds
    <2>5. \A s \in memory.sources : s \in memory'.sources \/ Leaving(s)
      BY <1>8
    <2>6. QED
      BY <1>1, <1>3, <2>2, <2>4, <2>5 DEF DeadInv, SourcesDiffer
  <1>11. Added'
    <2>1. \A q \in requests : q.kind = "source" => \A s \in q.panels :
              f[q].stage = "ok" => \A c \in since' : s \in c.sources \/ s \in troubled \/ Leaving(s)
      BY <1>1, <1>2, <1>8 DEF DeadInv, Added
    <2>2. \A q \in requests : q.kind = "source" => \A s \in q.panels :
              f[q].stage = "saving" => s \in memory'.sources
      <3>1. r.kind = "source" => r.panels \subseteq memory'.sources
        BY Updated
      <3>2. QED
        BY <1>s, <3>1
    <2>3. QED
      BY <1>2, <1>3, <2>1, <2>2 DEF Added, Steps
  <1>12. Gone'
    <2>1. \A q \in requests : q.kind = "unsource" => \A s \in q.panels :
              f[q].stage = "ok" /\ s \in memory'.sources => s \in troubled
      BY <1>1, <1>2, <1>8 DEF DeadInv, Gone, AddedApart, Leaving
    <2>2. \A q \in requests : q.kind = "unsource" => \A s \in q.panels :
              f[q].stage = "saving" => s \notin memory'.sources
      <3>1. r.kind = "unsource" => r.panels \cap memory'.sources = {}
        BY Updated
      <3>2. QED
        BY <1>s, <3>1
    <2>3. \A q \in requests : q.kind = "unsource" => \A s \in q.panels :
              f[q].stage = "ok" => \A c \in since : s \in c.sources => s \in troubled
      BY <1>2 DEF DeadInv, Gone
    <2>4. QED
      BY <1>1, <1>2, <2>1, <2>2, <2>3 DEF Gone, Steps
  <1>13. Shown(memory')
    <2>1. Shown(memory)
      BY DEF DeadInv, Shows
    <2>2. memory'.workspaces \subseteq Workspace
      BY Updated DEF Config
    <2>3. CASE r.kind \in {"source", "active"}
      BY <2>1, <2>3, Updated DEF Shown
    <2>4. CASE r.kind = "unsource"
      <3>1. /\ memory'.workspaces = memory.workspaces
            /\ memory'.sources = memory.sources \ r.panels
            /\ \A w \in Workspace : memory'.panels[w] = memory.panels[w] \ r.panels
        BY <2>4, Updated
      <3>2. QED
        BY <2>1, <2>2, <3>1 DEF Shown
    <2>5. CASE r.kind = "unworkspace"
      BY <1>1, <2>1, <2>5, Updated DEF Shown, Config
    <2>6. CASE r.kind \in Bodies
      <3>1. \A s \in r.panels : s \in memory.sources \/ s \in troubled
        <4>1. CASE r.kind = "workspace"
          BY <4>1 DEF Base, Shape
        <4>2. CASE r.kind # "workspace"
          <5>1. Coming(r)
            BY <2>6, <4>2, Updated DEF Coming, Bodies
          <5>2. QED
            BY <1>1, <5>1 DEF DeadInv, BodiesKnown, PageSources
        <4>3. QED
          BY <4>1, <4>2
      <3>2. /\ memory'.sources = memory.sources
            /\ memory'.workspaces \subseteq memory.workspaces \cup {r.workspace}
            /\ memory'.panels = [memory.panels EXCEPT ![r.workspace] = r.panels]
        BY <2>6, Updated DEF Bodies
      <3>3. r.workspace \in Workspace /\ memory.panels \in [Workspace -> SUBSET Source]
        BY <1>1 DEF Request, Config
      <3>4. \A w \in memory'.workspaces : \/ w = r.workspace /\ memory'.panels[w] = r.panels
                                          \/ /\ w \in memory.workspaces
                                             /\ memory'.panels[w] = memory.panels[w]
        BY <1>1, <3>2, <3>3 DEF Config
      <3>5. QED
        BY <2>1, <3>1, <3>2, <3>4 DEF Shown
    <2>7. QED
      BY <2>3, <2>4, <2>5, <2>6, Updated DEF Kinds, Bodies
  <1>14. Shows'
    <2>1. \A c \in since : Shown(c)
      BY DEF DeadInv, Shows
    <2>2. QED
      BY <1>1, <1>13, <2>1 DEF Shows, Shown
  <1>15. QED
    BY <1>4, <1>5, <1>6, <1>7, <1>9, <1>10, <1>11, <1>12, <1>14 DEF DeadInv

(* A request that is sent, under what its kind asks of the page.           *)
LEMMA DeadAsk ==
  ASSUME Base, DeadInv, NEW r, requests' = requests \cup {r}, UNCHANGED <<store, former>>,
         r.n = sent + 1, sent' = sent + 1,
         page'.sources = page.sources, page'.workspaces = page.workspaces,
         page'.panels = page.panels, Sound(page'),
         r.stage = "sent", troubled \subseteq troubled',
         r.kind = "workspace" => r.panels = {},
         r.kind = "unworkspace" => r.workspace # Default,
         r.kind \in {"source", "unsource"} => \E s \in Source : r.panels = {s},
         r.kind = "source" => \A s \in r.panels : Leaving(s) => s \in troubled',
         r.kind = "unsource" =>
             \A s \in r.panels :
                 /\ Entering(s) => s \in troubled'
                 /\ \A q \in requests : Coming(q) /\ s \in q.panels => s \in troubled',
         r.kind \in Bodies =>
             \A s \in r.panels : s \in troubled' \/ (s \in page.sources /\ ~Leaving(s))
  PROVE  Shape' /\ DeadInv'
  <1> UNCHANGED <<memory, since, up>>
    BY DEF store
  <1>1. \A s : /\ Leaving(s) => Leaving(s)'
               /\ Entered(s) => Entered(s)'
               /\ Entering(s)' => Entering(s) \/ (r.kind = "source" /\ s \in r.panels)
               /\ Leaving(s)' => Leaving(s) \/ (r.kind = "unsource" /\ s \in r.panels)
    BY DEF Leaving, Entering, Entered
  <1>12. /\ sent \in Nat
         /\ \A q \in requests : q.n \in Nat /\ q.n <= sent
         /\ \A n \in former : n \in Nat /\ n <= sent
    BY RequestsAssumption DEF Base, PageInv, TypeOK, StoreTypeOK, Request, Shape, Numbered
  <1>13. Numbered' /\ r.n \notin former
    BY <1>12 DEF Base, Shape, Numbered
  <1>2. Shape'
    BY <1>13 DEF Base, Shape, Sound
  <1>3. AddedApart' /\ FormerKnown'
    BY <1>1, <1>13 DEF DeadInv, AddedApart, FormerKnown, Ours
  <1>4. Shows'
    BY DEF DeadInv, Shows, Shown
  <1>5. PageSources'
    BY <1>1 DEF DeadInv, PageSources
  <1>6. PagePanels'
    BY DEF DeadInv, PagePanels
  <1>7. BodiesKnown'
    <2>1. Coming(r) => r.kind \in Bodies
      BY DEF Coming, Bodies
    <2>2. \A q \in requests : Coming(q) =>
              \A s \in q.panels : s \in troubled' \/ (s \in page.sources /\ ~Leaving(s)')
      BY <1>1 DEF DeadInv, BodiesKnown
    <2>3. r.kind \in Bodies =>
              \A s \in r.panels : s \in troubled' \/ (s \in page.sources /\ ~Leaving(s)')
      BY <1>1 DEF Bodies
    <2>4. QED
      BY <2>1, <2>2, <2>3 DEF BodiesKnown, Coming, Ours
  <1>8. SourcesDiffer'
    BY <1>1 DEF DeadInv, SourcesDiffer
  <1>9. Added'
    BY <1>1 DEF DeadInv, Added
  <1>10. Gone'
    BY DEF DeadInv, Gone
  <1>11. QED
    BY <1>2, <1>3, <1>4, <1>5, <1>6, <1>7, <1>8, <1>9, <1>10 DEF DeadInv

(* The page shows a workspace it has.                                      *)
LEMMA CurrentExists == ASSUME NEW p, Sound(p) PROVE Current(p) \in p.workspaces
  BY DEF Current, Sound

(* What Ask sends.                                                         *)
Asked(kind, w, panels) == [n |-> sent + 1, kind |-> kind, workspace |-> w, panels |-> panels,
                           stage |-> "sent"]

(* Ask adds the request and leaves the store alone.                        *)
LEMMA AskSends ==
  ASSUME NEW kind, NEW w, NEW panels, Ask(kind, w, panels)
  PROVE  /\ requests' = requests \cup {Asked(kind, w, panels)}
         /\ UNCHANGED <<store, dialog, former>>
         /\ sent' = sent + 1
         /\ opened
  BY DEF Ask, Arrive, Asked

(* A workspace that is sent shows known sources, or notes the race.        *)
LEMMA DeadBody ==
  ASSUME Base, DeadInv, NEW kind \in Bodies, NEW w \in Workspace, NEW panels,
         panels = {} \/ (kind # "workspace" /\ panels = page.panels[Current(page)]),
         AskWithBody(kind, w, panels), UNCHANGED page
  PROVE  Shape' /\ DeadInv'
  <1> DEFINE r == Asked(kind, w, panels)
  <1>1. r.kind = kind /\ r.panels = panels /\ r.stage = "sent" /\ r.n = sent + 1
    BY DEF Asked
  <1>2. requests' = requests \cup {r} /\ UNCHANGED <<store, former>> /\ sent' = sent + 1
    BY AskSends DEF AskWithBody
  <1>3. troubled' = troubled \cup Raced(panels)
    BY DEF AskWithBody
  <1>4. \A s \in panels : s \in page.sources \/ s \in troubled
    BY CurrentExists DEF DeadInv, PagePanels, Base, Shape
  <1>5. \A s \in panels : Leaving(s) => s \in Raced(panels)
    BY DEF Leaving, Raced
  <1>6. Sound(page')
    BY DEF Base, Shape
  <1> HIDE DEF r
  <1>7. QED
    BY <1>1, <1>2, <1>3, <1>4, <1>5, <1>6, DeadAsk DEF Bodies

(* A removal or a choice of a workspace shows no source.                   *)
LEMMA DeadAskOther ==
  ASSUME Base, DeadInv, NEW kind, NEW w, kind \in {"unworkspace", "active"},
         kind = "unworkspace" => w # Default,
         Ask(kind, w, {}), UNCHANGED troubled,
         page'.sources = page.sources, page'.workspaces = page.workspaces,
         page'.panels = page.panels, Sound(page')
  PROVE  Shape' /\ DeadInv'
  <1> DEFINE r == Asked(kind, w, {})
  <1>1. r.kind = kind /\ r.stage = "sent" /\ r.workspace = w /\ r.n = sent + 1
    BY DEF Asked
  <1>2. requests' = requests \cup {r} /\ UNCHANGED <<store, former>> /\ sent' = sent + 1
    BY AskSends
  <1> HIDE DEF r
  <1>3. QED
    BY <1>1, <1>2, DeadAsk DEF Bodies

(* A source that is added while it is being removed is noted.              *)
LEMMA DeadAddSource ==
  ASSUME Base, DeadInv, NEW s \in Source, AddSource(s)
  PROVE  Shape' /\ DeadInv'
  <1> DEFINE r == Asked("source", Default, {s})
  <1>1. r.kind = "source" /\ r.panels = {s} /\ r.stage = "sent" /\ r.n = sent + 1
    BY DEF Asked
  <1>2. requests' = requests \cup {r} /\ UNCHANGED <<store, former>> /\ sent' = sent + 1
    BY AskSends DEF AddSource
  <1>3. Leaving(s) => s \in troubled'
    BY DEF AddSource, Leaving, Raced
  <1>4. UNCHANGED page /\ troubled \subseteq troubled'
    BY DEF AddSource
  <1>6. Sound(page')
    BY <1>4 DEF Base, Shape
  <1> HIDE DEF r
  <1>7. QED
    BY <1>1, <1>2, <1>3, <1>4, <1>6, DeadAsk DEF Bodies

(* A removal notes the workspaces on their way that show the source.       *)
LEMMA DeadDeleteSource ==
  ASSUME Base, DeadInv, NEW s \in Source, DeleteSource(s)
  PROVE  Shape' /\ DeadInv'
  <1> DEFINE r == Asked("unsource", Default, {s})
  <1>1. r.kind = "unsource" /\ r.panels = {s} /\ r.stage = "sent" /\ r.n = sent + 1
    BY DEF Asked
  <1>2. requests' = requests \cup {r} /\ UNCHANGED <<store, former>> /\ sent' = sent + 1
    BY AskSends DEF DeleteSource
  <1>3. UNCHANGED page /\ troubled \subseteq troubled'
    BY DEF DeleteSource
  <1>4. /\ \A q \in requests : Coming(q) /\ s \in q.panels => s \in troubled'
        /\ Entering(s) => s \in troubled'
    BY DEF DeleteSource, Entering
  <1>5. Sound(page')
    BY <1>3 DEF Base, Shape
  <1> HIDE DEF r
  <1>6. QED
    BY <1>1, <1>2, <1>3, <1>4, <1>5, DeadAsk DEF Bodies

(* Nothing that the invariant is about changes.                            *)
LEMMA DeadSame ==
  ASSUME Base, DeadInv, UNCHANGED <<up, memory, requests, since, page, sent, former, troubled>>
  PROVE  Shape' /\ DeadInv'
  <1>1. Shape'
    BY DEF Base, Shape, Sound, Numbered
  <1>2. AddedApart' /\ FormerKnown' /\ Shows' /\ PageSources' /\ PagePanels'
    BY DEF DeadInv, AddedApart, FormerKnown, Ours, Shows, Shown, PageSources, PagePanels,
           Leaving, Entering
  <1>3. BodiesKnown' /\ SourcesDiffer' /\ Added' /\ Gone'
    BY DEF DeadInv, BodiesKnown, Coming, Ours, SourcesDiffer, Added, Gone, Leaving, Entered
  <1>4. QED
    BY <1>1, <1>2, <1>3 DEF DeadInv

(* The page shows other sources in a panel: those it knows, or is told of. *)
LEMMA DeadPanel ==
  ASSUME Base, DeadInv, UNCHANGED <<storeVars, sent, former>>, troubled \subseteq troubled',
         NEW P \in SUBSET Source, page' = [page EXCEPT !.panels[Current(page)] = P],
         \A u \in P : u \in page.panels[Current(page)] \cup page.sources \cup troubled'
  PROVE  Shape' /\ DeadInv'
  <1>1. UNCHANGED <<memory, since, up, requests>>
    BY DEF storeVars, store
  <1> DEFINE v == Current(page)
  <1>2. page \in Config /\ v \in Workspace
    BY CurrentType DEF Base, PageInv, TypeOK
  <1>6. \A u \in P : u \in page.panels[v] \/ u \in page.sources \/ u \in troubled'
    OBVIOUS
  <1>3. page' = [page EXCEPT !.panels[v] = P]
    OBVIOUS
  <1> HIDE DEF v
  <1>7. /\ page' \in Config
        /\ page'.sources = page.sources
        /\ page'.workspaces = page.workspaces
        /\ page'.active = page.active
        /\ page'.panels = [page.panels EXCEPT ![v] = P]
    BY <1>2, <1>3 DEF Config
  <1>8. Shape'
    BY <1>1, <1>7 DEF Base, Shape, Sound, Numbered
  <1>9. AddedApart' /\ FormerKnown'
    BY <1>1 DEF DeadInv, AddedApart, FormerKnown, Ours, Leaving, Entering
  <1>10. Shows' /\ Added' /\ Gone' /\ SourcesDiffer'
    BY <1>1 DEF DeadInv, Shows, Shown, Added, Gone, SourcesDiffer, Leaving, Entered
  <1>11. PageSources' /\ BodiesKnown'
    BY <1>1, <1>7 DEF DeadInv, PageSources, BodiesKnown, Coming, Ours, Leaving
  <1>12. PagePanels'
    <2>1. v \in page.workspaces
      BY CurrentExists DEF Base, Shape, v
    <2>2. \A w \in page.workspaces : page'.panels[w] = IF w = v THEN P ELSE page.panels[w]
      BY <1>2, <1>7 DEF Config
    <2>3. QED
      BY <1>6, <1>7, <2>1, <2>2 DEF DeadInv, PagePanels
  <1>13. QED
    BY <1>8, <1>9, <1>10, <1>11, <1>12 DEF DeadInv

(* A panel is added, of sources that may be gone, or removed.              *)
LEMMA DeadPanelStep ==
  ASSUME Base, DeadInv,
         \/ \E chosen \in SUBSET dialog : AddPanel(chosen)
         \/ \E s \in Source : RemovePanel(s)
  PROVE  Shape' /\ DeadInv'
  <1> DEFINE v == Current(page)
  <1>1. page \in Config /\ v \in Workspace /\ page.panels[v] \subseteq Source /\ dialog \subseteq Source
    BY CurrentType DEF Base, PageInv, TypeOK, Config
  <1>2. ASSUME NEW chosen \in SUBSET dialog, AddPanel(chosen) PROVE Shape' /\ DeadInv'
    <2> DEFINE P == page.panels[v] \cup chosen
    <2>1. page' = [page EXCEPT !.panels[v] = P] /\ P \in SUBSET Source
      BY <1>1, <1>2 DEF AddPanel
    <2>2. UNCHANGED <<storeVars, sent, former>> /\ troubled' = troubled \cup (chosen \ page.sources)
      BY <1>2 DEF AddPanel
    <2>3. QED
      BY <2>1, <2>2, DeadPanel
  <1>3. ASSUME NEW s \in Source, RemovePanel(s) PROVE Shape' /\ DeadInv'
    <2> DEFINE P == page.panels[v] \ {s}
    <2>1. page' = [page EXCEPT !.panels[v] = P] /\ P \in SUBSET Source
      BY <1>1, <1>3 DEF RemovePanel
    <2>2. UNCHANGED <<storeVars, sent, former, troubled>>
      BY <1>3 DEF RemovePanel, history
    <2>3. QED
      BY <2>1, <2>2, DeadPanel
  <1>4. QED
    BY <1>2, <1>3

(* The page takes over what the server has.  The requests it sent before   *)
(* are those of a former page now, and what they may do is noted.          *)
LEMMA DeadOpen ==
  ASSUME Base, DeadInv, Open
  PROVE  Shape' /\ DeadInv'
  <1>1. /\ UNCHANGED <<memory, since, up>>
        /\ page' = memory /\ sent' = sent + 1
        /\ former' = {r.n : r \in requests'}
        /\ troubled' = troubled \cup Unheard(requests)
        /\ memory \in since
        /\ Sound(memory)
        /\ \A r \in requests : r.stage # "saving"
    BY DEF Open, Disconnect, store, Base, PageInv, StoreInv, Saving
  <1>2. /\ \A r \in requests' : r \in requests /\ r.stage \notin {"ok", "error"}
        /\ \A r \in requests' : r.n \in former'
    BY <1>1 DEF Open, Disconnect
  <1>3. /\ sent \in Nat
        /\ \A r \in requests : r.n \in Nat /\ r.n <= sent /\ r.kind \in Kinds /\ r.stage \in Stages
    BY RequestsAssumption DEF Base, PageInv, TypeOK, StoreTypeOK, Request, Shape, Numbered
  <1>4. /\ \A r \in requests : r.kind = "unsource" /\ r.stage # "ok" => r.panels \subseteq troubled'
        /\ \A r \in requests : r.kind = "source" /\ r.stage = "error" => r.panels \subseteq troubled'
        /\ troubled \subseteq troubled'
    BY <1>1 DEF Unheard
  <1>5. Numbered'
    BY <1>1, <1>2, <1>3 DEF Base, Shape, Numbered
  <1>6. Shape'
    BY <1>1, <1>2, <1>5 DEF Base, Shape
  <1>7. \A s : (Leaving(s)' => Leaving(s)) /\ (Entering(s)' => Entering(s))
    BY <1>2 DEF Leaving, Entering
  \* A source on its way is noted, or where its request says it is.
  <1>8. \A s : Leaving(s) => s \in troubled' \/ \A c \in since : s \notin c.sources
    BY <1>4 DEF Leaving, DeadInv, Gone
  <1>9. \A s : Entered(s) => s \in troubled' \/ \A c \in since : s \in c.sources
    <2>1. SUFFICES ASSUME NEW s, Entered(s), s \notin troubled', NEW c \in since PROVE s \in c.sources
      OBVIOUS
    <2>2. PICK r \in requests : r.kind = "source" /\ s \in r.panels /\ r.stage # "sent"
      BY <2>1 DEF Entered
    <2>3. r.stage = "ok"
      BY <1>1, <1>3, <1>4, <2>1, <2>2 DEF Stages, Base, Shape
    <2>4. ~Leaving(s)
      BY <1>4, <2>1, <2>2 DEF DeadInv, AddedApart, Entering
    <2>5. QED
      BY <1>4, <2>1, <2>2, <2>3, <2>4 DEF DeadInv, Added
  <1>10. \A c, d \in since : \A s \in d.sources : s \in c.sources \/ s \in troubled'
    BY <1>4, <1>8, <1>9 DEF DeadInv, SourcesDiffer
  <1>11. AddedApart' /\ FormerKnown'
    BY <1>2, <1>4, <1>7 DEF DeadInv, AddedApart, FormerKnown
  <1>12. Added' /\ Gone'
    BY <1>1, <1>2 DEF Added, Gone
  <1>13. BodiesKnown'
    <2>1. ASSUME NEW r \in requests', Coming(r)' PROVE Coming(r)
      BY <1>2, <2>1 DEF Coming, Ours
    <2>2. ASSUME NEW r \in requests', Coming(r)', NEW s \in r.panels, s \notin troubled'
          PROVE  s \in memory.sources /\ ~Leaving(s)
      BY <1>1, <1>2, <1>4, <2>1, <2>2 DEF DeadInv, BodiesKnown, PageSources
    <2>3. QED
      BY <1>1, <1>7, <2>2 DEF BodiesKnown
  <1>14. Shows' /\ PagePanels'
    BY <1>1, <1>4 DEF DeadInv, Shows, Shown, PagePanels
  <1>15. SourcesDiffer' /\ PageSources'
    BY <1>1, <1>10 DEF SourcesDiffer, PageSources
  <1>16. QED
    BY <1>6, <1>11, <1>12, <1>13, <1>14, <1>15 DEF DeadInv

(* A request is over, and perhaps the choice of the new workspace sent.    *)
LEMMA DeadDone ==
  ASSUME Base, DeadInv, NEW r \in requests, UNCHANGED store,
         troubled \subseteq troubled', Sound(page'),
         former' \in {former, former \ {r.n}},
         \/ requests' = requests \ {r} /\ sent' = sent
         \/ /\ sent' = sent + 1
            /\ \E next : /\ next.kind = "active" /\ next.stage = "sent" /\ next.n = sent + 1
                         /\ requests' = (requests \ {r}) \cup {next},
         \A s \in page'.sources :
             \/ s \in page.sources
             \/ /\ r.kind = "source" /\ s \in r.panels
                /\ \A c \in since : s \in c.sources \/ s \in troubled \/ Leaving(s),
         \A s \in page.sources :
             \/ s \in page'.sources
             \/ s \in troubled'
             \/ r.kind = "unsource" /\ s \in r.panels,
         r.kind = "source" => \A s \in r.panels :
             s \in troubled' \/ \A c \in since : s \in c.sources \/ s \in troubled \/ Leaving(s),
         r.kind = "unsource" => \A s \in r.panels :
             \/ s \in troubled'
             \/ s \notin page'.sources /\ \A c \in since : s \in c.sources => s \in troubled,
         \A w \in page'.workspaces : \A s \in page'.panels[w] :
             s \in page'.sources \/ s \in troubled'
  PROVE  Shape' /\ DeadInv'
  <1> UNCHANGED <<memory, since, up>>
    BY DEF store
  <1>1. \A q \in requests' : \/ q \in requests /\ q # r
                             \/ q.kind = "active" /\ q.stage = "sent" /\ q.n = sent + 1
    <2>1. CASE requests' = requests \ {r}
      BY <2>1
    <2>2. ASSUME NEW next, next.kind = "active" /\ next.stage = "sent" /\ next.n = sent + 1,
                 requests' = (requests \ {r}) \cup {next}
          PROVE  \A q \in requests' :
                     \/ q \in requests /\ q # r
                     \/ q.kind = "active" /\ q.stage = "sent" /\ q.n = sent + 1
      BY <2>2
    <2>3. QED
      BY <2>1, <2>2
  <1>2. \A s : /\ Leaving(s)' => Leaving(s)
               /\ Entering(s)' => Entering(s)
               /\ Leaving(s) => Leaving(s)' \/ (r.kind = "unsource" /\ s \in r.panels)
               /\ Entered(s) => Entered(s)' \/ (r.kind = "source" /\ s \in r.panels)
    BY DEF Leaving, Entering, Entered
  <1>3. /\ sent \in Nat
        /\ \A q \in requests : q.n \in Nat /\ q.n <= sent
        /\ \A n \in former : n \in Nat /\ n <= sent
        /\ \A q \in requests : q # r => q.n # r.n
    BY RequestsAssumption DEF Base, PageInv, TypeOK, StoreTypeOK, Request, Shape, Numbered
  <1>4. /\ \A q \in requests : q # r => (Ours(q)' <=> Ours(q))
        /\ \A q : q.n = sent + 1 => Ours(q)'
    BY <1>3 DEF Ours
  <1>5. Numbered'
    <2>1. \A q, p \in requests : q.n = p.n => q = p
      BY DEF Base, Shape, Numbered
    <2>2. CASE requests' = requests \ {r} /\ sent' = sent
      BY <1>3, <2>1, <2>2 DEF Numbered
    <2>3. ASSUME sent' = sent + 1,
                 NEW next, next.n = sent + 1, requests' = (requests \ {r}) \cup {next}
          PROVE  Numbered'
      BY <1>3, <2>1, <2>3 DEF Numbered
    <2>4. QED
      BY <2>2, <2>3
  <1>6. Shape'
    BY <1>1, <1>5 DEF Base, Shape
  <1>7. AddedApart' /\ FormerKnown'
    BY <1>1, <1>2, <1>4 DEF DeadInv, AddedApart, FormerKnown
  <1>8. Shows'
    BY DEF DeadInv, Shows, Shown
  <1>9. PageSources'
    BY <1>2 DEF DeadInv, PageSources
  <1>10. PagePanels'
    BY DEF PagePanels
  <1>11. BodiesKnown'
    <2>1. \A q \in requests' : Coming(q)' => q \in requests /\ Coming(q)
      BY <1>1, <1>4 DEF Coming, Bodies
    <2>2. \A s : s \in page.sources /\ ~Leaving(s) => s \in page'.sources \/ s \in troubled'
      BY DEF Leaving
    <2>3. QED
      BY <1>2, <2>1, <2>2 DEF DeadInv, BodiesKnown
  <1>12. SourcesDiffer'
    BY <1>2 DEF DeadInv, SourcesDiffer
  <1>13. Added'
    <2>1. ASSUME NEW q \in requests', q.kind = "source", NEW s \in q.panels, q.stage = "ok",
                 NEW c \in since
          PROVE  s \in c.sources \/ s \in troubled' \/ Leaving(s)'
      <3>1. q \in requests
        BY <1>1, <2>1
      <3>2. s \in c.sources \/ s \in troubled \/ Leaving(s)
        BY <2>1, <3>1 DEF DeadInv, Added
      <3>3. Leaving(s) /\ ~Leaving(s)' => s \in troubled
        BY <1>2, <2>1, <3>1 DEF DeadInv, AddedApart, Entering
      <3>4. QED
        BY <3>2, <3>3
    <2>2. \A q \in requests' : q.kind = "source" => \A s \in q.panels :
              up /\ q.stage = "saving" => s \in memory.sources
      BY <1>1 DEF DeadInv, Added
    <2>3. QED
      BY <2>1, <2>2 DEF Added
  <1>14. Gone'
    BY <1>1 DEF DeadInv, Gone
  <1>15. QED
    BY <1>6, <1>7, <1>8, <1>9, <1>10, <1>11, <1>12, <1>13, <1>14 DEF DeadInv

(* An error about a source makes it troubled.                              *)
LEMMA DeadError ==
  ASSUME Base, DeadInv, NEW r \in requests, TakeError(r)
  PROVE  Shape' /\ DeadInv'
  <1>1. requests' = requests \ {r} /\ UNCHANGED <<store, page, former, sent>>
    BY DEF TakeError, Answered, browser
  <1>2. Sound(page')
    BY <1>1 DEF Base, Shape
  <1>3. /\ troubled \subseteq troubled'
        /\ r.kind \in {"source", "unsource"} => r.panels \subseteq troubled'
    BY DEF TakeError
  <1>4. \A w \in page'.workspaces : \A s \in page'.panels[w] :
            s \in page'.sources \/ s \in troubled'
    BY <1>1, <1>3 DEF DeadInv, PagePanels
  <1>5. QED
    BY <1>1, <1>2, <1>3, <1>4, DeadDone

(* An answer that nobody takes says of a source what is so, or is noted.   *)
LEMMA DeadLose ==
  ASSUME Base, DeadInv, NEW r \in requests, LoseAnswer(r)
  PROVE  Shape' /\ DeadInv'
  <1>1. /\ requests' = requests \ {r} /\ UNCHANGED <<store, page, sent>>
        /\ former' = former \ {r.n}
        /\ ~Ours(r)
        /\ r.stage \in {"ok", "error"}
    BY DEF LoseAnswer, Answered
  <1>2. Sound(page')
    BY <1>1 DEF Base, Shape
  <1>3. /\ troubled \subseteq troubled'
        /\ r.kind = "source" /\ r.stage = "error" => r.panels \subseteq troubled'
    BY DEF LoseAnswer, Unheard
  <1>4. r.kind = "unsource" => r.panels \subseteq troubled'
    BY <1>1, <1>3 DEF DeadInv, FormerKnown
  <1>5. r.kind = "source" => \A s \in r.panels :
            s \in troubled' \/ \A c \in since : s \in c.sources \/ s \in troubled \/ Leaving(s)
    BY <1>1, <1>3 DEF DeadInv, Added
  <1>6. \A w \in page'.workspaces : \A s \in page'.panels[w] :
            s \in page'.sources \/ s \in troubled'
    BY <1>1, <1>3 DEF DeadInv, PagePanels
  <1>7. QED
    BY <1>1, <1>2, <1>3, <1>4, <1>5, <1>6, DeadDone

(* What the page makes of a good answer.                                   *)
LEMMA Answers ==
  ASSUME Base, NEW r \in requests, page' = Succeeded(r)
  PROVE  /\ page' \in Config
         /\ r.kind \in Kinds
         /\ r.kind = "source" =>
                /\ page'.sources = page.sources \cup r.panels
                /\ page'.workspaces = page.workspaces /\ page'.panels = page.panels
                /\ page'.active = page.active
         /\ r.kind = "unsource" =>
                /\ page'.sources = page.sources \ r.panels
                /\ page'.workspaces = page.workspaces
                /\ \A w \in Workspace : page'.panels[w] = page.panels[w] \ r.panels
                /\ page'.active = page.active
         /\ r.kind \in {"workspace", "copy"} =>
                /\ page'.sources = page.sources
                /\ page'.workspaces = page.workspaces \cup {r.workspace}
                /\ page'.panels = [page.panels EXCEPT ![r.workspace] = r.panels]
                /\ page'.active = page.active \/ page'.active = r.workspace
         /\ r.kind = "unworkspace" =>
                /\ page'.sources = page.sources
                /\ page'.workspaces = page.workspaces \ {r.workspace}
                /\ page'.panels = [page.panels EXCEPT ![r.workspace] = {}]
                /\ page'.active = Default
         /\ r.kind \in {"active", "layout"} => page' = page
  <1>1. r \in Request /\ page \in Config
    BY DEF Base, PageInv, TypeOK, StoreTypeOK
  <1>2. page' \in Config
    BY <1>1, SucceededType
  <1>3. r.kind \in Kinds
    BY <1>1 DEF Request
  <1> /\ page.panels \in [Workspace -> SUBSET Source]
      /\ page = [sources |-> page.sources, workspaces |-> page.workspaces,
                 active |-> page.active, panels |-> page.panels]
    BY <1>1 DEF Config
  <1>4. CASE r.kind = "source"
    BY <1>2, <1>3, <1>4 DEF Succeeded
  <1>5. CASE r.kind = "unsource"
    BY <1>2, <1>3, <1>5 DEF Succeeded, Stripped
  <1>6. CASE r.kind \in {"workspace", "copy"}
    BY <1>2, <1>3, <1>6 DEF Succeeded
  <1>7. CASE r.kind = "unworkspace"
    BY <1>2, <1>3, <1>7 DEF Succeeded
  <1>8. CASE r.kind \in {"active", "layout"}
    BY <1>2, <1>3, <1>8 DEF Succeeded
  <1>9. QED
    BY <1>3, <1>4, <1>5, <1>6, <1>7, <1>8 DEF Kinds

(* The page takes a good answer: what it learns of sources is so.          *)
LEMMA DeadTake ==
  ASSUME Base, DeadInv, NEW r \in requests, TakeAnswer(r) \/ TakeNewWorkspace(r)
  PROVE  Shape' /\ DeadInv'
  <1>1. /\ UNCHANGED <<store, former, troubled>>
        /\ page' = Succeeded(r)
        /\ r.stage = "ok"
        /\ Ours(r)
    BY DEF TakeAnswer, TakeNewWorkspace, Answered, AnsweredThen
  <1>2. requests \subseteq Request /\ page \in Config
    BY DEF Base, PageInv, TypeOK, StoreTypeOK
  <1>3. \/ requests' = requests \ {r} /\ sent' = sent
        \/ /\ sent' = sent + 1
           /\ \E next : /\ next.kind = "active" /\ next.stage = "sent" /\ next.n = sent + 1
                        /\ requests' = (requests \ {r}) \cup {next}
    <2>1. CASE TakeAnswer(r)
      BY <2>1 DEF TakeAnswer, Answered
    <2>2. CASE TakeNewWorkspace(r)
      <3> DEFINE next == [r EXCEPT !.n = sent + 1, !.kind = "active", !.stage = "sent"]
      <3>1. next.kind = "active" /\ next.stage = "sent" /\ next.n = sent + 1
        BY <1>2 DEF Request
      <3>2. requests' = (requests \ {r}) \cup {next} /\ sent' = sent + 1
        BY <2>2 DEF TakeNewWorkspace, AnsweredThen
      <3>3. QED
        BY <3>1, <3>2
    <2>3. QED
      BY <2>1, <2>2
  <1>4. Sound(page')
    <2>1. Sound(page) /\ (r.kind = "unworkspace" => r.workspace # Default)
      BY DEF Base, Shape
    <2>2. QED
      BY <1>1, <2>1, Answers, ZenonT(30) DEF Sound, Kinds
  <1>5. r.kind = "source" => \A s \in r.panels :
             \A c \in since : s \in c.sources \/ s \in troubled \/ Leaving(s)
    BY <1>1 DEF DeadInv, Added
  <1>6. r.kind = "unsource" => \A s \in r.panels : \A c \in since : s \in c.sources => s \in troubled
    BY <1>1 DEF DeadInv, Gone
  <1>7. \A s \in page'.sources : s \in page.sources \/ (r.kind = "source" /\ s \in r.panels)
    BY <1>1, Answers DEF Kinds
  <1>8. \A s \in page.sources : s \in page'.sources \/ (r.kind = "unsource" /\ s \in r.panels)
    BY <1>1, Answers DEF Kinds
  <1>9. r.kind = "unsource" => \A s \in r.panels : s \notin page'.sources
    BY <1>1, Answers
  <1>10. \A w \in page'.workspaces : \A s \in page'.panels[w] :
             s \in page'.sources \/ s \in troubled'
    <2>1. \A w \in page.workspaces : \A s \in page.panels[w] : s \in page.sources \/ s \in troubled
      BY DEF DeadInv, PagePanels
    <2>2. page.workspaces \subseteq Workspace /\ page.panels \in [Workspace -> SUBSET Source]
      BY <1>2 DEF Config
    <2>3. CASE r.kind \in {"source", "active", "layout"}
      BY <1>1, <2>1, <2>3, Answers
    <2>4. CASE r.kind = "unsource"
      <3>1. /\ page'.sources = page.sources \ r.panels
            /\ page'.workspaces = page.workspaces
            /\ \A w \in Workspace : page'.panels[w] = page.panels[w] \ r.panels
        BY <1>1, <2>4, Answers
      <3>2. QED
        BY <1>1, <2>1, <2>2, <3>1
    <2>5. CASE r.kind = "unworkspace"
      <3>1. /\ page'.sources = page.sources
            /\ page'.workspaces = page.workspaces \ {r.workspace}
            /\ page'.panels = [page.panels EXCEPT ![r.workspace] = {}]
        BY <1>1, <2>5, Answers
      <3>2. QED
        BY <1>1, <2>1, <2>2, <3>1
    <2>6. CASE r.kind \in {"workspace", "copy"}
      <3>1. /\ page'.sources = page.sources
            /\ page'.workspaces = page.workspaces \cup {r.workspace}
            /\ page'.panels = [page.panels EXCEPT ![r.workspace] = r.panels]
        BY <1>1, <2>6, Answers
      <3>2. \A s \in r.panels : s \in page.sources \/ s \in troubled
        <4>1. CASE r.kind = "workspace"
          BY <4>1 DEF Base, Shape
        <4>2. CASE r.kind = "copy"
          BY <1>1, <4>2 DEF DeadInv, BodiesKnown, Coming
        <4>3. QED
          BY <2>6, <4>1, <4>2
      <3>3. \A w \in page'.workspaces : \/ w = r.workspace /\ page'.panels[w] = r.panels
                                        \/ w \in page.workspaces /\ page'.panels[w] = page.panels[w]
        BY <1>2, <2>2, <3>1 DEF Request
      <3>4. QED
        BY <1>1, <2>1, <3>1, <3>2, <3>3
    <2>7. QED
      BY <1>1, <2>3, <2>4, <2>5, <2>6, Answers DEF Kinds
  <1>11. QED
    BY <1>1, <1>3, <1>4, <1>5, <1>6, <1>7, <1>8, <1>9, <1>10, DeadDone

(* Every step of the server keeps the invariant about sources.             *)
LEMMA DeadServerStep ==
  ASSUME Base, DeadInv, ServerStep, PageInv' PROVE Shape' /\ DeadInv'
  <1>1. CASE Process /\ UNCHANGED <<browser, history>>
    BY <1>1, DeadCrash, DeadStart DEF Process
  <1>2. ASSUME NEW r \in requests, Handle(r), UNCHANGED <<browser, history>>
        PROVE  Shape' /\ DeadInv'
    BY <1>2, DeadReject, DeadUpdate, DeadSave DEF Handle
  <1>3. ASSUME NEW f \in Files, EditByHand(f), troubled' = Source, UNCHANGED browser
        PROVE  Shape' /\ DeadInv'
    BY <1>3, DeadEdit
  <1>4. QED
    BY <1>1, <1>2, <1>3 DEF ServerStep

(* Every step of the page keeps it.                                        *)
LEMMA DeadPageStep ==
  ASSUME Base, DeadInv, PageStep PROVE Shape' /\ DeadInv'
  <1> DEFINE Kept == Shape' /\ DeadInv'
  <1>1. Sound(page)
    BY DEF Base, Shape
  <1>2. page \in Config /\ Current(page) \in Workspace
    BY CurrentType DEF Base, PageInv, TypeOK
  <1>3. CASE SaveWorkspace
    BY <1>2, <1>3, DeadBody DEF SaveWorkspace, Bodies
  <1>4. CASE DeleteWorkspace
    BY <1>1, <1>4, DeadAskOther DEF DeleteWorkspace, history
  <1>5. ASSUME NEW w \in Workspace, NewWorkspace(w) \/ DuplicateWorkspace(w) PROVE Kept
    BY <1>5, DeadBody DEF NewWorkspace, DuplicateWorkspace, Bodies
  <1>6. ASSUME NEW w \in Workspace, SelectWorkspace(w) PROVE Kept
    <2>1. /\ page'.sources = page.sources
          /\ page'.workspaces = page.workspaces
          /\ page'.panels = page.panels
          /\ Sound(page')
      BY <1>1, <1>2, <1>6 DEF SelectWorkspace, Config, Sound
    <2>2. QED
      BY <1>6, <2>1, DeadAskOther DEF SelectWorkspace
  <1>7. ASSUME NEW s \in Source, AddSource(s) \/ DeleteSource(s) PROVE Kept
    BY <1>7, DeadAddSource, DeadDeleteSource
  <1>8. ASSUME NEW r \in requests,
               TakeAnswer(r) \/ TakeNewWorkspace(r) \/ TakeError(r) \/ LoseAnswer(r)
        PROVE  Kept
    BY <1>8, DeadTake, DeadError, DeadLose
  <1>9. CASE OpenDialog \/ CancelDialog
    BY <1>9, DeadSame DEF OpenDialog, CancelDialog, storeVars, store, history
  <1>10. QED
    BY <1>3, <1>4, <1>5, <1>6, <1>7, <1>8, <1>9, DeadOpen, DeadPanelStep DEF PageStep

(* It holds at first: troubled is what the file shows and has not.         *)
LEMMA DeadInit == Init => Shape /\ DeadInv
  <1> SUFFICES ASSUME Init PROVE Shape /\ DeadInv
    OBVIOUS
  <1>1. requests = {} /\ page = Defaults /\ memory = Defaults /\ since = {Loaded(file)}
        /\ troubled = Dead(Loaded(file)) /\ former = {}
    BY DEF Init, StoreInit
  <1>2. Sound(Defaults)
    BY DefaultAssumption DEF Sound, Defaults, Config
  <1>3. Shape
    BY <1>1, <1>2 DEF Shape, Numbered
  <1>4. Shown(Defaults)
    BY DefaultAssumption DEF Shown, Defaults
  <1>5. Shown(Loaded(file))
    BY <1>1 DEF Shown, Dead
  <1>6. Shows
    BY <1>1, <1>4, <1>5 DEF Shows
  <1>7. AddedApart /\ FormerKnown /\ BodiesKnown /\ Added /\ Gone
    BY <1>1 DEF AddedApart, FormerKnown, Entering, BodiesKnown, Added, Gone
  <1>8. PageSources /\ PagePanels
    BY <1>1, DefaultAssumption DEF PageSources, PagePanels, Defaults
  <1>9. SourcesDiffer
    BY <1>1 DEF SourcesDiffer
  <1>10. QED
    BY <1>3, <1>6, <1>7, <1>8, <1>9 DEF DeadInv

(* The invariant about sources is inductive.                               *)
LEMMA DeadStep == Base /\ DeadInv /\ [Next]_vars => Base' /\ DeadInv'
  <1> SUFFICES ASSUME Base, DeadInv, [Next]_vars PROVE Base' /\ DeadInv'
    OBVIOUS
  <1>1. PageInv'
    BY StepMaps DEF Base
  <1>2. Shape' /\ DeadInv'
    <2>1. CASE UNCHANGED vars
      <3>1. UNCHANGED <<up, memory, requests, since, page, sent, former, troubled>>
        BY <2>1 DEF vars, storeVars, store, browser, history
      <3>2. QED
        BY <3>1, DeadSame
    <2>2. QED
      BY <1>1, <2>1, DeadServerStep, DeadPageStep DEF Next
  <1>3. QED
    BY <1>1, <1>2 DEF Base

(* For any sources, workspaces, files and bounds: a panel on the server    *)
(* shows a source that does not exist only for one of the listed causes.   *)
THEOREM DeadSourcesExplained == Spec => []DeadSourcesHaveACause
  <1>1. Init => Base /\ DeadInv
    BY InitInv, DeadInit DEF Base
  <1>2. DeadInv => DeadSourcesHaveACause
    BY DEF DeadInv, Shows, Shown, DeadSourcesHaveACause, Dead
  <1>3. QED
    BY <1>1, <1>2, DeadStep, PTL DEF Spec

-----------------------------------------------------------------------------
(* Edits that reach the server.                                            *)
(*                                                                         *)
(* For every workspace that is not excused, and that no save and no answer *)
(* is under way for, memory shows what the page shows, but for the sources *)
(* the page is waiting to see removed; so does every configuration a crash *)
(* may bring back, when no save of it is being written.  Created and       *)
(* LayoutsSent say the same of workspaces and saves on their way, and      *)
(* OrphansKnown that what a former page asked for does not change one.     *)

\* The page waits for the workspace it has asked for.
Making(r) == Ours(r) /\ r.kind \in {"workspace", "copy"}

(* A workspace being created is new to the page.                           *)
Alone ==
    \A r \in requests : Making(r) =>
        /\ r.workspace \notin page.workspaces
        /\ \A q \in requests : q.workspace = r.workspace => q = r

(* The page is about to save the workspace, or waits to hear of its save   *)
(* or of its removal.                                                      *)
Exempt(w) ==
    \/ timer /\ w = Current(page)
    \/ \E r \in requests :
           /\ r.workspace = w
           /\ r.kind = "unworkspace" \/ (r.kind = "layout" /\ r.stage \in {"sent", "error"})
BeingSaved(w) ==
    \E r \in requests : r.workspace = w /\ r.kind = "layout" /\ r.stage = "saving"

Watched(w) == w \in page.workspaces /\ w \notin excused /\ ~Exempt(w)
Steady(w) == Watched(w) /\ ~BeingSaved(w)

Left(s, stages) == \E r \in requests : r.kind = "unsource" /\ r.stage \in stages /\ s \in r.panels

(* c has the workspace as the page shows it, up to sources being removed.  *)
Tells(c, w, stages) ==
    /\ w \in c.workspaces
    /\ \A s \in page.panels[w] : s \in c.panels[w] \/ Leaving(s)
    /\ \A s \in c.panels[w] : s \in page.panels[w] /\ ~Left(s, stages)

AgreeMemory == opened /\ up => \A w : Watched(w) => Tells(memory, w, {"saving", "ok"})
AgreeSince == opened => \A w : Steady(w) => \A c \in since : Tells(c, w, {"ok"})

Holds(c, r) == r.workspace \in c.workspaces /\ c.panels[r.workspace] = r.panels
Created ==
    \A r \in requests : Making(r) /\ r.workspace \notin excused =>
        /\ r.stage # "error" => \A s \in r.panels : ~Leaving(s)
        /\ up /\ r.stage \in {"saving", "ok"} => Holds(memory, r)
        /\ r.stage = "ok" => \A c \in since : Holds(c, r)

SentLayout(r, w) == r.kind = "layout" /\ r.stage = "sent" /\ r.workspace = w
LayoutsSent ==
    \A w \in page.workspaces : w \notin excused =>
        \A r \in requests : SentLayout(r, w) =>
            /\ \A s \in r.panels : ~Leaving(s)
            /\ (timer /\ w = Current(page)) \/ r.panels = page.panels[w]
            /\ \A q \in requests : SentLayout(q, w) => q = r

OrphansKnown ==
    \A r \in requests : ~Ours(r) =>
        /\ r.kind \in {"layout", "unworkspace"} => r.workspace \in excused
        /\ r.kind = "unsource" => \A w \in page.workspaces : w \notin excused =>
               (timer /\ w = Current(page)) \/ \A s \in r.panels : s \notin page.panels[w]

EditInv ==
    /\ Alone
    /\ AgreeMemory
    /\ AgreeSince
    /\ Created
    /\ LayoutsSent
    /\ OrphansKnown

(* A workspace being created stays alone when stages change.               *)
LEMMA AloneMoves ==
  ASSUME Alone, NEW f, Steps(f), UNCHANGED <<page, former>> PROVE Alone'
  BY DEF Alone, Making, Ours, Steps

(* Nor does what a former page asked for change.                           *)
LEMMA OrphansMove ==
  ASSUME OrphansKnown, NEW f, Steps(f), UNCHANGED <<page, timer, excused, former>>
  PROVE  OrphansKnown'
  BY DEF OrphansKnown, Ours, Steps, Current

(* A request of the page is not among those of a former one.               *)
LEMMA NewIsOurs ==
  ASSUME Base, UNCHANGED former
  PROVE  /\ \A r : r.n = sent + 1 => Ours(r)'
         /\ \A r \in requests : Ours(r)' <=> Ours(r)
  <1>1. sent \in Nat /\ \A n \in former : n \in Nat /\ n <= sent
    BY RequestsAssumption DEF Base, PageInv, TypeOK, Shape, Numbered
  <1>2. QED
    BY <1>1 DEF Ours

(* Requests fail or wait; what a crash may bring back is the same.         *)
LEMMA EditQuiet ==
  ASSUME EditInv, NEW f, Steps(f), UNCHANGED <<memory, since, browser, history>>,
         up' => up,
         \A q \in requests : \/ f[q].stage = q.stage
                             \/ f[q].stage = "error"
                             \/ f[q].stage = "stopping" /\ q.kind = "unsource"
  PROVE  EditInv'
  <1> UNCHANGED <<page, opened, timer, former, excused>>
    BY DEF browser, history
  <1>1. \A s : Leaving(s)' <=> Leaving(s)
    BY SamePending
  <1>2. \A s : /\ Left(s, {"ok"})' => Left(s, {"ok"})
               /\ Left(s, {"saving", "ok"})' => Left(s, {"saving", "ok"})
    BY DEF Left, Steps
  <1>3. \A w : Exempt(w) => Exempt(w)'
    <2>1. \A q \in requests : f[q] \in requests'
      BY DEF Steps
    <2>2. \A q \in requests : q.kind = "layout" /\ q.stage \in {"sent", "error"} =>
              f[q].stage \in {"sent", "error"}
      OBVIOUS
    <2>3. QED
      BY <2>1, <2>2 DEF Exempt, Steps
  <1>4. \A w : BeingSaved(w) => BeingSaved(w)' \/ Exempt(w)'
    <2>1. \A q \in requests : f[q] \in requests'
      BY DEF Steps
    <2>2. QED
      BY <2>1 DEF Exempt, BeingSaved, Steps
  <1>5. \A w : (Watched(w)' => Watched(w)) /\ (Steady(w)' => Steady(w))
    BY <1>3, <1>4 DEF Watched, Steady
  <1>6. Alone' /\ OrphansKnown'
    BY AloneMoves, OrphansMove DEF EditInv
  <1>7. AgreeMemory' /\ AgreeSince'
    BY <1>1, <1>2, <1>5 DEF EditInv, AgreeMemory, AgreeSince, Tells
  <1>8. Created'
    BY <1>1 DEF EditInv, Created, Making, Ours, Steps, Holds
  <1>9. LayoutsSent'
    BY <1>1 DEF EditInv, LayoutsSent, Steps, SentLayout
  <1>10. QED
    BY <1>6, <1>7, <1>8, <1>9 DEF EditInv

(* A save ends: memory is all that a crash may bring back.                 *)
LEMMA EditSave ==
  ASSUME Base, EditInv, UNCHANGED <<browser, history>>, NEW r \in requests, Save(r)
  PROVE  EditInv'
  <1> UNCHANGED <<page, opened, timer, former, excused>>
    BY DEF browser, history
  <1>1. requests \subseteq Request
    BY DEF Base, PageInv, TypeOK, StoreTypeOK
  <1>2. PICK f : Steps(f) /\ f[r].stage = "ok" /\ \A q \in requests \ {r} : f[q] = q
    BY <1>1, MovedSteps DEF Save, Stages
  <1>3. /\ up /\ up' /\ r.stage = "saving"
        /\ memory \in since /\ memory' = memory /\ since' = {memory}
    BY DEF Save, Base, PageInv, StoreInv, Saving
  <1>4. \A s : Leaving(s)' <=> Leaving(s)
    BY <1>2, SamePending
  <1>5. \A s : (Left(s, {"ok"})' \/ Left(s, {"saving", "ok"})') => Left(s, {"saving", "ok"})
    BY <1>2, <1>3 DEF Left, Steps
  <1>6. \A w : Exempt(w) => Exempt(w)'
    <2>1. \A q \in requests : f[q] \in requests'
      BY <1>2 DEF Steps
    <2>2. \A q \in requests : q.kind = "layout" /\ q.stage \in {"sent", "error"} =>
              f[q].stage \in {"sent", "error"}
      BY <1>2, <1>3
    <2>3. QED
      BY <1>2, <2>1, <2>2 DEF Exempt, Steps
  <1>7. \A w : (Watched(w)' => Watched(w)) /\ (Steady(w)' => Watched(w))
    BY <1>6 DEF Watched, Steady
  <1>8. Alone' /\ OrphansKnown'
    BY <1>2, AloneMoves, OrphansMove DEF EditInv
  <1>9. AgreeMemory' /\ AgreeSince'
    BY <1>3, <1>4, <1>5, <1>7 DEF EditInv, AgreeMemory, AgreeSince, Tells
  <1>10. Created'
    BY <1>2, <1>3, <1>4 DEF EditInv, Created, Making, Ours, Steps, Holds
  <1>11. LayoutsSent'
    BY <1>2, <1>4 DEF EditInv, LayoutsSent, Steps, SentLayout
  <1>12. QED
    BY <1>8, <1>9, <1>10, <1>11 DEF EditInv

(* A start reads one of the configurations of since, and nothing is being  *)
(* saved.                                                                  *)
LEMMA EditStart ==
  ASSUME Base, EditInv, UNCHANGED <<browser, history>>, Start PROVE EditInv'
  <1> UNCHANGED <<page, opened, timer, former, excused, requests>>
    BY DEF browser, history, Start
  <1>1. memory' \in since /\ since' = {memory'}
    BY DEF Start, Base, PageInv, StoreInv
  <1>2. \A q \in requests : q.stage # "saving"
    BY DEF Start, Base, PageInv, StoreInv, Saving
  <1>3. \A s : /\ Leaving(s)' <=> Leaving(s)
               /\ Left(s, {"ok"})' \/ Left(s, {"saving", "ok"})' => Left(s, {"ok"})
    BY <1>2 DEF Leaving, Left
  <1>4. \A w : Watched(w)' \/ Steady(w)' => Steady(w)
    BY <1>2 DEF Watched, Steady, BeingSaved, Exempt
  <1>5. Alone' /\ LayoutsSent' /\ OrphansKnown'
    BY <1>3 DEF EditInv, Alone, Making, Ours, LayoutsSent, SentLayout, OrphansKnown, Current
  <1>6. AgreeMemory' /\ AgreeSince'
    BY <1>1, <1>3, <1>4 DEF EditInv, AgreeMemory, AgreeSince, Tells
  <1>7. Created'
    BY <1>1, <1>2, <1>3 DEF EditInv, Created, Making, Ours, Holds
  <1>8. QED
    BY <1>5, <1>6, <1>7 DEF EditInv

(* From then on no workspace is vouched for.                               *)
LEMMA EditEdit ==
  ASSUME Base, EditInv, UNCHANGED <<requests, page, former>>, excused' = Workspace
  PROVE  EditInv'
  <1>1. requests \subseteq Request /\ page.workspaces \subseteq Workspace
    BY DEF Base, PageInv, TypeOK, StoreTypeOK, Config
  <1>2. Alone'
    BY DEF EditInv, Alone, Making, Ours
  <1>3. AgreeMemory' /\ AgreeSince'
    BY <1>1 DEF AgreeMemory, AgreeSince, Steady, Watched
  <1>4. Created' /\ LayoutsSent' /\ OrphansKnown'
    BY <1>1 DEF Created, LayoutsSent, OrphansKnown, Request
  <1>5. QED
    BY <1>2, <1>3, <1>4 DEF EditInv

(* The server applies a request: the page expects it, or is exempt.        *)
LEMMA EditUpdate ==
  ASSUME Base, EditInv, UNCHANGED <<browser, history>>, NEW r \in requests, Update(r)
  PROVE  EditInv'
  <1> UNCHANGED <<page, opened, timer, former, excused>>
    BY DEF browser, history
  <1>1. /\ requests \subseteq Request
        /\ r \in Request
        /\ page \in Config
        /\ memory \in Config
        /\ memory' \in Config
        /\ up /\ up'
        /\ memory \in since
        /\ since' = since \cup {memory'}
        /\ ~Saving
    BY Updated DEF Base, PageInv, TypeOK, StoreTypeOK, StoreInv, Update
  <1>2. PICK f : Steps(f) /\ f[r].stage = "saving" /\ \A q \in requests \ {r} : f[q] = q
    BY <1>1, MovedSteps DEF Update, Stages
  <1>3. r.kind \in Kinds /\ r.stage \in {"sent", "stopping"}
        /\ (r.stage = "stopping" => r.kind = "unsource")
    BY Updated
  <1>4. \A s : Leaving(s)' <=> Leaving(s)
    BY <1>2, SamePending
  <1>5. \A s : /\ Left(s, {"ok"})' => Left(s, {"ok"})
               /\ Left(s, {"saving", "ok"})' =>
                      Left(s, {"saving", "ok"}) \/ (r.kind = "unsource" /\ s \in r.panels)
    BY <1>2 DEF Left, Steps
  <1>6. \A w : Exempt(w) => Exempt(w)' \/ SentLayout(r, w)
    <2>1. \A q \in requests : f[q] \in requests' /\ (q.stage = f[q].stage \/ q = r)
      BY <1>2 DEF Steps
    <2>2. QED
      BY <1>2, <1>3, <2>1 DEF Exempt, SentLayout, Steps
  <1>7. \A w : SentLayout(r, w) => BeingSaved(w)'
    <2>1. f[r] \in requests'
      BY <1>2 DEF Steps
    <2>2. QED
      BY <1>2, <2>1 DEF SentLayout, BeingSaved, Steps
  <1>8. \A w : Watched(w)' => Watched(w) \/ SentLayout(r, w)
    BY <1>6 DEF Watched
  <1>9. \A w : Steady(w)' => Watched(w)' /\ Steady(w)
    <2>1. \A w : BeingSaved(w) => FALSE
      BY <1>1 DEF BeingSaved, Saving
    <2>2. QED
      BY <1>7, <1>8, <2>1 DEF Steady
  <1>10. Alone' /\ OrphansKnown'
    BY <1>2, AloneMoves, OrphansMove DEF EditInv
  <1>11. ASSUME NEW w, Watched(w)', opened PROVE Tells(memory, w, {"saving", "ok"})'
    <2>1. w \in page.workspaces /\ w \in Workspace /\ w \notin excused
      BY <1>1, <1>11 DEF Watched, Config
    <2>2. CASE SentLayout(r, w)
      <3>1. ~(timer /\ w = Current(page))
        BY <1>11 DEF Watched, Exempt
      <3>2. r.panels = page.panels[w] /\ \A s \in r.panels : ~Leaving(s)
        BY <2>1, <2>2, <3>1 DEF EditInv, LayoutsSent
      <3>3. w \in memory'.workspaces /\ memory'.panels[w] = r.panels
        <4>1. /\ memory'.workspaces = memory.workspaces
              /\ memory'.panels = [memory.panels EXCEPT ![r.workspace] = r.panels]
              /\ r.workspace \in memory.workspaces
          BY <2>2, Updated DEF SentLayout
        <4>2. QED
          BY <1>1, <2>1, <2>2, <4>1 DEF SentLayout, Config
      <3>4. \A s : Left(s, {"saving", "ok"})' => Leaving(s)'
        BY DEF Left, Leaving
      <3>5. QED
        BY <1>4, <3>2, <3>3, <3>4 DEF Tells
    <2>3. CASE ~SentLayout(r, w)
      <3>1. Watched(w)
        BY <1>8, <1>11, <2>3
      <3>2. Tells(memory, w, {"saving", "ok"})
        BY <1>1, <1>11, <3>1 DEF EditInv, AgreeMemory
      <3>3. CASE r.kind = "unsource"
        <4>1. memory'.workspaces = memory.workspaces
              /\ memory'.panels[w] = memory.panels[w] \ r.panels
          BY <2>1, <3>3, Updated
        <4>2. \A s \in r.panels : Leaving(s)
          BY <3>3 DEF Leaving
        <4>3. QED
          BY <1>4, <1>5, <3>2, <4>1, <4>2 DEF Tells
      <3>4. CASE r.kind # "unsource"
        <4>1. w \in memory'.workspaces /\ memory'.panels[w] = memory.panels[w]
          <5>1. w \in memory.workspaces /\ memory.panels \in [Workspace -> SUBSET Source]
            BY <1>1, <3>2 DEF Tells, Config
          <5>2. CASE r.kind \in {"source", "active"}
            BY <5>1, <5>2, Updated
          <5>3. CASE r.kind \in {"workspace", "copy"}
            <6>1. r.workspace # w
              BY <1>3, <5>1, <5>3 DEF Update, Ready, Known
            <6>2. /\ memory'.workspaces = memory.workspaces \cup {r.workspace}
                  /\ memory'.panels = [memory.panels EXCEPT ![r.workspace] = r.panels]
              BY <5>3, Updated
            <6>3. QED
              BY <5>1, <6>1, <6>2
          <5>4. CASE r.kind = "layout"
            <6>1. r.workspace # w
              BY <1>3, <2>3, <5>4 DEF SentLayout
            <6>2. /\ memory'.workspaces = memory.workspaces
                  /\ memory'.panels = [memory.panels EXCEPT ![r.workspace] = r.panels]
              BY <5>4, Updated
            <6>3. QED
              BY <5>1, <6>1, <6>2
          <5>5. CASE r.kind = "unworkspace"
            <6>1. r.workspace # w
              BY <3>1, <5>5 DEF Watched, Exempt
            <6>2. /\ memory'.workspaces = memory.workspaces \ {r.workspace}
                  /\ memory'.panels = [memory.panels EXCEPT ![r.workspace] = {}]
              BY <5>5, Updated
            <6>3. QED
              BY <5>1, <6>1, <6>2
          <5>6. QED
            BY <1>3, <3>4, <5>2, <5>3, <5>4, <5>5 DEF Kinds
        <4>2. QED
          BY <1>4, <1>5, <3>2, <3>4, <4>1 DEF Tells
      <3>5. QED
        BY <3>3, <3>4
    <2>4. QED
      BY <2>2, <2>3
  <1>12. AgreeMemory'
    BY <1>11 DEF AgreeMemory
  <1>13. AgreeSince'
    <2>1. ASSUME opened, NEW w, Steady(w)', NEW c \in since
          PROVE  w \in c.workspaces /\ Tells(c, w, {"ok"})
      BY <1>9, <2>1 DEF EditInv, AgreeSince, Tells
    <2>2. ASSUME opened, NEW w, Steady(w)', NEW c \in since
          PROVE  /\ w \in c.workspaces
                 /\ \A s \in page.panels[w] : s \in c.panels[w] \/ Leaving(s)'
                 /\ \A s \in c.panels[w] : s \in page.panels[w] /\ ~Left(s, {"ok"})'
      BY <1>4, <1>5, <2>1, <2>2 DEF Tells
    <2>3. ASSUME opened, NEW w, Steady(w)'
          PROVE  /\ w \in memory'.workspaces
                 /\ \A s \in page.panels[w] : s \in memory'.panels[w] \/ Leaving(s)'
                 /\ \A s \in memory'.panels[w] : s \in page.panels[w] /\ ~Left(s, {"ok"})'
      <3>1. Tells(memory, w, {"saving", "ok"})'
        BY <1>9, <1>11, <2>3
      <3>2. \A s : Left(s, {"ok"})' => Left(s, {"saving", "ok"})'
        BY DEF Left
      <3>3. QED
        BY <3>1, <3>2 DEF Tells
    <2>4. QED
      BY <1>1, <2>2, <2>3 DEF AgreeSince, Tells
  <1>14. Created'
    <2> DEFINE Told(q) == Making(q) /\ q.workspace \notin excused
    <2>1. \A q \in requests : Told(q) /\ f[q].stage # "error" => \A s \in q.panels : ~Leaving(s)'
      BY <1>2, <1>3, <1>4 DEF EditInv, Created
    <2>2. ASSUME NEW q \in requests, Told(q), f[q].stage \in {"saving", "ok"}
          PROVE  Holds(memory', q)
      <3>1. q.workspace \in Workspace /\ memory.panels \in [Workspace -> SUBSET Source]
        BY <1>1 DEF Request, Config
      <3>2. CASE q = r
        <4>1. /\ memory'.workspaces = memory.workspaces \cup {r.workspace}
              /\ memory'.panels = [memory.panels EXCEPT ![r.workspace] = r.panels]
          BY <2>2, <3>2, Updated DEF Making
        <4>2. QED
          BY <3>1, <3>2, <4>1 DEF Holds
      <3>3. CASE q # r
        <4>1. q.stage = "ok" /\ Holds(memory, q) /\ \A s \in q.panels : ~Leaving(s)
          BY <1>1, <1>2, <2>2, <3>3 DEF EditInv, Created, Saving
        <4>2. r.workspace # q.workspace
          BY <2>2, <3>3 DEF EditInv, Alone
        <4>3. CASE r.kind = "unsource"
          <5>1. /\ memory'.workspaces = memory.workspaces
                /\ memory'.panels[q.workspace] = memory.panels[q.workspace] \ r.panels
            BY <3>1, <4>3, Updated
          <5>2. \A s \in r.panels : Leaving(s)
            BY <4>3 DEF Leaving
          <5>3. QED
            BY <4>1, <5>1, <5>2 DEF Holds
        <4>4. CASE r.kind \in {"source", "active"}
          BY <4>1, <4>4, Updated DEF Holds
        <4>5. CASE r.kind \in {"workspace", "copy", "layout", "unworkspace"}
          <5>1. /\ memory'.workspaces \in {memory.workspaces, memory.workspaces \cup {r.workspace},
                                           memory.workspaces \ {r.workspace}}
                /\ \E P : memory'.panels = [memory.panels EXCEPT ![r.workspace] = P]
            BY <4>5, Updated
          <5>2. QED
            BY <3>1, <4>1, <4>2, <5>1 DEF Holds
        <4>6. QED
          BY <1>3, <4>3, <4>4, <4>5 DEF Kinds
      <3>4. QED
        BY <3>2, <3>3
    <2>3. \A q \in requests : Told(q) /\ f[q].stage = "ok" => \A c \in since : Holds(c, q)
      BY <1>2 DEF EditInv, Created
    <2>4. QED
      BY <1>1, <1>2, <2>1, <2>2, <2>3 DEF Created, Making, Ours, Steps, Holds
  <1>15. LayoutsSent'
    BY <1>2, <1>4 DEF EditInv, LayoutsSent, Steps, SentLayout
  <1>16. QED
    BY <1>10, <1>12, <1>13, <1>14, <1>15 DEF EditInv

(* Nothing that an exempted workspace owes its exemption to is lost, and   *)
(* the page shows the others as before.                                    *)
LEMMA AgreeKept ==
  ASSUME AgreeMemory, AgreeSince, UNCHANGED <<memory, since, up, opened>>,
         \A w : Watched(w)' => Watched(w),
         \A w : BeingSaved(w) => BeingSaved(w)',
         \A w : Watched(w)' => page'.panels[w] = page.panels[w],
         \A s : Leaving(s) => Leaving(s)',
         \A s : Left(s, {"ok"})' => Left(s, {"ok"}),
         \A s : Left(s, {"saving", "ok"})' => Left(s, {"saving", "ok"})
  PROVE  AgreeMemory' /\ AgreeSince'
  <1>1. ASSUME NEW w, Watched(w)', opened, up PROVE Tells(memory, w, {"saving", "ok"})'
    BY <1>1 DEF AgreeMemory, Tells
  <1>2. ASSUME NEW w, Steady(w)', opened, NEW c \in since
        PROVE  /\ w \in c.workspaces
               /\ \A s \in page'.panels[w] : s \in c.panels[w] \/ Leaving(s)'
               /\ \A s \in c.panels[w] : s \in page'.panels[w] /\ ~Left(s, {"ok"})'
    <2>1. Steady(w) /\ page'.panels[w] = page.panels[w]
      BY <1>2 DEF Steady
    <2>2. Tells(c, w, {"ok"})
      BY <1>2, <2>1 DEF AgreeSince
    <2>3. QED
      BY <2>1, <2>2 DEF Tells
  <1>3. QED
    BY <1>1, <1>2 DEF AgreeMemory, AgreeSince, Tells

(* A request that is sent.  The page may go to another workspace with it.  *)
LEMMA EditAsk ==
  ASSUME Base, EditInv, NEW r, requests' = requests \cup {r}, UNCHANGED <<store, opened, former>>,
         r.n = sent + 1,
         page'.workspaces = page.workspaces, page'.panels = page.panels,
         r.stage = "sent", r.kind # "workspace" /\ r.kind # "copy" /\ r.kind # "layout",
         timer' = timer, excused \subseteq excused',
         timer /\ Current(page') # Current(page) => Current(page) \in excused',
         r.workspace \in page.workspaces,
         r.kind = "unsource" =>
             \A s \in r.panels : \A q \in requests : Coming(q) /\ s \in q.panels =>
                 q.workspace \in excused'
  PROVE  EditInv'
  <1> UNCHANGED <<memory, since, up>>
    BY DEF store
  <1>1. \A s : /\ Leaving(s) => Leaving(s)'
               /\ Leaving(s)' => Leaving(s) \/ (r.kind = "unsource" /\ s \in r.panels)
               /\ Left(s, {"ok"})' => Left(s, {"ok"})
               /\ Left(s, {"saving", "ok"})' => Left(s, {"saving", "ok"})
    BY DEF Leaving, Left
  <1>2. \A w : /\ BeingSaved(w) => BeingSaved(w)'
               /\ Exempt(w) => Exempt(w)' \/ w \in excused'
    BY DEF BeingSaved, Exempt
  <1>3. \A w : Watched(w)' => Watched(w)
    BY <1>2 DEF Watched
  <1>4. Alone'
    BY NewIsOurs DEF EditInv, Alone, Making
  <1>5. AgreeMemory' /\ AgreeSince'
    BY <1>1, <1>2, <1>3, AgreeKept DEF EditInv
  <1>6. \A q \in requests : Coming(q) /\ q.workspace \notin excused' =>
            \A s \in q.panels : Leaving(s)' => Leaving(s)
    BY <1>1
  <1>7. Created'
    <2>1. \A q \in requests : Making(q) /\ q.stage # "error" => Coming(q) \/ q.panels = {}
      BY DEF Making, Coming, Base, Shape
    <2>2. \A q \in requests' : Making(q)' => q \in requests /\ Making(q)
      BY NewIsOurs DEF Making
    <2>3. \A q \in requests : Making(q) /\ q.workspace \notin excused' =>
              (q.stage # "error" => \A s \in q.panels : ~Leaving(s)')
      BY <1>6, <2>1 DEF EditInv, Created
    <2>4. QED
      BY <2>2, <2>3 DEF EditInv, Created, Holds
  <1>8. LayoutsSent'
    <2>1. \A w : \A q \in requests' : SentLayout(q, w) => q \in requests /\ Coming(q) /\ q.workspace = w
      BY DEF SentLayout, Coming, Bodies
    <2>2. QED
      BY <1>6, <2>1 DEF EditInv, LayoutsSent, SentLayout
  <1>9. OrphansKnown'
    <2>1. \A q \in requests' : ~Ours(q)' => q \in requests /\ ~Ours(q)
      BY NewIsOurs
    <2>2. QED
      BY <2>1 DEF EditInv, OrphansKnown
  <1>10. QED
    BY <1>4, <1>5, <1>7, <1>8, <1>9 DEF EditInv

(* The page saves the workspace it shows.                                  *)
LEMMA EditSaveWorkspace ==
  ASSUME Base, EditInv, SaveWorkspace PROVE EditInv'
  <1> DEFINE v == Current(page)
             P == page.panels[v]
             r == Asked("layout", v, P)
  <1>1. r.kind = "layout" /\ r.panels = P /\ r.stage = "sent" /\ r.workspace = v
        /\ r.n = sent + 1
    BY DEF Asked
  <1>2. requests' = requests \cup {r} /\ UNCHANGED <<store, former>>
    BY AskSends DEF SaveWorkspace, AskWithBody
  <1>3. UNCHANGED <<opened, page>> /\ timer /\ ~timer'
    BY DEF SaveWorkspace
  <1>4. \/ v \in excused' /\ excused' = excused \cup {v}
        \/ /\ Raced(P) = {} /\ ~Overtaken(v)
           /\ excused' = excused \ {v}
    BY DEF SaveWorkspace, AskWithBody
  <1>5. v \in page.workspaces
    BY CurrentExists DEF Base, Shape
  <1> UNCHANGED <<memory, since, up>>
    BY <1>2 DEF store
  <1>6. Raced(P) = {} => \A s \in P : ~Leaving(s)
    BY DEF Raced, Leaving
  <1>7. ~Overtaken(v) => \A q \in requests : ~SentLayout(q, v)
    BY DEF Overtaken, SentLayout
  <1> HIDE DEF r
  <1>8. \A s : /\ Leaving(s)' <=> Leaving(s)
               /\ Left(s, {"ok"})' => Left(s, {"ok"})
               /\ Left(s, {"saving", "ok"})' => Left(s, {"saving", "ok"})
    BY <1>1, <1>2 DEF Leaving, Left
  <1>9. \A w : /\ BeingSaved(w) => BeingSaved(w)'
               /\ Exempt(w) => Exempt(w)'
    BY <1>1, <1>2, <1>3 DEF BeingSaved, Exempt
  <1>10. Exempt(v)
    BY <1>3 DEF Exempt
  <1>11. \A w : Watched(w)' => Watched(w)
    BY <1>3, <1>4, <1>9, <1>10 DEF Watched
  <1>12. Alone'
    BY <1>1, <1>2, <1>3, <1>5, NewIsOurs DEF EditInv, Alone, Making
  <1>13. AgreeMemory' /\ AgreeSince'
    BY <1>3, <1>8, <1>9, <1>11, AgreeKept DEF EditInv
  <1>14. Created'
    <2>1. \A q \in requests' : Making(q)' => q \in requests /\ Making(q) /\ q.workspace # v
      BY <1>1, <1>2, <1>5, NewIsOurs DEF EditInv, Alone, Making
    <2>2. QED
      BY <1>4, <1>8, <2>1 DEF EditInv, Created, Holds
  <1>15. LayoutsSent'
    <2>1. ASSUME NEW w \in page.workspaces, w \notin excused', w # v,
                 NEW q \in requests', SentLayout(q, w)
          PROVE  /\ \A s \in q.panels : ~Leaving(s)
                 /\ q.panels = page.panels[w]
                 /\ \A p \in requests' : SentLayout(p, w) => p = q
      <3>1. q \in requests /\ w \notin excused
        BY <1>1, <1>2, <1>4, <2>1 DEF SentLayout
      <3>2. /\ \A s \in q.panels : ~Leaving(s)
            /\ q.panels = page.panels[w]
            /\ \A p \in requests : SentLayout(p, w) => p = q
        BY <2>1, <3>1 DEF EditInv, LayoutsSent
      <3>3. QED
        BY <1>1, <1>2, <2>1, <3>2 DEF SentLayout
    <2>2. ASSUME v \notin excused', NEW q \in requests', SentLayout(q, v)
          PROVE  q = r
      BY <1>2, <1>4, <1>7, <2>2
    <2>3. QED
      BY <1>1, <1>3, <1>4, <1>6, <1>8, <2>1, <2>2 DEF LayoutsSent, SentLayout
  <1>16. OrphansKnown'
    <2>1. \A q \in requests' : ~Ours(q)' => q \in requests /\ ~Ours(q)
      BY <1>1, <1>2, NewIsOurs
    <2>2. ~Overtaken(v) => \A q \in requests :
              ~Ours(q) /\ q.kind \in {"layout", "unworkspace"} => q.workspace # v
      BY DEF Overtaken
    <2>3. v \notin excused' => \A q \in requests : q.kind = "unsource" =>
              \A s \in q.panels : s \notin P
      BY <1>4, <1>6 DEF Leaving
    <2>4. QED
      BY <1>3, <1>4, <2>1, <2>2, <2>3 DEF EditInv, OrphansKnown
  <1>17. QED
    BY <1>12, <1>13, <1>14, <1>15, <1>16 DEF EditInv

(* The page asks for a workspace that is new.                              *)
LEMMA EditCreate ==
  ASSUME Base, EditInv, NEW kind \in {"workspace", "copy"}, NEW w \in Workspace, NEW P,
         Fresh(w), AskWithBody(kind, w, P), UNCHANGED <<opened, page, timer>>
  PROVE  EditInv'
  <1> DEFINE r == Asked(kind, w, P)
  <1>1. r.kind = kind /\ r.panels = P /\ r.stage = "sent" /\ r.workspace = w
        /\ r.n = sent + 1
    BY DEF Asked
  <1>2. requests' = requests \cup {r} /\ UNCHANGED <<store, former>>
    BY AskSends DEF AskWithBody
  <1>3. \/ w \in excused' /\ excused' = excused \cup {w}
        \/ Raced(P) = {} /\ excused' = excused \ {w}
    BY DEF AskWithBody
  <1>4. w \notin page.workspaces /\ \A q \in requests : q.workspace # w
    BY DEF Fresh
  <1> UNCHANGED <<memory, since, up>>
    BY <1>2 DEF store
  <1>5. Raced(P) = {} => \A s \in P : ~Leaving(s)
    BY DEF Raced, Leaving
  <1> HIDE DEF r
  <1>6. \A s : /\ Leaving(s)' <=> Leaving(s)
               /\ Left(s, {"ok"})' => Left(s, {"ok"})
               /\ Left(s, {"saving", "ok"})' => Left(s, {"saving", "ok"})
    BY <1>1, <1>2 DEF Leaving, Left
  <1>7. \A v : /\ BeingSaved(v) => BeingSaved(v)'
               /\ Exempt(v) => Exempt(v)'
    BY <1>1, <1>2 DEF BeingSaved, Exempt
  <1>8. \A v : Watched(v)' => Watched(v)
    BY <1>3, <1>4, <1>7 DEF Watched
  <1>9. Alone'
    BY <1>1, <1>2, <1>4, NewIsOurs DEF EditInv, Alone, Making
  <1>10. AgreeMemory' /\ AgreeSince'
    BY <1>6, <1>7, <1>8, AgreeKept DEF EditInv
  <1>11. Created'
    BY <1>1, <1>2, <1>3, <1>4, <1>5, <1>6, NewIsOurs DEF EditInv, Created, Making, Holds
  <1>12. LayoutsSent'
    <2>1. \A v : \A q \in requests' : SentLayout(q, v) => q \in requests
      BY <1>1, <1>2 DEF SentLayout
    <2>2. \A v \in page.workspaces : v \notin excused' => v \notin excused
      BY <1>3, <1>4
    <2>3. QED
      BY <1>6, <2>1, <2>2 DEF EditInv, LayoutsSent
  <1>13. OrphansKnown'
    <2>1. \A q \in requests' : ~Ours(q)' => q \in requests /\ ~Ours(q)
      BY <1>1, <1>2, NewIsOurs
    <2>2. QED
      BY <1>3, <1>4, <2>1 DEF EditInv, OrphansKnown
  <1>14. QED
    BY <1>9, <1>10, <1>11, <1>12, <1>13 DEF EditInv

(* Removals, choices and additions, as requests of the kind before.        *)
LEMMA EditAskOther ==
  ASSUME Base, EditInv,
         \/ DeleteWorkspace
         \/ \E w \in Workspace : SelectWorkspace(w)
         \/ \E s \in Source : AddSource(s) \/ DeleteSource(s)
  PROVE  EditInv'
  <1>1. /\ page \in Config
        /\ requests \subseteq Request
        /\ Default \in page.workspaces
        /\ Current(page) \in page.workspaces
    BY CurrentExists DEF Base, PageInv, TypeOK, StoreTypeOK, Shape, Sound
  <1>2. CASE DeleteWorkspace
    <2> DEFINE r == Asked("unworkspace", Current(page), {})
    <2>1. r.kind = "unworkspace" /\ r.stage = "sent" /\ r.workspace = Current(page)
          /\ r.n = sent + 1
      BY DEF Asked
    <2>2. requests' = requests \cup {r} /\ UNCHANGED <<store, opened, page, timer, former, excused>>
      BY <1>2, AskSends DEF DeleteWorkspace, history
    <2> HIDE DEF r
    <2>3. QED
      BY <1>1, <2>1, <2>2, EditAsk
  <1>3. ASSUME NEW w \in Workspace, SelectWorkspace(w) PROVE EditInv'
    <2> DEFINE r == Asked("active", w, {})
    <2>1. r.kind = "active" /\ r.stage = "sent" /\ r.workspace = w /\ r.n = sent + 1
      BY DEF Asked
    <2>2. requests' = requests \cup {r} /\ UNCHANGED <<store, opened, timer, former>>
      BY <1>3, AskSends DEF SelectWorkspace
    <2>3. page'.workspaces = page.workspaces /\ page'.panels = page.panels
      BY <1>1, <1>3 DEF SelectWorkspace, Config
    <2>4. w \in page.workspaces
      BY <1>3 DEF SelectWorkspace
    <2>5. /\ excused \subseteq excused'
          /\ timer /\ Current(page') # Current(page) => Current(page) \in excused'
      BY <1>3 DEF SelectWorkspace, Abandoned
    <2> HIDE DEF r
    <2>6. QED
      BY <2>1, <2>2, <2>3, <2>4, <2>5, EditAsk
  <1>4. ASSUME NEW s \in Source, AddSource(s) PROVE EditInv'
    <2> DEFINE r == Asked("source", Default, {s})
    <2>1. r.kind = "source" /\ r.stage = "sent" /\ r.workspace = Default
          /\ r.n = sent + 1
      BY DEF Asked
    <2>2. requests' = requests \cup {r} /\ UNCHANGED <<store, opened, page, timer, former, excused>>
      BY <1>4, AskSends DEF AddSource
    <2> HIDE DEF r
    <2>3. QED
      BY <1>1, <2>1, <2>2, EditAsk
  <1>5. ASSUME NEW s \in Source, DeleteSource(s) PROVE EditInv'
    <2> DEFINE r == Asked("unsource", Default, {s})
    <2>1. r.kind = "unsource" /\ r.stage = "sent" /\ r.workspace = Default /\ r.panels = {s}
          /\ r.n = sent + 1
      BY DEF Asked
    <2>2. requests' = requests \cup {r} /\ UNCHANGED <<store, opened, page, timer, former>>
      BY <1>5, AskSends DEF DeleteSource
    <2>3. /\ excused \subseteq excused'
          /\ \A q \in requests : Coming(q) /\ s \in q.panels => q.workspace \in excused'
      BY <1>5 DEF DeleteSource
    <2> HIDE DEF r
    <2>4. QED
      BY <1>1, <2>1, <2>2, <2>3, EditAsk
  <1>6. QED
    BY <1>2, <1>3, <1>4, <1>5

(* An edit schedules a save of the workspace it is made in.                *)
LEMMA EditPanel ==
  ASSUME Base, EditInv,
         \/ \E chosen \in SUBSET dialog : AddPanel(chosen)
         \/ \E s \in Source : RemovePanel(s)
  PROVE  EditInv'
  <1> DEFINE v == Current(page)
  <1>1. /\ UNCHANGED <<store, memory, since, up, requests, opened, former, excused>>
        /\ timer'
    BY DEF AddPanel, RemovePanel, storeVars, store, history, Edited
  <1>2. page \in Config /\ v \in Workspace
    BY CurrentType DEF Base, PageInv, TypeOK
  <1>3. \E P : page' = [page EXCEPT !.panels[v] = P]
    BY DEF AddPanel, RemovePanel
  <1>4. /\ page'.workspaces = page.workspaces
        /\ page'.active = page.active
        /\ \A w \in page.workspaces : w # v => page'.panels[w] = page.panels[w]
    BY <1>2, <1>3 DEF Config
  <1>5. Current(page') = v
    BY <1>4 DEF Current
  <1> HIDE DEF v
  <1>6. \A w : Watched(w)' => Watched(w) /\ w # v
    BY <1>1, <1>4, <1>5 DEF Watched, Exempt, v
  <1>7. /\ \A w : BeingSaved(w) => BeingSaved(w)'
        /\ \A x : /\ Leaving(x)' <=> Leaving(x)
                  /\ Left(x, {"ok"})' <=> Left(x, {"ok"})
                  /\ Left(x, {"saving", "ok"})' <=> Left(x, {"saving", "ok"})
    BY <1>1 DEF BeingSaved, Leaving, Left
  <1>8. Alone'
    BY <1>1, <1>4 DEF EditInv, Alone, Making, Ours
  <1>9. AgreeMemory' /\ AgreeSince'
    <2>1. \A w : Watched(w)' => page'.panels[w] = page.panels[w]
      BY <1>4, <1>6 DEF Watched
    <2>2. QED
      BY <1>1, <1>6, <1>7, <2>1, AgreeKept DEF EditInv
  <1>10. Created'
    BY <1>1, <1>7 DEF EditInv, Created, Making, Ours, Holds
  <1>11. LayoutsSent'
    BY <1>1, <1>4, <1>5, <1>7 DEF EditInv, LayoutsSent, SentLayout, v
  <1>12. OrphansKnown'
    BY <1>1, <1>4, <1>5 DEF EditInv, OrphansKnown, Ours, v
  <1>13. QED
    BY <1>8, <1>9, <1>10, <1>11, <1>12 DEF EditInv

(* The page takes over what the server has; after a failed save a restart  *)
(* may still bring back something else.  It has asked for nothing yet.     *)
LEMMA EditOpen == ASSUME Base, EditInv, Open PROVE EditInv'
  <1>1. /\ UNCHANGED <<memory, since, up>>
        /\ ~timer'
        /\ page' = memory /\ memory \in Config
        /\ memory \in since
        /\ since = {memory} \/ excused' = Workspace
        /\ \A r \in requests : r.stage # "saving"
    BY DEF Open, Disconnect, store, Base, PageInv, TypeOK, StoreTypeOK, StoreInv, Saving
  <1>2. \A r \in requests' : /\ r \in requests
                             /\ r.stage \notin {"saving", "ok"}
                             /\ ~Ours(r)'
    BY <1>1 DEF Open, Disconnect, Ours
  <1>3. \A r \in requests' : r.workspace \in Workspace
    BY <1>2 DEF Base, PageInv, TypeOK, StoreTypeOK, Request
  <1>4. \A w \in Workspace : w \notin excused' => w \notin Changing(requests')
    BY DEF Open
  <1>5. \A w \in Workspace : w \notin excused' => \A r \in requests' :
            /\ r.kind \in {"layout", "unworkspace"} => r.workspace # w
            /\ r.kind = "unsource" => \A s \in r.panels : s \notin memory.panels[w]
    BY <1>4 DEF Changing
  <1>6. Alone' /\ Created'
    BY <1>2 DEF Alone, Created, Making
  <1>7. LayoutsSent'
    BY <1>1, <1>5 DEF LayoutsSent, SentLayout, Config
  <1>8. OrphansKnown'
    BY <1>1, <1>3, <1>5 DEF OrphansKnown, Config
  <1>9. \A w : Watched(w)' => w \in memory.workspaces /\ since = {memory}
    BY <1>1 DEF Watched, Config
  <1>10. \A s : ~Left(s, {"ok"})' /\ ~Left(s, {"saving", "ok"})'
    BY <1>2 DEF Left
  <1>11. AgreeMemory' /\ AgreeSince'
    BY <1>1, <1>9, <1>10 DEF AgreeMemory, AgreeSince, Steady, Tells
  <1>12. QED
    BY <1>6, <1>7, <1>8, <1>11 DEF EditInv

(* The page is told of an error, and leaves its copy as it is.             *)
LEMMA EditError ==
  ASSUME Base, EditInv, NEW r \in requests, TakeError(r) PROVE EditInv'
  <1>1. /\ requests' = requests \ {r}
        /\ UNCHANGED <<store, memory, since, up, page, opened, timer, former>>
        /\ r.stage = "error"
    BY DEF TakeError, Answered, store, browser
  <1>2. /\ page \in Config /\ r \in Request
    BY DEF Base, PageInv, TypeOK, StoreTypeOK
  <1>3. /\ excused \subseteq excused'
        /\ r.kind \in {"layout", "unworkspace"} => r.workspace \in excused'
        /\ r.kind = "unsource" =>
               \A w \in page.workspaces : r.panels \subseteq page.panels[w] => w \in excused'
    BY <1>2 DEF TakeError, Config
  <1>4. \A w : /\ BeingSaved(w) => BeingSaved(w)'
               /\ Exempt(w) => Exempt(w)' \/ w \in excused'
    BY <1>1, <1>3 DEF BeingSaved, Exempt
  <1>5. \A w : Watched(w)' => Watched(w)
    BY <1>1, <1>3, <1>4 DEF Watched
  <1>6. \A s : /\ Leaving(s)' => Leaving(s)
               /\ Leaving(s) => Leaving(s)' \/ (r.kind = "unsource" /\ s \in r.panels)
               /\ Left(s, {"ok"})' => Left(s, {"ok"})
               /\ Left(s, {"saving", "ok"})' => Left(s, {"saving", "ok"})
    BY <1>1 DEF Leaving, Left
  \* A source the page shows in a workspace it vouches for is not the one.
  <1>7. \A w : Watched(w)' => \A s \in page.panels[w] : Leaving(s) => Leaving(s)'
    <2>1. r.kind = "unsource" => \E u \in Source : r.panels = {u}
      BY DEF Base, Shape
    <2>2. QED
      BY <1>1, <1>3, <1>6, <2>1 DEF Watched
  <1>8. Alone'
    BY <1>1 DEF EditInv, Alone, Making, Ours
  <1>9. AgreeMemory'
    BY <1>1, <1>5, <1>6, <1>7 DEF EditInv, AgreeMemory, Tells
  <1>10. AgreeSince'
    <2>1. \A w : Steady(w)' => Watched(w)' /\ Steady(w)
      BY <1>4, <1>5 DEF Steady
    <2>2. QED
      BY <1>1, <1>6, <1>7, <2>1 DEF EditInv, AgreeSince, Tells
  <1>11. Created'
    BY <1>1, <1>3, <1>6 DEF EditInv, Created, Making, Ours, Holds
  <1>12. LayoutsSent'
    BY <1>1, <1>3, <1>6 DEF EditInv, LayoutsSent, SentLayout
  <1>13. OrphansKnown'
    BY <1>1, <1>3 DEF EditInv, OrphansKnown, Ours, Current
  <1>14. QED
    BY <1>8, <1>9, <1>10, <1>11, <1>12, <1>13 DEF EditInv

(* Nobody hears the answer of a request of a former page: no workspace     *)
(* that is vouched for was to be changed by it.                            *)
LEMMA EditLose ==
  ASSUME Base, EditInv, NEW r \in requests, LoseAnswer(r) PROVE EditInv'
  <1>1. /\ requests' = requests \ {r}
        /\ UNCHANGED <<store, memory, since, up, page, opened, timer, excused>>
        /\ former' = former \ {r.n}
        /\ r.stage \in {"ok", "error"} /\ ~Ours(r)
    BY DEF LoseAnswer, Answered, store
  <1>2. \A q \in requests' : Ours(q)' <=> Ours(q)
    BY <1>1 DEF Ours, Base, Shape, Numbered
  <1>3. /\ r.kind \in {"layout", "unworkspace"} => r.workspace \in excused
        /\ r.kind = "unsource" => \A w \in page.workspaces : w \notin excused =>
               (timer /\ w = Current(page)) \/ \A s \in r.panels : s \notin page.panels[w]
    BY <1>1 DEF EditInv, OrphansKnown
  <1>4. \A w : /\ BeingSaved(w) => BeingSaved(w)'
               /\ Exempt(w) => Exempt(w)' \/ w \in excused
    BY <1>1, <1>3 DEF BeingSaved, Exempt
  <1>5. \A w : Watched(w)' => Watched(w)
    BY <1>1, <1>4 DEF Watched
  <1>6. \A s : /\ Leaving(s)' => Leaving(s)
               /\ Leaving(s) => Leaving(s)' \/ (r.kind = "unsource" /\ s \in r.panels)
               /\ Left(s, {"ok"})' => Left(s, {"ok"})
               /\ Left(s, {"saving", "ok"})' => Left(s, {"saving", "ok"})
    BY <1>1 DEF Leaving, Left
  <1>7. \A w : Watched(w)' => \A s \in page.panels[w] : Leaving(s) => Leaving(s)'
    BY <1>3, <1>5, <1>6 DEF Watched, Exempt
  <1>8. Alone'
    BY <1>1, <1>2 DEF EditInv, Alone, Making
  <1>9. AgreeMemory'
    BY <1>1, <1>5, <1>6, <1>7 DEF EditInv, AgreeMemory, Tells
  <1>10. AgreeSince'
    <2>1. \A w : Steady(w)' => Watched(w)' /\ Steady(w)
      BY <1>4, <1>5 DEF Steady
    <2>2. QED
      BY <1>1, <1>6, <1>7, <2>1 DEF EditInv, AgreeSince, Tells
  <1>11. Created'
    BY <1>1, <1>2, <1>6 DEF EditInv, Created, Making, Holds
  <1>12. LayoutsSent'
    BY <1>1, <1>6 DEF EditInv, LayoutsSent, SentLayout
  <1>13. OrphansKnown'
    BY <1>1, <1>2 DEF EditInv, OrphansKnown, Current
  <1>14. QED
    BY <1>8, <1>9, <1>10, <1>11, <1>12, <1>13 DEF EditInv

(* Nothing that the invariant is about changes.                            *)
LEMMA EditSame ==
  ASSUME EditInv, UNCHANGED <<up, memory, requests, since, opened, page, timer, former, excused>>
  PROVE  EditInv'
  <1>1. Alone' /\ Created' /\ LayoutsSent' /\ OrphansKnown'
    BY DEF EditInv, Alone, Created, Making, Ours, LayoutsSent, SentLayout, Leaving, Holds,
           OrphansKnown, Current
  <1>2. /\ \A w : (Watched(w)' <=> Watched(w)) /\ (BeingSaved(w) <=> BeingSaved(w)')
        /\ \A s : /\ Leaving(s)' <=> Leaving(s)
                  /\ Left(s, {"ok"})' <=> Left(s, {"ok"})
                  /\ Left(s, {"saving", "ok"})' <=> Left(s, {"saving", "ok"})
    BY DEF Watched, Exempt, BeingSaved, Leaving, Left
  <1>3. AgreeMemory' /\ AgreeSince'
    BY <1>2, AgreeKept DEF EditInv
  <1>4. QED
    BY <1>1, <1>3 DEF EditInv

(* The page takes a good answer over.                                      *)
LEMMA EditTake ==
  ASSUME Base, EditInv, NEW r \in requests, TakeAnswer(r) \/ TakeNewWorkspace(r)
  PROVE  EditInv'
  <1>1. /\ UNCHANGED <<store, memory, since, up, opened, timer, former>>
        /\ page' = Succeeded(r)
        /\ r.stage = "ok" /\ Ours(r)
        /\ excused' = excused \cup Abandoned(page')
    BY DEF TakeAnswer, TakeNewWorkspace, Answered, AnsweredThen, store
  <1>2. requests \subseteq Request /\ r \in Request /\ page \in Config /\ page' \in Config
    BY <1>1, Answers DEF Base, PageInv, TypeOK, StoreTypeOK
  <1>3. /\ requests \ {r} \subseteq requests'
        /\ \A q \in requests' :
               q \in requests \ {r} \/ (q.kind = "active" /\ q.workspace = r.workspace
                                        /\ q.n = sent + 1 /\ r.kind = "workspace")
    <2>1. CASE TakeAnswer(r)
      BY <2>1 DEF TakeAnswer, Answered
    <2>2. CASE TakeNewWorkspace(r)
      <3> DEFINE next == [r EXCEPT !.n = sent + 1, !.kind = "active", !.stage = "sent"]
      <3>1. next.kind = "active" /\ next.workspace = r.workspace /\ next.n = sent + 1
        BY <1>2 DEF Request
      <3>2. requests' = (requests \ {r}) \cup {next} /\ r.kind = "workspace"
        BY <2>2 DEF TakeNewWorkspace, AnsweredThen
      <3> HIDE DEF next
      <3>3. QED
        BY <3>1, <3>2
    <2>3. QED
      BY <2>1, <2>2
  <1> DEFINE new == r.kind \in {"workspace", "copy"}
  <1>4. r.kind \in Kinds
    BY <1>2 DEF Request
  \* What the page shows of the workspaces it had.
  <1>5. \A w \in page'.workspaces :
            \/ w \in page.workspaces /\ (new => w # r.workspace)
            \/ new /\ w = r.workspace
    <2>1. new => r.workspace \notin page.workspaces
      BY <1>1 DEF EditInv, Alone, Making
    <2>2. QED
      BY <1>1, <1>4, <2>1, Answers DEF Kinds
  <1>6. \A w \in page'.workspaces : w \in page.workspaces =>
            page'.panels[w] = IF r.kind = "unsource" THEN page.panels[w] \ r.panels
                              ELSE page.panels[w]
    <2>1. page.workspaces \subseteq Workspace /\ page.panels \in [Workspace -> SUBSET Source]
      BY <1>2 DEF Config
    <2>2. CASE r.kind = "unsource"
      BY <1>1, <2>1, <2>2, Answers
    <2>3. CASE r.kind \in {"source", "active", "layout"}
      BY <1>1, <2>3, Answers
    <2>4. CASE r.kind \in {"workspace", "copy", "unworkspace"}
      <3>1. \A w \in page'.workspaces : w \in page.workspaces => w # r.workspace
        <4>1. r.kind = "unworkspace" => r.workspace \notin page'.workspaces
          BY <1>1, Answers
        <4>2. new => r.workspace \notin page.workspaces
          BY <1>1 DEF EditInv, Alone, Making
        <4>3. QED
          BY <2>4, <4>1, <4>2
      <3>2. \E P : page'.panels = [page.panels EXCEPT ![r.workspace] = P]
        BY <1>1, <2>4, Answers
      <3>3. QED
        BY <2>1, <2>4, <3>1, <3>2
    <2>5. QED
      BY <1>4, <2>2, <2>3, <2>4 DEF Kinds
  <1>7. new => page'.panels[r.workspace] = r.panels
    <2>1. page.panels \in [Workspace -> SUBSET Source] /\ r.workspace \in Workspace
      BY <1>2 DEF Config, Request
    <2>2. QED
      BY <1>1, <2>1, Answers
  <1>8. \A w : w \notin excused' /\ timer /\ w = Current(page) => w = Current(page')
    BY <1>1 DEF Abandoned
  <1>9. r.kind = "unworkspace" => r.workspace \notin page'.workspaces
    BY <1>1, Answers
  <1>10. \A w : BeingSaved(w) => BeingSaved(w)'
    BY <1>1, <1>3 DEF BeingSaved
  <1>11. \A w \in page'.workspaces : w \notin excused' => (Exempt(w) => Exempt(w)')
    BY <1>1, <1>3, <1>8, <1>9 DEF Exempt
  <1>12. \A w : Watched(w)' => Watched(w) \/ (new /\ w = r.workspace /\ w \notin excused)
    BY <1>1, <1>5, <1>11 DEF Watched
  <1>13. \A s : /\ Leaving(s)' => Leaving(s)
                /\ Leaving(s) => Leaving(s)' \/ (r.kind = "unsource" /\ s \in r.panels)
                /\ Left(s, {"ok"})' => Left(s, {"ok"})
                /\ Left(s, {"saving", "ok"})' => Left(s, {"saving", "ok"})
                /\ Left(s, {"ok"}) \/ Left(s, {"saving", "ok"}) => Leaving(s)
                /\ r.kind = "unsource" /\ s \in r.panels =>
                       Left(s, {"ok"}) /\ Left(s, {"saving", "ok"})
    BY <1>1, <1>3 DEF Leaving, Left
  <1>14. Alone'
    <2>1. \A q \in requests' : Making(q)' =>
              q \in requests /\ q # r /\ Making(q) /\ (new => q.workspace # r.workspace)
      BY <1>1, <1>3, NewIsOurs DEF EditInv, Alone, Making
    <2>2. \A q \in requests' : Making(q)' => q.workspace \notin page'.workspaces
      BY <1>5, <2>1 DEF EditInv, Alone
    <2>3. \A q \in requests' : Making(q)' =>
              \A p \in requests' : p.workspace = q.workspace => p = q
      BY <1>3, <2>1 DEF EditInv, Alone
    <2>4. QED
      BY <2>2, <2>3 DEF Alone
  <1>15. ASSUME NEW c, NEW stages, stages \in {{"ok"}, {"saving", "ok"}},
                NEW w, Watched(w)',
                Watched(w) => Tells(c, w, stages),
                new /\ w = r.workspace /\ w \notin excused => Holds(c, r)
         PROVE  /\ w \in c.workspaces
                /\ \A s \in page'.panels[w] : s \in c.panels[w] \/ Leaving(s)'
                /\ \A s \in c.panels[w] : s \in page'.panels[w] /\ ~Left(s, stages)'
    <2>1. CASE new /\ w = r.workspace /\ w \notin excused
      <3>1. w \in c.workspaces /\ c.panels[w] = r.panels /\ page'.panels[w] = r.panels
        BY <1>7, <1>15, <2>1 DEF Holds
      <3>2. \A s \in r.panels : ~Leaving(s)
        BY <1>1, <2>1 DEF EditInv, Created, Making
      <3>3. \A s \in r.panels : ~Left(s, stages)'
        BY <1>13, <1>15, <3>2
      <3>4. QED
        BY <3>1, <3>3
    <2>2. CASE Watched(w)
      <3>1. Tells(c, w, stages)
        BY <1>15, <2>2
      <3>2. w \in page'.workspaces /\ w \in page.workspaces
        BY <1>15, <2>2 DEF Watched
      <3>3. page'.panels[w] = IF r.kind = "unsource" THEN page.panels[w] \ r.panels
                              ELSE page.panels[w]
        BY <1>6, <3>2
      <3>4. \A s \in c.panels[w] : ~Left(s, stages)' /\ ~(r.kind = "unsource" /\ s \in r.panels)
        BY <1>13, <1>15, <3>1 DEF Tells
      <3>5. QED
        BY <1>13, <3>1, <3>3, <3>4 DEF Tells
    <2>3. QED
      BY <1>12, <1>15, <2>1, <2>2
  <1>16. AgreeMemory'
    <2>1. ASSUME NEW w, Watched(w)', opened, up
          PROVE  /\ w \in memory.workspaces
                 /\ \A s \in page'.panels[w] : s \in memory.panels[w] \/ Leaving(s)'
                 /\ \A s \in memory.panels[w] :
                        s \in page'.panels[w] /\ ~Left(s, {"saving", "ok"})'
      <3>1. Watched(w) => Tells(memory, w, {"saving", "ok"})
        BY <2>1 DEF EditInv, AgreeMemory
      <3>2. new /\ w = r.workspace /\ w \notin excused => Holds(memory, r)
        BY <1>1, <2>1 DEF EditInv, Created, Making
      <3>3. QED
        BY <1>15, <2>1, <3>1, <3>2
    <2>2. QED
      BY <1>1, <2>1 DEF AgreeMemory, Tells
  <1>17. AgreeSince'
    <2>1. ASSUME NEW w, Steady(w)', opened, NEW c \in since
          PROVE  /\ w \in c.workspaces
                 /\ \A s \in page'.panels[w] : s \in c.panels[w] \/ Leaving(s)'
                 /\ \A s \in c.panels[w] : s \in page'.panels[w] /\ ~Left(s, {"ok"})'
      <3>1. Watched(w)' /\ ~BeingSaved(w)
        BY <1>10, <2>1 DEF Steady
      <3>2. Watched(w) => Tells(c, w, {"ok"})
        BY <2>1, <3>1 DEF EditInv, AgreeSince, Steady
      <3>3. new /\ w = r.workspace /\ w \notin excused => Holds(c, r)
        BY <1>1 DEF EditInv, Created, Making
      <3>4. QED
        BY <1>15, <3>1, <3>2, <3>3
    <2>2. QED
      BY <1>1, <2>1 DEF AgreeSince, Tells
  <1>18. Created'
    <2>1. \A q \in requests' : Making(q)' => q \in requests /\ Making(q)
      BY <1>1, <1>3, NewIsOurs DEF Making
    <2>2. QED
      BY <1>1, <1>13, <2>1 DEF EditInv, Created, Holds
  <1>19. LayoutsSent'
    <2>1. ASSUME NEW w \in page'.workspaces, w \notin excused', NEW q \in requests', SentLayout(q, w)
          PROVE  /\ \A s \in q.panels : ~Leaving(s)'
                 /\ (timer /\ w = Current(page')) \/ q.panels = page'.panels[w]
                 /\ \A p \in requests' : SentLayout(p, w) => p = q
      <3>1. q \in requests /\ w \notin excused
        BY <1>1, <1>3, <2>1 DEF SentLayout
      <3>2. w \in page.workspaces
        <4>1. new => q.workspace # r.workspace
          BY <1>1, <1>3, <2>1, <3>1 DEF EditInv, Alone, Making, SentLayout
        <4>2. QED
          BY <1>5, <2>1, <4>1 DEF SentLayout
      <3>3. /\ \A s \in q.panels : ~Leaving(s)
            /\ (timer /\ w = Current(page)) \/ q.panels = page.panels[w]
            /\ \A p \in requests : SentLayout(p, w) => p = q
        BY <2>1, <3>1, <3>2 DEF EditInv, LayoutsSent
      <3>4. r.kind = "unsource" => \A s \in q.panels : s \notin r.panels
        BY <3>3 DEF Leaving
      <3>5. q.panels = page.panels[w] => q.panels = page'.panels[w]
        BY <1>6, <2>1, <3>2, <3>4
      <3>6. \A p \in requests' : SentLayout(p, w) => p \in requests
        BY <1>3 DEF SentLayout
      <3>7. QED
        BY <1>8, <1>13, <2>1, <3>3, <3>5, <3>6
    <2>2. QED
      BY <1>1, <2>1 DEF LayoutsSent, SentLayout
  <1>20. OrphansKnown'
    <2>1. \A q \in requests' : ~Ours(q)' => q \in requests /\ ~Ours(q)
      BY <1>1, <1>3, NewIsOurs
    <2>2. ASSUME NEW q \in requests, ~Ours(q), q.kind = "unsource",
                 NEW w \in page'.workspaces, w \notin excused', ~(timer /\ w = Current(page')),
                 NEW s \in q.panels
          PROVE  s \notin page'.panels[w]
      <3>1. w \notin excused /\ ~(timer /\ w = Current(page))
        BY <1>1, <1>8, <2>2
      <3>2. CASE new /\ w = r.workspace
        BY <1>1, <1>7, <2>2, <3>1, <3>2 DEF EditInv, Created, Making, Leaving
      <3>3. CASE w \in page.workspaces
        BY <1>6, <2>2, <3>1, <3>3 DEF EditInv, OrphansKnown
      <3>4. QED
        BY <1>5, <2>2, <3>2, <3>3
    <2>3. QED
      BY <1>1, <2>1, <2>2 DEF EditInv, OrphansKnown
  <1>21. QED
    BY <1>14, <1>16, <1>17, <1>18, <1>19, <1>20 DEF EditInv

(* Every step of the server keeps the invariant about edits.               *)
LEMMA EditServerStep ==
  ASSUME Base, EditInv, ServerStep PROVE EditInv'
  <1>1. requests \subseteq Request
    BY DEF Base, PageInv, TypeOK, StoreTypeOK
  <1>2. CASE Process /\ UNCHANGED <<browser, history>>
    <2>1. CASE Crash
      <3>1. PICK f : Steps(f) /\ \A q \in requests : f[q].stage \in {q.stage, "error"}
                                             /\ (f[q].stage = "ok" => q.stage = "ok")
                                             /\ f[q].stage \in {"ok", "error"}
        BY <1>1, <2>1, DroppedSteps DEF Crash
      <3>2. UNCHANGED <<memory, since>> /\ (up' => up)
        BY <2>1 DEF Crash
      <3>3. QED
        BY <1>2, <3>1, <3>2, EditQuiet
    <2>2. QED
      BY <1>2, <2>1, EditStart DEF Process
  <1>3. ASSUME NEW r \in requests, Handle(r), UNCHANGED <<browser, history>> PROVE EditInv'
    <2>1. CASE Reject(r) \/ Stop(r) \/ SaveFails(r) \/ Refuse(r)
      <3>1. PICK stage \in {"error", "stopping"} :
                requests' = Moved(r, stage) /\ (stage = "stopping" => r.kind = "unsource")
        BY <2>1 DEF Reject, Stop, SaveFails, Refuse
      <3>2. PICK f : Steps(f) /\ f[r].stage = stage /\ \A q \in requests \ {r} : f[q] = q
        BY <1>1, <3>1, MovedSteps DEF Stages
      <3>3. \A q \in requests : \/ f[q].stage = q.stage
                                \/ f[q].stage = "error"
                                \/ f[q].stage = "stopping" /\ q.kind = "unsource"
        BY <3>1, <3>2
      <3>4. UNCHANGED <<memory, since, up>>
        BY <2>1 DEF Reject, Stop, SaveFails, Refuse, store
      <3>5. QED
        BY <1>3, <3>2, <3>3, <3>4, EditQuiet
    <2>2. QED
      BY <1>3, <2>1, EditUpdate, EditSave DEF Handle
  <1>4. ASSUME NEW f \in Files, EditByHand(f), excused' = Workspace, UNCHANGED browser
        PROVE  EditInv'
    BY <1>4, EditEdit DEF EditByHand, browser
  <1>5. QED
    BY <1>2, <1>3, <1>4 DEF ServerStep

(* Every step of the page keeps it.                                        *)
LEMMA EditPageStep ==
  ASSUME Base, EditInv, PageStep PROVE EditInv'
  <1>1. ASSUME NEW w \in Workspace, NewWorkspace(w) \/ DuplicateWorkspace(w) PROVE EditInv'
    BY <1>1, EditCreate DEF NewWorkspace, DuplicateWorkspace
  <1>2. CASE OpenDialog \/ CancelDialog
    BY <1>2, EditSame DEF OpenDialog, CancelDialog, storeVars, store, history
  <1>3. ASSUME NEW r \in requests,
               TakeAnswer(r) \/ TakeNewWorkspace(r) \/ TakeError(r) \/ LoseAnswer(r)
        PROVE  EditInv'
    BY <1>3, EditTake, EditError, EditLose
  <1>4. QED
    BY <1>1, <1>2, <1>3, EditOpen, EditPanel, EditSaveWorkspace, EditAskOther DEF PageStep

(* It holds at first, as the page is not open.                             *)
LEMMA EditInit == Init => EditInv
  <1> SUFFICES ASSUME Init PROVE EditInv
    OBVIOUS
  <1>1. requests = {} /\ ~opened
    BY DEF Init, StoreInit
  <1>2. QED
    BY <1>1 DEF EditInv, Alone, AgreeMemory, AgreeSince, Created, LayoutsSent, OrphansKnown

(* The invariant about edits is inductive.                                 *)
LEMMA EditStep == Base /\ EditInv /\ [Next]_vars => EditInv'
  <1> SUFFICES ASSUME Base, EditInv, [Next]_vars PROVE EditInv'
    OBVIOUS
  <1>1. CASE UNCHANGED vars
    <2>1. UNCHANGED <<up, memory, requests, since, opened, page, timer, former, excused>>
      BY <1>1 DEF vars, storeVars, store, browser, history
    <2>2. QED
      BY <2>1, EditSame
  <1>2. QED
    BY <1>1, EditServerStep, EditPageStep DEF Next

(* When nothing is under way no workspace is exempt.                       *)
LEMMA EditInvImplies == Base /\ EditInv => EditsReachTheServer
  <1> SUFFICES ASSUME Base, EditInv, Settled, NEW w \in page.workspaces \ excused
               PROVE  w \in memory.workspaces /\ memory.panels[w] = page.panels[w]
    BY DEF EditsReachTheServer
  <1>1. Watched(w) /\ \A s : ~Leaving(s)
    BY DEF Settled, Watched, Exempt, Leaving
  <1>2. Tells(memory, w, {"saving", "ok"})
    BY <1>1 DEF Settled, EditInv, AgreeMemory
  <1>3. memory.panels[w] \subseteq Source /\ page.panels[w] \subseteq Source
    BY DEF Base, PageInv, TypeOK, StoreTypeOK, Config
  <1>4. QED
    BY <1>1, <1>2, <1>3 DEF Tells

(* For any sources, workspaces, files and bounds: when nothing is under    *)
(* way the server has every workspace as the page shows it, but those for  *)
(* which one of the listed things has happened.                            *)
THEOREM EditsArrive == Spec => []EditsReachTheServer
  <1>1. Init => Base /\ DeadInv /\ EditInv
    BY InitInv, DeadInit, EditInit DEF Base
  <1>2. QED
    BY <1>1, DeadStep, EditStep, EditInvImplies, PTL DEF Spec
=============================================================================

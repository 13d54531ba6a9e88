------------------------------ MODULE ContainerRows ------------------------------
(***************************************************************************)
(* The rows of the containers table, between the agent that reports its    *)
(* containers (upsertContainers), the checks that decide on automatic      *)
(* updates (CHECK_RESULT of ws/hub.ts) and the operator who sets policies  *)
(* in a row of the dashboard (ContainerRow, PATCH containers).             *)
(*                                                                         *)
(* A row has the settings of the UI and those of the Docker labels, which  *)
(* win. The agent's messages are handled one at a time, in order; requests *)
(* of the UI are handled between any two steps of a handler.               *)
(***************************************************************************)
EXTENDS Naturals, Sequences, FiniteSets, SequencesExt

CONSTANTS
  Service,        \* the containers of the agent, by name
  Stateful,       \* those with databases and the like, never updated unasked
  DockerId,       \* IDs are never used again
  FirstId,        \* [Service -> DockerId]
  Level,          \* update_level; Unset for none
  LabelSettings,  \* the settings labels may make
  UiSettings,     \* those that are made in the UI
  Candidate,      \* versions a check may find
  CurrentVersion,
  Unparsed,       \* a digest, or a tag that is no version
  Unset,
  NoId,
  MaxInbox        \* messages of the agent that wait

ASSUME RowsAssumption ==
  /\ FirstId \in [Service -> DockerId]
  /\ Stateful \subseteq Service /\ Unset \notin Service
  /\ NoId \notin DockerId /\ Unset \in Level
  /\ CurrentVersion \in Seq(Nat) /\ Candidate \ {Unparsed} \subseteq Seq(Nat)

VARIABLES
  docker,        \* the containers that run, with their labels
  usedIds,
  containerRows, \* the table containers, by docker_id
  inbox,         \* the agent's queue at the hub
  handling,      \* the CHECK_RESULT between two awaits
  updateMarked,  \* autoUpdateInFlight
  config,        \* auto_update and global_update_level
  orders,        \* UPDATE and ROLLBACK on their way to the agent
  rowForm,       \* an expanded ContainerRow
  patch          \* PATCH containers on its way

rowsVars ==
  <<docker, usedIds, containerRows, inbox, handling, updateMarked, config, orders, rowForm, patch>>

-----------------------------------------------------------------------------
\* notify and manual are one: neither is updated automatically.
Settings == [policy : {Unset, "auto", "manual"}, level : Level]
ASSUME SettingsAssumption == LabelSettings \cup UiSettings \subseteq Settings
NoSettings == [policy |-> Unset, level |-> Unset]
StoredRow == [service : Service \cup {Unset}, ui : Settings, label : Settings,
              hasUpdate : BOOLEAN]
NotStored == [service |-> Unset, ui |-> NoSettings, label |-> NoSettings, hasUpdate |-> FALSE]

Report == [service : Service, id : DockerId, label : Settings, candidate : Candidate \cup {Unset}]
Message == [type : {"heartbeat", "check", "result"}, reports : SUBSET Report,
            success : BOOLEAN, rollback : BOOLEAN]

RowsTypeOK ==
  /\ docker \in [Service -> [id : DockerId, label : LabelSettings]]
  /\ usedIds \in SUBSET DockerId
  /\ containerRows \in [DockerId -> StoredRow]
  /\ inbox \in Seq(Message)
  /\ handling.pc \in {"idle", "stored", "decided", "read"}
  /\ handling.reports \in SUBSET Report
  /\ handling.rows \in {<<>>} \cup [DockerId -> StoredRow]
  /\ handling.barred \in SUBSET DockerId
  /\ updateMarked \in BOOLEAN
  /\ config \in [autoUpdate : BOOLEAN, level : Level]
  /\ orders \in Seq([ids : SUBSET DockerId, auto : BOOLEAN, rollback : BOOLEAN])
  /\ rowForm \in [id : DockerId \cup {NoId}, ui : Settings]
  /\ patch \in [id : DockerId \cup {NoId}, ui : Settings]

FormClosed == [id |-> NoId, ui |-> NoSettings]
NotHandling == [pc |-> "idle", reports |-> {}, rows |-> <<>>, barred |-> {}]

RowsInit ==
  /\ docker \in [Service -> [id : DockerId, label : LabelSettings]]
  /\ \A s \in Service : docker[s].id = FirstId[s]
  /\ usedIds = Range(FirstId)
  /\ containerRows = [i \in DockerId |-> NotStored]
  /\ inbox = <<>>
  /\ handling = NotHandling
  /\ updateMarked = FALSE
  /\ config = [autoUpdate |-> FALSE, level |-> Unset]
  /\ orders = <<>>
  /\ rowForm = FormClosed
  /\ patch = FormClosed

-----------------------------------------------------------------------------
(* What a row allows.                                                       *)

\* semverMatchesLevel for versions of three parts.
MatchesLevel(current, candidate, level) ==
  LET higher == \E i \in 1 .. 3 : candidate[i] > current[i]
                  /\ \A j \in 1 .. i - 1 : candidate[j] = current[j]
      same(n) == \A i \in 1 .. n : candidate[i] = current[i]
  IN  CASE candidate = Unparsed -> candidate # current
        [] level = "patch" -> higher /\ same(2)
        [] level = "minor" -> higher /\ same(1)
        [] OTHER -> higher

FirstSet(a, b) == IF a # Unset THEN a ELSE b

\* The label's level, then the UI's, then the global one.
TooHigh(row, candidate) ==
  LET level == FirstSet(row.label.level, FirstSet(row.ui.level, config.level)) IN
  row # NotStored /\ level # Unset /\ ~MatchesLevel(CurrentVersion, candidate, level)

Barred(row, candidate) ==
  \/ FirstSet(row.label.policy, row.ui.policy) = "manual"
  \/ row.service \in Stateful
  \/ TooHigh(row, candidate)

-----------------------------------------------------------------------------
(* The agent.                                                               *)

Reports(candidate) ==
  {[service |-> s, id |-> docker[s].id, label |-> docker[s].label, candidate |-> candidate] :
     s \in Service}

Tell(type, reports, success, rollback) ==
  /\ Len(inbox) < MaxInbox
  /\ inbox' = Append(inbox, [type |-> type, reports |-> reports,
                             success |-> success, rollback |-> rollback])

agentUnchanged == UNCHANGED <<containerRows, handling, updateMarked, config, rowForm, patch>>

\* REGISTER and HEARTBEAT list all containers.
AgentReports ==
  /\ Tell("heartbeat", Reports(Unset), TRUE, FALSE)
  /\ UNCHANGED <<docker, usedIds, orders>>
  /\ agentUnchanged

\* A check finds a newer version of them, or none.
AgentChecks(candidate) ==
  /\ Tell("check", Reports(candidate), TRUE, FALSE)
  /\ UNCHANGED <<docker, usedIds, orders>>
  /\ agentUnchanged

\* The containers of an order are replaced one after the other: the ID of each is another
\* one from now on.
Done(i) ==
  orders' = IF Head(orders).ids = {i} THEN Tail(orders) ELSE [orders EXCEPT ![1].ids = @ \ {i}]

ResultOf(s, i) == {[service |-> s, id |-> i, label |-> docker[s].label, candidate |-> Unset]}

AgentRecreates(s, i) ==
  /\ orders # <<>> /\ docker[s].id \in Head(orders).ids
  /\ i \notin usedIds
  /\ docker' = [docker EXCEPT ![s].id = i]
  /\ usedIds' = usedIds \cup {i}
  /\ Tell("result", ResultOf(s, i), TRUE, Head(orders).rollback)
  /\ Done(docker[s].id)
  /\ agentUnchanged

\* The update fails, or the ID is stale.
AgentFailsTo(s, i) ==
  /\ orders # <<>> /\ i \in Head(orders).ids
  /\ Tell("result", ResultOf(s, i), FALSE, Head(orders).rollback)
  /\ Done(i)
  /\ UNCHANGED <<docker, usedIds>>
  /\ agentUnchanged

-----------------------------------------------------------------------------
(* The hub.                                                                 *)

HubTakes(type) == handling.pc = "idle" /\ inbox # <<>> /\ Head(inbox).type = type

\* upsertContainers, in one transaction: rows of other IDs go, those of new ones begin
\* with no settings of the UI.
HandleHeartbeat ==
  /\ HubTakes("heartbeat")
  /\ containerRows' = [i \in DockerId |->
       IF \E r \in Head(inbox).reports : r.id = i
       THEN LET r == CHOOSE r \in Head(inbox).reports : r.id = i
            IN  [containerRows[i] EXCEPT !.service = r.service, !.label = r.label]
       ELSE NotStored]
  /\ inbox' = Tail(inbox)
  /\ UNCHANGED <<docker, usedIds, handling, updateMarked, config, orders, rowForm, patch>>

\* updateContainerDigests for each result, where the row exists. What the settings forbid
\* is noted for AutoUpdateHonoursSettings.
HandleCheck ==
  /\ HubTakes("check")
  /\ LET reports == Head(inbox).reports
         found(i) == \E r \in reports : r.id = i /\ r.candidate # Unset
     IN
     /\ containerRows' = [i \in DockerId |->
          IF (\E r \in reports : r.id = i) /\ containerRows[i] # NotStored
          THEN [containerRows[i] EXCEPT !.hasUpdate = found(i)]
          ELSE containerRows[i]]
     /\ handling' = [pc |-> "stored", reports |-> {r \in reports : r.candidate # Unset}, rows |-> <<>>,
                     barred |-> {r.id : r \in {q \in reports : q.candidate # Unset
                                                  /\ Barred(containerRows[q.id], q.candidate)}}]
  /\ inbox' = Tail(inbox)
  /\ UNCHANGED <<docker, usedIds, updateMarked, config, orders, rowForm, patch>>

\* The setting is read, then the guard. What is not updated is announced to the operator.
DecideOnUpdate ==
  /\ handling.pc = "stored"
  /\ IF config.autoUpdate /\ handling.reports # {} /\ ~updateMarked
     THEN /\ updateMarked' = TRUE
          /\ handling' = [handling EXCEPT !.pc = "decided"]
     ELSE /\ handling' = NotHandling
          /\ UNCHANGED updateMarked
  /\ UNCHANGED <<docker, usedIds, containerRows, inbox, config, orders, rowForm, patch>>

\* The rows are read again.
ReadRows ==
  /\ handling.pc = "decided"
  /\ handling' = [handling EXCEPT !.pc = "read", !.rows = containerRows]
  /\ UNCHANGED <<docker, usedIds, containerRows, inbox, updateMarked, config, orders, rowForm, patch>>

\* Mutant: the level decides alone.
SendAutoUpdate_LevelOnly(young) ==
  /\ handling.pc = "read"
  /\ young \subseteq {r.id : r \in handling.reports}
  /\ LET allowed == {r \in handling.reports : ~TooHigh(handling.rows[r.id], r.candidate)}
         ids == {r.id : r \in allowed} \ young
     IN IF ids = {} THEN updateMarked' = FALSE /\ UNCHANGED orders
        ELSE orders' = Append(orders, [ids |-> ids, auto |-> TRUE, rollback |-> FALSE])
             /\ UNCHANGED updateMarked
  /\ handling' = NotHandling
  /\ UNCHANGED <<docker, usedIds, containerRows, inbox, config, rowForm, patch>>

\* The containers their settings allow, less those whose update is too young for the
\* policy (any that has been seen may be), are sent in one UPDATE.
SendAutoUpdate(young) ==
  /\ handling.pc = "read"
  /\ young \subseteq {r.id : r \in handling.reports}
  /\ LET allowed == {r \in handling.reports : ~Barred(handling.rows[r.id], r.candidate)}
         ids == {r.id : r \in allowed} \ young
     IN IF ids = {} THEN updateMarked' = FALSE /\ UNCHANGED orders
        ELSE orders' = Append(orders, [ids |-> ids, auto |-> TRUE, rollback |-> FALSE])
             /\ UNCHANGED updateMarked
  /\ handling' = NotHandling
  /\ UNCHANGED <<docker, usedIds, containerRows, inbox, config, rowForm, patch>>

\* UPDATE_RESULT: insertUpdateLogAndDigests where the row exists already. After a rollback
\* has_update is computed against the latest digest that is known.
HandleResult(newer) ==
  /\ HubTakes("result")
  /\ updateMarked' = FALSE
  /\ LET ids == {r.id : r \in Head(inbox).reports} IN
     containerRows' = [i \in DockerId |->
       IF Head(inbox).success /\ i \in ids /\ containerRows[i] # NotStored
       THEN [containerRows[i] EXCEPT !.hasUpdate = newer /\ Head(inbox).rollback]
       ELSE containerRows[i]]
  /\ newer => Head(inbox).rollback
  /\ inbox' = Tail(inbox)
  /\ UNCHANGED <<docker, usedIds, handling, config, orders, rowForm, patch>>

-----------------------------------------------------------------------------
(* The operator.                                                            *)

uiUnchanged == UNCHANGED <<docker, usedIds, inbox>>

\* The panel opens with the settings of the row, and takes them again whenever the row it
\* shows has changed: what was typed is gone.
ExpandRow(i) ==
  /\ containerRows[i] # NotStored
  /\ rowForm.id \in {NoId, i}
  /\ rowForm' = [id |-> i, ui |-> containerRows[i].ui]
  /\ UNCHANGED <<containerRows, handling, updateMarked, config, orders, patch>>
  /\ uiUnchanged

\* The row is collapsed, or its container is not in the list any more.
CollapseRow ==
  /\ rowForm # FormClosed
  /\ rowForm' = FormClosed
  /\ UNCHANGED <<containerRows, handling, updateMarked, config, orders, patch>>
  /\ uiUnchanged

\* Fields that a label controls cannot be edited.
EditRow(ui) ==
  /\ rowForm # FormClosed
  /\ containerRows[rowForm.id].label.policy # Unset => ui.policy = rowForm.ui.policy
  /\ containerRows[rowForm.id].label.level # Unset => ui.level = rowForm.ui.level
  /\ rowForm' = [rowForm EXCEPT !.ui = ui]
  /\ UNCHANGED <<containerRows, handling, updateMarked, config, orders, patch>>
  /\ uiUnchanged

\* handleSavePolicy. The button is disabled while a request is under way; "auto" is saved
\* as no policy.
SavePolicy ==
  /\ rowForm # FormClosed /\ patch = FormClosed
  /\ patch' = rowForm
  /\ UNCHANGED <<containerRows, handling, updateMarked, config, orders, rowForm>>
  /\ uiUnchanged

\* PATCH: 200 for a row that is not there any more, too.
UpdateContainerPolicy ==
  /\ patch # FormClosed
  /\ containerRows' = IF containerRows[patch.id] = NotStored THEN containerRows
                      ELSE [containerRows EXCEPT ![patch.id].ui = patch.ui]
  /\ handling' = [handling EXCEPT !.barred = {i \in @ : \E r \in handling.reports :
                                                r.id = i /\ Barred(containerRows'[i], r.candidate)}]
  /\ patch' = FormClosed
  /\ UNCHANGED <<updateMarked, config, orders, rowForm>>
  /\ uiUnchanged

\* PUT config, or the switch of the agent.
SetConfig(autoUpdate, level) ==
  /\ config' = [autoUpdate |-> autoUpdate, level |-> level]
  /\ handling' = [handling EXCEPT !.barred = {}]
  /\ UNCHANGED <<containerRows, updateMarked, orders, rowForm, patch>>
  /\ uiUnchanged

\* POST update refuses while an update is in flight; POST rollback does not ask.
AskForUpdate(i, rollback) ==
  /\ containerRows[i] # NotStored
  /\ orders = <<>>
  /\ ~rollback => ~updateMarked
  /\ updateMarked' = (updateMarked \/ ~rollback)
  /\ orders' = Append(orders, [ids |-> {i}, auto |-> FALSE, rollback |-> rollback])
  /\ UNCHANGED <<containerRows, handling, config, rowForm, patch>>
  /\ uiUnchanged

RowsNext ==
  \/ AgentReports
  \/ \E candidate \in Candidate \cup {Unset} : AgentChecks(candidate)
  \/ \E s \in Service, i \in DockerId : AgentRecreates(s, i) \/ AgentFailsTo(s, i)
  \/ HandleHeartbeat \/ HandleCheck \/ DecideOnUpdate \/ ReadRows
  \/ \E young \in SUBSET DockerId : SendAutoUpdate(young)
  \/ \E newer \in BOOLEAN : HandleResult(newer)
  \/ CollapseRow \/ SavePolicy \/ UpdateContainerPolicy
  \/ \E i \in DockerId : ExpandRow(i) \/ \E rollback \in BOOLEAN : AskForUpdate(i, rollback)
  \/ \E ui \in UiSettings : EditRow(ui)
  \/ \E autoUpdate \in BOOLEAN, level \in Level : SetConfig(autoUpdate, level)

RowsSpec == RowsInit /\ [][RowsNext]_rowsVars

-----------------------------------------------------------------------------
\* An automatic update names no container whose settings have forbidden it ever since the
\* check was handled (CHECK_RESULT reads the rows twice, requests of the UI come in
\* between; the label goes before the UI, and that before the global level).
AutoUpdateHonoursSettings ==
  [][Len(orders') > Len(orders) /\ Last(orders').auto =>
       Last(orders').ids \cap handling.barred = {}]_rowsVars

\* A heartbeat leaves the settings that were made in the UI for a container alone
\* (website/docs/configuration/labels.md; upsertContainers deletes the rows of former IDs).
HeartbeatsKeepSettings ==
  [][HandleHeartbeat => \A i, j \in DockerId :
       /\ NotStored \notin {containerRows[i], containerRows'[j]}
       /\ containerRows[i].service = containerRows'[j].service
       => containerRows'[j].ui = containerRows[i].ui]_rowsVars
=============================================================================

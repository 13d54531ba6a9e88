------------------------------ MODULE Registries ------------------------------
(***************************************************************************)
(* Registry credentials, from RegistryModal through api/routes/registries.ts *)
(* and its queries to the agents: CREDENTIALS_SYNC of the routes and of a  *)
(* registration (syncCredentialsToAgent of ws/hub.ts).                     *)
(*                                                                         *)
(* A credential is what an agent uses as one (registry, user and kind in   *)
(* one value) and its password. A sync reads the table and sends what it   *)
(* has read in two steps, and others may do so in between.                 *)
(***************************************************************************)
EXTENDS Naturals, FiniteSets

CONSTANTS
  Credential,
  RegistryLogin, \* registry, username and auth_type
  Password,
  BlankField,    \* an empty field
  NoCredential,
  Puller,        \* agents
  Task,          \* requests under way at a time
  NoRequest

ASSUME RegistriesAssumption ==
  /\ BlankField \notin RegistryLogin \cup Password
  /\ NoCredential \notin Credential

VARIABLES
  credentials,   \* the table registry_credentials
  modal,         \* RegistryModal
  requests,      \* POST, PUT and DELETE, and the syncs of registrations
  connectedPullers,
  pullerLogins,  \* what an agent was last sent
  behind         \* agents whose last sync overlapped with another one, or failed

registriesVars == <<credentials, modal, requests, connectedPullers, pullerLogins, behind>>

-----------------------------------------------------------------------------
Entry == [login : RegistryLogin, password : Password]
Table == [Credential -> Entry \cup {NoCredential}]
NoCredentials == [c \in Credential |-> NoCredential]
Job == [kind : {"post", "put", "delete", "register"}, id : Credential \cup {NoCredential},
        login : RegistryLogin \cup {BlankField}, password : Password \cup {BlankField}, agent : SUBSET Puller,
        pc : {"sent", "stored", "read"}, list : Table, overlapped : BOOLEAN]
ASSUME NoRequestAssumption == NoRequest \notin Job

RegistriesTypeOK ==
  /\ credentials \in Table
  /\ modal \in [open : BOOLEAN, edit : Credential \cup {NoCredential},
                login : RegistryLogin \cup {BlankField}, password : Password \cup {BlankField}]
  /\ requests \in [Task -> Job \cup {NoRequest}]
  /\ connectedPullers \in SUBSET Puller
  /\ pullerLogins \in [Puller -> Table]
  /\ behind \in SUBSET Puller

RegistriesInit ==
  /\ credentials = NoCredentials
  /\ modal = [open |-> FALSE, edit |-> NoCredential, login |-> BlankField, password |-> BlankField]
  /\ requests = [w \in Task |-> NoRequest]
  /\ connectedPullers = {}
  /\ pullerLogins = [a \in Puller |-> NoCredentials]
  /\ behind = {}

-----------------------------------------------------------------------------
(* The modal.                                                                *)

NewJob(kind, c, login, password) ==
  [kind |-> kind, id |-> c, login |-> login, password |-> password, agent |-> {},
   pc |-> "sent", list |-> NoCredentials, overlapped |-> FALSE]

tableUnchanged == UNCHANGED <<credentials, connectedPullers, pullerLogins, behind>>

\* Add Registry, or the pencil of a row. The fields were initialised when the tab was
\* opened, and are as they were left: not those of the row.
OpenModal(c) ==
  /\ ~modal.open
  /\ c # NoCredential => credentials[c] # NoCredential
  /\ modal' = [modal EXCEPT !.open = TRUE, !.edit = c]
  /\ UNCHANGED requests
  /\ tableUnchanged

FillModal(login, password) ==
  /\ modal.open
  /\ modal' = [modal EXCEPT !.login = login, !.password = password]
  /\ UNCHANGED requests
  /\ tableUnchanged

CloseModal ==
  /\ modal.open
  /\ modal' = [modal EXCEPT !.open = FALSE, !.edit = NoCredential]
  /\ UNCHANGED requests
  /\ tableUnchanged

\* handleSave. The button stays enabled: a second click is a second request.
SaveCredential(w) ==
  /\ modal.open
  /\ modal.login # BlankField
  /\ modal.edit # NoCredential \/ modal.password # BlankField
  /\ requests[w] = NoRequest
  /\ requests' = [requests EXCEPT ![w] =
       NewJob(IF modal.edit = NoCredential THEN "post" ELSE "put",
              modal.edit, modal.login, modal.password)]
  /\ UNCHANGED modal
  /\ tableUnchanged

RemoveCredential(w, c) ==
  /\ credentials[c] # NoCredential
  /\ requests[w] = NoRequest
  /\ requests' = [requests EXCEPT ![w] = NewJob("delete", c, BlankField, BlankField)]
  /\ UNCHANGED modal
  /\ tableUnchanged

-----------------------------------------------------------------------------
(* The routes.                                                               *)

RequestRuns(w, kind, pc) == requests[w] # NoRequest /\ requests[w].kind = kind /\ requests[w].pc = pc

Stored(w, table) ==
  /\ credentials' = table
  /\ requests' = [requests EXCEPT ![w].pc = "stored"]
  /\ UNCHANGED <<modal, connectedPullers, pullerLogins, behind>>

PostCredential(w, c) ==
  /\ RequestRuns(w, "post", "sent")
  /\ credentials[c] = NoCredential
  /\ modal.edit # c /\ \A v \in Task : requests[v] # NoRequest => requests[v].id # c
  /\ Stored(w, [credentials EXCEPT ![c] =
       [login |-> requests[w].login, password |-> requests[w].password]])

\* A password that is left blank is kept.
Kept(password, old) == IF password = BlankField THEN old ELSE password

\* The row that was found before may be gone by the time it is updated.
PutCredential(w) ==
  /\ RequestRuns(w, "put", "sent")
  /\ LET c == requests[w].id IN
     Stored(w, IF credentials[c] = NoCredential THEN credentials
               ELSE [credentials EXCEPT ![c] =
                      [login |-> requests[w].login,
                       password |-> Kept(requests[w].password, @.password)]])

\* Mutant: agents are told of new and of changed credentials only.
DeleteCredential_Untold(w) ==
  /\ RequestRuns(w, "delete", "sent")
  /\ credentials' = [credentials EXCEPT ![requests[w].id] = NoCredential]
  /\ requests' = [requests EXCEPT ![w] = NoRequest]
  /\ UNCHANGED <<modal, connectedPullers, pullerLogins, behind>>

DeleteCredential(w) ==
  /\ RequestRuns(w, "delete", "sent")
  /\ Stored(w, [credentials EXCEPT ![requests[w].id] = NoCredential])

\* The row a request is about is gone: 404.
CredentialNotFound(w) ==
  /\ requests[w] # NoRequest
  /\ requests[w].kind \in {"put", "delete"} /\ requests[w].pc = "sent"
  /\ credentials[requests[w].id] = NoCredential
  /\ requests' = [requests EXCEPT ![w] = NoRequest]
  /\ UNCHANGED modal
  /\ tableUnchanged

Reading == {v \in Task : requests[v] # NoRequest /\ requests[v].pc = "read"}

\* listRegistryCredentials. A sync overlaps with those that have read and not sent.
ReadList(w) ==
  /\ requests[w] # NoRequest
  /\ requests[w].pc = "stored"
  /\ requests' = [v \in Task |->
       CASE v = w -> [requests[w] EXCEPT !.pc = "read", !.list = credentials,
                                         !.overlapped = Reading # {}]
         [] v \in Reading -> [requests[v] EXCEPT !.overlapped = TRUE]
         [] OTHER -> requests[v]]
  /\ UNCHANGED modal
  /\ tableUnchanged

\* Those it reaches: all that are connected now, or the one that registered.
Audience(w) ==
  IF requests[w].kind = "register" THEN requests[w].agent \cap connectedPullers
  ELSE connectedPullers

\* onSuccess closes the modal, whatever it is open for by then; a POST empties it.
Confirmed(w) ==
  modal' \in {modal} \cup
    CASE requests[w].kind = "post" ->
           {[open |-> FALSE, edit |-> NoCredential, login |-> BlankField, password |-> BlankField]}
      [] requests[w].kind = "put" -> {[modal EXCEPT !.open = FALSE, !.edit = NoCredential]}
      [] OTHER -> {}

\* broadcastToAllAgents, or sendToAgent.
SendList(w) ==
  /\ requests[w] # NoRequest
  /\ requests[w].pc = "read"
  /\ pullerLogins' = [a \in Puller |->
       IF a \in Audience(w) THEN requests[w].list ELSE pullerLogins[a]]
  /\ behind' = IF requests[w].overlapped THEN behind \cup Audience(w) ELSE behind \ Audience(w)
  /\ requests' = [requests EXCEPT ![w] = NoRequest]
  /\ Confirmed(w)
  /\ UNCHANGED <<credentials, connectedPullers>>

\* The query fails, or a row cannot be decrypted: what was stored stays, nobody is told,
\* and a list that was read before it may still be sent.
SyncFails(w) ==
  /\ requests[w] # NoRequest
  /\ requests[w].pc # "sent"
  /\ behind' = behind \cup Audience(w)
  /\ requests' = [v \in Task |->
       CASE v = w -> NoRequest
         [] v \in Reading \ {w} -> [requests[v] EXCEPT !.overlapped = TRUE]
         [] OTHER -> requests[v]]
  /\ UNCHANGED <<credentials, modal, connectedPullers, pullerLogins>>

-----------------------------------------------------------------------------
\* REGISTER: the agent is connected before the table is read for it.
PullerRegisters(w, a) ==
  /\ requests[w] = NoRequest
  /\ connectedPullers' = connectedPullers \cup {a}
  /\ behind' = behind \ {a}
  /\ requests' = [requests EXCEPT ![w] =
       [NewJob("register", NoCredential, BlankField, BlankField) EXCEPT !.pc = "stored", !.agent = {a}]]
  /\ UNCHANGED <<credentials, modal, pullerLogins>>

PullerLeaves(a) ==
  /\ a \in connectedPullers
  /\ connectedPullers' = connectedPullers \ {a}
  /\ UNCHANGED <<credentials, modal, requests, pullerLogins, behind>>

RegistriesNext ==
  \/ \E c \in Credential \cup {NoCredential} : OpenModal(c)
  \/ \E login \in RegistryLogin, password \in Password \cup {BlankField} : FillModal(login, password)
  \/ CloseModal
  \/ \E w \in Task :
       \/ SaveCredential(w) \/ PutCredential(w) \/ DeleteCredential(w) \/ CredentialNotFound(w)
       \/ ReadList(w) \/ SendList(w) \/ SyncFails(w)
       \/ \E c \in Credential : RemoveCredential(w, c) \/ PostCredential(w, c)
       \/ \E a \in Puller : PullerRegisters(w, a)
  \/ \E a \in Puller : PullerLeaves(a)

RegistriesSpec == RegistriesInit /\ [][RegistriesNext]_registriesVars

-----------------------------------------------------------------------------
\* When no request is under way every agent that is connected pulls with the credentials
\* of the table, those that were removed included, unless the last sync it got overlapped
\* with another one or failed (syncCredentialsToAgents, syncCredentialsToAgent).
CredentialsReachAgents ==
  (\A w \in Task : requests[w] = NoRequest) =>
    \A a \in connectedPullers \ behind : pullerLogins[a] = credentials
=============================================================================

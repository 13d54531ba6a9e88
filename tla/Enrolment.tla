------------------------------ MODULE Enrolment ------------------------------
(***************************************************************************)
(* How a machine becomes an agent: registration, token regeneration and    *)
(* deletion in controller/src/api/routes/agents.ts, the token check and    *)
(* the recovery registration of ws/hub.ts, recovery mode and the local     *)
(* agent's token at boot (routes/config.ts, index.ts).                     *)
(*                                                                         *)
(* A registration is a process of its own: it goes on after each await     *)
(* with what the query or the hash gave it, while others do the same. That *)
(* many candidates may share a token's prefix does not matter, since each  *)
(* one is compared; ids and tokens are fresh when they are made up.        *)
(***************************************************************************)
EXTENDS Naturals, FiniteSets

CONSTANTS
  Machine,
  NameOf,       \* the name a machine registers with
  Socket,
  MachineOf,    \* the machine behind a socket
  RowId,
  LocalRow,     \* "local-agent"
  LocalMachine, \* the one that has LOCAL_AGENT_TOKEN
  Token,
  FirstToken,   \* what the machines have to begin with
  MaxRecovery,  \* MAX_RECOVERY_PER_WINDOW
  NoRow,
  Nothing

ASSUME EnrolmentAssumption ==
  /\ MachineOf \in [Socket -> Machine]
  /\ FirstToken \in [Machine -> Token]
  /\ LocalRow \in RowId /\ LocalMachine \in Machine
  /\ Nothing \notin RowId \cup Token \cup {NameOf[m] : m \in Machine}
  /\ MaxRecovery \in Nat

VARIABLES
  agentRows,     \* the table agents
  machineToken,  \* AGENT_TOKEN of a machine
  recoveryMode,  \* recovery_mode_expires_at lies in the future
  recoveryCount,
  recoveredRows, \* rows this process has marked recovery_registered
  attempts,      \* what a socket's registration has got to
  presented      \* rows that had a socket's token at some time since it presented it

enrolmentVars == <<agentRows, machineToken, recoveryMode, recoveryCount, recoveredRows,
                   attempts, presented>>

-----------------------------------------------------------------------------
Name == {NameOf[m] : m \in Machine} \cup {Nothing}
AgentRow == [token : Token, name : Name, hash : {"sha256", "bcrypt"}]
ASSUME NoRowAssumption == NoRow \notin AgentRow

Idle == [pc |-> "idle", token |-> Nothing, row |-> Nothing, taken |-> FALSE]

EnrolmentTypeOK ==
  /\ agentRows \in [RowId -> AgentRow \cup {NoRow}]
  /\ machineToken \in [Machine -> Token]
  /\ recoveryMode \in BOOLEAN
  /\ recoveryCount \in Nat
  /\ recoveredRows \in SUBSET RowId
  /\ attempts \in [Socket ->
       [pc : {"idle", "comparing", "mode", "counted", "listed", "hashed", "inserted", "admitted"},
        token : Token \cup {Nothing}, row : RowId \cup {Nothing}, taken : BOOLEAN]]
  /\ presented \in [Socket -> SUBSET RowId]

\* The database is new; the machines run with tokens of the old one.
EnrolmentInit ==
  /\ agentRows = [i \in RowId |-> NoRow]
  /\ machineToken = FirstToken
  /\ recoveryMode = FALSE
  /\ recoveryCount = 0
  /\ recoveredRows = {}
  /\ attempts = [s \in Socket |-> Idle]
  /\ presented = [s \in Socket |-> {}]

RowsWith(token) == {i \in RowId : agentRows[i] # NoRow /\ agentRows[i].token = token}

FreshToken(t) ==
  /\ RowsWith(t) = {}
  /\ \A m \in Machine : machineToken[m] # t
  /\ \A s \in Socket : attempts[s].token # t

FreshRow(i) == i # LocalRow /\ agentRows[i] = NoRow /\ \A s \in Socket : attempts[s].row # i

-----------------------------------------------------------------------------
(* The operator.                                                             *)

operatorUnchanged == UNCHANGED <<recoveryCount, attempts>>

\* POST /api/agents/register.
RegisterAgent(i, name, t) ==
  /\ FreshRow(i) /\ FreshToken(t)
  /\ agentRows' = [agentRows EXCEPT ![i] = [token |-> t, name |-> name, hash |-> "sha256"]]
  /\ UNCHANGED <<machineToken, recoveryMode, recoveredRows>>
  /\ operatorUnchanged

\* POST /api/agents/:id/regenerate-token; connections stay.
RegenerateToken(i, t) ==
  /\ agentRows[i] # NoRow /\ FreshToken(t)
  /\ agentRows' = [agentRows EXCEPT ![i].token = t, ![i].hash = "sha256"]
  /\ UNCHANGED <<machineToken, recoveryMode, recoveredRows>>
  /\ operatorUnchanged

\* DELETE /api/agents/:id.
DeleteAgent(i) ==
  /\ agentRows[i] # NoRow
  /\ agentRows' = [agentRows EXCEPT ![i] = NoRow]
  /\ recoveredRows' = recoveredRows \ {i}
  /\ UNCHANGED <<machineToken, recoveryMode>>
  /\ operatorUnchanged

\* The operator puts a token of the controller into the machine's environment.
InstallToken(m, i) ==
  /\ agentRows[i] # NoRow
  /\ machineToken' = [machineToken EXCEPT ![m] = agentRows[i].token]
  /\ UNCHANGED <<agentRows, recoveryMode, recoveredRows>>
  /\ operatorUnchanged

\* POST and DELETE /api/recovery-mode, or the window runs out.
SetRecoveryMode(active) ==
  /\ recoveryMode' = active
  /\ UNCHANGED <<agentRows, machineToken, recoveredRows>>
  /\ operatorUnchanged

\* Boot: the local agent's row is made, or given the token of the environment.
RestartController ==
  /\ attempts' = [s \in Socket |-> Idle]
  /\ recoveryCount' = 0
  /\ recoveredRows' = {}
  /\ LET t == machineToken[LocalMachine] IN
     agentRows' = IF agentRows[LocalRow] = NoRow
                  THEN [agentRows EXCEPT ![LocalRow] =
                          [token |-> t, name |-> Nothing, hash |-> "sha256"]]
                  ELSE [agentRows EXCEPT ![LocalRow].token = t, ![LocalRow].hash = "sha256"]
  /\ UNCHANGED <<machineToken, recoveryMode>>

-----------------------------------------------------------------------------
(* A registration.                                                           *)

Goes(s, pc) == attempts' = [attempts EXCEPT ![s].pc = pc]
Refused(s) == attempts' = [attempts EXCEPT ![s] = Idle]
Admitted(s, i) == attempts' = [attempts EXCEPT ![s].pc = "admitted", ![s].row = i]
recordsUnchanged == UNCHANGED <<agentRows, machineToken, recoveryMode, recoveryCount, recoveredRows>>

\* REGISTER arrives: listAgentsByTokenPrefix gives the rows as they are now.
ReadCandidates(s) ==
  /\ attempts[s].pc = "idle"
  /\ LET t == machineToken[MachineOf[s]] IN
     \E i \in IF RowsWith(t) = {} THEN {Nothing} ELSE RowsWith(t) :
       attempts' = [attempts EXCEPT ![s] =
                      [Idle EXCEPT !.pc = "comparing", !.token = t, !.row = i]]
  /\ recordsUnchanged

\* authenticateAgent has compared the token with each.
Compared(s) ==
  /\ attempts[s].pc = "comparing"
  /\ IF attempts[s].row # Nothing THEN Admitted(s, attempts[s].row) ELSE Goes(s, "mode")
  /\ recordsUnchanged

\* tryRecoveryRegister: isRecoveryModeActive.
ReadRecoveryMode(s) ==
  /\ attempts[s].pc = "mode"
  /\ IF recoveryMode THEN Goes(s, "counted") ELSE Refused(s)
  /\ recordsUnchanged

WithinLimit == recoveryCount < MaxRecovery

\* Mutant: a row of the same name is taken for the machine's own.
SameAgent_ByName(s, i) ==
  agentRows[i].name = NameOf[MachineOf[s]]

\* The row found by name is the machine's if its hash is that of the token; bcrypt finds
\* no SHA-256 hash to be.
SameAgent(s, i) ==
  agentRows[i].hash = "bcrypt" /\ agentRows[i].token = attempts[s].token

\* The limit, and what listAgents and the comparison give.
LookForName(s) ==
  /\ attempts[s].pc = "counted"
  /\ LET named == {i \in RowId : agentRows[i] # NoRow
                                   /\ agentRows[i].name = NameOf[MachineOf[s]]} IN
     IF ~WithinLimit THEN Refused(s)
     ELSE IF named = {} THEN Goes(s, "hashed")
     ELSE \E i \in named :
            IF SameAgent(s, i) THEN Admitted(s, i)
            ELSE attempts' = [attempts EXCEPT ![s].pc = "hashed", ![s].taken = TRUE]
  /\ recordsUnchanged

\* insertAgent, under a name of its own if the name is taken.
InsertRecovered(s, i) ==
  /\ attempts[s].pc = "hashed"
  /\ FreshRow(i)
  /\ agentRows' = [agentRows EXCEPT ![i] =
       [token |-> attempts[s].token, hash |-> "bcrypt",
        name |-> IF attempts[s].taken THEN Nothing ELSE NameOf[MachineOf[s]]]]
  /\ attempts' = [attempts EXCEPT ![s].pc = "inserted", ![s].row = i]
  /\ UNCHANGED <<machineToken, recoveryMode, recoveryCount, recoveredRows>>

\* The row is marked, counted and audited; without the audit entry the machine is refused
\* and finds its row when it comes again.
CountRecovered(s) ==
  /\ attempts[s].pc = "inserted"
  /\ recoveredRows' = recoveredRows \cup {attempts[s].row}
  /\ recoveryCount' = recoveryCount + 1
  /\ Goes(s, "admitted") \/ Refused(s)
  /\ UNCHANGED <<agentRows, machineToken, recoveryMode>>

\* A query fails, or the socket of an agent closes.
GivesUp(s) ==
  /\ attempts[s].pc # "idle"
  /\ Refused(s)
  /\ recordsUnchanged

-----------------------------------------------------------------------------
EnrolmentStep ==
  \/ \E i \in RowId, t \in Token :
       RegenerateToken(i, t) \/ \E m \in Machine : RegisterAgent(i, NameOf[m], t)
  \/ \E i \in RowId : DeleteAgent(i) \/ \E m \in Machine : InstallToken(m, i)
  \/ \E active \in BOOLEAN : SetRecoveryMode(active)
  \/ RestartController
  \/ \E s \in Socket :
       \/ ReadCandidates(s) \/ Compared(s) \/ ReadRecoveryMode(s) \/ LookForName(s)
       \/ CountRecovered(s) \/ GivesUp(s)
       \/ \E i \in RowId : InsertRecovered(s, i)

\* presented only watches.
EnrolmentNext ==
  /\ EnrolmentStep
  /\ presented' = [s \in Socket |->
       IF attempts'[s].pc = "idle" THEN {}
       ELSE (IF attempts[s].pc = "idle" THEN {} ELSE presented[s]) \cup
            {i \in RowId : agentRows'[i] # NoRow /\ agentRows'[i].token = attempts'[s].token}]

EnrolmentSpec == EnrolmentInit /\ [][EnrolmentNext]_enrolmentVars

-----------------------------------------------------------------------------
\* Nobody is let in as an agent whose token it has not presented: the row had that token
\* at some time while the registration went on, whatever was regenerated, deleted or
\* recovered meanwhile (authenticateAgent, tryRecoveryRegister).
AdmittedByOwnToken ==
  \A s \in Socket : attempts[s].pc = "admitted" => attempts[s].row \in presented[s]
=============================================================================

------------------------------ MODULE AgentHub ------------------------------
(***************************************************************************)
(* The controller's end of the agents' WebSockets (class AgentHub of       *)
(* controller/src/ws/hub.ts), with the update route of                     *)
(* controller/src/api/routes/agents.ts that shares its in-flight mark.     *)
(*                                                                         *)
(* Node runs one handler at a time and switches only at an await: an       *)
(* action is the code between two of them, together with the effect of the *)
(* query that was awaited. A promise chain is a queue of messages, of      *)
(* which the first is being handled once its pc is not "ready"; a chain    *)
(* that has run dry is as good as none. The chain of a socket's first      *)
(* messages (preAuthQueue) is named after the socket.                      *)
(*                                                                         *)
(* Only messages that change what the hub keeps are modelled. The agent is *)
(* the environment: it sends REGISTER first, and owes an UPDATE_RESULT for *)
(* each container of an UPDATE; others come from rollbacks, or from an     *)
(* UPDATE of an earlier connection.                                        *)
(***************************************************************************)
EXTENDS Naturals, Sequences, FiniteSets

CONSTANTS
  Agent,
  Socket,      \* sockets, used again when everybody has forgotten them
  Owner,       \* the agent at the other end of a socket
  Chain,       \* the promise chains of agents
  MaxMessages, \* bound: messages that wait or are handled at a time
  MaxOffline,  \* bound: offline writes under way per agent
  MaxOwed,     \* bound: containers an agent is to report on
  MaxRoutes,   \* bound: update requests of the API in progress per agent
  MaxDbFaults, \* bound: queries that fail
  None

ASSUME HubAssumption ==
  /\ Owner \in [Socket -> Agent]
  /\ Socket \cap Chain = {}
  /\ None \notin Socket \cup Chain
  /\ MaxMessages \in Nat
  /\ MaxOffline \in Nat
  /\ MaxOwed \in Nat
  /\ MaxRoutes \in Nat
  /\ MaxDbFaults \in Nat

VARIABLES
  sock,               \* "open", "closing" (close() was called) or "closed"
  registered,         \* sockets whose handlers know their agentId
  connections,        \* the socket the hub reaches an agent by
  agentQueues,        \* the chain an agent's next message goes to
  queue,              \* the messages of each chain
  pc,                 \* the await at which the first of them is
  autoUpdateInFlight,
  routes,             \* API update requests between their mark and their send
  offlineWrites,      \* close handlers and sweeps that await the database
  status,             \* agents.status in the database
  dialed,             \* the socket an agent itself believes in: its last one
  owed,               \* containers it is to report on over that socket
  dbFaults            \* how many queries failed

vars == <<sock, registered, connections, agentQueues, queue, pc, autoUpdateInFlight,
          routes, offlineWrites, status, dialed, owed, dbFaults>>
net == <<sock, registered, dialed>>
chains == <<agentQueues, queue, pc>>
update == <<autoUpdateInFlight, routes, owed>>

-----------------------------------------------------------------------------
Queue == Socket \cup Chain
Kind == {"REGISTER", "HEARTBEAT", "CHECK_RESULT", "UPDATE_RESULT"}
Message == [sock : Socket, kind : Kind]
Step == {"ready", "auth", "store", "online", "containers", "decide", "policy", "notify"}

\* A chain that is empty waits for nothing; an agent's has a message in it.
TypeOK ==
  /\ sock \in [Socket -> {"open", "closing", "closed"}]
  /\ registered \in SUBSET Socket
  /\ connections \in [Agent -> Socket \cup {None}]
  /\ agentQueues \in [Agent -> Chain \cup {None}]
  /\ queue \in [Queue -> Seq(Message)]
  /\ pc \in [Queue -> Step]
  /\ autoUpdateInFlight \in SUBSET Agent
  /\ routes \in [Agent -> 0..MaxRoutes]
  /\ offlineWrites \in [Agent -> 0..MaxOffline]
  /\ status \in [Agent -> {"online", "offline"}]
  /\ dialed \in [Agent -> Socket \cup {None}]
  /\ owed \in [Agent -> 0..MaxOwed]
  /\ dbFaults \in 0..MaxDbFaults
  /\ \A q \in Queue : queue[q] = <<>> => pc[q] = "ready"

Queued(q) == {queue[q][i] : i \in 1..Len(queue[q])}
Load == Cardinality(UNION {{q} \X (1..Len(queue[q])) : q \in Queue})
Mentions(c) == \E q \in Queue : \E m \in Queued(q) : m.sock = c
InProgress(q) == queue[q] # <<>> /\ pc[q] # "ready"
Sender(q) == Head(queue[q]).sock
AgentOf(q) == Owner[Sender(q)]

\* conn.ws.readyState === 1
Reachable(a) == connections[a] # None /\ sock[connections[a]] = "open"

DbFault == dbFaults < MaxDbFaults /\ dbFaults' = dbFaults + 1

-----------------------------------------------------------------------------
\* The controller has just started: nobody is connected and markAllAgentsOffline
\* has run.
Init ==
  /\ sock = [c \in Socket |-> "closed"]
  /\ registered = {}
  /\ connections = [a \in Agent |-> None]
  /\ agentQueues = [a \in Agent |-> None]
  /\ queue = [q \in Queue |-> <<>>]
  /\ pc = [q \in Queue |-> "ready"]
  /\ autoUpdateInFlight = {}
  /\ routes = [a \in Agent |-> 0]
  /\ offlineWrites = [a \in Agent |-> 0]
  /\ status = [a \in Agent |-> "offline"]
  /\ dialed = [a \in Agent |-> None]
  /\ owed = [a \in Agent |-> 0]
  /\ dbFaults = 0

-----------------------------------------------------------------------------
(* Sockets.                                                                *)

\* The agent dials (again); REGISTER is the first thing it sends. A socket is used
\* again only when no handler, chain or map knows it any more.
Connect(c) ==
  /\ sock[c] = "closed"
  /\ ~Mentions(c)
  /\ \A a \in Agent : connections[a] # c
  /\ sock' = [sock EXCEPT ![c] = "open"]
  /\ registered' = registered \ {c}
  /\ queue' = [queue EXCEPT ![c] = <<[sock |-> c, kind |-> "REGISTER"]>>]
  /\ dialed' = [dialed EXCEPT ![Owner[c]] = c]
  /\ owed' = [owed EXCEPT ![Owner[c]] = 0]
  /\ UNCHANGED <<connections, agentQueues, pc, autoUpdateInFlight, routes, offlineWrites,
                 status, dbFaults>>

\* A message arrives, over a socket that is being closed as well. It goes to the
\* agent's chain if the socket's handlers know the agent by now, and else to the
\* chain REGISTER is in.
Arrive(c, kind) ==
  /\ sock[c] # "closed"
  /\ kind \in Kind \ {"REGISTER"}
  /\ Load < MaxMessages
  /\ LET a == Owner[c]
         message == [sock |-> c, kind |-> kind]
     IN
       /\ \/ UNCHANGED owed
          \/ /\ kind = "UPDATE_RESULT"
             /\ dialed[a] = c
             /\ owed[a] > 0
             /\ owed' = [owed EXCEPT ![a] = @ - 1]
       /\ \/ /\ c \notin registered
             /\ queue' = [queue EXCEPT ![c] = Append(@, message)]
             /\ UNCHANGED agentQueues
          \/ /\ c \in registered
             /\ \E k \in Chain :
                  /\ IF agentQueues[a] = None THEN queue[k] = <<>> ELSE agentQueues[a] = k
                  /\ queue' = [queue EXCEPT ![k] = Append(@, message)]
                  /\ agentQueues' = [agentQueues EXCEPT ![a] = k]
  /\ UNCHANGED <<net, connections, pc, autoUpdateInFlight, routes, offlineWrites,
                 status, dbFaults>>

\* Ten seconds without authentication.
AuthTimeout(c) ==
  /\ sock[c] = "open"
  /\ c \notin registered
  /\ sock' = [sock EXCEPT ![c] = "closing"]
  /\ UNCHANGED <<registered, dialed, connections, chains, update, offlineWrites, status, dbFaults>>

\* The offline status is on its way to the database.
LeaveOffline(a) ==
  /\ offlineWrites[a] < MaxOffline
  /\ offlineWrites' = [offlineWrites EXCEPT ![a] = @ + 1]

\* Mutant: the queue goes with any socket of the agent, not only its current one.
SocketClosed_DropsQueue(c) ==
  /\ sock[c] # "closed"
  /\ sock' = [sock EXCEPT ![c] = "closed"]
  /\ LET a == Owner[c] IN
     IF c \in registered
     THEN /\ agentQueues' = [agentQueues EXCEPT ![a] = None]
          /\ autoUpdateInFlight' = autoUpdateInFlight \ {a}
          /\ IF connections[a] = c
             THEN connections' = [connections EXCEPT ![a] = None] /\ LeaveOffline(a)
             ELSE UNCHANGED <<connections, offlineWrites>>
     ELSE UNCHANGED <<connections, agentQueues, autoUpdateInFlight, offlineWrites>>
  /\ UNCHANGED <<registered, dialed, queue, pc, routes, owed, status, dbFaults>>

\* The close event, up to the write of the offline status.
SocketClosed(c) ==
  /\ sock[c] # "closed"
  /\ sock' = [sock EXCEPT ![c] = "closed"]
  /\ LET a == Owner[c] IN
     IF c \in registered /\ connections[a] = c
     THEN /\ connections' = [connections EXCEPT ![a] = None]
          /\ agentQueues' = [agentQueues EXCEPT ![a] = None]
          /\ autoUpdateInFlight' = autoUpdateInFlight \ {a}
          /\ LeaveOffline(a)
     ELSE UNCHANGED <<connections, agentQueues, autoUpdateInFlight, offlineWrites>>
  /\ UNCHANGED <<registered, dialed, queue, pc, routes, owed, status, dbFaults>>

\* The rest of the close handler, and of a sweep; a rejection is only logged
\* (index.ts).
OfflineWritten(a) ==
  /\ offlineWrites[a] > 0
  /\ offlineWrites' = [offlineWrites EXCEPT ![a] = @ - 1]
  /\ \/ status' = [status EXCEPT ![a] = "offline"] /\ UNCHANGED dbFaults
     \/ DbFault /\ UNCHANGED status
  /\ UNCHANGED <<net, connections, chains, update>>

-----------------------------------------------------------------------------
(* The messages.                                                           *)

Handling(q, kind, step) ==
  /\ queue[q] # <<>>
  /\ Head(queue[q]).kind = kind
  /\ pc[q] = step

Await(q, step) == pc' = [pc EXCEPT ![q] = step] /\ UNCHANGED <<agentQueues, queue>>

\* The handler returns and its promise settles.
Finish(q) ==
  /\ queue' = [queue EXCEPT ![q] = Tail(@)]
  /\ pc' = [pc EXCEPT ![q] = "ready"]
  /\ agentQueues' = [a \in Agent |->
       IF agentQueues[a] = q /\ Len(queue[q]) = 1 THEN None ELSE agentQueues[a]]

CloseSocket(c) ==
  sock' = [sock EXCEPT ![c] = IF @ = "open" THEN "closing" ELSE @]

Register(q) ==
  /\ Handling(q, "REGISTER", "ready")
  /\ Await(q, "auth")
  /\ UNCHANGED <<net, connections, update, offlineWrites, status, dbFaults>>

AuthRejected(q) ==
  /\ Handling(q, "REGISTER", "auth")
  /\ CloseSocket(Sender(q))
  /\ Finish(q)
  /\ UNCHANGED <<registered, dialed, connections, update, offlineWrites, status, dbFaults>>

\* Mutant: the mark of an update outlives a reconnect, as before BUG-01.
Authenticated_KeepsMark(q) ==
  /\ Handling(q, "REGISTER", "auth")
  /\ LET c == Sender(q)
         a == AgentOf(q)
     IN
       /\ registered' = registered \cup {c}
       /\ IF connections[a] # None THEN CloseSocket(connections[a]) ELSE UNCHANGED sock
       /\ connections' = [connections EXCEPT ![a] = c]
  /\ Await(q, "online")
  /\ UNCHANGED <<dialed, update, offlineWrites, status, dbFaults>>

\* OBS-05, BUG-01, RC-03: the agent's former socket is closed, its mark cleared,
\* its chain goes on. Nobody asks whether the socket itself is still open.
Authenticated(q) ==
  /\ Handling(q, "REGISTER", "auth")
  /\ LET c == Sender(q)
         a == AgentOf(q)
     IN
       /\ registered' = registered \cup {c}
       /\ IF connections[a] # None THEN CloseSocket(connections[a]) ELSE UNCHANGED sock
       /\ connections' = [connections EXCEPT ![a] = c]
       /\ autoUpdateInFlight' = autoUpdateInFlight \ {a}
  /\ Await(q, "online")
  /\ UNCHANGED <<dialed, routes, owed, offlineWrites, status, dbFaults>>

\* Any other first message: 4002.
RejectFirst(q) ==
  /\ queue[q] # <<>>
  /\ pc[q] = "ready"
  /\ Head(queue[q]).kind # "REGISTER"
  /\ Sender(q) \notin registered
  /\ CloseSocket(Sender(q))
  /\ Finish(q)
  /\ UNCHANGED <<registered, dialed, connections, update, offlineWrites, status, dbFaults>>

Heartbeat(q) ==
  /\ Handling(q, "HEARTBEAT", "ready")
  /\ Sender(q) \in registered
  /\ Await(q, "online")
  /\ UNCHANGED <<net, connections, update, offlineWrites, status, dbFaults>>

\* The containers' digests are stored one by one.
CheckResult(q) ==
  /\ Handling(q, "CHECK_RESULT", "ready")
  /\ Sender(q) \in registered
  /\ Await(q, "store")
  /\ UNCHANGED <<net, connections, update, offlineWrites, status, dbFaults>>

\* FIX-1.3: the result of one container ends the mark.
UpdateResult(q) ==
  /\ Handling(q, "UPDATE_RESULT", "ready")
  /\ Sender(q) \in registered
  /\ autoUpdateInFlight' = autoUpdateInFlight \ {AgentOf(q)}
  /\ Await(q, "store")
  /\ UNCHANGED <<net, connections, routes, owed, offlineWrites, status, dbFaults>>

Stored(q) ==
  /\ queue[q] # <<>>
  /\ pc[q] = "store"
  /\ Await(q, "online")
  /\ UNCHANGED <<net, connections, update, offlineWrites, status, dbFaults>>

AfterOnline(kind) ==
  CASE kind \in {"REGISTER", "HEARTBEAT"} -> "containers"
    [] kind = "CHECK_RESULT" -> "decide"
    [] kind = "UPDATE_RESULT" -> "notify"

\* Mutant: a heartbeat is taken note of in memory only.
OnlineWritten_NotByHeartbeat(q) ==
  /\ queue[q] # <<>>
  /\ pc[q] = "online"
  /\ status' = IF Head(queue[q]).kind = "HEARTBEAT" THEN status
               ELSE [status EXCEPT ![AgentOf(q)] = "online"]
  /\ Await(q, AfterOnline(Head(queue[q]).kind))
  /\ UNCHANGED <<net, connections, update, offlineWrites, dbFaults>>

\* updateAgentStatus(agentId, 'online', Date.now())
OnlineWritten(q) ==
  /\ queue[q] # <<>>
  /\ pc[q] = "online"
  /\ status' = [status EXCEPT ![AgentOf(q)] = "online"]
  /\ Await(q, AfterOnline(Head(queue[q]).kind))
  /\ UNCHANGED <<net, connections, update, offlineWrites, dbFaults>>

\* upsertContainers and what follows it in REGISTER; what follows in UPDATE_RESULT.
LastAwait(q) ==
  /\ queue[q] # <<>>
  /\ pc[q] \in {"containers", "notify"}
  /\ Finish(q)
  /\ UNCHANGED <<net, connections, update, offlineWrites, status, dbFaults>>

\* shouldAutoUpdate: nothing to update, an update is in flight, or this one marks it.
Decide(q) ==
  /\ Handling(q, "CHECK_RESULT", "decide")
  /\ \/ Finish(q) /\ UNCHANGED autoUpdateInFlight
     \/ /\ AgentOf(q) \notin autoUpdateInFlight
        /\ autoUpdateInFlight' = autoUpdateInFlight \cup {AgentOf(q)}
        /\ Await(q, "policy")
  /\ UNCHANGED <<net, connections, routes, owed, offlineWrites, status, dbFaults>>

\* sendToAgent: an UPDATE for n containers, if the agent can be reached; what goes
\* to a socket it has given up is lost. An agent that owes more than MaxOwed
\* results is as one that owes MaxOwed.
SendUpdate(a, n) ==
  owed' = IF Reachable(a) /\ connections[a] = dialed[a]
          THEN [owed EXCEPT ![a] = IF @ + n <= MaxOwed THEN @ + n ELSE MaxOwed]
          ELSE owed

\* No container is eligible, or those that are go into an UPDATE.
AutoUpdate(q) ==
  /\ Handling(q, "CHECK_RESULT", "policy")
  /\ \/ autoUpdateInFlight' = autoUpdateInFlight \ {AgentOf(q)} /\ UNCHANGED owed
     \/ /\ \E n \in 1..MaxOwed : SendUpdate(AgentOf(q), n)
        /\ UNCHANGED autoUpdateInFlight
  /\ Finish(q)
  /\ UNCHANGED <<net, connections, routes, offlineWrites, status, dbFaults>>

\* A query fails: the catch of process() logs it and the chain goes on.
HandlerThrows(q) ==
  /\ InProgress(q)
  /\ DbFault
  /\ Finish(q)
  /\ UNCHANGED <<net, connections, update, offlineWrites, status>>

-----------------------------------------------------------------------------
(* POST /api/agents/:id/update.                                            *)

RouteMarks(a) ==
  /\ status[a] = "online"
  /\ a \notin autoUpdateInFlight
  /\ routes[a] < MaxRoutes
  /\ autoUpdateInFlight' = autoUpdateInFlight \cup {a}
  /\ routes' = [routes EXCEPT ![a] = @ + 1]
  /\ UNCHANGED <<net, connections, chains, owed, offlineWrites, status, dbFaults>>

\* Nothing to update, an UPDATE is sent, or the request fails.
RouteReturns(a) ==
  /\ routes[a] > 0
  /\ routes' = [routes EXCEPT ![a] = @ - 1]
  /\ \/ autoUpdateInFlight' = autoUpdateInFlight \ {a} /\ UNCHANGED <<owed, dbFaults>>
     \/ /\ \E n \in 1..MaxOwed : SendUpdate(a, n)
        /\ UNCHANGED <<autoUpdateInFlight, dbFaults>>
     \/ DbFault /\ UNCHANGED <<autoUpdateInFlight, owed>>
  /\ UNCHANGED <<net, connections, chains, offlineWrites, status>>

-----------------------------------------------------------------------------
(* checkHeartbeats: time is not modelled, any connection may have been silent   *)
(* for 60 seconds.                                                         *)

\* Mutant: the sweep closes the socket and leaves the rest to its close handler.
Sweep_ClosesOnly(a) ==
  /\ connections[a] # None
  /\ CloseSocket(connections[a])
  /\ UNCHANGED <<registered, dialed, connections, chains, update, offlineWrites, status, dbFaults>>

Sweep(a) ==
  /\ connections[a] # None
  /\ CloseSocket(connections[a])
  /\ connections' = [connections EXCEPT ![a] = None]
  /\ LeaveOffline(a)
  /\ UNCHANGED <<registered, dialed, chains, update, status, dbFaults>>

-----------------------------------------------------------------------------
Handler(q) ==
  \/ Register(q) \/ AuthRejected(q) \/ Authenticated(q) \/ RejectFirst(q)
  \/ Heartbeat(q) \/ CheckResult(q) \/ UpdateResult(q)
  \/ Stored(q) \/ OnlineWritten(q) \/ LastAwait(q)
  \/ Decide(q) \/ AutoUpdate(q) \/ HandlerThrows(q)

Next ==
  \/ \E c \in Socket :
       \/ Connect(c) \/ AuthTimeout(c) \/ SocketClosed(c)
       \/ \E kind \in Kind : Arrive(c, kind)
  \/ \E q \in Queue : Handler(q)
  \/ \E a \in Agent :
       RouteMarks(a) \/ RouteReturns(a) \/ Sweep(a) \/ OfflineWritten(a)

Spec == Init /\ [][Next]_vars

\* The database answers every query. ws forces a socket closed 30 s after close().
\* A connection of a closed socket falls silent, and the sweep runs every 30 s. An
\* agent's ticker sends a HEARTBEAT whenever it can.
Fairness ==
  /\ \A q \in Queue : WF_vars(Handler(q))
  /\ \A c \in Socket :
       /\ WF_vars(sock[c] = "closing" /\ SocketClosed(c))
       /\ SF_vars(sock[c] = "open" /\ Arrive(c, "HEARTBEAT"))
  /\ \A a \in Agent :
       /\ WF_vars(connections[a] # None /\ sock[connections[a]] = "closed" /\ Sweep(a))
       /\ WF_vars(OfflineWritten(a))

FairSpec == Spec /\ Fairness

-----------------------------------------------------------------------------
(* What the hub promises.                                                  *)

\* Whatever other sockets of the agent did before: the messages of the one it is
\* connected by are in the chain its next message goes to (or wait behind their
\* REGISTER), so that they are handled in order and one at a time.
CurrentConnectionInOrder ==
  \A a \in Agent, k \in Chain :
    (\E m \in Queued(k) : m.sock = connections[a]) => k = agentQueues[a]

\* FIX-1.3, BUG-05: an update mark of a connected agent is not left over. Who set it
\* has not decided yet, or the agent owes a result, or one that has arrived over its
\* connection waits to be handled, which clears the mark.
Deciding(a) ==
  \/ routes[a] > 0
  \/ \E q \in Queue : pc[q] = "policy" /\ AgentOf(q) = a
ResultWaits(a) ==
  \E q \in Queue : \E i \in 1..Len(queue[q]) :
    /\ queue[q][i] = [sock |-> connections[a], kind |-> "UPDATE_RESULT"]
    /\ i = 1 => pc[q] = "ready"
MarkStays(a) == a \in autoUpdateInFlight /\ Reachable(a) /\ connections[a] = dialed[a]
MarkNotLeftOver ==
  dbFaults = 0 => \A a \in Agent :
    MarkStays(a) => Deciding(a) \/ owed[a] > 0 \/ ResultWaits(a)

\* A connection whose socket has closed does not stay.
DeadConnectionSwept ==
  \A a \in Agent, c \in Socket :
    (connections[a] = c /\ sock[c] = "closed") ~> (connections[a] # c)

\* An agent that stays connected turns online, whatever a write of its former
\* connection put there.
ConnectedTurnsOnline ==
  \A a \in Agent : Reachable(a) ~> (~Reachable(a) \/ status[a] = "online")
=============================================================================

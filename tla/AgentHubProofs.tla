--------------------------- MODULE AgentHubProofs ---------------------------
(* The hub's chains keep a connection's messages in order, and its in-flight *)
(* marks do not stay behind, whatever agents, sockets and chains there are.   *)
EXTENDS AgentHub, TLAPS

\* What an agent is reached by is a socket of its own, and one that is registered.
ConnectionsKnown ==
  \A a \in Agent : connections[a] # None =>
    Owner[connections[a]] = a /\ connections[a] \in registered

\* Messages are in their socket's queue until it is registered, and REGISTER is the
\* first of them.
QueuesSorted ==
  \A q \in Queue : \A i \in 1..Len(queue[q]) :
    /\ q \in Socket => queue[q][i].sock = q
    /\ q \in Chain => queue[q][i].sock \in registered
    /\ queue[q][i].kind = "REGISTER" =>
         /\ q \in Socket
         /\ i = 1
         /\ pc[q] \in {"ready", "auth"} => q \notin registered

\* CurrentConnectionInOrder, by place.
InOrder ==
  \A a \in Agent, k \in Chain : \A i \in 1..Len(queue[k]) :
    queue[k][i].sock = connections[a] => k = agentQueues[a]

Ordered == ConnectionsKnown /\ QueuesSorted /\ InOrder
IInv == TypeOK /\ Ordered /\ MarkNotLeftOver

-----------------------------------------------------------------------------
(* Chains.                                                                 *)

\* A message put at the end of a chain moves no other.
LEMMA Appended ==
  ASSUME queue \in [Queue -> Seq(Message)], NEW q \in Queue, NEW m \in Message,
         queue' = [queue EXCEPT ![q] = Append(@, m)]
  PROVE  /\ queue' \in [Queue -> Seq(Message)]
         /\ \A p \in Queue : p # q => queue'[p] = queue[p]
         /\ queue'[q] # <<>>
         /\ Len(queue'[q]) = Len(queue[q]) + 1
         /\ \A i \in 1..Len(queue[q]) : queue'[q][i] = queue[q][i]
         /\ queue'[q][Len(queue[q]) + 1] = m
<1>1. queue[q] \in Seq(Message) /\ queue'[q] = Append(queue[q], m)
  OBVIOUS
<1>2. queue'[q] \in Seq(Message) /\ Len(queue'[q]) = Len(queue[q]) + 1
  BY <1>1
<1>3. queue'[q] # <<>>
  BY <1>1, <1>2
<1>4. \A i \in 1..Len(queue[q]) : queue'[q][i] = queue[q][i]
  BY <1>1
<1>5. queue'[q][Len(queue[q]) + 1] = m
  BY <1>1
<1> QED BY <1>2, <1>3, <1>4, <1>5

\* A handler that returns leaves the rest of its chain, each message one place on.
LEMMA Finished ==
  ASSUME queue \in [Queue -> Seq(Message)], NEW q \in Queue, queue[q] # <<>>, Finish(q)
  PROVE  /\ queue' \in [Queue -> Seq(Message)]
         /\ \A p \in Queue : p # q => queue'[p] = queue[p]
         /\ Len(queue'[q]) = Len(queue[q]) - 1
         /\ \A i \in 1..Len(queue'[q]) : i + 1 \in 1..Len(queue[q]) /\ queue'[q][i] = queue[q][i + 1]
<1>1. queue[q] \in Seq(Message) /\ queue'[q] = Tail(queue[q])
  BY DEF Finish
<1>2. queue'[q] \in Seq(Message) /\ Len(queue'[q]) = Len(queue[q]) - 1
  BY <1>1
<1>3. \A i \in 1..Len(queue'[q]) : i + 1 \in 1..Len(queue[q]) /\ queue'[q][i] = queue[q][i + 1]
  BY <1>1, <1>2
<1> QED BY <1>2, <1>3 DEF Finish

-----------------------------------------------------------------------------
(* Types.                                                                  *)

\* The part of the type invariant that a handler's await or return touches.
ChainsTyped ==
  /\ agentQueues \in [Agent -> Chain \cup {None}]
  /\ queue \in [Queue -> Seq(Message)]
  /\ pc \in [Queue -> Step]
  /\ \A q \in Queue : queue[q] = <<>> => pc[q] = "ready"

\* Every step of the hub keeps the types of its state.
LEMMA HubTypeStep == TypeOK /\ [Next]_vars => TypeOK'
<1> SUFFICES ASSUME TypeOK, [Next]_vars PROVE TypeOK'
  OBVIOUS
<1> USE HubAssumption
<1>c. ChainsTyped
  BY DEF TypeOK, ChainsTyped
<1>n. \A c \in Socket : c \in Queue /\ Owner[c] \in Agent
  BY DEF Queue
<1>s. ASSUME NEW a \in Agent, NEW n \in 1..MaxOwed, SendUpdate(a, n)
      PROVE  owed' \in [Agent -> 0..MaxOwed]
  <2>1. owed[a] \in 0..MaxOwed
    BY DEF TypeOK
  <2>2. (IF owed[a] + n <= MaxOwed THEN owed[a] + n ELSE MaxOwed) \in 0..MaxOwed
    BY <2>1
  <2> QED BY <1>s, <2>2 DEF SendUpdate, TypeOK
<1>h. ASSUME NEW q \in Queue, Handler(q) PROVE TypeOK'
  <2>1. queue[q] # <<>> => Head(queue[q]) \in Message /\ Sender(q) \in Socket /\ AgentOf(q) \in Agent
    <3>1. queue[q] # <<>> => Head(queue[q]) \in Message
      BY <1>c DEF ChainsTyped
    <3> QED BY <3>1 DEF Message, Sender, AgentOf
  <2>2. ASSUME queue[q] # <<>>, Finish(q) \/ \E step \in Step : Await(q, step)
        PROVE  ChainsTyped'
    <3>1. CASE Finish(q)
      BY <1>c, <2>2, <3>1 DEF ChainsTyped, Finish, Step
    <3>2. CASE \E step \in Step : Await(q, step)
      <4>1. PICK step \in Step : Await(q, step)
        BY <3>2
      <4> QED BY <1>c, <2>2, <4>1 DEF ChainsTyped, Await
    <3> QED BY <2>2, <3>1, <3>2
  <2>5. CASE Authenticated(q)
    <3>1. queue[q] # <<>> /\ Sender(q) \in Socket /\ AgentOf(q) \in Agent
      BY <2>1, <2>5 DEF Authenticated, Handling
    <3>2. ChainsTyped'
      BY <2>2, <2>5, <3>1 DEF Authenticated, Step
    <3>3. /\ registered' = registered \cup {Sender(q)}
          /\ connections' = [connections EXCEPT ![AgentOf(q)] = Sender(q)]
          /\ autoUpdateInFlight' = autoUpdateInFlight \ {AgentOf(q)}
          /\ UNCHANGED <<dialed, routes, owed, offlineWrites, status, dbFaults>>
      BY <2>5 DEF Authenticated
    <3>4. sock' \in [Socket -> {"open", "closing", "closed"}]
      <4>1. sock \in [Socket -> {"open", "closing", "closed"}]
        BY DEF TypeOK
      <4>2. UNCHANGED sock \/ \E c \in Agent : CloseSocket(connections[c])
        BY <2>5, <3>1 DEF Authenticated
      <4>3. ASSUME NEW c, CloseSocket(c)
            PROVE  sock' \in [Socket -> {"open", "closing", "closed"}]
        <5>1. PICK s : s = IF sock[c] = "open" THEN "closing" ELSE sock[c]
          OBVIOUS
        <5>2. c \in Socket => s \in {"open", "closing", "closed"}
          BY <4>1, <5>1
        <5> QED BY <4>1, <4>3, <5>1, <5>2 DEF CloseSocket
      <4> QED BY <4>1, <4>2, <4>3
    <3>5. /\ registered' \in SUBSET Socket /\ autoUpdateInFlight' \in SUBSET Agent
          /\ connections' \in [Agent -> Socket \cup {None}]
      BY <3>1, <3>3 DEF TypeOK
    <3> QED BY <3>2, <3>3, <3>4, <3>5 DEF TypeOK, ChainsTyped
  <2> USE DEF TypeOK, ChainsTyped, Handling, net, chains, update
  <2>3. CASE Register(q)
    BY <2>2, <2>3 DEF Register, Step
  <2>4. CASE AuthRejected(q)
    BY <2>1, <2>2, <2>4 DEF AuthRejected, CloseSocket
  <2>6. CASE RejectFirst(q)
    BY <2>1, <2>2, <2>6 DEF RejectFirst, CloseSocket
  <2>7. CASE Heartbeat(q)
    BY <2>2, <2>7 DEF Heartbeat, Step
  <2>8. CASE CheckResult(q)
    BY <2>2, <2>8 DEF CheckResult, Step
  <2>9. CASE UpdateResult(q)
    BY <2>2, <2>9 DEF UpdateResult, Step
  <2>10. CASE Stored(q)
    BY <2>2, <2>10 DEF Stored, Step
  <2>11. CASE OnlineWritten(q)
    <3>1. queue[q] # <<>> /\ AfterOnline(Head(queue[q]).kind) \in Step
      BY <2>1, <2>11 DEF OnlineWritten, AfterOnline, Step, Message, Kind
    <3> QED BY <2>1, <2>2, <2>11, <3>1 DEF OnlineWritten
  <2>12. CASE LastAwait(q)
    BY <2>2, <2>12 DEF LastAwait
  <2>13. CASE Decide(q)
    BY <2>1, <2>2, <2>13 DEF Decide, Step
  <2>14. CASE AutoUpdate(q)
    <3>1. queue[q] # <<>> /\ ChainsTyped'
      BY <2>2, <2>14 DEF AutoUpdate
    <3>2. owed' \in [Agent -> 0..MaxOwed]
      BY <1>s, <2>1, <2>14, <3>1 DEF AutoUpdate
    <3>3. autoUpdateInFlight' \in SUBSET Agent
      BY <2>14 DEF AutoUpdate
    <3> QED BY <2>14, <3>1, <3>2, <3>3 DEF AutoUpdate
  <2>15. CASE HandlerThrows(q)
    BY <2>2, <2>15 DEF HandlerThrows, InProgress, DbFault
  <2> QED BY <1>h, <2>3, <2>4, <2>5, <2>6, <2>7, <2>8, <2>9, <2>10, <2>11, <2>12, <2>13, <2>14, <2>15
      DEF Handler
<1> USE DEF net, chains, update
<1>1. ASSUME NEW c \in Socket, Connect(c) PROVE TypeOK'
  BY <1>1, <1>n DEF TypeOK, Connect, Message, Kind
<1>2. ASSUME NEW c \in Socket, NEW kind \in Kind, Arrive(c, kind) PROVE TypeOK'
  <2> DEFINE message == [sock |-> c, kind |-> kind]
  <2>1. message \in Message
    BY DEF Message
  <2>2. ChainsTyped'
    <3>1. CASE c \notin registered
      <4>1. queue' = [queue EXCEPT ![c] = Append(@, message)] /\ UNCHANGED <<agentQueues, pc>>
        BY <1>2, <3>1 DEF Arrive
      <4>2. queue' \in [Queue -> Seq(Message)] /\ \A q \in Queue : queue'[q] = <<>> => queue[q] = <<>>
        BY <1>n, <1>c, <2>1, <4>1, Appended DEF ChainsTyped
      <4> QED BY <1>c, <4>1, <4>2 DEF ChainsTyped
    <3>2. CASE c \in registered
      <4>1. PICK k \in Chain :
              /\ queue' = [queue EXCEPT ![k] = Append(@, message)]
              /\ agentQueues' = [agentQueues EXCEPT ![Owner[c]] = k]
        BY <1>2, <3>2 DEF Arrive
      <4>2. k \in Queue /\ UNCHANGED pc
        BY <1>2 DEF Arrive, Queue
      <4>3. queue' \in [Queue -> Seq(Message)] /\ \A q \in Queue : queue'[q] = <<>> => queue[q] = <<>>
        BY <1>c, <2>1, <4>1, <4>2, Appended DEF ChainsTyped
      <4>4. agentQueues' \in [Agent -> Chain \cup {None}]
        BY <1>n, <1>c, <4>1 DEF ChainsTyped
      <4> QED BY <1>c, <4>2, <4>3, <4>4 DEF ChainsTyped
    <3> QED BY <3>1, <3>2
  <2>3. owed' \in [Agent -> 0..MaxOwed]
    <3>1. owed \in [Agent -> 0..MaxOwed]
      BY DEF TypeOK
    <3>2. UNCHANGED owed \/ (owed[Owner[c]] > 0 /\ owed' = [owed EXCEPT ![Owner[c]] = @ - 1])
      BY <1>2 DEF Arrive
    <3> QED BY <1>n, <3>1, <3>2
  <2> QED BY <1>2, <2>2, <2>3 DEF Arrive, TypeOK, ChainsTyped
<1>3. ASSUME NEW c \in Socket, AuthTimeout(c) PROVE TypeOK'
  BY <1>3 DEF TypeOK, AuthTimeout
<1>4. ASSUME NEW c \in Socket, SocketClosed(c) PROVE TypeOK'
  <2>1. Owner[c] \in Agent
    BY <1>n
  <2>2. sock' \in [Socket -> {"open", "closing", "closed"}]
    BY <1>4 DEF TypeOK, SocketClosed
  <2>3. CASE c \in registered /\ connections[Owner[c]] = c
    <3>1. LeaveOffline(Owner[c])
      BY <1>4, <2>3 DEF SocketClosed
    <3>2. offlineWrites' \in [Agent -> 0..MaxOffline]
      BY <2>1, <3>1 DEF TypeOK, LeaveOffline
    <3>3. /\ connections' \in [Agent -> Socket \cup {None}]
          /\ agentQueues' \in [Agent -> Chain \cup {None}]
          /\ autoUpdateInFlight' \in SUBSET Agent
      BY <1>4, <2>1, <2>3 DEF TypeOK, SocketClosed
    <3>4. UNCHANGED <<registered, dialed, queue, pc, routes, owed, status, dbFaults>>
      BY <1>4 DEF SocketClosed
    <3> QED BY <2>2, <3>2, <3>3, <3>4 DEF TypeOK
  <2>4. CASE ~(c \in registered /\ connections[Owner[c]] = c)
    <3>1. /\ UNCHANGED <<connections, agentQueues, autoUpdateInFlight, offlineWrites>>
          /\ UNCHANGED <<registered, dialed, queue, pc, routes, owed, status, dbFaults>>
      BY <1>4, <2>4 DEF SocketClosed
    <3> QED BY <2>2, <3>1 DEF TypeOK
  <2> QED BY <2>3, <2>4
<1>5. ASSUME NEW a \in Agent, OfflineWritten(a) PROVE TypeOK'
  BY <1>5 DEF TypeOK, OfflineWritten, DbFault
<1>6. ASSUME NEW a \in Agent, RouteMarks(a) PROVE TypeOK'
  BY <1>6 DEF TypeOK, RouteMarks
<1>7. ASSUME NEW a \in Agent, RouteReturns(a) PROVE TypeOK'
  <2>1. owed' \in [Agent -> 0..MaxOwed]
    BY <1>s, <1>7 DEF RouteReturns, TypeOK
  <2>2. autoUpdateInFlight' \in SUBSET Agent /\ dbFaults' \in 0..MaxDbFaults
    BY <1>7 DEF RouteReturns, TypeOK, DbFault
  <2>3. routes' \in [Agent -> 0..MaxRoutes]
    BY <1>7 DEF RouteReturns, TypeOK
  <2> QED BY <1>7, <2>1, <2>2, <2>3 DEF TypeOK, RouteReturns
<1>8. ASSUME NEW a \in Agent, Sweep(a) PROVE TypeOK'
  BY <1>8 DEF TypeOK, Sweep, CloseSocket, LeaveOffline
<1>9. CASE UNCHANGED vars
  BY <1>9 DEF TypeOK, vars
<1> QED BY <1>h, <1>1, <1>2, <1>3, <1>4, <1>5, <1>6, <1>7, <1>8, <1>9 DEF Next
-----------------------------------------------------------------------------
(* Order.                                                                  *)

\* A handler that returns leaves the messages behind it in order.
LEMMA FinishKeepsOrder ==
  ASSUME TypeOK, Ordered, NEW q \in Queue, queue[q] # <<>>, Finish(q),
         UNCHANGED <<registered, connections>>
  PROVE  Ordered'
<1>1. /\ \A p \in Queue : p # q => queue'[p] = queue[p] /\ pc'[p] = pc[p]
      /\ \A i \in 1..Len(queue'[q]) :
           i \in Nat \ {0} /\ i + 1 \in 1..Len(queue[q]) /\ queue'[q][i] = queue[q][i + 1]
      /\ Len(queue'[q]) = Len(queue[q]) - 1
  BY Finished DEF TypeOK, Finish
<1>2. QueuesSorted'
  <2> SUFFICES ASSUME NEW p \in Queue, NEW i \in 1..Len(queue'[p])
               PROVE  /\ p \in Socket => queue'[p][i].sock = p
                      /\ p \in Chain => queue'[p][i].sock \in registered
                      /\ queue'[p][i].kind = "REGISTER" =>
                           /\ p \in Socket
                           /\ i = 1
                           /\ pc'[p] \in {"ready", "auth"} => p \notin registered
    BY DEF QueuesSorted
  <2>1. CASE p = q
    <3>1. queue'[p][i] = queue[p][i + 1] /\ i + 1 \in 1..Len(queue[p]) /\ i + 1 # 1
      BY <1>1, <2>1
    <3> QED BY <3>1 DEF Ordered, QueuesSorted
  <2>2. CASE p # q
    BY <1>1, <2>2 DEF Ordered, QueuesSorted
  <2> QED BY <2>1, <2>2
<1>3. InOrder'
  <2> SUFFICES ASSUME NEW a \in Agent, NEW k \in Chain, NEW i \in 1..Len(queue'[k]),
                      queue'[k][i].sock = connections[a]
               PROVE  k = agentQueues'[a]
    BY DEF InOrder
  <2>1. k \in Queue
    BY DEF Queue
  <2>2. k = agentQueues[a]
    <3>1. CASE k = q
      <4>1. queue'[k][i] = queue[k][i + 1] /\ i + 1 \in 1..Len(queue[k])
        BY <1>1, <3>1
      <4> QED BY <4>1 DEF Ordered, InOrder
    <3>2. CASE k # q
      BY <1>1, <2>1, <3>2 DEF Ordered, InOrder
    <3> QED BY <3>1, <3>2
  <2>3. ~(k = q /\ Len(queue[q]) = 1)
    BY <1>1
  <2> QED BY <2>2, <2>3 DEF Finish
<1>4. ConnectionsKnown'
  BY DEF Ordered, ConnectionsKnown
<1> QED BY <1>2, <1>3, <1>4 DEF Ordered

\* So does one that goes on to its next await.
LEMMA AwaitKeepsOrder ==
  ASSUME TypeOK, Ordered, NEW q \in Queue, NEW step \in Step, Await(q, step),
         pc[q] = "ready" \/ step \notin {"ready", "auth"},
         UNCHANGED <<registered, connections>>
  PROVE  Ordered'
<1>1. QueuesSorted'
  BY DEF Ordered, QueuesSorted, Await, TypeOK
<1>2. InOrder' /\ ConnectionsKnown'
  BY DEF Ordered, InOrder, ConnectionsKnown, Await
<1> QED BY <1>1, <1>2 DEF Ordered
\* Every step of the hub keeps a connection's messages in order.
LEMMA HubOrderStep == TypeOK /\ Ordered /\ [Next]_vars => Ordered'
<1> SUFFICES ASSUME TypeOK, Ordered, [Next]_vars PROVE Ordered'
  OBVIOUS
<1> USE HubAssumption
<1>t. /\ \A c \in Socket : c \in Queue /\ Owner[c] \in Agent
      /\ \A q \in Queue : queue[q] \in Seq(Message) /\ Len(queue[q]) \in Nat
      /\ \A a \in Agent : connections[a] \in Socket \cup {None}
  BY DEF Queue, TypeOK
<1>m. \A q \in Queue : \A i \in 1..Len(queue[q]) : queue[q][i].sock \in Socket
  <2>1. \A q \in Queue : \A i \in 1..Len(queue[q]) : queue[q][i] \in Message
    BY <1>t
  <2> QED BY <2>1 DEF Message
\* What changes neither chains nor connections, or only forgets a connection.
<1>f. ASSUME \A a \in Agent : connections'[a] \in {connections[a], None},
             \A a \in Agent : connections'[a] = connections[a] => agentQueues'[a] = agentQueues[a],
             UNCHANGED <<registered, queue, pc>>
      PROVE  Ordered'
  <2>1. QueuesSorted' /\ ConnectionsKnown'
    BY <1>f DEF Ordered, QueuesSorted, ConnectionsKnown
  <2>2. InOrder'
    <3> SUFFICES ASSUME NEW a \in Agent, NEW k \in Chain, NEW i \in 1..Len(queue[k]),
                        queue[k][i].sock = connections'[a]
                 PROVE  k = agentQueues'[a]
      BY <1>f DEF InOrder
    <3>1. connections'[a] # None
      BY <1>m DEF Queue
    <3> QED BY <1>f, <3>1 DEF Ordered, InOrder
  <2> QED BY <2>1, <2>2 DEF Ordered
<1>h. ASSUME NEW q \in Queue, Handler(q) PROVE Ordered'
  <2> USE DEF Handling, net, chains, update
  <2>1. ASSUME queue[q] # <<>>, Finish(q), UNCHANGED <<registered, connections>> PROVE Ordered'
    BY <2>1, FinishKeepsOrder
  <2>2. ASSUME NEW step \in Step, Await(q, step), UNCHANGED <<registered, connections>>,
               pc[q] = "ready" \/ step \notin {"ready", "auth"}
        PROVE Ordered'
    BY <2>2, AwaitKeepsOrder
  <2>3. CASE Register(q)
    BY <2>2, <2>3 DEF Register, Step
  <2>4. CASE AuthRejected(q)
    BY <2>1, <2>4 DEF AuthRejected
  <2>5. CASE Authenticated(q)
    <3> DEFINE c == Sender(q)
               a == AgentOf(q)
    <3>1. 1 \in 1..Len(queue[q]) /\ Head(queue[q]) = queue[q][1]
      BY <1>t, <2>5 DEF Authenticated
    <3>2. q \in Socket /\ c = q /\ q \notin registered /\ a \in Agent /\ Owner[q] = a
      BY <1>t, <2>5, <3>1 DEF Authenticated, Ordered, QueuesSorted, Sender, AgentOf
    <3>3. /\ registered' = registered \cup {q}
          /\ connections' = [connections EXCEPT ![a] = q]
          /\ pc' = [pc EXCEPT ![q] = "online"]
          /\ UNCHANGED <<agentQueues, queue>>
      BY <2>5, <3>2 DEF Authenticated, Await
    <3>4. QueuesSorted'
      BY <3>2, <3>3 DEF Ordered, QueuesSorted, TypeOK
    <3>5. ConnectionsKnown'
      BY <3>2, <3>3 DEF Ordered, ConnectionsKnown, TypeOK
    <3>6. \A k \in Chain : \A i \in 1..Len(queue[k]) : queue[k][i].sock # q
      BY <3>2 DEF Ordered, QueuesSorted, Queue
    <3>7. InOrder'
      BY <3>2, <3>3, <3>6 DEF Ordered, InOrder, TypeOK
    <3> QED BY <3>4, <3>5, <3>7 DEF Ordered
  <2>6. CASE RejectFirst(q)
    BY <2>1, <2>6 DEF RejectFirst
  <2>7. CASE Heartbeat(q)
    BY <2>2, <2>7 DEF Heartbeat, Step
  <2>8. CASE CheckResult(q)
    BY <2>2, <2>8 DEF CheckResult, Step
  <2>9. CASE UpdateResult(q)
    BY <2>2, <2>9 DEF UpdateResult, Step
  <2>10. CASE Stored(q)
    BY <2>2, <2>10 DEF Stored, Step
  <2>11. CASE OnlineWritten(q)
    <3>1. Head(queue[q]).kind \in Kind
      <4>1. Head(queue[q]) \in Message
        BY <1>t, <2>11 DEF OnlineWritten
      <4> QED BY <4>1 DEF Message
    <3>2. AfterOnline(Head(queue[q]).kind) \in Step \ {"ready", "auth"}
      BY <3>1 DEF AfterOnline, Step, Kind
    <3> QED BY <2>2, <2>11, <3>2 DEF OnlineWritten
  <2>12. CASE LastAwait(q)
    BY <2>1, <2>12 DEF LastAwait
  <2>13. CASE Decide(q)
    BY <2>1, <2>2, <2>13 DEF Decide, Step
  <2>14. CASE AutoUpdate(q)
    BY <2>1, <2>14 DEF AutoUpdate
  <2>15. CASE HandlerThrows(q)
    BY <2>1, <2>15 DEF HandlerThrows, InProgress
  <2> QED BY <1>h, <2>3, <2>4, <2>5, <2>6, <2>7, <2>8, <2>9, <2>10, <2>11, <2>12, <2>13, <2>14, <2>15
      DEF Handler
<1> USE DEF net, chains, update
<1>1. ASSUME NEW c \in Socket, Connect(c) PROVE Ordered'
  <2> DEFINE hello == [sock |-> c, kind |-> "REGISTER"]
  <2>1. queue[c] = <<>> /\ pc[c] = "ready"
    <3>1. Len(queue[c]) = 0
      <4> SUFFICES ASSUME Len(queue[c]) # 0 PROVE FALSE
        OBVIOUS
      <4>1. 1 \in 1..Len(queue[c]) /\ c \in Queue
        BY <1>t
      <4>2. queue[c][1].sock = c
        BY <4>1 DEF Ordered, QueuesSorted
      <4> QED BY <1>1, <4>1, <4>2 DEF Connect, Mentions, Queued
    <3> QED BY <1>t, <3>1 DEF TypeOK
  <2>2. \A q \in Queue : \A i \in 1..Len(queue[q]) : queue[q][i].sock # c
    BY <1>1 DEF Connect, Mentions, Queued
  <2>3. /\ registered' = registered \ {c}
        /\ \A q \in Queue : queue'[q] = IF q = c THEN <<hello>> ELSE queue[q]
        /\ \A a \in Agent : connections[a] # c
        /\ UNCHANGED <<connections, agentQueues, pc>>
    BY <1>1, <1>t DEF Connect, TypeOK
  <2>4. QueuesSorted'
    <3> SUFFICES ASSUME NEW q \in Queue, NEW i \in 1..Len(queue'[q])
                 PROVE  /\ q \in Socket => queue'[q][i].sock = q
                        /\ q \in Chain => queue'[q][i].sock \in registered'
                        /\ queue'[q][i].kind = "REGISTER" =>
                             /\ q \in Socket
                             /\ i = 1
                             /\ pc[q] \in {"ready", "auth"} => q \notin registered'
      BY <2>3 DEF QueuesSorted
    <3>1. CASE q = c
      <4>1. queue'[q] = <<hello>> /\ q \in Socket /\ q \notin Chain
        BY <2>3, <3>1
      <4>2. i = 1 /\ queue'[q][i] = hello
        BY <4>1
      <4> QED BY <2>3, <3>1, <4>1, <4>2
    <3>2. CASE q # c
      BY <2>2, <2>3, <3>2 DEF Ordered, QueuesSorted
    <3> QED BY <3>1, <3>2
  <2>5. InOrder'
    <3>1. \A k \in Chain : k \in Queue /\ queue'[k] = queue[k]
      BY <2>3 DEF Queue
    <3> QED BY <2>3, <3>1 DEF Ordered, InOrder
  <2>6. ConnectionsKnown'
    BY <1>t, <2>3 DEF Ordered, ConnectionsKnown
  <2> QED BY <2>4, <2>5, <2>6 DEF Ordered
<1>2. ASSUME NEW c \in Socket, NEW kind \in Kind, Arrive(c, kind) PROVE Ordered'
  <2> DEFINE message == [sock |-> c, kind |-> kind]
  <2>1. PICK q \in Queue :
          /\ queue' = [queue EXCEPT ![q] = Append(@, message)]
          /\ \/ c \notin registered /\ q = c /\ UNCHANGED agentQueues
             \/ /\ c \in registered
                /\ q \in Chain
                /\ agentQueues[Owner[c]] = None \/ agentQueues[Owner[c]] = q
                /\ agentQueues' = [agentQueues EXCEPT ![Owner[c]] = q]
    BY <1>2, <1>t DEF Arrive, Queue
  <2>2. message \in Message /\ kind # "REGISTER" /\ UNCHANGED <<registered, connections, pc>>
    BY <1>2 DEF Arrive, Message
  <2>3. /\ \A p \in Queue : p # q => queue'[p] = queue[p]
        /\ Len(queue'[q]) = Len(queue[q]) + 1
        /\ \A i \in 1..Len(queue[q]) : queue'[q][i] = queue[q][i]
        /\ queue'[q][Len(queue[q]) + 1] = message
    BY <2>1, <2>2, Appended DEF TypeOK
  <2>4. ASSUME NEW p \in Queue, NEW i \in 1..Len(queue'[p])
        PROVE  \/ i \in 1..Len(queue[p]) /\ queue'[p][i] = queue[p][i]
               \/ p = q /\ queue'[p][i] = message
    BY <1>t, <2>3, <2>4
  <2>5. QueuesSorted'
    <3> SUFFICES ASSUME NEW p \in Queue, NEW i \in 1..Len(queue'[p])
                 PROVE  /\ p \in Socket => queue'[p][i].sock = p
                        /\ p \in Chain => queue'[p][i].sock \in registered
                        /\ queue'[p][i].kind = "REGISTER" =>
                             /\ p \in Socket
                             /\ i = 1
                             /\ pc[p] \in {"ready", "auth"} => p \notin registered
      BY <2>2 DEF QueuesSorted
    <3>1. CASE i \in 1..Len(queue[p]) /\ queue'[p][i] = queue[p][i]
      BY <3>1 DEF Ordered, QueuesSorted
    <3>2. CASE p = q /\ queue'[p][i] = message
      BY <2>1, <2>2, <3>2
    <3> QED BY <2>4, <3>1, <3>2
  <2>6. InOrder'
    <3> SUFFICES ASSUME NEW a \in Agent, NEW k \in Chain, NEW i \in 1..Len(queue'[k]),
                        queue'[k][i].sock = connections[a]
                 PROVE  k = agentQueues'[a]
      BY <2>2 DEF InOrder
    <3>1. k \in Queue
      BY DEF Queue
    <3>2. CASE i \in 1..Len(queue[k]) /\ queue'[k][i] = queue[k][i]
      <4>1. k = agentQueues[a] /\ k # None
        BY <3>2 DEF Ordered, InOrder
      <4> QED BY <2>1, <4>1 DEF TypeOK
    <3>3. CASE k = q /\ queue'[k][i] = message
      <4>1. connections[a] = c /\ c # None
        BY <3>3
      <4>2. Owner[c] = a
        BY <4>1 DEF Ordered, ConnectionsKnown
      <4> QED BY <2>1, <3>3, <4>2 DEF TypeOK
    <3> QED BY <2>4, <3>1, <3>2, <3>3
  <2>7. ConnectionsKnown'
    BY <2>2 DEF Ordered, ConnectionsKnown
  <2> QED BY <2>5, <2>6, <2>7 DEF Ordered
<1>3. ASSUME NEW c \in Socket, AuthTimeout(c) PROVE Ordered'
  BY <1>3, <1>f DEF AuthTimeout
<1>4. ASSUME NEW c \in Socket, SocketClosed(c) PROVE Ordered'
  <2>1. CASE c \in registered /\ connections[Owner[c]] = c
    <3>1. /\ connections' = [connections EXCEPT ![Owner[c]] = None]
          /\ agentQueues' = [agentQueues EXCEPT ![Owner[c]] = None]
          /\ UNCHANGED <<registered, queue, pc>>
      BY <1>4, <2>1 DEF SocketClosed
    <3> QED BY <1>f, <1>t, <2>1, <3>1 DEF TypeOK
  <2>2. CASE ~(c \in registered /\ connections[Owner[c]] = c)
    BY <1>4, <1>f, <2>2 DEF SocketClosed
  <2> QED BY <2>1, <2>2
<1>5. ASSUME NEW a \in Agent, OfflineWritten(a) PROVE Ordered'
  BY <1>5, <1>f DEF OfflineWritten
<1>6. ASSUME NEW a \in Agent, RouteMarks(a) PROVE Ordered'
  BY <1>6, <1>f DEF RouteMarks
<1>7. ASSUME NEW a \in Agent, RouteReturns(a) PROVE Ordered'
  BY <1>7, <1>f DEF RouteReturns
<1>8. ASSUME NEW a \in Agent, Sweep(a) PROVE Ordered'
  BY <1>8, <1>f DEF Sweep, TypeOK
<1>9. CASE UNCHANGED vars
  BY <1>9, <1>f DEF vars
<1> QED BY <1>h, <1>1, <1>2, <1>3, <1>4, <1>5, <1>6, <1>7, <1>8, <1>9 DEF Next
-----------------------------------------------------------------------------
(* Marks.                                                                  *)

Covered(a) == Deciding(a) \/ owed[a] > 0 \/ ResultWaits(a)

\* A handler's step leaves an agent's mark covered, unless it decides about that very
\* mark or is the one the mark waits for.
LEMMA HandlersKeepCover ==
  ASSUME TypeOK, NEW a \in Agent, Covered(a),
         NEW q \in Queue, queue[q] # <<>>,
         Finish(q) \/ \E step \in Step : Await(q, step),
         pc[q] # "policy" \/ AgentOf(q) # a,
         pc[q] = "ready" => Head(queue[q]) # [sock |-> connections[a], kind |-> "UPDATE_RESULT"],
         connections'[a] = connections[a], routes'[a] = routes[a], owed'[a] = owed[a]
  PROVE  Covered(a)'
<1>1. CASE Deciding(a)
  <2>1. CASE routes[a] > 0
    BY <2>1 DEF Covered, Deciding
  <2>2. CASE \E p \in Queue : pc[p] = "policy" /\ AgentOf(p) = a
    <3>1. PICK p \in Queue : pc[p] = "policy" /\ AgentOf(p) = a
      BY <2>2
    <3>2. p # q
      BY <3>1
    <3>3. pc'[p] = pc[p] /\ queue'[p] = queue[p]
      BY <3>2 DEF TypeOK, Finish, Await
    <3> QED BY <3>1, <3>3 DEF Covered, Deciding, AgentOf, Sender
  <2> QED BY <1>1, <2>1, <2>2 DEF Deciding
<1>2. CASE owed[a] > 0
  BY <1>2 DEF Covered
<1>3. CASE ResultWaits(a)
  <2> DEFINE awaited == [sock |-> connections[a], kind |-> "UPDATE_RESULT"]
  <2>p. PICK p \in Queue : \E i \in 1..Len(queue[p]) :
          queue[p][i] = awaited /\ (i = 1 => pc[p] = "ready")
    BY <1>3 DEF ResultWaits
  <2>1. PICK i \in 1..Len(queue[p]) :
          queue[p][i] = awaited /\ (i = 1 => pc[p] = "ready")
    BY <2>p
  <2>2. i \in 1..Len(queue'[p]) /\ queue'[p][i] = awaited /\ (i = 1 => pc'[p] = "ready")
        => ResultWaits(a)'
    BY DEF ResultWaits
  <2>3. CASE p # q
    <3>1. pc'[p] = pc[p] /\ queue'[p] = queue[p]
      BY <2>3 DEF TypeOK, Finish, Await
    <3> QED BY <2>1, <2>2, <3>1 DEF Covered
  <2>4. CASE p = q
    <3>1. i # 1 /\ queue[q] \in Seq(Message) /\ Len(queue[q]) \in Nat
      BY <2>1, <2>4 DEF TypeOK
    <3>2. CASE Finish(q)
      <4>1. i - 1 \in 1..Len(queue'[q]) /\ queue'[q][i - 1] = awaited /\ pc'[q] = "ready"
        BY <2>1, <2>4, <3>1, <3>2 DEF Finish, TypeOK
      <4> QED BY <4>1 DEF Covered, ResultWaits
    <3>3. CASE \E step \in Step : Await(q, step)
      BY <2>1, <2>2, <2>4, <3>1, <3>3 DEF Await, Covered
    <3> QED BY <3>2, <3>3
  <2> QED BY <2>3, <2>4
<1> QED BY <1>1, <1>2, <1>3 DEF Covered

\* No step of the hub leaves a mark behind.
LEMMA HubMarkStep == TypeOK /\ Ordered /\ MarkNotLeftOver /\ [Next]_vars => MarkNotLeftOver'
<1> SUFFICES ASSUME TypeOK, Ordered, MarkNotLeftOver, [Next]_vars,
                    dbFaults' = 0, NEW a \in Agent, MarkStays(a)'
             PROVE  Covered(a)'
  BY DEF MarkNotLeftOver, Covered
<1> USE HubAssumption
<1>t. /\ \A c \in Socket : c \in Queue /\ Owner[c] \in Agent
      /\ \A q \in Queue : queue[q] \in Seq(Message) /\ Len(queue[q]) \in Nat
      /\ \A b \in Agent : connections[b] \in Socket \cup {None}
      /\ dbFaults \in Nat
  BY DEF Queue, TypeOK
<1>d. ~DbFault
  BY <1>t DEF DbFault
<1>c. dbFaults = 0 /\ MarkStays(a) => Covered(a)
  BY DEF MarkNotLeftOver, Covered
\* A socket is opened by Connect alone.
<1>o. ASSUME NEW c, CloseSocket(c), connections'[a] = connections[a]
      PROVE  sock'[connections[a]] = "open" => sock[connections[a]] = "open"
  BY <1>o, <1>t DEF CloseSocket, TypeOK, MarkStays, Reachable
\* An UPDATE that reaches its agent makes it owe a result.
<1>w. ASSUME NEW b \in Agent, NEW n \in 1..MaxOwed, SendUpdate(b, n)
      PROVE  /\ a # b => owed'[a] = owed[a]
             /\ a = b /\ Reachable(a) /\ connections[a] = dialed[a] => owed'[a] > 0
  <2>1. owed[b] \in 0..MaxOwed /\ MaxOwed \in Nat
    BY DEF TypeOK
  <2>2. CASE Reachable(b) /\ connections[b] = dialed[b]
    <3>1. owed' = [owed EXCEPT ![b] = IF owed[b] + n <= MaxOwed THEN owed[b] + n ELSE MaxOwed]
      BY <1>w, <2>2 DEF SendUpdate
    <3>2. (IF owed[b] + n <= MaxOwed THEN owed[b] + n ELSE MaxOwed) > 0
      BY <2>1
    <3> QED BY <3>1, <3>2 DEF TypeOK
  <2>3. CASE ~(Reachable(b) /\ connections[b] = dialed[b])
    BY <1>w, <2>3 DEF SendUpdate
  <2> QED BY <2>2, <2>3
<1>s. ASSUME Covered(a), UNCHANGED <<queue, pc>>, connections'[a] = connections[a],
             routes'[a] = routes[a], owed'[a] = owed[a]
      PROVE  Covered(a)'
  BY <1>s DEF Covered, Deciding, ResultWaits, AgentOf, Sender
<1>h. ASSUME NEW q \in Queue, Handler(q) PROVE Covered(a)'
  <2> USE DEF Handling, net, chains, update
  <2>1. queue[q] # <<>> => Head(queue[q]) = queue[q][1] /\ 1 \in 1..Len(queue[q])
                           /\ Head(queue[q]) \in Message
    BY <1>t
  <2>2. queue[q] # <<>> => Sender(q) \in Socket /\ AgentOf(q) \in Agent
    BY <2>1 DEF Message, Sender, AgentOf
  \* Most handlers touch nothing a mark depends on.
  <2>3. ASSUME queue[q] # <<>>, Finish(q) \/ \E step \in Step : Await(q, step),
               pc[q] # "policy",
               pc[q] = "ready" => Head(queue[q]).kind # "UPDATE_RESULT",
               UNCHANGED <<sock, connections, dialed, autoUpdateInFlight, routes, owed, dbFaults>>
        PROVE  Covered(a)'
    <3>1. MarkStays(a) /\ dbFaults = 0
      BY <2>3 DEF MarkStays, Reachable
    <3>2. pc[q] = "ready" => Head(queue[q]) # [sock |-> connections[a], kind |-> "UPDATE_RESULT"]
      BY <2>3
    <3>3. connections'[a] = connections[a] /\ routes'[a] = routes[a] /\ owed'[a] = owed[a]
      BY <2>3
    <3> QED BY <1>c, <2>3, <3>1, <3>2, <3>3, HandlersKeepCover
  <2>4. CASE Register(q)
    BY <2>3, <2>4 DEF Register, Step
  <2>5. CASE AuthRejected(q)
    <3>1. MarkStays(a) /\ dbFaults = 0
      BY <1>o, <2>5 DEF AuthRejected, MarkStays, Reachable
    <3> QED BY <1>c, <2>5, <3>1, HandlersKeepCover DEF AuthRejected
  <2>6. CASE Authenticated(q)
    <3>1. a # AgentOf(q) /\ connections'[a] = connections[a]
      BY <2>2, <2>6 DEF Authenticated, MarkStays, TypeOK
    <3>2. MarkStays(a) /\ dbFaults = 0
      BY <1>o, <2>6, <3>1 DEF Authenticated, MarkStays, Reachable
    <3>3. pc[q] = "auth" /\ queue[q] # <<>> /\ Await(q, "online") /\ UNCHANGED <<routes, owed>>
      BY <2>6 DEF Authenticated
    <3> QED BY <1>c, <3>1, <3>2, <3>3, HandlersKeepCover DEF Step
  <2>7. CASE RejectFirst(q)
    <3>1. MarkStays(a) /\ dbFaults = 0
      BY <1>o, <2>7 DEF RejectFirst, MarkStays, Reachable
    <3>2. connections[a] \in registered /\ Sender(q) \notin registered
      BY <2>7, <3>1 DEF RejectFirst, MarkStays, Reachable, Ordered, ConnectionsKnown
    <3>3. Head(queue[q]) # [sock |-> connections[a], kind |-> "UPDATE_RESULT"]
      BY <3>2 DEF Sender
    <3> QED BY <1>c, <2>7, <3>1, <3>3, HandlersKeepCover DEF RejectFirst
  <2>8. CASE Heartbeat(q)
    BY <2>3, <2>8 DEF Heartbeat, Step
  <2>9. CASE CheckResult(q)
    BY <2>3, <2>9 DEF CheckResult, Step
  <2>10. CASE UpdateResult(q)
    <3>1. a # AgentOf(q) /\ MarkStays(a) /\ dbFaults = 0
      BY <2>10 DEF UpdateResult, MarkStays, Reachable
    <3>2. Owner[connections[a]] = a
      BY <3>1 DEF MarkStays, Reachable, Ordered, ConnectionsKnown
    <3>3. Head(queue[q]) # [sock |-> connections[a], kind |-> "UPDATE_RESULT"]
      BY <3>1, <3>2 DEF AgentOf, Sender
    <3>4. /\ pc[q] = "ready" /\ queue[q] # <<>> /\ Await(q, "store")
          /\ UNCHANGED <<connections, routes, owed>>
      BY <2>10 DEF UpdateResult
    <3> QED BY <1>c, <3>1, <3>3, <3>4, HandlersKeepCover DEF Step
  <2>11. CASE Stored(q)
    BY <2>3, <2>11 DEF Stored, Step
  <2>12. CASE OnlineWritten(q)
    <3>1. AfterOnline(Head(queue[q]).kind) \in Step
      BY <2>1, <2>12 DEF OnlineWritten, AfterOnline, Step, Message, Kind
    <3> QED BY <2>3, <2>12, <3>1 DEF OnlineWritten
  <2>13. CASE LastAwait(q)
    BY <2>3, <2>13 DEF LastAwait
  <2>14. CASE Decide(q)
    <3>1. CASE Finish(q) /\ UNCHANGED autoUpdateInFlight
      BY <2>3, <2>14, <3>1 DEF Decide
    <3>2. CASE Await(q, "policy") /\ autoUpdateInFlight' = autoUpdateInFlight \cup {AgentOf(q)}
      <4>1. CASE a = AgentOf(q)
        <5>1. pc'[q] = "policy" /\ AgentOf(q)' = a
          BY <3>2, <4>1 DEF Await, TypeOK, AgentOf, Sender
        <5> QED BY <5>1 DEF Covered, Deciding
      <4>2. CASE a # AgentOf(q)
        <5>1. MarkStays(a) /\ dbFaults = 0
          BY <2>14, <3>2, <4>2 DEF Decide, MarkStays, Reachable
        <5> QED BY <1>c, <2>14, <3>2, <5>1, HandlersKeepCover DEF Decide, Step
      <4> QED BY <4>1, <4>2
    <3> QED BY <2>14, <3>1, <3>2 DEF Decide
  <2>15. CASE AutoUpdate(q)
    <3>1. MarkStays(a) /\ dbFaults = 0
      BY <2>15 DEF AutoUpdate, MarkStays, Reachable
    <3>2. /\ queue[q] # <<>> /\ Finish(q) /\ pc[q] = "policy"
          /\ UNCHANGED <<connections, routes>>
      BY <2>15 DEF AutoUpdate
    <3>3. CASE a = AgentOf(q)
      <4>1. PICK n \in 1..MaxOwed : SendUpdate(a, n)
        BY <2>15, <3>3 DEF AutoUpdate, MarkStays
      <4> QED BY <3>1, <4>1, <1>w DEF MarkStays, Covered
    <3>4. CASE a # AgentOf(q)
      <4>1. owed'[a] = owed[a]
        BY <2>2, <2>15, <3>2, <3>4, <1>w DEF AutoUpdate
      <4> QED BY <1>c, <3>1, <3>2, <3>4, <4>1, HandlersKeepCover
    <3> QED BY <3>3, <3>4
  <2>16. CASE HandlerThrows(q)
    BY <1>d, <2>16 DEF HandlerThrows
  <2> QED BY <1>h, <2>4, <2>5, <2>6, <2>7, <2>8, <2>9, <2>10, <2>11, <2>12, <2>13, <2>14, <2>15, <2>16
      DEF Handler
<1> USE DEF net, chains, update
<1>1. ASSUME NEW c \in Socket, Connect(c) PROVE Covered(a)'
  <2>1. a # Owner[c]
    BY <1>1, <1>t DEF Connect, MarkStays, TypeOK
  <2>2. connections[a] # c /\ UNCHANGED <<connections, routes, pc, autoUpdateInFlight, dbFaults>>
    BY <1>1 DEF Connect
  <2>3. owed'[a] = owed[a] /\ MarkStays(a)
    BY <1>1, <1>t, <2>1, <2>2 DEF Connect, MarkStays, Reachable, TypeOK
  <2>4. Covered(a)
    BY <1>c, <2>2, <2>3
  <2>5. \A p \in Queue : \A i \in 1..Len(queue[p]) :
          p # c
    BY <1>1, <1>t DEF Connect, Mentions, Queued, Ordered, QueuesSorted
  <2>6. \A p \in Queue : queue[p] # <<>> => queue'[p] = queue[p]
    <3> SUFFICES ASSUME NEW p \in Queue, queue[p] # <<>> PROVE queue'[p] = queue[p]
      OBVIOUS
    <3>1. 1 \in 1..Len(queue[p])
      BY <1>t
    <3> QED BY <1>1, <2>5, <3>1 DEF Connect, TypeOK
  <2>7. CASE Deciding(a)
    BY <2>2, <2>6, <2>7 DEF Covered, Deciding, AgentOf, Sender, TypeOK
  <2>8. CASE ResultWaits(a)
    <3>p. PICK p \in Queue : \E i \in 1..Len(queue[p]) :
            /\ queue[p][i] = [sock |-> connections[a], kind |-> "UPDATE_RESULT"]
            /\ i = 1 => pc[p] = "ready"
      BY <2>8 DEF ResultWaits
    <3>1. PICK i \in 1..Len(queue[p]) :
            /\ queue[p][i] = [sock |-> connections[a], kind |-> "UPDATE_RESULT"]
            /\ i = 1 => pc[p] = "ready"
      BY <3>p
    <3>2. queue'[p] = queue[p]
      BY <1>t, <2>6
    <3> QED BY <2>2, <3>1, <3>2 DEF Covered, ResultWaits
  <2> QED BY <2>3, <2>4, <2>7, <2>8 DEF Covered
<1>2. ASSUME NEW c \in Socket, NEW kind \in Kind, Arrive(c, kind) PROVE Covered(a)'
  <2> DEFINE message == [sock |-> c, kind |-> kind]
  <2>1. PICK q \in Queue : queue' = [queue EXCEPT ![q] = Append(@, message)]
    BY <1>2, <1>t DEF Arrive, Queue
  <2>2. message \in Message /\ MarkStays(a) /\ dbFaults = 0 /\ UNCHANGED <<connections, routes, pc>>
    BY <1>2 DEF Arrive, Message, MarkStays, Reachable
  <2>3. /\ \A p \in Queue : p # q => queue'[p] = queue[p]
        /\ Len(queue'[q]) = Len(queue[q]) + 1
        /\ \A i \in 1..Len(queue[q]) : queue'[q][i] = queue[q][i]
        /\ queue'[q][Len(queue[q]) + 1] = message
        /\ queue' \in [Queue -> Seq(Message)]
    BY <2>1, <2>2, Appended DEF TypeOK
  <2>4. \A p \in Queue : \A i \in 1..Len(queue[p]) :
          i \in 1..Len(queue'[p]) /\ queue'[p][i] = queue[p][i]
    BY <1>t, <2>3
  <2>5. Covered(a)
    BY <1>c, <2>2
  <2>6. CASE Deciding(a)
    <3>1. ASSUME NEW p \in Queue, pc[p] = "policy", AgentOf(p) = a
          PROVE  AgentOf(p)' = a
      <4>1. queue[p] # <<>> /\ 1 \in 1..Len(queue[p]) /\ queue'[p] \in Seq(Message)
        BY <1>t, <2>3, <3>1 DEF TypeOK
      <4>2. Head(queue'[p]) = Head(queue[p])
        BY <1>t, <2>4, <4>1
      <4> QED BY <3>1, <4>2 DEF AgentOf, Sender
    <3> QED BY <2>2, <2>6, <3>1 DEF Covered, Deciding
  <2>7. CASE owed[a] > 0 /\ owed'[a] = owed[a]
    BY <2>7 DEF Covered
  <2>8. CASE owed'[a] # owed[a]
    <3>1. kind = "UPDATE_RESULT" /\ connections[a] = c
      BY <1>2, <1>t, <2>2, <2>8 DEF Arrive, TypeOK, MarkStays
    <3> DEFINE i == Len(queue[q]) + 1
    <3>2. i \in 1..Len(queue'[q]) /\ (i = 1 => pc[q] = "ready")
      BY <1>t, <2>3 DEF TypeOK
    <3>3. queue'[q][i] = [sock |-> connections[a], kind |-> "UPDATE_RESULT"]
      BY <2>3, <3>1
    <3> QED BY <2>2, <3>2, <3>3 DEF Covered, ResultWaits
  <2>9. CASE ResultWaits(a)
    <3>p. PICK p \in Queue : \E i \in 1..Len(queue[p]) :
            /\ queue[p][i] = [sock |-> connections[a], kind |-> "UPDATE_RESULT"]
            /\ i = 1 => pc[p] = "ready"
      BY <2>9 DEF ResultWaits
    <3>1. PICK i \in 1..Len(queue[p]) :
            /\ queue[p][i] = [sock |-> connections[a], kind |-> "UPDATE_RESULT"]
            /\ i = 1 => pc[p] = "ready"
      BY <3>p
    <3> QED BY <2>2, <2>4, <3>1 DEF Covered, ResultWaits
  <2> QED BY <2>5, <2>6, <2>7, <2>8, <2>9 DEF Covered
<1>3. ASSUME NEW c \in Socket, AuthTimeout(c) PROVE Covered(a)'
  <2>1. MarkStays(a) /\ dbFaults = 0
    BY <1>3 DEF AuthTimeout, MarkStays, Reachable, TypeOK
  <2> QED BY <1>3, <1>c, <1>s, <2>1 DEF AuthTimeout
<1>4. ASSUME NEW c \in Socket, SocketClosed(c) PROVE Covered(a)'
  <2>1. connections'[a] = connections[a]
    BY <1>4, <1>t DEF SocketClosed, MarkStays, Reachable, TypeOK
  <2>2. MarkStays(a) /\ dbFaults = 0
    BY <1>4, <2>1 DEF SocketClosed, MarkStays, Reachable, TypeOK
  <2> QED BY <1>4, <1>c, <1>s, <2>1, <2>2 DEF SocketClosed
<1>5. ASSUME NEW b \in Agent, OfflineWritten(b) PROVE Covered(a)'
  <2>1. MarkStays(a) /\ dbFaults = 0
    BY <1>5, <1>d DEF OfflineWritten, MarkStays, Reachable
  <2> QED BY <1>5, <1>c, <1>s, <2>1 DEF OfflineWritten
<1>6. ASSUME NEW b \in Agent, RouteMarks(b) PROVE Covered(a)'
  <2>1. CASE a = b
    <3>1. routes'[a] > 0
      BY <1>6, <2>1 DEF RouteMarks, TypeOK
    <3> QED BY <3>1 DEF Covered, Deciding
  <2>2. CASE a # b
    <3>1. MarkStays(a) /\ dbFaults = 0 /\ routes'[a] = routes[a]
      BY <1>6, <2>2 DEF RouteMarks, MarkStays, Reachable, TypeOK
    <3> QED BY <1>6, <1>c, <1>s, <3>1 DEF RouteMarks
  <2> QED BY <2>1, <2>2
<1>7. ASSUME NEW b \in Agent, RouteReturns(b) PROVE Covered(a)'
  <2>1. MarkStays(a) /\ dbFaults = 0
    BY <1>7, <1>d DEF RouteReturns, MarkStays, Reachable
  <2>2. CASE a = b
    <3>1. PICK n \in 1..MaxOwed : SendUpdate(a, n)
      BY <1>7, <1>d, <2>2 DEF RouteReturns, MarkStays
    <3> QED BY <2>1, <3>1, <1>w DEF MarkStays, Covered
  <2>3. CASE a # b
    <3>1. owed'[a] = owed[a]
      BY <1>7, <1>d, <2>3, <1>w DEF RouteReturns
    <3>2. routes'[a] = routes[a] /\ UNCHANGED <<connections, queue, pc>>
      BY <1>7, <2>3 DEF RouteReturns, TypeOK
    <3> QED BY <1>c, <1>s, <2>1, <3>1, <3>2
  <2> QED BY <2>2, <2>3
<1>8. ASSUME NEW b \in Agent, Sweep(b) PROVE Covered(a)'
  <2>1. a # b
    BY <1>8 DEF Sweep, MarkStays, Reachable, TypeOK
  <2>2. connections'[a] = connections[a]
    BY <1>8, <2>1 DEF Sweep, TypeOK
  <2>3. MarkStays(a) /\ dbFaults = 0
    BY <1>8, <1>o, <2>2 DEF Sweep, MarkStays, Reachable
  <2> QED BY <1>8, <1>c, <1>s, <2>2, <2>3 DEF Sweep
<1>9. CASE UNCHANGED vars
  <2>1. MarkStays(a) /\ dbFaults = 0
    BY <1>9 DEF vars, MarkStays, Reachable
  <2> QED BY <1>9, <1>c, <1>s, <2>1 DEF vars
<1> QED BY <1>h, <1>1, <1>2, <1>3, <1>4, <1>5, <1>6, <1>7, <1>8, <1>9 DEF Next

-----------------------------------------------------------------------------
(* Theorems.                                                               *)

\* The inductive invariant of the hub: types, order and marks.
THEOREM HubInvariant == Spec => []IInv
<1>1. Init => IInv
  <2> SUFFICES ASSUME Init PROVE IInv
    OBVIOUS
  <2>1. \A q \in Queue : queue[q] = <<>> /\ Len(queue[q]) = 0
    BY DEF Init
  <2>2. TypeOK
    BY <2>1, HubAssumption DEF Init, TypeOK, Step
  <2>3. Ordered
    BY <2>1 DEF Init, Ordered, ConnectionsKnown, QueuesSorted, InOrder, Queue
  <2>4. MarkNotLeftOver
    BY DEF Init, MarkNotLeftOver, MarkStays
  <2> QED BY <2>2, <2>3, <2>4 DEF IInv
<1>2. IInv /\ [Next]_vars => IInv'
  BY HubTypeStep, HubOrderStep, HubMarkStep DEF IInv
<1> QED BY <1>1, <1>2, PTL DEF Spec

\* The hub's state stays well formed for any agents, sockets, chains and bounds.
THEOREM TypeCorrect == Spec => []TypeOK
<1>1. IInv => TypeOK
  BY DEF IInv
<1> QED BY <1>1, HubInvariant, PTL

\* The messages of the socket an agent is connected by are never in two of its chains.
THEOREM ConnectionsStayInOrder == Spec => []CurrentConnectionInOrder
<1>1. IInv => CurrentConnectionInOrder
  BY DEF IInv, Ordered, InOrder, CurrentConnectionInOrder, Queued
<1> QED BY <1>1, HubInvariant, PTL

\* While the database answers, the mark of an update of a connected agent is always
\* about to be cleared.
THEOREM MarksAreCleared == Spec => []MarkNotLeftOver
<1>1. IInv => MarkNotLeftOver
  BY DEF IInv
<1> QED BY <1>1, HubInvariant, PTL

=============================================================================

----------------------------- MODULE PruneProofs -----------------------------
(* Requests, marks and runs of the prune service stay paired, whatever agents, *)
(* runs, requests and queue lengths there are.                              *)
EXTENDS PruneService, TLAPS

\* A prune under way was sent to an agent.
Addressed ==
  \A r \in PruneRequest : request[r].state # "free" => request[r].agent \in Agent

\* A run that waits is at an agent of the list.
WaitsInList == \A i \in RunId : runs[i].pc = "waiting" => runs[i].index <= Len(Agents)

\* Agents that echo ids queue no answer without one.
EchoesIds == \A a \in Agent \ Legacy : \A k \in 1..Len(outbox[a]) : outbox[a][k] # None

Paired == Addressed /\ WaitsInList /\ MarkedByOnePrune /\ RunAwaitsItsRequest
IInv == PruneTypeOK /\ Paired /\ EchoesIds /\ OutcomeOfOwnRequest

-----------------------------------------------------------------------------
(* Queues.                                                                  *)

LEMMA AgentsListed == \A n \in 1..Len(Agents) : Agents[n] \in Agent
  BY DEF Agent

\* Send appends to the queue of the agent, or drops.
LEMMA QueueTyped ==
  ASSUME PruneTypeOK, NEW a \in Agent, NEW m \in AnyId, Queue(a, m)
  PROVE  /\ outbox' \in [Agent -> Seq(AnyId)]
         /\ EchoesIds /\ (a \in Legacy \/ m # None) => EchoesIds'
<1>1. outbox \in [Agent -> Seq(AnyId)]
  BY DEF PruneTypeOK
<1>2. CASE Len(outbox[a]) < MaxOutbox
  <2>1. outbox' = [outbox EXCEPT ![a] = Append(outbox[a], m)]
    BY <1>1, <1>2 DEF Queue
  <2>2. outbox[a] \in Seq(AnyId) /\ Append(outbox[a], m) \in Seq(AnyId)
    BY <1>1
  <2>3. \A k \in 1..Len(Append(outbox[a], m)) :
          \/ k \in 1..Len(outbox[a]) /\ Append(outbox[a], m)[k] = outbox[a][k]
          \/ Append(outbox[a], m)[k] = m
    BY <2>2
  <2>4. outbox'[a] = Append(outbox[a], m) /\ \A b \in Agent : b # a => outbox'[b] = outbox[b]
    BY <1>1, <2>1
  <2>5. ASSUME EchoesIds, a \in Legacy \/ m # None
        PROVE  EchoesIds'
    BY <2>3, <2>4, <2>5 DEF EchoesIds
  <2> QED BY <1>1, <2>1, <2>2, <2>5
<1>3. CASE ~(Len(outbox[a]) < MaxOutbox)
  <2>1. outbox' = outbox
    BY <1>3 DEF Queue
  <2> QED BY <1>1, <2>1 DEF EchoesIds
<1> QED BY <1>2, <1>3

\* The first answer of a queue goes.
LEMMA DeliveredTyped ==
  ASSUME PruneTypeOK, NEW a \in Agent, outbox[a] # <<>>, Delivered(a)
  PROVE  /\ outbox' \in [Agent -> Seq(AnyId)]
         /\ EchoesIds => EchoesIds'
         /\ Head(outbox[a]) \in AnyId
         /\ EchoesIds /\ a \notin Legacy => Head(outbox[a]) # None
<1>1. outbox \in [Agent -> Seq(AnyId)] /\ outbox[a] \in Seq(AnyId)
  BY DEF PruneTypeOK
<1>2. outbox' = [outbox EXCEPT ![a] = Tail(outbox[a])]
  BY <1>1 DEF Delivered
<1>3. /\ Tail(outbox[a]) \in Seq(AnyId)
      /\ Head(outbox[a]) \in AnyId
      /\ 1 \in 1..Len(outbox[a]) /\ Head(outbox[a]) = outbox[a][1]
  BY <1>1
<1>4. \A k \in 1..Len(Tail(outbox[a])) :
        k + 1 \in 1..Len(outbox[a]) /\ Tail(outbox[a])[k] = outbox[a][k + 1]
  BY <1>1
<1>5. outbox'[a] = Tail(outbox[a]) /\ \A b \in Agent : b # a => outbox'[b] = outbox[b]
  BY <1>1, <1>2
<1>6. EchoesIds => EchoesIds'
  <2>1. SUFFICES ASSUME EchoesIds, NEW b \in Agent \ Legacy PROVE \A k \in 1..Len(outbox'[b]) : outbox'[b][k] # None
    BY DEF EchoesIds
  <2>2. CASE b = a
    <3>1. \A k \in 1..Len(outbox[a]) : outbox[a][k] # None
      BY <2>1, <2>2 DEF EchoesIds
    <3> QED BY <1>4, <1>5, <2>2, <3>1
  <2>3. CASE b # a
    BY <1>5, <2>1, <2>3 DEF EchoesIds
  <2> QED BY <2>2, <2>3
<1>7. EchoesIds /\ a \notin Legacy => Head(outbox[a]) # None
  BY <1>3 DEF EchoesIds
<1> QED BY <1>1, <1>2, <1>3, <1>6, <1>7

\* What is under way for a request that is over stays where it is, for nobody.
LEMMA ForgetTyped ==
  ASSUME PruneTypeOK, NEW r \in Request, Forget(r)
  PROVE  /\ commands' \in [Agent -> SUBSET (Request \cup {Stale})]
         /\ pruning' \in [Agent -> PruneRequest \cup {Stale, None}]
         /\ outbox' \in [Agent -> Seq(AnyId)]
         /\ EchoesIds => EchoesIds'
<1> DEFINE Left(a) == [k \in 1..Len(outbox[a]) |->
             IF outbox[a][k] = r THEN Stale ELSE outbox[a][k]]
<1>1. commands' \in [Agent -> SUBSET (Request \cup {Stale})]
  BY DEF PruneTypeOK, Forget
<1>2. pruning' \in [Agent -> PruneRequest \cup {Stale, None}]
  BY DEF PruneTypeOK, Forget
<1>3. outbox' = [a \in Agent |-> Left(a)]
  BY DEF Forget
<1>4. ASSUME NEW a \in Agent
      PROVE  /\ Left(a) \in Seq(AnyId)
             /\ Len(Left(a)) = Len(outbox[a])
             /\ \A k \in 1..Len(outbox[a]) : Left(a)[k] \in {Stale, outbox[a][k]}
  <2>1. outbox[a] \in Seq(AnyId) /\ Len(outbox[a]) \in Nat
    BY DEF PruneTypeOK
  <2>2. \A k \in 1..Len(outbox[a]) : outbox[a][k] \in AnyId /\ Stale \in AnyId
    BY <2>1 DEF AnyId
  <2>3. Left(a) \in [1..Len(outbox[a]) -> AnyId]
    BY <2>2
  <2>4. Left(a) \in Seq(AnyId) /\ Len(Left(a)) = Len(outbox[a])
    BY <2>1, <2>3
  <2>5. \A k \in 1..Len(outbox[a]) : Left(a)[k] \in {Stale, outbox[a][k]}
    OBVIOUS
  <2> QED BY <2>4, <2>5
<1>5. outbox' \in [Agent -> Seq(AnyId)]
  BY <1>3, <1>4
<1>6. EchoesIds => EchoesIds'
  BY <1>3, <1>4, PruneAssumption DEF EchoesIds
<1> QED BY <1>1, <1>2, <1>5, <1>6

-----------------------------------------------------------------------------
(* Types.                                                                   *)

Entry == [state : {"free", "pending", "resolved", "rejected"}, agent : Agent \cup {None},
          caller : RunId \cup {"user", None}, answer : AnyId]
Progress == [pc : {"free", "listing", "loop", "waiting", "complete"},
             index : 1..(Len(Agents) + 1), online : SUBSET Agent]

LEMMA ValuesTyped ==
  /\ Len(Agents) \in Nat
  /\ Free \in Entry
  /\ NoRun \in Progress
  /\ \A c \in SUBSET Agent : [pc |-> "loop", index |-> 1, online |-> c] \in Progress
<1>1. Len(Agents) \in Nat
  BY PruneAssumption
<1>2. Free \in Entry
  BY DEF Free, Entry, AnyId
<1>3. NoRun \in Progress
  BY <1>1 DEF NoRun, Progress
<1>4. \A c \in SUBSET Agent : [pc |-> "loop", index |-> 1, online |-> c] \in Progress
  BY <1>1 DEF Progress
<1> QED BY <1>1, <1>2, <1>3, <1>4

LEMMA SendAndWaitTyped ==
  ASSUME PruneTypeOK, NEW r \in Request, NEW a \in Agent, NEW c \in RunId \cup {"user"},
         SendAndWait(r, a, c)
  PROVE  /\ request' \in [Request -> Entry]
         /\ commands' \in [Agent -> SUBSET (Request \cup {Stale})]
<1>1. PICK state \in {"rejected", "pending"} :
        /\ request' = [request EXCEPT ![r] =
             [state |-> state, agent |-> a, caller |-> c, answer |-> None]]
        /\ commands' = IF state = "pending" THEN [commands EXCEPT ![a] = @ \cup {r}] ELSE commands
  BY DEF SendAndWait
<1>2. [state |-> state, agent |-> a, caller |-> c, answer |-> None] \in Entry
  BY DEF Entry, AnyId
<1>3. request \in [Request -> Entry]
  BY DEF PruneTypeOK, Entry
<1>4. request' \in [Request -> Entry]
  BY <1>1, <1>2, <1>3
<1>5. commands' \in [Agent -> SUBSET (Request \cup {Stale})]
  BY <1>1 DEF PruneTypeOK
<1> QED BY <1>4, <1>5

LEMMA RejectTyped ==
  ASSUME PruneTypeOK, NEW rs, Reject(rs)
  PROVE  request' \in [Request -> Entry]
<1>1. request \in [Request -> Entry]
  BY DEF PruneTypeOK, Entry
<1>2. \A r \in Request : [request[r] EXCEPT !.state = "rejected"] \in Entry
  BY <1>1 DEF Entry
<1> QED BY <1>1, <1>2 DEF Reject

LEMMA HubTypeStep ==
  ASSUME IInv, NEW a \in Agent,
         AgentConnects(a) \/ AgentDisconnects(a) \/ SweepConnection(a) \/ HubTakesResult(a)
  PROVE  PruneTypeOK'
<1>0. PruneTypeOK /\ request \in [Request -> Entry]
  BY DEF IInv, PruneTypeOK, Entry
<1>1. ASSUME LoseCommands(a) PROVE commands' \in [Agent -> SUBSET (Request \cup {Stale})]
  BY <1>0, <1>1 DEF LoseCommands, PruneTypeOK
<1>3. CASE AgentConnects(a)
  BY <1>0, <1>1, <1>3 DEF AgentConnects, PruneTypeOK, serviceVars
<1>4. CASE AgentDisconnects(a)
  <2>1. request' \in [Request -> Entry] /\ commands' \in [Agent -> SUBSET (Request \cup {Stale})]
    BY <1>0, <1>1, <1>4, RejectTyped DEF AgentDisconnects
  <2> QED BY <1>0, <1>4, <2>1 DEF AgentDisconnects, PruneTypeOK, serviceVars, Entry
<1>5. CASE SweepConnection(a)
  BY <1>0, <1>1, <1>5 DEF SweepConnection, PruneTypeOK, serviceVars
<1>6. CASE HubTakesResult(a)
  <2>1. outbox' \in [Agent -> Seq(AnyId)] /\ Head(outbox[a]) \in AnyId
    BY <1>0, <1>6, DeliveredTyped DEF HubTakesResult
  <2>2. request' \in [Request -> Entry]
    <3>1. \A id \in Request :
            [request[id] EXCEPT !.state = "resolved", !.answer = Head(outbox[a])] \in Entry
      BY <1>0, <2>1 DEF Entry
    <3> QED BY <1>0, <1>6, <3>1 DEF HubTakesResult, Pending
  <2> QED BY <1>0, <1>6, <2>1, <2>2 DEF HubTakesResult, PruneTypeOK, serviceVars, Entry
<1> QED BY <1>3, <1>4, <1>5, <1>6

LEMMA TimeoutTypeStep ==
  ASSUME IInv, NEW r \in Request, RequestTimesOut(r)
  PROVE  PruneTypeOK'
<1>1. PruneTypeOK
  BY DEF IInv
<1>2. request' \in [Request -> Entry]
  BY <1>1, RejectTyped DEF RequestTimesOut
<1> QED BY <1>1, <1>2 DEF RequestTimesOut, PruneTypeOK, serviceVars, agentVars, Entry

LEMMA AgentTypeStep ==
  ASSUME IInv, NEW a \in Agent,
         AgentFinishes(a) \/ AgentLoses(a) \/ AgentRestarts(a)
           \/ \E r \in Request \cup {Stale} : AgentTakes(a, r)
  PROVE  PruneTypeOK'
<1>0. PruneTypeOK
  BY DEF IInv
<1>1. \A r \in AnyId : Result(a, r) \in AnyId
  BY DEF Result, AnyId
<1>2. CASE AgentFinishes(a)
  <2>1. pruning[a] \in AnyId
    BY <1>0 DEF PruneTypeOK, AnyId, Request
  <2>2. outbox' \in [Agent -> Seq(AnyId)]
    BY <1>0, <1>1, <1>2, <2>1, QueueTyped DEF AgentFinishes
  <2> QED BY <1>0, <1>2, <2>2 DEF AgentFinishes, PruneTypeOK, hubVars, serviceVars
<1>3. CASE AgentLoses(a)
  BY <1>0, <1>3, DeliveredTyped DEF AgentLoses, PruneTypeOK, hubVars, serviceVars
<1>4. CASE AgentRestarts(a)
  <2>1. <<>> \in Seq(AnyId)
    OBVIOUS
  <2> QED BY <1>0, <1>4, <2>1 DEF AgentRestarts, PruneTypeOK, hubVars, serviceVars
<1>5. ASSUME NEW r \in Request \cup {Stale}, AgentTakes(a, r) PROVE PruneTypeOK'
  <2>1. commands' \in [Agent -> SUBSET (Request \cup {Stale})]
    BY <1>0, <1>5 DEF AgentTakes, PruneTypeOK
  <2>2. outbox' \in [Agent -> Seq(AnyId)] /\ pruning' \in [Agent -> PruneRequest \cup {Stale, None}]
    <3>1. CASE r \notin Question /\ pruning[a] = None
      <4>1. r \in PruneRequest \cup {Stale}
        BY <3>1 DEF Request
      <4> QED BY <1>0, <1>5, <3>1, <4>1 DEF AgentTakes, PruneTypeOK
    <3>2. CASE ~(r \notin Question /\ pruning[a] = None)
      <4>1. Queue(a, Result(a, r)) /\ UNCHANGED pruning /\ r \in AnyId
        BY <1>5, <3>2 DEF AgentTakes, AnyId
      <4> QED BY <1>0, <1>1, <4>1, QueueTyped DEF PruneTypeOK
    <3> QED BY <3>1, <3>2
  <2> QED BY <1>0, <1>5, <2>1, <2>2 DEF AgentTakes, PruneTypeOK, hubVars, serviceVars
<1> QED BY <1>2, <1>3, <1>4, <1>5

\* The place a run that waits goes on from is one of the list's, or the end.
LEMMA ServiceTypeStep ==
  ASSUME IInv,
         \/ \E r \in Request : Answered(r) \/ Executed(r) \/ \E a \in Agent : StartPrune(r, a) \/ Ask(r, a)
         \/ \E i \in RunId : StartRun(i) \/ RunBegins(i) \/ RunAborts(i) \/ RunStep(i) \/ RunCompletes(i)
  PROVE  PruneTypeOK'
<1>0. PruneTypeOK /\ request \in [Request -> Entry] /\ runs \in [RunId -> Progress]
  BY DEF IInv, PruneTypeOK, Entry, Progress
<1>t. \A i \in RunId, p \in {"free", "listing", "loop", "waiting", "complete"} :
        [runs EXCEPT ![i].pc = p] \in [RunId -> Progress]
  BY <1>0 DEF Progress
<1>n. \A i \in RunId : runs[i].index <= Len(Agents) =>
        /\ [runs EXCEPT ![i].index = @ + 1] \in [RunId -> Progress]
        /\ [runs EXCEPT ![i].pc = "loop", ![i].index = @ + 1] \in [RunId -> Progress]
  <2> SUFFICES ASSUME NEW i \in RunId, runs[i].index <= Len(Agents)
               PROVE  /\ [runs EXCEPT ![i].index = @ + 1] \in [RunId -> Progress]
                      /\ [runs EXCEPT ![i].pc = "loop", ![i].index = @ + 1] \in [RunId -> Progress]
    OBVIOUS
  <2>1. runs[i].index + 1 \in 1..(Len(Agents) + 1)
    BY <1>0, ValuesTyped DEF Progress
  <2>2. /\ [runs[i] EXCEPT !.index = runs[i].index + 1] \in Progress
        /\ [runs[i] EXCEPT !.pc = "loop", !.index = runs[i].index + 1] \in Progress
    BY <1>0, <2>1 DEF Progress
  <2> QED BY <1>0, <2>2
<1>f. ASSUME NEW r \in Request, Forget(r) PROVE request' \in [Request -> Entry]
  BY <1>0, <1>f, ValuesTyped DEF Forget
<1>1. ASSUME NEW r \in Request, Answered(r) PROVE PruneTypeOK'
  <2>1. Forget(r) /\ UNCHANGED <<connections, serviceVars>>
    BY <1>1 DEF Answered
  <2>2. request' \in [Request -> Entry]
    BY <1>f, <2>1
  <2> QED BY <1>0, <2>1, <2>2, ForgetTyped DEF PruneTypeOK, serviceVars, Entry
<1>2. ASSUME NEW r \in Request, Executed(r) PROVE PruneTypeOK'
  <2>1. Forget(r) /\ UNCHANGED <<connections, run>> /\ r \in PruneRequest /\ request[r].state # "free"
    BY <1>2 DEF Executed, Settled
  <2>2. request' \in [Request -> Entry]
    BY <1>f, <2>1
  <2>3. active' \in SUBSET Agent /\ legacyPrunes' \in [Agent -> PruneRequest \cup {None}]
    BY <1>0, <1>2 DEF Executed, PruneTypeOK
  <2>4. runs' \in [RunId -> Progress]
    <3>1. CASE request[r].caller \notin RunId
      BY <1>0, <1>2, <3>1 DEF Executed
    <3>2. CASE request[r].caller \in RunId
      <4> DEFINE i == request[r].caller
      <4>1. r \in AskedBy(i)
        BY <2>1 DEF AskedBy
      <4>2. runs[i].pc = "waiting"
        BY <3>2, <4>1 DEF IInv, Paired, RunAwaitsItsRequest
      <4>3. runs[i].index <= Len(Agents)
        BY <3>2, <4>2 DEF IInv, Paired, WaitsInList
      <4> QED BY <1>2, <1>n, <3>2, <4>3 DEF Executed
    <3> QED BY <3>1, <3>2
  <2> QED BY <1>0, <2>1, <2>2, <2>3, <2>4, ForgetTyped DEF PruneTypeOK, Entry, Progress
<1>3. ASSUME NEW r \in Request, NEW a \in Agent, NEW c \in RunId \cup {"user"}, Execute(r, a, c)
      PROVE  /\ request' \in [Request -> Entry]
             /\ commands' \in [Agent -> SUBSET (Request \cup {Stale})]
             /\ active' \in SUBSET Agent /\ legacyPrunes' \in [Agent -> PruneRequest \cup {None}]
             /\ UNCHANGED <<connections, pruning, outbox>>
  <2>1. SendAndWait(r, a, c)
    BY <1>3 DEF Execute
  <2>2. active' \in SUBSET Agent /\ legacyPrunes' \in [Agent -> PruneRequest \cup {None}]
    BY <1>0, <1>3 DEF Execute, PruneTypeOK
  <2> QED BY <1>0, <2>1, <2>2, SendAndWaitTyped DEF SendAndWait
<1>4. ASSUME NEW r \in Request, NEW a \in Agent, StartPrune(r, a) PROVE PruneTypeOK'
  <2>1. Execute(r, a, "user") /\ UNCHANGED <<runs, run>>
    BY <1>4 DEF StartPrune
  <2> QED BY <1>0, <1>3, <2>1 DEF PruneTypeOK, Entry
<1>5. ASSUME NEW r \in Request, NEW a \in Agent, Ask(r, a) PROVE PruneTypeOK'
  <2>1. SendAndWait(r, a, "user") /\ UNCHANGED serviceVars
    BY <1>5 DEF Ask
  <2> QED BY <1>0, <2>1, SendAndWaitTyped DEF PruneTypeOK, Entry, SendAndWait, serviceVars
<1>6. ASSUME NEW i \in RunId, StartRun(i) PROVE PruneTypeOK'
  BY <1>0, <1>6, <1>t DEF StartRun, PruneTypeOK, hubVars, agentVars, Progress
<1>7. ASSUME NEW i \in RunId, RunBegins(i) PROVE PruneTypeOK'
  <2>1. [pc |-> "loop", index |-> 1, online |-> connections] \in Progress /\ NoRun \in Progress
    BY <1>0, ValuesTyped DEF PruneTypeOK
  <2>2. runs' \in [RunId -> Progress] /\ run' \in RunId
    BY <1>0, <1>7, <2>1 DEF RunBegins
  <2> QED BY <1>0, <1>7, <2>2 DEF RunBegins, PruneTypeOK, hubVars, agentVars, Progress
<1>8. ASSUME NEW i \in RunId, RunAborts(i) PROVE PruneTypeOK'
  <2>1. runs' \in [RunId -> Progress]
    BY <1>0, <1>8, ValuesTyped DEF RunAborts
  <2> QED BY <1>0, <1>8, <2>1 DEF RunAborts, PruneTypeOK, hubVars, agentVars, Progress
<1>9. ASSUME NEW i \in RunId, RunStep(i) PROVE PruneTypeOK'
  <2>1. runs[i].index \in 1..Len(Agents) /\ Current(i) \in Agent
    BY <1>0, <1>9, ValuesTyped, AgentsListed DEF RunStep, Current, Progress
  <2>2. CASE SkipsAgent(i)
    <3>1. runs' \in [RunId -> Progress]
      BY <1>9, <1>n, <2>1, <2>2, ValuesTyped DEF RunStep, Next_
    <3> QED BY <1>0, <1>9, <2>2, <3>1 DEF RunStep, PruneTypeOK, hubVars, agentVars, Progress
  <2>3. CASE ~SkipsAgent(i)
    <3>1. PICK r \in PruneRequest : Execute(r, Current(i), i)
      BY <1>9, <2>3 DEF RunStep
    <3>2. runs' \in [RunId -> Progress] /\ UNCHANGED run
      BY <1>9, <1>t, <2>3 DEF RunStep
    <3>3. r \in Request
      BY DEF Request
    <3> QED BY <1>0, <1>3, <2>1, <3>1, <3>2, <3>3 DEF PruneTypeOK, Entry, Progress
  <2> QED BY <2>2, <2>3
<1>10. ASSUME NEW i \in RunId, RunCompletes(i) PROVE PruneTypeOK'
  <2>1. [NoRun EXCEPT !.pc = "complete"] \in Progress
    BY ValuesTyped DEF Progress
  <2>2. runs' \in [RunId -> Progress]
    BY <1>0, <1>10, <2>1, ValuesTyped DEF RunCompletes
  <2> QED BY <1>0, <1>10, <2>2 DEF RunCompletes, PruneTypeOK, hubVars, agentVars, Progress
<1> QED BY <1>1, <1>2, <1>4, <1>5, <1>6, <1>7, <1>8, <1>9, <1>10

-----------------------------------------------------------------------------
(* Pairs of marks and prunes, of runs and prunes.                           *)

\* Whose prunes are under way, and which runs wait where.
SamePrunes ==
  \A r \in PruneRequest :
    /\ request'[r].agent = request[r].agent /\ request'[r].caller = request[r].caller
    /\ request'[r].state = "free" <=> request[r].state = "free"
SameWaits ==
  \A i \in RunId :
    /\ runs'[i].pc = "waiting" <=> runs[i].pc = "waiting"
    /\ runs[i].pc = "waiting" => runs'[i].index = runs[i].index

LEMMA PairsStay ==
  ASSUME Paired, SamePrunes, SameWaits, UNCHANGED <<active, legacyPrunes>>
  PROVE  Paired'
<1>1. \A a : PrunesOf(a)' = PrunesOf(a)
  BY DEF SamePrunes, PrunesOf
<1>2. \A i : AskedBy(i)' = AskedBy(i)
  BY DEF SamePrunes, AskedBy
<1>3. Addressed'
  BY DEF Paired, Addressed, SamePrunes
<1>4. WaitsInList'
  BY DEF Paired, WaitsInList, SameWaits
<1>5. MarkedByOnePrune'
  BY <1>1 DEF Paired, MarkedByOnePrune
<1>6. RunAwaitsItsRequest'
  <2> SUFFICES ASSUME NEW i \in RunId
               PROVE  IF runs'[i].pc = "waiting"
                      THEN \E r \in PruneRequest : AskedBy(i)' = {r} /\ request'[r].agent = Current(i)'
                      ELSE AskedBy(i)' = {}
    BY DEF RunAwaitsItsRequest
  <2>1. CASE runs[i].pc = "waiting"
    <3>1. PICK r \in PruneRequest : AskedBy(i) = {r} /\ request[r].agent = Current(i)
      BY <2>1 DEF Paired, RunAwaitsItsRequest
    <3>2. Current(i)' = Current(i)
      BY <2>1 DEF SameWaits, Current
    <3> QED BY <1>2, <2>1, <3>1, <3>2 DEF SamePrunes, SameWaits
  <2>2. CASE runs[i].pc # "waiting"
    BY <1>2, <2>2 DEF Paired, RunAwaitsItsRequest, SameWaits
  <2> QED BY <2>1, <2>2
<1> QED BY <1>3, <1>4, <1>5, <1>6 DEF Paired

\* A request that only comes or goes between pending and settled is the same prune.
LEMMA SettlingKeepsPrunes ==
  ASSUME PruneTypeOK, NEW rs \in SUBSET Pending, Reject(rs)
  PROVE  SamePrunes
<1>1. ASSUME NEW r \in Request, r \in rs
      PROVE  /\ request'[r] = [request[r] EXCEPT !.state = "rejected"]
             /\ request[r].state = "pending"
  BY <1>1 DEF Reject, Pending
<1>2. \A r \in Request : request[r] \in Entry
  BY DEF PruneTypeOK, Entry
<1>3. \A r \in Request : r \notin rs => request'[r] = request[r]
  BY DEF Reject
<1>4. \A r \in rs : r \in Request
  BY DEF Pending
<1>5. ASSUME NEW r \in Request
      PROVE  /\ request'[r].agent = request[r].agent /\ request'[r].caller = request[r].caller
             /\ request'[r].state = "free" <=> request[r].state = "free"
  <2>1. CASE r \in rs
    BY <1>1, <1>2, <2>1 DEF Entry
  <2>2. CASE r \notin rs
    BY <1>3, <2>2
  <2> QED BY <2>1, <2>2
<1> QED BY <1>5 DEF SamePrunes, Request

\* A prune begins on an agent that had none.
LEMMA PruneBegins ==
  ASSUME IInv, NEW r \in PruneRequest, NEW a \in Agent, a \notin active,
         NEW c \in RunId \cup {"user"}, Execute(r, a, c)
  PROVE  /\ MarkedByOnePrune' /\ Addressed'
         /\ request'[r].agent = a
         /\ AskedBy(c)' = AskedBy(c) \cup {r}
         /\ \A i : i # c => AskedBy(i)' = AskedBy(i)
         /\ \A p \in PruneRequest : p # r => request'[p] = request[p]
         /\ request[r].state = "free"
<1>0. r \in Request /\ PruneTypeOK /\ Paired /\ request \in [Request -> Entry]
  BY DEF IInv, Request, PruneTypeOK, Entry
<1>1. /\ request[r].state = "free"
      /\ request'[r].agent = a /\ request'[r].caller = c /\ request'[r].state # "free"
      /\ \A p \in Request : p # r => request'[p] = request[p]
  BY <1>0 DEF Execute, SendAndWait, Free
<1>2. /\ PrunesOf(a)' = PrunesOf(a) \cup {r}
      /\ \A b : b # a => PrunesOf(b)' = PrunesOf(b)
  BY <1>1 DEF PrunesOf, Request
<1>3. legacyPrunes[a] = None /\ PrunesOf(a) = {}
  BY <1>0 DEF Paired, MarkedByOnePrune
<1>4. /\ active' = active \cup {a}
      /\ legacyPrunes'[a] = r /\ \A b \in Agent : b # a => legacyPrunes'[b] = legacyPrunes[b]
  BY <1>0 DEF Execute, PruneTypeOK
<1>5. r # None
  BY PruneAssumption DEF Request
<1>6. MarkedByOnePrune'
  <2>1. PrunesOf(a)' = {r} /\ (a \in active' <=> legacyPrunes'[a] # None)
    BY <1>2, <1>3, <1>4, <1>5
  <2>2. \A b \in Agent : b # a =>
          /\ PrunesOf(b)' = {legacyPrunes'[b]} \ {None}
          /\ b \in active' <=> legacyPrunes'[b] # None
    BY <1>0, <1>2, <1>4 DEF Paired, MarkedByOnePrune
  <2> QED BY <1>4, <1>5, <2>1, <2>2 DEF MarkedByOnePrune
<1>7. Addressed'
  BY <1>0, <1>1 DEF Paired, Addressed, Request
<1>8. AskedBy(c)' = AskedBy(c) \cup {r} /\ \A i : i # c => AskedBy(i)' = AskedBy(i)
  BY <1>1 DEF AskedBy, Request
<1> QED BY <1>1, <1>6, <1>7, <1>8 DEF Request

\* The rest of execute takes mark and prune away together, and a run goes on.
LEMMA PruneEnds ==
  ASSUME IInv, NEW r \in PruneRequest, Executed(r)
  PROVE  Paired'
<1>0. r \in Request /\ PruneTypeOK /\ Paired /\ request \in [Request -> Entry] /\ runs \in [RunId -> Progress]
  BY DEF IInv, Request, PruneTypeOK, Entry, Progress
<1>a. request[r].state # "free" /\ request[r].agent \in Agent
  BY <1>0 DEF Executed, Settled, Paired, Addressed
<1>b. PICK a \in Agent : request[r].agent = a
  BY <1>a
<1>c. PICK c : request[r].caller = c
  OBVIOUS
<1>1. request[r].state # "free" /\ a \in Agent /\ request[r].agent = a /\ request[r].caller = c
  BY <1>a, <1>b, <1>c
<1>2. request' = [request EXCEPT ![r] = Free]
  BY DEF Executed, Forget
<1>3. request'[r].state = "free" /\ \A p \in PruneRequest : p # r => request'[p] = request[p]
  BY <1>0, <1>2 DEF Free, Request
<1>4. PrunesOf(a)' = PrunesOf(a) \ {r} /\ \A b : b # a => PrunesOf(b)' = PrunesOf(b)
  BY <1>1, <1>3 DEF PrunesOf
<1>5. r \in PrunesOf(a)
  BY <1>1 DEF PrunesOf
<1>6. PrunesOf(a) = {r}
  BY <1>0, <1>1, <1>5 DEF Paired, MarkedByOnePrune
<1>7. /\ active' = active \ {a}
      /\ legacyPrunes'[a] = None /\ \A b \in Agent : b # a => legacyPrunes'[b] = legacyPrunes[b]
  BY <1>0, <1>1 DEF Executed, PruneTypeOK
<1>8. MarkedByOnePrune'
  <2>1. PrunesOf(a)' = {} /\ a \notin active'
    BY <1>4, <1>6, <1>7
  <2>2. \A b \in Agent : b # a =>
          /\ PrunesOf(b)' = {legacyPrunes'[b]} \ {None}
          /\ b \in active' <=> legacyPrunes'[b] # None
    BY <1>0, <1>4, <1>7 DEF Paired, MarkedByOnePrune
  <2> QED BY <1>7, <2>1, <2>2 DEF MarkedByOnePrune
<1>9. Addressed'
  BY <1>0, <1>3 DEF Paired, Addressed
<1>10. AskedBy(c)' = AskedBy(c) \ {r} /\ \A i : i # c => AskedBy(i)' = AskedBy(i)
  BY <1>1, <1>3 DEF AskedBy
<1>11. \A i \in RunId : i # c => runs'[i] = runs[i]
  BY <1>0, <1>1 DEF Executed
<1>12. c \in RunId => runs'[c].pc = "loop" /\ AskedBy(c) = {r}
  <2> SUFFICES ASSUME c \in RunId PROVE runs'[c].pc = "loop" /\ AskedBy(c) = {r}
    OBVIOUS
  <2>1. r \in AskedBy(c)
    BY <1>1 DEF AskedBy
  <2>2. AskedBy(c) = {r}
    BY <1>0, <2>1 DEF Paired, RunAwaitsItsRequest
  <2>3. runs'[c].pc = "loop"
    BY <1>0, <1>1 DEF Executed, Progress
  <2> QED BY <2>2, <2>3
<1>13. WaitsInList'
  BY <1>0, <1>11, <1>12 DEF Paired, WaitsInList
<1>14. RunAwaitsItsRequest'
  <2> SUFFICES ASSUME NEW i \in RunId
               PROVE  IF runs'[i].pc = "waiting"
                      THEN \E p \in PruneRequest : AskedBy(i)' = {p} /\ request'[p].agent = Current(i)'
                      ELSE AskedBy(i)' = {}
    BY DEF RunAwaitsItsRequest
  <2>1. CASE i = c
    BY <1>10, <1>12, <2>1
  <2>2. CASE i # c
    <3>1. runs'[i] = runs[i] /\ AskedBy(i)' = AskedBy(i) /\ Current(i)' = Current(i)
      BY <1>10, <1>11, <2>2 DEF Current
    <3>2. r \notin AskedBy(i)
      BY <1>1, <2>2 DEF AskedBy
    <3>3. CASE runs[i].pc = "waiting"
      <4>1. PICK p \in PruneRequest : AskedBy(i) = {p} /\ request[p].agent = Current(i)
        BY <1>0, <3>3 DEF Paired, RunAwaitsItsRequest
      <4> QED BY <1>3, <3>1, <3>2, <3>3, <4>1
    <3>4. CASE runs[i].pc # "waiting"
      BY <1>0, <3>1, <3>4 DEF Paired, RunAwaitsItsRequest
    <3> QED BY <3>3, <3>4
  <2> QED BY <2>1, <2>2
<1> QED BY <1>8, <1>9, <1>13, <1>14 DEF Paired

LEMMA RunPairStep ==
  ASSUME IInv, NEW i \in RunId,
         StartRun(i) \/ RunBegins(i) \/ RunAborts(i) \/ RunStep(i) \/ RunCompletes(i)
  PROVE  Paired'
<1>0. PruneTypeOK /\ Paired /\ runs \in [RunId -> Progress]
  BY DEF IInv, PruneTypeOK, Progress
<1>s. ASSUME UNCHANGED request PROVE SamePrunes
  BY <1>s DEF SamePrunes
<1>1. CASE StartRun(i)
  <2>1. SameWaits
    BY <1>0, <1>1 DEF StartRun, SameWaits, NoRun, Progress
  <2> QED BY <1>0, <1>1, <1>s, <2>1, PairsStay DEF StartRun, hubVars
<1>2. CASE RunBegins(i)
  <2>1. SameWaits
    BY <1>0, <1>2 DEF RunBegins, SameWaits, NoRun
  <2> QED BY <1>0, <1>2, <1>s, <2>1, PairsStay DEF RunBegins, hubVars
<1>3. CASE RunAborts(i)
  <2>1. SameWaits
    BY <1>0, <1>3 DEF RunAborts, SameWaits, NoRun
  <2> QED BY <1>0, <1>3, <1>s, <2>1, PairsStay DEF RunAborts, hubVars
<1>4. CASE RunCompletes(i)
  <2>1. [NoRun EXCEPT !.pc = "complete"].pc = "complete" /\ NoRun.pc = "free"
    BY DEF NoRun
  <2>2. SameWaits
    BY <1>0, <1>4, <2>1 DEF RunCompletes, SameWaits
  <2> QED BY <1>0, <1>4, <1>s, <2>2, PairsStay DEF RunCompletes, hubVars
<1>5. CASE RunStep(i) /\ SkipsAgent(i)
  <2>1. /\ runs[i].pc = "loop" /\ runs' = [runs EXCEPT ![i].index = @ + 1]
        /\ UNCHANGED <<request, active, legacyPrunes>>
    BY <1>5 DEF RunStep, Next_, hubVars
  <2>2. SameWaits
    BY <1>0, <2>1 DEF SameWaits, Progress
  <2> QED BY <1>0, <1>s, <2>1, <2>2, PairsStay
<1>6. CASE RunStep(i) /\ ~SkipsAgent(i)
  <2>1. /\ runs[i].pc = "loop" /\ runs[i].index <= Len(Agents)
        /\ Current(i) \notin active
        /\ runs' = [runs EXCEPT ![i].pc = "waiting"]
    BY <1>6 DEF RunStep, SkipsAgent
  <2>2. PICK a \in Agent : Current(i) = a
    BY <1>0, <2>1, ValuesTyped, AgentsListed DEF Current, Progress
  <2>3. PICK r \in PruneRequest : Execute(r, a, i)
    BY <1>6, <2>2 DEF RunStep
  <2>4. /\ MarkedByOnePrune' /\ Addressed'
        /\ request'[r].agent = a
        /\ AskedBy(i)' = AskedBy(i) \cup {r}
        /\ \A j : j # i => AskedBy(j)' = AskedBy(j)
        /\ \A p \in PruneRequest : p # r => request'[p] = request[p]
        /\ request[r].state = "free"
    BY <2>1, <2>2, <2>3, PruneBegins
  <2>5. /\ runs'[i].pc = "waiting" /\ runs'[i].index = runs[i].index
        /\ \A j \in RunId : j # i => runs'[j] = runs[j]
    BY <1>0, <2>1 DEF Progress
  <2>6. WaitsInList'
    BY <1>0, <2>1, <2>5 DEF Paired, WaitsInList
  <2>7. AskedBy(i)' = {r} /\ Current(i)' = a
    BY <1>0, <2>1, <2>2, <2>4, <2>5 DEF Paired, RunAwaitsItsRequest, Current
  <2>8. ASSUME NEW j \in RunId, j # i
        PROVE  IF runs'[j].pc = "waiting"
               THEN \E p \in PruneRequest : AskedBy(j)' = {p} /\ request'[p].agent = Current(j)'
               ELSE AskedBy(j)' = {}
    <3>1. runs'[j] = runs[j] /\ AskedBy(j)' = AskedBy(j) /\ Current(j)' = Current(j)
      BY <2>4, <2>5, <2>8 DEF Current
    <3>2. r \notin AskedBy(j)
      BY <2>4 DEF AskedBy
    <3>3. CASE runs[j].pc = "waiting"
      <4>1. PICK p \in PruneRequest : AskedBy(j) = {p} /\ request[p].agent = Current(j)
        BY <1>0, <3>3 DEF Paired, RunAwaitsItsRequest
      <4> QED BY <2>4, <3>1, <3>2, <3>3, <4>1
    <3>4. CASE runs[j].pc # "waiting"
      BY <1>0, <3>1, <3>4 DEF Paired, RunAwaitsItsRequest
    <3> QED BY <3>3, <3>4
  <2>9. RunAwaitsItsRequest'
    BY <2>4, <2>5, <2>7, <2>8 DEF RunAwaitsItsRequest
  <2> QED BY <2>4, <2>6, <2>9 DEF Paired
<1> QED BY <1>1, <1>2, <1>3, <1>4, <1>5, <1>6

LEMMA PairStep == IInv /\ [PruneNext]_pruneVars => Paired'
<1> SUFFICES ASSUME IInv, [PruneNext]_pruneVars PROVE Paired'
  OBVIOUS
<1>0. PruneTypeOK /\ Paired
  BY DEF IInv
<1>w. ASSUME UNCHANGED serviceVars PROVE SameWaits /\ UNCHANGED <<active, legacyPrunes>>
  BY <1>w DEF serviceVars, SameWaits
<1>s. ASSUME UNCHANGED request PROVE SamePrunes
  BY <1>s DEF SamePrunes
<1>1. CASE \E i \in RunId : StartRun(i) \/ RunBegins(i) \/ RunAborts(i) \/ RunStep(i) \/ RunCompletes(i)
  BY <1>1, RunPairStep
<1>2. ASSUME NEW r \in Request, Executed(r) PROVE Paired'
  BY <1>2, PruneEnds DEF Executed
<1>3. ASSUME NEW r \in Request, Answered(r) PROVE Paired'
  <2>1. r \notin PruneRequest
    BY <1>3, PruneAssumption DEF Answered
  <2>2. SamePrunes
    BY <1>3, <2>1 DEF Answered, Forget, SamePrunes, Request
  <2> QED BY <1>0, <1>3, <1>w, <2>2, PairsStay DEF Answered
<1>4. ASSUME NEW a \in Agent,
             AgentConnects(a) \/ SweepConnection(a) \/ AgentFinishes(a) \/ AgentLoses(a)
               \/ AgentRestarts(a) \/ \E r \in Request \cup {Stale} : AgentTakes(a, r)
      PROVE  Paired'
  <2>1. UNCHANGED <<request, serviceVars>>
    BY <1>4 DEF AgentConnects, SweepConnection, AgentFinishes, AgentLoses, AgentRestarts, AgentTakes, hubVars
  <2> QED BY <1>0, <1>s, <1>w, <2>1, PairsStay
<1>5. ASSUME NEW a \in Agent, AgentDisconnects(a) PROVE Paired'
  <2>1. SamePrunes
    BY <1>0, <1>5, SettlingKeepsPrunes DEF AgentDisconnects
  <2> QED BY <1>0, <1>5, <1>w, <2>1, PairsStay DEF AgentDisconnects
<1>6. ASSUME NEW r \in Request, RequestTimesOut(r) PROVE Paired'
  <2>1. {r} \in SUBSET Pending
    BY <1>6 DEF RequestTimesOut
  <2>2. SamePrunes
    BY <1>0, <1>6, <2>1, SettlingKeepsPrunes DEF RequestTimesOut
  <2> QED BY <1>0, <1>6, <1>w, <2>2, PairsStay DEF RequestTimesOut
<1>7. ASSUME NEW a \in Agent, HubTakesResult(a) PROVE Paired'
  <2>1. SamePrunes
    <3> DEFINE id == AnswerId(a, Head(outbox[a]))
    <3>1. CASE id \in Pending
      <4>1. PICK p \in Pending : p = id
        BY <3>1
      <4>2. request' = [request EXCEPT ![p].state = "resolved", ![p].answer = Head(outbox[a])]
        BY <1>7, <4>1 DEF HubTakesResult
      <4>3. /\ p \in Request /\ request[p].state = "pending"
            /\ request \in [Request -> Entry]
        BY <1>0 DEF Pending, PruneTypeOK, Entry
      <4>4. \A r \in Request : r # p => request'[r] = request[r]
        BY <4>2, <4>3
      <4>5. /\ request'[p].agent = request[p].agent /\ request'[p].caller = request[p].caller
            /\ request'[p].state = "resolved"
        BY <4>2, <4>3 DEF Entry
      <4> QED BY <4>3, <4>4, <4>5 DEF SamePrunes, Request
    <3>2. CASE id \notin Pending
      BY <1>7, <1>s, <3>2 DEF HubTakesResult
    <3> QED BY <3>1, <3>2
  <2> QED BY <1>0, <1>7, <1>w, <2>1, PairsStay DEF HubTakesResult
<1>8. ASSUME NEW r \in Request, NEW a \in Agent, Ask(r, a) PROVE Paired'
  <2>1. r \notin PruneRequest /\ SendAndWait(r, a, "user") /\ UNCHANGED serviceVars
    BY <1>8, PruneAssumption DEF Ask
  <2>2. \A p \in PruneRequest : request'[p] = request[p]
    BY <1>0, <2>1 DEF SendAndWait, PruneTypeOK, Request
  <2>3. SamePrunes
    BY <2>2 DEF SamePrunes
  <2> QED BY <1>0, <1>w, <2>1, <2>3, PairsStay
<1>9. ASSUME NEW r \in Request, NEW a \in Agent, StartPrune(r, a) PROVE Paired'
  <2>1. /\ r \in PruneRequest /\ a \notin active /\ Execute(r, a, "user")
        /\ UNCHANGED <<runs, run>>
    BY <1>9 DEF StartPrune, Execute
  <2>2. /\ MarkedByOnePrune' /\ Addressed'
        /\ \A j : j # "user" => AskedBy(j)' = AskedBy(j)
        /\ \A p \in PruneRequest : p # r => request'[p] = request[p]
        /\ request[r].state = "free"
    BY <2>1, PruneBegins
  <2>3. WaitsInList'
    BY <1>0, <2>1 DEF Paired, WaitsInList
  <2>4. ASSUME NEW j \in RunId
        PROVE  IF runs'[j].pc = "waiting"
               THEN \E p \in PruneRequest : AskedBy(j)' = {p} /\ request'[p].agent = Current(j)'
               ELSE AskedBy(j)' = {}
    <3>1. j # "user"
      BY PruneAssumption
    <3>2. runs'[j] = runs[j] /\ AskedBy(j)' = AskedBy(j) /\ Current(j)' = Current(j)
      BY <2>1, <2>2, <3>1 DEF Current
    <3>3. r \notin AskedBy(j)
      BY <2>2 DEF AskedBy
    <3>4. CASE runs[j].pc = "waiting"
      <4>1. PICK p \in PruneRequest : AskedBy(j) = {p} /\ request[p].agent = Current(j)
        BY <1>0, <3>4 DEF Paired, RunAwaitsItsRequest
      <4> QED BY <2>2, <3>2, <3>3, <3>4, <4>1
    <3>5. CASE runs[j].pc # "waiting"
      BY <1>0, <3>2, <3>5 DEF Paired, RunAwaitsItsRequest
    <3> QED BY <3>4, <3>5
  <2>5. RunAwaitsItsRequest'
    BY <2>4 DEF RunAwaitsItsRequest
  <2> QED BY <2>2, <2>3, <2>5 DEF Paired
<1>10. CASE UNCHANGED pruneVars
  BY <1>0, <1>10, <1>s, <1>w, PairsStay DEF pruneVars, hubVars, serviceVars
<1> QED BY <1>1, <1>2, <1>3, <1>4, <1>5, <1>6, <1>7, <1>8, <1>9, <1>10 DEF PruneNext, Continuation

-----------------------------------------------------------------------------
(* Answers.                                                                 *)

\* The answer without an id of an old agent is for a prune of that agent; any other
\* names its request.
LEMMA AnswerStep == IInv /\ [PruneNext]_pruneVars => EchoesIds' /\ OutcomeOfOwnRequest'
<1> SUFFICES ASSUME IInv, [PruneNext]_pruneVars PROVE EchoesIds' /\ OutcomeOfOwnRequest'
  OBVIOUS
<1>0. /\ PruneTypeOK /\ Paired /\ EchoesIds /\ OutcomeOfOwnRequest
      /\ request \in [Request -> Entry]
  BY DEF IInv, PruneTypeOK, Entry
<1>e. ASSUME UNCHANGED outbox PROVE EchoesIds'
  BY <1>0, <1>e DEF EchoesIds
<1>o. ASSUME \A r \in Request : request'[r].state = "resolved" =>
               /\ request[r].state = "resolved"
               /\ request'[r].agent = request[r].agent /\ request'[r].answer = request[r].answer
      PROVE  OutcomeOfOwnRequest'
  BY <1>0, <1>o DEF OutcomeOfOwnRequest
<1>f. ASSUME NEW r \in Request, Forget(r) PROVE EchoesIds' /\ OutcomeOfOwnRequest'
  <2>1. request' = [request EXCEPT ![r] = Free]
    BY <1>f DEF Forget
  <2>2. OutcomeOfOwnRequest'
    BY <1>0, <1>o, <2>1 DEF Free
  <2> QED BY <1>0, <1>f, <2>2, ForgetTyped
<1>r. ASSUME NEW rs \in SUBSET Pending, Reject(rs) PROVE OutcomeOfOwnRequest'
  <2>1. \A r \in Request : [request[r] EXCEPT !.state = "rejected"].state = "rejected"
    BY <1>0 DEF Entry
  <2> QED BY <1>0, <1>o, <1>r, <2>1 DEF Reject
<1>s. ASSUME NEW r \in Request, NEW a, NEW c, SendAndWait(r, a, c)
      PROVE  EchoesIds' /\ OutcomeOfOwnRequest'
  <2>1. request'[r].state # "resolved" /\ \A p \in Request : p # r => request'[p] = request[p]
    BY <1>0, <1>s DEF SendAndWait
  <2>2. OutcomeOfOwnRequest'
    BY <1>0, <1>o, <2>1
  <2> QED BY <1>e, <1>s, <2>2 DEF SendAndWait
<1>u. ASSUME UNCHANGED request PROVE OutcomeOfOwnRequest'
  BY <1>0, <1>u DEF OutcomeOfOwnRequest
<1>1. ASSUME NEW r \in Request, Answered(r) \/ Executed(r) PROVE EchoesIds' /\ OutcomeOfOwnRequest'
  BY <1>1, <1>f DEF Answered, Executed
<1>2. ASSUME NEW i \in RunId, StartRun(i) \/ RunBegins(i) \/ RunAborts(i) \/ RunCompletes(i)
      PROVE  EchoesIds' /\ OutcomeOfOwnRequest'
  BY <1>2, <1>e, <1>u DEF StartRun, RunBegins, RunAborts, RunCompletes, hubVars, agentVars
<1>3. ASSUME NEW i \in RunId, RunStep(i) PROVE EchoesIds' /\ OutcomeOfOwnRequest'
  <2>1. CASE SkipsAgent(i)
    BY <1>3, <1>e, <1>u, <2>1 DEF RunStep, hubVars, agentVars
  <2>2. CASE ~SkipsAgent(i)
    BY <1>3, <1>s, <2>2 DEF RunStep, Execute, Request
  <2> QED BY <2>1, <2>2
<1>4. ASSUME NEW a \in Agent, NEW r \in Request, StartPrune(r, a) \/ Ask(r, a)
      PROVE  EchoesIds' /\ OutcomeOfOwnRequest'
  BY <1>4, <1>s DEF StartPrune, Execute, Ask
<1>5. ASSUME NEW a \in Agent, AgentConnects(a) \/ SweepConnection(a)
      PROVE  EchoesIds' /\ OutcomeOfOwnRequest'
  BY <1>5, <1>e, <1>u DEF AgentConnects, SweepConnection
<1>6. ASSUME NEW a \in Agent, AgentDisconnects(a) PROVE EchoesIds' /\ OutcomeOfOwnRequest'
  BY <1>6, <1>e, <1>r DEF AgentDisconnects
<1>7. ASSUME NEW r \in Request, RequestTimesOut(r) PROVE EchoesIds' /\ OutcomeOfOwnRequest'
  <2>1. {r} \in SUBSET Pending /\ Reject({r}) /\ UNCHANGED outbox
    BY <1>7 DEF RequestTimesOut, agentVars
  <2> QED BY <1>e, <1>r, <2>1
<1>8. ASSUME NEW a \in Agent, AgentLoses(a) PROVE EchoesIds' /\ OutcomeOfOwnRequest'
  BY <1>0, <1>8, <1>u, DeliveredTyped DEF AgentLoses, hubVars
<1>9. ASSUME NEW a \in Agent, AgentRestarts(a) PROVE EchoesIds' /\ OutcomeOfOwnRequest'
  <2>1. outbox' = [outbox EXCEPT ![a] = <<>>] /\ UNCHANGED request
    BY <1>9 DEF AgentRestarts, hubVars
  <2>2. EchoesIds'
    BY <1>0, <2>1 DEF PruneTypeOK, EchoesIds
  <2> QED BY <1>u, <2>1, <2>2
<1>10. ASSUME NEW a \in Agent, AgentFinishes(a) PROVE EchoesIds' /\ OutcomeOfOwnRequest'
  <2>1. Queue(a, Result(a, pruning[a])) /\ pruning[a] # None /\ UNCHANGED request
    BY <1>10 DEF AgentFinishes, hubVars
  <2>2. Result(a, pruning[a]) \in AnyId /\ (a \in Legacy \/ Result(a, pruning[a]) # None)
    BY <1>0, <2>1 DEF Result, PruneTypeOK, AnyId, Request
  <2> QED BY <1>0, <1>u, <2>1, <2>2, QueueTyped
<1>11. ASSUME NEW a \in Agent, NEW r \in Request \cup {Stale}, AgentTakes(a, r)
       PROVE  EchoesIds' /\ OutcomeOfOwnRequest'
  <2>1. UNCHANGED request /\ (UNCHANGED outbox \/ Queue(a, Result(a, r)))
    BY <1>11 DEF AgentTakes, hubVars
  <2>2. Result(a, r) \in AnyId /\ (a \in Legacy \/ Result(a, r) # None)
    BY PruneAssumption DEF Result, AnyId
  <2> QED BY <1>0, <1>e, <1>u, <2>1, <2>2, QueueTyped
<1>12. ASSUME NEW a \in Agent, HubTakesResult(a) PROVE EchoesIds' /\ OutcomeOfOwnRequest'
  <2>1. PICK id : id = AnswerId(a, Head(outbox[a]))
    OBVIOUS
  <2>2. /\ EchoesIds'
        /\ a \notin Legacy => Head(outbox[a]) # None
    BY <1>0, <1>12, DeliveredTyped DEF HubTakesResult
  <2>3. CASE id \in Pending
    <3>1. /\ request' = [request EXCEPT ![id].state = "resolved", ![id].answer = Head(outbox[a])]
          /\ id \in Request /\ id # None
      BY <1>12, <2>1, <2>3, PruneAssumption DEF HubTakesResult, Pending
    <3>2. /\ request'[id].agent = request[id].agent /\ request'[id].answer = Head(outbox[a])
          /\ \A r \in Request : r # id => request'[r] = request[r]
      BY <1>0, <3>1 DEF Entry
    <3>3. CASE Head(outbox[a]) # None
      <4>1. request'[id].answer = id
        BY <2>1, <3>2, <3>3 DEF AnswerId
      <4> QED BY <1>0, <2>2, <3>2, <4>1 DEF OutcomeOfOwnRequest
    <3>4. CASE Head(outbox[a]) = None
      <4>1. a \in Legacy /\ id = legacyPrunes[a]
        BY <2>1, <2>2, <3>4 DEF AnswerId
      <4>2. id \in PrunesOf(a)
        BY <1>0, <3>1, <4>1 DEF Paired, MarkedByOnePrune
      <4>3. request[id].agent \in Legacy
        BY <4>1, <4>2 DEF PrunesOf
      <4> QED BY <1>0, <2>2, <3>1, <3>2, <4>3 DEF OutcomeOfOwnRequest
    <3> QED BY <2>2, <3>3, <3>4
  <2>4. CASE id \notin Pending
    BY <1>12, <1>u, <2>1, <2>2, <2>4 DEF HubTakesResult
  <2> QED BY <2>3, <2>4
<1>13. CASE UNCHANGED pruneVars
  BY <1>13, <1>e, <1>u DEF pruneVars, hubVars, agentVars
<1> QED BY <1>1, <1>2, <1>3, <1>4, <1>5, <1>6, <1>7, <1>8, <1>9, <1>10, <1>11, <1>12, <1>13
        DEF PruneNext, Continuation

-----------------------------------------------------------------------------
(* Theorems.                                                                *)

\* The inductive invariant of the prune service (prune-service.ts with the request map of
\* hub.ts): types, the pairs of marks, runs and prunes, and whose answer is whose.
THEOREM PruneInvariant == PruneSpec => []IInv
<1>1. PruneInit => IInv
  <2> SUFFICES ASSUME PruneInit PROVE IInv
    OBVIOUS
  <2>1. <<>> \in Seq(AnyId)
    OBVIOUS
  <2>2. PruneTypeOK
    BY <2>1, ValuesTyped DEF PruneInit, PruneTypeOK, Entry, Progress
  <2>3. /\ \A r \in PruneRequest : request[r].state = "free"
        /\ \A i \in RunId : runs[i].pc = "free"
    BY DEF PruneInit, Free, NoRun, Request
  <2>4. Paired
    BY <2>3 DEF PruneInit, Paired, Addressed, WaitsInList, MarkedByOnePrune, PrunesOf,
                RunAwaitsItsRequest, AskedBy
  <2>5. EchoesIds
    BY DEF PruneInit, EchoesIds
  <2>6. OutcomeOfOwnRequest
    BY DEF PruneInit, OutcomeOfOwnRequest, Free
  <2> QED BY <2>2, <2>4, <2>5, <2>6 DEF IInv
<1>2. IInv /\ [PruneNext]_pruneVars => IInv'
  <2> SUFFICES ASSUME IInv, [PruneNext]_pruneVars PROVE IInv'
    OBVIOUS
  <2>1. PruneTypeOK'
    <3>1. CASE UNCHANGED pruneVars
      BY <3>1 DEF IInv, PruneTypeOK, pruneVars, hubVars, serviceVars, agentVars
    <3>2. CASE PruneNext
      BY <3>2, HubTypeStep, TimeoutTypeStep, AgentTypeStep, ServiceTypeStep
         DEF PruneNext, Continuation
    <3> QED BY <3>1, <3>2
  <2> QED BY <2>1, PairStep, AnswerStep DEF IInv
<1> QED BY <1>1, <1>2, PTL DEF PruneSpec

\* The state of the service, its requests and its agents stays well formed for any agents,
\* requests, runs and queue length.
THEOREM TypeCorrect == PruneSpec => []PruneTypeOK
<1>1. IInv => PruneTypeOK
  BY DEF IInv
<1> QED BY <1>1, PruneInvariant, PTL

\* An agent is marked exactly as long as one prune of it is under way, however many runs
\* and prunes by hand overlap (startPrune, executeRun, execute).
THEOREM MarksArePaired == PruneSpec => []MarkedByOnePrune
<1>1. IInv => MarkedByOnePrune
  BY DEF IInv, Paired
<1> QED BY <1>1, PruneInvariant, PTL

\* A run that waits has one request, to the agent it is at, which settles it (BUG-09).
THEOREM RunsAwaitTheirRequests == PruneSpec => []RunAwaitsItsRequest
<1>1. IInv => RunAwaitsItsRequest
  BY DEF IInv, Paired
<1> QED BY <1>1, PruneInvariant, PTL

\* No late answer of an agent that echoes ids is the outcome of another request.
THEOREM OutcomesAreTheirOwn == PruneSpec => []OutcomeOfOwnRequest
<1>1. IInv => OutcomeOfOwnRequest
  BY DEF IInv
<1> QED BY <1>1, PruneInvariant, PTL
=============================================================================

---------------------------- MODULE PruneService ----------------------------
(***************************************************************************)
(* Requests of the controller that an agent answers, and what is built on  *)
(* them: sendAndWait and the settling of pendingRequests in                *)
(* controller/src/ws/hub.ts, class PruneService of ws/prune-service.ts     *)
(* with its routes, and the agent's PRUNE and PRUNE_PREVIEW handlers.      *)
(*                                                                         *)
(* A promise that settles lets its awaiting function go on before Node     *)
(* takes the next event: actions that begin an event wait for EventLoopIdle *)
(* while continuations (Executed, Answered, RunStep) do not. Agents are    *)
(* processes of their own. Request ids are UUIDs: those the controller has *)
(* done with are all alike and become Stale, and are handed out again.     *)
(***************************************************************************)
EXTENDS Naturals, Sequences, FiniteSets

CONSTANTS
  Agents,       \* the agents in the order listAgents returns them
  Legacy,       \* those that answer a PRUNE without its requestId
  PruneRequest, \* ids of PRUNE requests
  Question,     \* ids of other requests: previews, container logs
  RunId,
  MaxOutbox,    \* bound: messages an agent has queued (256 in the code)
  Stale,        \* any id the controller has done with
  None

Agent == {Agents[i] : i \in 1..Len(Agents)}
Request == PruneRequest \cup Question

ASSUME PruneAssumption ==
  /\ Agents \in Seq(Agent)
  /\ \A i, j \in 1..Len(Agents) : Agents[i] = Agents[j] => i = j
  /\ Legacy \subseteq Agent
  /\ PruneRequest \cap Question = {}
  /\ {None, Stale, "user"} \cap (Agent \cup Request \cup RunId) = {}
  /\ None # Stale
  /\ MaxOutbox \in Nat

VARIABLES
  connections,  \* agents the hub has a connection of
  request,      \* pendingRequests, and settled requests nobody has gone on from
  active,       \* agents the service has marked busy
  legacyPrunes, \* the PRUNE an answer without requestId is for
  runs,         \* executions of startRun and executeRun
  run,          \* this.run: the latest one
  commands,     \* requests on the way to an agent
  pruning,      \* the PRUNE that holds the agent's lock
  outbox        \* answers an agent has queued for the controller

hubVars == <<connections, request>>
serviceVars == <<active, legacyPrunes, runs, run>>
agentVars == <<commands, pruning, outbox>>
pruneVars == <<hubVars, serviceVars, agentVars>>

-----------------------------------------------------------------------------
Free == [state |-> "free", agent |-> None, caller |-> None, answer |-> None]
NoRun == [pc |-> "free", index |-> 1, online |-> {}]
AnyId == Request \cup {Stale, None}

PruneTypeOK ==
  /\ connections \in SUBSET Agent
  /\ request \in [Request -> [state : {"free", "pending", "resolved", "rejected"},
                              agent : Agent \cup {None},
                              caller : RunId \cup {"user", None},
                              answer : AnyId]]
  /\ active \in SUBSET Agent
  /\ legacyPrunes \in [Agent -> PruneRequest \cup {None}]
  /\ runs \in [RunId -> [pc : {"free", "listing", "loop", "waiting", "complete"},
                         index : 1..(Len(Agents) + 1), online : SUBSET Agent]]
  /\ run \in RunId \cup {None}
  /\ commands \in [Agent -> SUBSET (Request \cup {Stale})]
  /\ pruning \in [Agent -> PruneRequest \cup {Stale, None}]
  /\ outbox \in [Agent -> Seq(AnyId)]

Pending == {r \in Request : request[r].state = "pending"}
Settled == {r \in Request : request[r].state \in {"resolved", "rejected"}}
EventLoopIdle == Settled = {} /\ \A i \in RunId : runs[i].pc # "loop"

\* The caller of r has gone on: what is still under way for it is so for nobody.
Forget(r) ==
  /\ request' = [request EXCEPT ![r] = Free]
  /\ commands' = [a \in Agent |->
       IF r \in commands[a]
       THEN (commands[a] \ {r}) \cup (IF r \in PruneRequest THEN {Stale} ELSE {})
       ELSE commands[a]]
  /\ pruning' = [a \in Agent |-> IF pruning[a] = r THEN Stale ELSE pruning[a]]
  /\ outbox' = [a \in Agent |-> [k \in 1..Len(outbox[a]) |->
       IF outbox[a][k] = r THEN Stale ELSE outbox[a][k]]]

PruneInit ==
  /\ connections = {}
  /\ request = [r \in Request |-> Free]
  /\ active = {}
  /\ legacyPrunes = [a \in Agent |-> None]
  /\ runs = [i \in RunId |-> NoRun]
  /\ run = None
  /\ commands = [a \in Agent |-> {}]
  /\ pruning = [a \in Agent |-> None]
  /\ outbox = [a \in Agent |-> <<>>]

-----------------------------------------------------------------------------
(* Connections, as far as requests depend on them.                           *)

\* What was on the way to an agent over a connection that ends may be lost.
LoseCommands(a) ==
  \E lost \in SUBSET commands[a] : commands' = [commands EXCEPT ![a] = @ \ lost]

\* The agent registers; the close of a socket it had before is not one of the agent.
AgentConnects(a) ==
  /\ EventLoopIdle
  /\ connections' = connections \cup {a}
  /\ LoseCommands(a)
  /\ UNCHANGED <<request, serviceVars, pruning, outbox>>

\* Mutant: the map is cleared and its timers stopped, nobody is told.
Reject_Silently(rs) ==
  request' = [r \in Request |->
    IF r \in rs THEN [request[r] EXCEPT !.state = "free"] ELSE request[r]]

Reject(rs) ==
  request' = [r \in Request |->
    IF r \in rs THEN [request[r] EXCEPT !.state = "rejected"] ELSE request[r]]

\* The close handler rejects the requests of every agent (BUG-09).
AgentDisconnects(a) ==
  /\ EventLoopIdle
  /\ a \in connections
  /\ connections' = connections \ {a}
  /\ Reject(Pending)
  /\ LoseCommands(a)
  /\ UNCHANGED <<serviceVars, pruning, outbox>>

\* checkHeartbeats takes a silent connection out of the map itself, so that the
\* close handler finds none and rejects nothing.
SweepConnection(a) ==
  /\ EventLoopIdle
  /\ a \in connections
  /\ connections' = connections \ {a}
  /\ LoseCommands(a)
  /\ UNCHANGED <<request, serviceVars, pruning, outbox>>

\* The timer of sendAndWait: 15 s, 60 s or 5.5 min.
RequestTimesOut(r) ==
  /\ EventLoopIdle
  /\ r \in Pending
  /\ Reject({r})
  /\ UNCHANGED <<connections, serviceVars, agentVars>>

\* The agent has no connection, or one whose socket is closing: that rejects at once.
SendAndWait(r, a, caller) ==
  /\ request[r] = Free
  /\ \E state \in {"rejected"} \cup (IF a \in connections THEN {"pending"} ELSE {}) :
       /\ request' = [request EXCEPT ![r] =
            [state |-> state, agent |-> a, caller |-> caller, answer |-> None]]
       /\ commands' = IF state = "pending" THEN [commands EXCEPT ![a] = @ \cup {r}] ELSE commands
  /\ UNCHANGED <<connections, pruning, outbox>>

\* Mutant: the prune in flight comes first, the id the agent echoes second.
AnswerId_LegacyFirst(a, id) == IF legacyPrunes[a] # None THEN legacyPrunes[a] ELSE id

\* payload.requestId || legacyPrunes.get(agentId)
AnswerId(a, id) == IF id # None THEN id ELSE legacyPrunes[a]

Delivered(a) == outbox' = [outbox EXCEPT ![a] = Tail(@)]

\* PRUNE_RESULT, PRUNE_PREVIEW_RESULT and CONTAINER_LOGS_RESULT. An answer nobody
\* waits for is dropped. The answer is remembered by the request it answers.
HubTakesResult(a) ==
  /\ EventLoopIdle
  /\ a \in connections
  /\ outbox[a] # <<>>
  /\ LET id == AnswerId(a, Head(outbox[a])) IN
     IF id \in Pending
     THEN request' = [request EXCEPT ![id].state = "resolved",
                                     ![id].answer = Head(outbox[a])]
     ELSE UNCHANGED request
  /\ Delivered(a)
  /\ UNCHANGED <<connections, serviceVars, commands, pruning>>

-----------------------------------------------------------------------------
(* The agent.                                                                *)

\* Send drops what does not fit.
Queue(a, message) ==
  outbox' = IF Len(outbox[a]) < MaxOutbox
            THEN [outbox EXCEPT ![a] = Append(@, message)] ELSE outbox

Result(a, r) ==
  IF a \in Legacy /\ r \notin Question THEN None ELSE r

\* A goroutine takes the request: a question is answered, a PRUNE takes the lock or
\* fails at once.
AgentTakes(a, r) ==
  /\ r \in commands[a]
  /\ commands' = [commands EXCEPT ![a] = @ \ {r}]
  /\ IF r \notin Question /\ pruning[a] = None
     THEN pruning' = [pruning EXCEPT ![a] = r] /\ UNCHANGED outbox
     ELSE Queue(a, Result(a, r)) /\ UNCHANGED pruning
  /\ UNCHANGED <<hubVars, serviceVars>>

AgentFinishes(a) ==
  /\ pruning[a] # None
  /\ Queue(a, Result(a, pruning[a]))
  /\ pruning' = [pruning EXCEPT ![a] = None]
  /\ UNCHANGED <<hubVars, serviceVars, commands>>

\* An answer written to a connection that has broken.
AgentLoses(a) ==
  /\ outbox[a] # <<>>
  /\ Delivered(a)
  /\ UNCHANGED <<hubVars, serviceVars, commands, pruning>>

AgentRestarts(a) ==
  /\ commands' = [commands EXCEPT ![a] = {}]
  /\ pruning' = [pruning EXCEPT ![a] = None]
  /\ outbox' = [outbox EXCEPT ![a] = <<>>]
  /\ UNCHANGED <<hubVars, serviceVars>>

-----------------------------------------------------------------------------
(* The service.                                                              *)

\* execute up to its await, on an agent it marks.
Execute(r, a, caller) ==
  /\ r \in PruneRequest
  /\ active' = active \cup {a}
  /\ legacyPrunes' = [legacyPrunes EXCEPT ![a] = r]
  /\ SendAndWait(r, a, caller)

\* POST /api/agents/:id/prune, from the answer of getAgent on. The row said online.
StartPrune(r, a) ==
  /\ EventLoopIdle
  /\ a \in connections
  /\ a \notin active
  /\ Execute(r, a, "user")
  /\ UNCHANGED <<runs, run>>

\* GET .../prune/preview and .../logs; nothing is marked.
Ask(r, a) ==
  /\ EventLoopIdle
  /\ r \in Question
  /\ a \in connections
  /\ SendAndWait(r, a, "user")
  /\ UNCHANGED <<serviceVars>>

Answered(r) ==
  /\ r \in Settled \cap Question
  /\ Forget(r)
  /\ UNCHANGED <<connections, serviceVars>>

\* The rest of execute, and of what awaits it.
Executed(r) ==
  /\ r \in Settled \cap PruneRequest
  /\ LET a == request[r].agent
         i == request[r].caller
     IN
       /\ legacyPrunes' = [legacyPrunes EXCEPT ![a] = None]
       /\ active' = active \ {a}
       /\ runs' = IF i \in RunId
                  THEN [runs EXCEPT ![i].pc = "loop", ![i].index = @ + 1] ELSE runs
  /\ Forget(r)
  /\ UNCHANGED <<connections, run>>

\* POST /api/prune up to its await of listAgents.
StartRun(i) ==
  /\ EventLoopIdle
  /\ run # None => runs[run].pc = "complete"
  /\ runs[i] = NoRun
  /\ runs' = [runs EXCEPT ![i].pc = "listing"]
  /\ UNCHANGED <<hubVars, active, legacyPrunes, run, agentVars>>

\* Mutant: the first agent has the index 0.
RunBegins_AtZero(i) ==
  /\ EventLoopIdle
  /\ runs[i].pc = "listing"
  /\ runs' = [runs EXCEPT ![i] = [pc |-> "loop", index |-> 0, online |-> connections]]
  /\ run' = i
  /\ UNCHANGED <<hubVars, active, legacyPrunes, agentVars>>

\* The list arrives: this run is the latest now, whatever has started meanwhile; a
\* finished one is forgotten.
RunBegins(i) ==
  /\ EventLoopIdle
  /\ runs[i].pc = "listing"
  /\ runs' = [j \in RunId |->
       CASE j = i -> [pc |-> "loop", index |-> 1, online |-> connections]
         [] j # i /\ runs[j].pc = "complete" -> NoRun
         [] OTHER -> runs[j]]
  /\ run' = i
  /\ UNCHANGED <<hubVars, active, legacyPrunes, agentVars>>

RunAborts(i) ==
  /\ EventLoopIdle
  /\ runs[i].pc = "listing"
  /\ runs' = [runs EXCEPT ![i] = NoRun]
  /\ UNCHANGED <<hubVars, active, legacyPrunes, run, agentVars>>

Next_(i) == [runs EXCEPT ![i].index = @ + 1]
Current(i) == Agents[runs[i].index]

\* Mutant: the run takes no notice of prunes that were started by hand.
SkipsAgent_Offline(i) == Current(i) \notin runs[i].online

\* Offline at the start of the run, or busy.
SkipsAgent(i) == Current(i) \notin runs[i].online \/ Current(i) \in active

RunStep(i) ==
  /\ runs[i].pc = "loop"
  /\ runs[i].index <= Len(Agents)
  /\ \/ /\ SkipsAgent(i)
        /\ runs' = Next_(i)
        /\ UNCHANGED <<hubVars, active, legacyPrunes, agentVars>>
     \/ /\ ~SkipsAgent(i)
        /\ \E r \in PruneRequest : Execute(r, Current(i), i)
        /\ runs' = [runs EXCEPT ![i].pc = "waiting"]
  /\ UNCHANGED run

\* PRUNE_RUN_COMPLETE. A run that another one has replaced is not kept.
RunCompletes(i) ==
  /\ runs[i].pc = "loop"
  /\ runs[i].index > Len(Agents)
  /\ runs' = [runs EXCEPT ![i] = IF run = i THEN [NoRun EXCEPT !.pc = "complete"] ELSE NoRun]
  /\ UNCHANGED <<hubVars, active, legacyPrunes, run, agentVars>>

-----------------------------------------------------------------------------
Continuation ==
  \/ \E r \in Request : Answered(r) \/ Executed(r)
  \/ \E i \in RunId : RunStep(i) \/ RunCompletes(i)

PruneNext ==
  \/ Continuation
  \/ \E a \in Agent :
       \/ AgentConnects(a) \/ AgentDisconnects(a) \/ SweepConnection(a)
       \/ HubTakesResult(a)
       \/ AgentFinishes(a) \/ AgentLoses(a) \/ AgentRestarts(a)
       \/ \E r \in Request : StartPrune(r, a) \/ Ask(r, a)
       \/ \E r \in Request \cup {Stale} : AgentTakes(a, r)
  \/ \E r \in Request : RequestTimesOut(r)
  \/ \E i \in RunId : StartRun(i) \/ RunBegins(i) \/ RunAborts(i)

PruneSpec == PruneInit /\ [][PruneNext]_pruneVars

-----------------------------------------------------------------------------
(* What the service promises.                                                *)

\* Prunes of one agent exclude each other, however they were asked for, and the mark
\* that says so is there exactly as long as one of them runs (startPrune, executeRun
\* and execute); an answer without an id is for that one.
PrunesOf(a) == {r \in PruneRequest : request[r].state # "free" /\ request[r].agent = a}
MarkedByOnePrune ==
  \A a \in Agent :
    /\ PrunesOf(a) = {legacyPrunes[a]} \ {None}
    /\ a \in active <=> legacyPrunes[a] # None

\* What an agent that echoes ids answers to a prune the controller has given up, timed
\* out or cut off, is never reported as the outcome of a later one (PRUNE_RESULT).
OutcomeOfOwnRequest ==
  \A r \in Request :
    request[r].state = "resolved" /\ request[r].agent \notin Legacy => request[r].answer = r

\* A run of all agents that waits for an agent waits for a request that the answer, the
\* timer or a disconnect will still settle (BUG-09), and no other caller waits for it.
AskedBy(i) == {r \in PruneRequest : request[r].state # "free" /\ request[r].caller = i}
RunAwaitsItsRequest ==
  \A i \in RunId :
    IF runs[i].pc = "waiting"
    THEN \E r \in PruneRequest : AskedBy(i) = {r} /\ request[r].agent = Current(i)
    ELSE AskedBy(i) = {}
=============================================================================

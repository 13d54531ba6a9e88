-------------------------------- MODULE Browser --------------------------------
(***************************************************************************)
(* What a browser shows of the agents and their containers: the socket of  *)
(* ws/useSocket.ts and the broadcasts it receives, the events of           *)
(* store/useStore.ts, the queries they invalidate, the progress of updates *)
(* and the action of a ContainerRow that waits for its end.                *)
(*                                                                         *)
(* The data of the controller is a version number. An event that is sent   *)
(* while the socket is down, or that ui-broadcaster.ts skips because the   *)
(* socket is slow, is lost.                                                *)
(***************************************************************************)
EXTENDS Naturals, Sequences, FiniteSets, SequencesExt

CONSTANTS
  Action,       \* start, stop, restart, delete, and Check
  Check,
  NoAction,
  MaxVersion,   \* changes of the data
  MaxEvents     \* events under way

ASSUME BrowserAssumption == MaxVersion \in Nat /\ Check \in Action /\ NoAction \notin Action

VARIABLES
  server,        \* version of the data, and the events of handlers that have not sent them
  socket,
  wire,          \* events sent to this browser
  view,          \* the agents queries: whether they have data, the data shown, the fetch
                 \* under way, timers
  missed,        \* a change had no event, an event was lost, a fetch failed, or the first one
                 \* had read the data before what should have begun it again; and since then
                 \* no fetch has read the data and no socket was opened
  progress,      \* updateProgress and progressBuffer of one container, and their timers
  updateIsOver,  \* whether its last UPDATE_COMPLETE was handled, and no UPDATE_PROGRESS
                 \* after it, and of what type it was
  row            \* ContainerRow: pendingAction, the request and the command it waits for

browserVars == <<server, socket, wire, view, missed, progress, updateIsOver, row>>

-----------------------------------------------------------------------------
NoFetch == [under |-> FALSE, read |-> 0, done |-> FALSE]
Fetching == [under |-> TRUE, read |-> 0, done |-> FALSE]
\* UPDATE_COMPLETE is failed, with the ID the container's progress has, or succeeded.
Completion == {"failed", "succeeded"}
Event == [type : {"status", "heartbeat", "checked", "progress", "action"} \cup Completion,
          action : Action \cup {NoAction}]

BrowserTypeOK ==
  /\ server.version \in 0 .. MaxVersion /\ server.events \in Seq(Event)
  /\ socket \in {"open", "down"}
  /\ wire \in Seq(Event)
  /\ view.loaded \in BOOLEAN /\ view.shown \in 0 .. MaxVersion
  /\ view.fetch \in [under : BOOLEAN, read : 0 .. MaxVersion, done : BOOLEAN]
  /\ view.debounce \in BOOLEAN /\ view.later \in BOOLEAN
  /\ missed \in BOOLEAN
  /\ progress \in [shown : BOOLEAN, buffered : BOOLEAN, flush : BOOLEAN, clear : BOOLEAN]
  /\ updateIsOver \in {"no"} \cup Completion
  /\ row \in [pending : Action \cup {NoAction}, request : Action \cup {NoAction},
              lastResult : Action \cup {NoAction}]

\* The page is mounted: its queries fetch for the first time, and the socket connects.
BrowserInit ==
  /\ server = [version |-> 0, events |-> <<>>]
  /\ socket = "down"
  /\ wire = <<>>
  /\ view = [loaded |-> FALSE, shown |-> 0, fetch |-> Fetching, debounce |-> FALSE, later |-> FALSE]
  /\ missed = FALSE
  /\ progress = [shown |-> FALSE, buffered |-> FALSE, flush |-> FALSE, clear |-> FALSE]
  /\ updateIsOver = "no"
  /\ row = [pending |-> NoAction, request |-> NoAction, lastResult |-> NoAction]

-----------------------------------------------------------------------------
(* The controller.                                                          *)

clientUnchanged == UNCHANGED <<socket, view, progress, updateIsOver>>

\* A handler of the hub writes what the agent reports, and sends the event after the write.
AgentReportsChange(type) ==
  /\ server.version < MaxVersion
  /\ Len(server.events) + Len(wire) < MaxEvents
  /\ server' = [version |-> server.version + 1,
                events |-> Append(server.events, [type |-> type, action |-> NoAction])]
  /\ UNCHANGED <<wire, missed, row>>
  /\ clientUnchanged

\* REGISTER writes the versions of the agent and its Docker after its event.
AgentReportsQuietly ==
  /\ server.version < MaxVersion
  /\ server' = [server EXCEPT !.version = @ + 1]
  /\ missed' = TRUE
  /\ UNCHANGED <<wire, row>>
  /\ clientUnchanged

\* UPDATE_PROGRESS, HEARTBEATs that bring nothing new, and results that only go into the log.
AgentReportsOnly(type) ==
  /\ Len(server.events) + Len(wire) < MaxEvents
  /\ server' = [server EXCEPT !.events = Append(@, [type |-> type, action |-> NoAction])]
  /\ UNCHANGED <<wire, missed, row>>
  /\ clientUnchanged

\* broadcast: to the sockets that are open, unless they are too slow.
Broadcast(skipped) ==
  /\ server.events # <<>>
  /\ server' = [server EXCEPT !.events = Tail(@)]
  /\ IF socket = "open" /\ ~skipped
     THEN wire' = Append(wire, Head(server.events)) /\ UNCHANGED missed
     ELSE missed' = TRUE /\ UNCHANGED wire
  /\ UNCHANGED row
  /\ clientUnchanged

-----------------------------------------------------------------------------
(* The socket.                                                              *)

\* invalidateQueries: a fetch that is under way is begun again, unless it is the first one,
\* which goes on and makes the data count as fresh.
Joined == view.fetch.under /\ ~view.loaded
Refetch == IF Joined THEN view ELSE [view EXCEPT !.fetch = Fetching]

\* What was to be fetched again is not what the first fetch brings.
JoinedTooLate == Joined /\ view.fetch.done /\ view.fetch.read # server.version

\* Mutant: only the first connection fetches.
SocketOpens_Silently ==
  /\ socket = "down"
  /\ socket' = "open"
  /\ view' = IF server.version = 0 THEN Refetch ELSE view
  /\ missed' = (missed /\ JoinedTooLate)
  /\ UNCHANGED <<server, wire, progress, updateIsOver, row>>

\* onopen, the first time or some tries after the backoff.
SocketOpens ==
  /\ socket = "down"
  /\ socket' = "open"
  /\ view' = Refetch
  /\ missed' = (missed /\ JoinedTooLate)
  /\ UNCHANGED <<server, wire, progress, updateIsOver, row>>

\* onclose: what was under way is lost.
SocketCloses ==
  /\ socket = "open"
  /\ socket' = "down"
  /\ wire' = <<>>
  /\ missed' = (missed \/ wire # <<>>)
  /\ UNCHANGED <<server, view, progress, updateIsOver, row>>

-----------------------------------------------------------------------------
(* Fetches.                                                                 *)

queryOnly == UNCHANGED <<server, socket, wire, progress, updateIsOver>>

FetchReads ==
  /\ view.fetch.under /\ ~view.fetch.done
  /\ view' = [view EXCEPT !.fetch = [under |-> TRUE, read |-> server.version, done |-> TRUE]]
  /\ missed' = FALSE
  /\ UNCHANGED row
  /\ queryOnly

\* The answer. A container whose status, update or check time has changed makes its row
\* forget the action it waits for.
FetchArrives(changed) ==
  /\ view.fetch.done
  /\ changed => view.loaded /\ view.fetch.read # view.shown
  /\ view' = [view EXCEPT !.loaded = TRUE, !.shown = view.fetch.read, !.fetch = NoFetch]
  /\ UNCHANGED missed
  /\ row' = IF changed THEN [row EXCEPT !.pending = NoAction] ELSE row
  /\ queryOnly

\* The request and its retries fail.
FetchFails ==
  /\ view.fetch.under
  /\ view' = [view EXCEPT !.fetch = NoFetch]
  /\ missed' = TRUE
  /\ UNCHANGED row
  /\ queryOnly

\* 500 ms without another event.
DebounceEnds ==
  /\ view.debounce
  /\ view' = [Refetch EXCEPT !.debounce = FALSE]
  /\ missed' = (missed \/ JoinedTooLate)
  /\ UNCHANGED row
  /\ queryOnly

\* The second invalidation after UPDATE_COMPLETE and CONTAINER_ACTION_RESULT.
LaterInvalidates ==
  /\ view.later
  /\ view' = [view EXCEPT !.later = FALSE, !.debounce = TRUE]
  /\ UNCHANGED <<missed, row>>
  /\ queryOnly

-----------------------------------------------------------------------------
(* handleWSEvent.                                                           *)

Received(type) == socket = "open" /\ wire # <<>> /\ Head(wire).type = type

Handled == wire' = Tail(wire) /\ UNCHANGED <<server, socket, missed>>

\* AGENT_STATUS, CHECK_COMPLETE, CONTAINERS_UPDATED.
HandleChange ==
  /\ Received("status") \/ Received("checked")
  /\ Handled
  /\ view' = [view EXCEPT !.debounce = TRUE]
  /\ UNCHANGED <<progress, updateIsOver, row>>

\* Progress of more than a minute ago goes, and the buffer with it.
HandleHeartbeatReceived(old) ==
  /\ Received("heartbeat")
  /\ Handled
  /\ view' = [view EXCEPT !.debounce = TRUE]
  /\ old => progress.shown
  /\ progress' = IF old THEN [progress EXCEPT !.shown = FALSE, !.buffered = FALSE] ELSE progress
  /\ UNCHANGED <<updateIsOver, row>>

HandleUpdateProgress ==
  /\ Received("progress")
  /\ Handled
  /\ progress' = [progress EXCEPT !.buffered = TRUE, !.flush = TRUE]
  /\ updateIsOver' = "no"
  /\ UNCHANGED <<view, row>>

\* 100 ms after the first event that was buffered.
FlushProgress ==
  /\ progress.flush
  /\ progress' = [progress EXCEPT !.shown = @ \/ progress.buffered, !.buffered = FALSE, !.flush = FALSE]
  /\ UNCHANGED <<server, socket, wire, view, missed, updateIsOver, row>>

\* Mutant: what is buffered stays.
HandleUpdateComplete_KeepsBuffer(type) ==
  /\ Received(type)
  /\ Handled
  /\ view' = [view EXCEPT !.debounce = TRUE, !.later = TRUE]
  /\ progress' = IF type = "failed" THEN [progress EXCEPT !.shown = FALSE, !.clear = TRUE]
                 ELSE [progress EXCEPT !.clear = TRUE]
  /\ updateIsOver' = type
  /\ UNCHANGED row

\* The hub passes a result on without originalContainerId: a failed one has the ID the
\* progress is kept under, a successful one that of the new container, and clears nothing.
HandleUpdateComplete(type) ==
  /\ Received(type)
  /\ Handled
  /\ view' = [view EXCEPT !.debounce = TRUE, !.later = TRUE]
  /\ progress' = IF type = "failed"
                 THEN [progress EXCEPT !.shown = FALSE, !.buffered = FALSE, !.clear = TRUE]
                 ELSE [progress EXCEPT !.clear = TRUE]
  /\ updateIsOver' = type
  /\ UNCHANGED row

\* Five seconds later: all progress of the agent, that of a newer update included. Other
\* UPDATE_COMPLETEs have timers of their own.
ClearProgress(more) ==
  /\ progress.clear
  /\ progress' = [progress EXCEPT !.shown = FALSE, !.buffered = FALSE, !.clear = more]
  /\ UNCHANGED <<server, socket, wire, view, missed, updateIsOver, row>>

-----------------------------------------------------------------------------
(* ContainerRow.                                                            *)

rowOnly == UNCHANGED <<server, socket, wire, view, missed, progress, updateIsOver>>

\* What is pending once the effects have run: the last result may be one of the same kind.
SettledAction(action, result) == IF action = result THEN NoAction ELSE action

\* handleStart, handleStop, handleRestart, handleDelete and handleCheck. The buttons are
\* there while no update is shown and are disabled while an action is pending.
PressAction(action) ==
  /\ view.loaded
  /\ row.pending = NoAction /\ row.request = NoAction
  /\ ~progress.shown
  /\ row' = [row EXCEPT !.pending = SettledAction(action, row.lastResult), !.request = action]
  /\ rowOnly

\* The route has sent the command to the agent, or has refused; then onError.
ActionAnswered(ok) ==
  /\ row.request # NoAction
  /\ row' = [row EXCEPT !.request = NoAction, !.pending = IF ok THEN @ ELSE NoAction]
  /\ rowOnly

\* CONTAINER_ACTION_RESULT, after a change or without one, of this browser's action or of
\* somebody else's; a check ends in CHECK_RESULT.
AgentActs(action, changes) ==
  /\ Len(server.events) + Len(wire) < MaxEvents
  /\ changes => server.version < MaxVersion
  /\ server' = [version |-> IF changes THEN server.version + 1 ELSE server.version,
                events |-> Append(server.events,
                  IF action = Check THEN [type |-> "checked", action |-> NoAction]
                  ELSE [type |-> "action", action |-> action])]
  /\ UNCHANGED <<wire, missed, row>>
  /\ clientUnchanged

HandleActionResult ==
  /\ Received("action")
  /\ Handled
  /\ view' = [view EXCEPT !.debounce = TRUE, !.later = TRUE]
  /\ row' = [row EXCEPT !.lastResult = Head(wire).action, !.pending = SettledAction(@, Head(wire).action)]
  /\ UNCHANGED <<progress, updateIsOver>>

\* A check is given up after 30 seconds.
CheckTimesOut ==
  /\ row.pending = Check
  /\ row' = [row EXCEPT !.pending = NoAction]
  /\ rowOnly

BrowserNext ==
  \/ \E type \in {"status", "heartbeat", "checked"} \cup Completion : AgentReportsChange(type)
  \/ \E type \in {"heartbeat", "progress"} \cup Completion : AgentReportsOnly(type)
  \/ AgentReportsQuietly
  \/ \E skipped \in BOOLEAN : Broadcast(skipped)
  \/ SocketOpens \/ SocketCloses
  \/ FetchReads \/ FetchFails \/ DebounceEnds \/ LaterInvalidates
  \/ \E changed \in BOOLEAN : FetchArrives(changed)
  \/ HandleChange \/ HandleUpdateProgress \/ HandleActionResult
  \/ \E type \in Completion : HandleUpdateComplete(type)
  \/ FlushProgress \/ CheckTimesOut
  \/ \E action \in Action : PressAction(action) \/ \E changes \in BOOLEAN : AgentActs(action, changes)
  \/ \E b \in BOOLEAN : HandleHeartbeatReceived(b) \/ ActionAnswered(b) \/ ClearProgress(b)

BrowserSpec == BrowserInit /\ [][BrowserNext]_browserVars

-----------------------------------------------------------------------------
Refreshing ==
  \/ view.debounce \/ view.later
  \/ view.fetch.under /\ (view.fetch.done => view.fetch.read = server.version)

\* Data that is older than the controller's is about to be fetched, or its event is under
\* way (the debounce of useSocket, fetches that were begun before a change, the page's first
\* fetch, the fetch of onopen). Four things break this, and missed says that one of them did:
\* a lost event, a fetch that failed, a change without an event, and an invalidation, by
\* onopen or by the debounce, that joined the page's first fetch after it had read.
StaleViewHasTrigger ==
  socket = "open" /\ ~missed /\ view.shown < server.version =>
    Refreshing \/ server.events # <<>> \/ \E i \in DOMAIN wire : wire[i].type # "progress"

\* An update whose failed UPDATE_COMPLETE was handled has no progress, shown or buffered, and
\* that of a successful one stays no longer than the fallback timer is armed, buffered
\* progress included (handleWSEvent, its flush and its fallback timer).
FinishedShowsNoProgress ==
  progress.shown \/ progress.buffered =>
    \/ updateIsOver = "no"
    \/ updateIsOver = "succeeded" /\ progress.clear
=============================================================================

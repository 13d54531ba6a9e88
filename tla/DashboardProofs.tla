---------------------------- MODULE DashboardProofs ----------------------------
(* Proofs about what the web UI shows and asks for, with the handlers of the     *)
(* controller and the agent behind it: the browser's data and progress, the form *)
(* of a notification channel, the rows of containers with their settings, and   *)
(* the version picker. At the end, the composition of all these components with  *)
(* those of AutomationProofs and RequestProofs.                                *)
EXTENDS MCServices, AutomationProofs, RequestProofs, TLAPS

-----------------------------------------------------------------------------
(* The browser: what it shows is being refreshed, and a finished update shows no *)
(* progress, for any number of changes and events.                          *)

DataTyped ==
  /\ server \in [version : Nat, events : Seq(Event)]
  /\ wire \in Seq(Event)
  /\ view \in [loaded : BOOLEAN, shown : Nat, fetch : [under : BOOLEAN, read : Nat, done : BOOLEAN],
               debounce : BOOLEAN, later : BOOLEAN]
  /\ progress \in [shown : BOOLEAN, buffered : BOOLEAN, flush : BOOLEAN, clear : BOOLEAN]

\* Events that make the browser fetch.
Tells(events) == \E i \in DOMAIN events : events[i].type # "progress"
Triggered == view.debounce \/ view.later \/ Tells(server.events) \/ Tells(wire)

\* No fetch brings back what is older than the data without another one to come.
FetchIsFollowed ==
  /\ view.fetch.done => view.fetch.under
  /\ ~missed =>
       /\ view.fetch.done /\ view.fetch.read # server.version => Triggered
       /\ view.shown < server.version /\ ~view.fetch.under => Triggered

BrowserIInv == DataTyped /\ FetchIsFollowed /\ FinishedShowsNoProgress

LEMMA AppendTells ==
  ASSUME NEW s \in Seq(Event), NEW e \in Event
  PROVE  /\ Append(s, e) \in Seq(Event)
         /\ Tells(Append(s, e)) <=> Tells(s) \/ e.type # "progress"
<1>1. /\ Append(s, e) \in Seq(Event) /\ Len(s) \in Nat
      /\ DOMAIN s = 1..Len(s) /\ DOMAIN Append(s, e) = 1..Len(s) + 1
      /\ \A i \in 1..Len(s) : Append(s, e)[i] = s[i]
      /\ Append(s, e)[Len(s) + 1] = e
  OBVIOUS
<1>2. \A i \in 1..Len(s) + 1 : i \in 1..Len(s) \/ i = Len(s) + 1
  BY <1>1
<1>3. 1..Len(s) \subseteq 1..Len(s) + 1 /\ Len(s) + 1 \in 1..Len(s) + 1
  BY <1>1
<1> QED BY <1>1, <1>2, <1>3 DEF Tells

LEMMA TailTells ==
  ASSUME NEW s \in Seq(Event), s # <<>>
  PROVE  /\ Head(s) \in Event /\ Tail(s) \in Seq(Event)
         /\ Tells(s) <=> Tells(Tail(s)) \/ Head(s).type # "progress"
<1>1. /\ Head(s) = s[1] /\ Len(s) \in Nat /\ Len(s) > 0
      /\ Len(Tail(s)) = Len(s) - 1 /\ \A i \in 1..Len(s) - 1 : Tail(s)[i] = s[i + 1]
  OBVIOUS
<1>2. Head(s) \in Event /\ Tail(s) \in Seq(Event)
  OBVIOUS
<1>3. ASSUME Tells(s) PROVE Tells(Tail(s)) \/ Head(s).type # "progress"
  <2>1. PICK i \in 1..Len(s) : s[i].type # "progress"
    BY <1>3 DEF Tells
  <2>2. CASE i = 1
    BY <1>1, <2>1, <2>2
  <2>3. CASE i # 1
    <3>1. i - 1 \in 1..Len(Tail(s)) /\ Tail(s)[i - 1] = s[i]
      BY <1>1, <2>3
    <3>2. DOMAIN Tail(s) = 1..Len(Tail(s))
      BY <1>2
    <3> QED BY <2>1, <3>1, <3>2 DEF Tells
  <2> QED BY <2>2, <2>3
<1>4. ASSUME Tells(Tail(s)) PROVE Tells(s)
  <2>1. PICK i \in 1..Len(Tail(s)) : Tail(s)[i].type # "progress"
    BY <1>2, <1>4 DEF Tells
  <2>2. i + 1 \in DOMAIN s /\ s[i + 1].type # "progress"
    BY <1>1, <2>1
  <2> QED BY <2>2 DEF Tells
<1>5. ASSUME Head(s).type # "progress" PROVE Tells(s)
  BY <1>1, <1>5 DEF Tells
<1> QED BY <1>2, <1>3, <1>4, <1>5

-----------------------------------------------------------------------------
LEMMA TriggerSuffices ==
  ASSUME Triggered', (view.fetch.done => view.fetch.under)'
  PROVE  FetchIsFollowed'
BY DEF FetchIsFollowed

\* An event of the hub enters the queue of those it has to send.
LEMMA ReportFollowed ==
  ASSUME BrowserIInv, NEW e \in Event, NEW version \in Nat,
         server' = [version |-> version, events |-> Append(server.events, e)],
         version = server.version \/ e.type # "progress",
         UNCHANGED <<socket, wire, view, missed, progress>>
  PROVE  DataTyped' /\ FetchIsFollowed'
<1>1. /\ server.events \in Seq(Event) /\ server'.events = Append(server.events, e)
      /\ server'.version = version
  BY DEF BrowserIInv, DataTyped
<1>2. DataTyped'
  BY <1>1, AppendTells DEF BrowserIInv, DataTyped
<1>3. Triggered => Triggered'
  BY <1>1, AppendTells DEF Triggered
<1>4. e.type # "progress" => Triggered'
  BY <1>1, AppendTells DEF Triggered
<1>5. CASE e.type # "progress"
  BY <1>2, <1>4, <1>5, TriggerSuffices DEF BrowserIInv, FetchIsFollowed
<1>6. CASE version = server.version
  BY <1>1, <1>2, <1>3, <1>6 DEF BrowserIInv, FetchIsFollowed
<1> QED BY <1>5, <1>6

LEMMA DataStep == BrowserIInv /\ [BrowserNext]_browserVars => DataTyped' /\ FetchIsFollowed'
<1> SUFFICES ASSUME BrowserIInv, [BrowserNext]_browserVars PROVE DataTyped' /\ FetchIsFollowed'
  OBVIOUS
<1>a. /\ server \in [version : Nat, events : Seq(Event)] /\ wire \in Seq(Event)
      /\ view \in [loaded : BOOLEAN, shown : Nat, fetch : [under : BOOLEAN, read : Nat, done : BOOLEAN],
                   debounce : BOOLEAN, later : BOOLEAN]
      /\ progress \in [shown : BOOLEAN, buffered : BOOLEAN, flush : BOOLEAN, clear : BOOLEAN]
      /\ FetchIsFollowed
  BY DEF BrowserIInv, DataTyped
<1>1. ASSUME NEW type \in {"status", "heartbeat", "checked"} \cup Completion, AgentReportsChange(type)
      PROVE  DataTyped' /\ FetchIsFollowed'
  <2>1. PICK e : e = [type |-> type, action |-> NoAction]
    OBVIOUS
  <2>2. e \in Event /\ e.type # "progress"
    BY <2>1 DEF Event, Completion
  <2>3. /\ server' = [version |-> server.version + 1, events |-> Append(server.events, e)]
        /\ UNCHANGED <<socket, wire, view, missed, progress>>
    BY <1>1, <2>1 DEF AgentReportsChange, clientUnchanged
  <2> QED BY <1>a, <2>2, <2>3, ReportFollowed
<1>2. ASSUME NEW type \in {"heartbeat", "progress"} \cup Completion, AgentReportsOnly(type)
      PROVE  DataTyped' /\ FetchIsFollowed'
  <2>1. PICK e : e = [type |-> type, action |-> NoAction]
    OBVIOUS
  <2>2. e \in Event
    BY <2>1 DEF Event, Completion
  <2>3. /\ server' = [server EXCEPT !.events = Append(server.events, e)]
        /\ UNCHANGED <<socket, wire, view, missed, progress>>
    BY <1>2, <2>1 DEF AgentReportsOnly, clientUnchanged
  <2>4. server' = [version |-> server.version, events |-> Append(server.events, e)]
    BY <1>a, <2>3
  <2> QED BY <1>a, <2>2, <2>3, <2>4, ReportFollowed
<1>3. ASSUME NEW action \in Action, NEW changes \in BOOLEAN, AgentActs(action, changes)
      PROVE  DataTyped' /\ FetchIsFollowed'
  <2>1. PICK e : e = IF action = Check THEN [type |-> "checked", action |-> NoAction]
                     ELSE [type |-> "action", action |-> action]
    OBVIOUS
  <2>2. e \in Event /\ e.type # "progress"
    BY <2>1 DEF Event
  <2>3. PICK version \in Nat : version = IF changes THEN server.version + 1 ELSE server.version
    BY <1>a
  <2>4. /\ server' = [version |-> version, events |-> Append(server.events, e)]
        /\ UNCHANGED <<socket, wire, view, missed, progress>>
    BY <1>3, <2>1, <2>3 DEF AgentActs, clientUnchanged
  <2> QED BY <2>2, <2>4, ReportFollowed
<1>4. ASSUME NEW skipped \in BOOLEAN, Broadcast(skipped) PROVE DataTyped' /\ FetchIsFollowed'
  <2>1. PICK e : e = Head(server.events)
    OBVIOUS
  <2>2. /\ e \in Event /\ server.events # <<>> /\ Tail(server.events) \in Seq(Event)
        /\ Tells(server.events) <=> Tells(Tail(server.events)) \/ e.type # "progress"
    BY <1>4, <1>a, <2>1, TailTells DEF Broadcast
  <2>3. /\ server'.events = Tail(server.events) /\ server'.version = server.version
        /\ server' \in [version : Nat, events : Seq(Event)] /\ UNCHANGED <<socket, view, progress>>
    BY <1>4, <1>a, <2>2 DEF Broadcast, clientUnchanged
  <2>4. CASE wire' = Append(wire, e) /\ UNCHANGED missed
    <3>1. wire' \in Seq(Event) /\ (Tells(wire') <=> Tells(wire) \/ e.type # "progress")
      BY <1>a, <2>2, <2>4, AppendTells
    <3>2. Triggered => Triggered'
      BY <2>2, <2>3, <3>1 DEF Triggered, Tells
    <3> QED BY <1>a, <2>3, <2>4, <3>1, <3>2 DEF DataTyped, FetchIsFollowed
  <2>5. CASE missed' = TRUE /\ UNCHANGED wire
    BY <1>a, <2>3, <2>5 DEF DataTyped, FetchIsFollowed
  <2> QED BY <1>4, <2>1, <2>4, <2>5 DEF Broadcast
<1>5. CASE SocketOpens \/ DebounceEnds
  <2>1. UNCHANGED <<server, wire, progress>>
    BY <1>5 DEF SocketOpens, DebounceEnds, queryOnly
  <2>2. CASE Joined
    <3>1. view' = view \/ view' = [view EXCEPT !.debounce = FALSE]
      BY <1>5, <2>2 DEF SocketOpens, DebounceEnds, Refetch
    <3>2. /\ view'.fetch = view.fetch /\ view.fetch.under /\ view'.shown = view.shown
          /\ view' \in [loaded : BOOLEAN, shown : Nat, fetch : [under : BOOLEAN, read : Nat, done : BOOLEAN],
                        debounce : BOOLEAN, later : BOOLEAN]
      BY <1>a, <2>2, <3>1 DEF Joined
    <3>3. CASE JoinedTooLate
      <4>3. ASSUME SocketOpens PROVE view' = view /\ (missed' <=> missed)
        <5>1. missed' = (missed /\ JoinedTooLate) /\ view' = view
          BY <2>2, <4>3 DEF SocketOpens, Refetch
        <5>2. missed' <=> missed
          BY <3>3, <5>1
        <5> QED BY <5>1, <5>2
      <4>4. ASSUME DebounceEnds PROVE missed'
        BY <3>3, <4>4 DEF DebounceEnds
      <4>1. (view' = view /\ (missed' <=> missed)) \/ missed'
        BY <1>5, <4>3, <4>4
      <4>2. Triggered /\ view' = view => Triggered'
        BY <2>1 DEF Triggered, Tells
      <4> QED BY <1>a, <2>1, <3>2, <4>1, <4>2 DEF DataTyped, FetchIsFollowed
    <3>4. CASE ~JoinedTooLate
      <4>1. view.fetch.done => view.fetch.read = server.version
        BY <2>2, <3>4 DEF JoinedTooLate
      <4> QED BY <1>a, <2>1, <3>2, <4>1 DEF DataTyped, FetchIsFollowed
    <3> QED BY <3>3, <3>4
  <2>3. CASE ~Joined
    <3>1. PICK fetch : fetch = [under |-> TRUE, read |-> 0, done |-> FALSE]
      OBVIOUS
    <3>2. fetch \in [under : BOOLEAN, read : Nat, done : BOOLEAN] /\ fetch.under /\ ~fetch.done
      BY <3>1
    <3>3. \/ view' = [view EXCEPT !.fetch = fetch]
          \/ view' = [view EXCEPT !.fetch = fetch, !.debounce = FALSE]
      BY <1>5, <1>a, <2>3, <3>1 DEF SocketOpens, DebounceEnds, Refetch, Fetching
    <3>4. /\ view'.fetch = fetch
          /\ view' \in [loaded : BOOLEAN, shown : Nat, fetch : [under : BOOLEAN, read : Nat, done : BOOLEAN],
                        debounce : BOOLEAN, later : BOOLEAN]
      BY <1>a, <3>2, <3>3
    <3> QED BY <1>a, <2>1, <3>2, <3>4 DEF DataTyped, FetchIsFollowed
  <2> QED BY <2>2, <2>3
<1>6. CASE SocketCloses
  <2>1. /\ UNCHANGED <<server, view, progress>> /\ wire' = <<>>
        /\ missed' = (missed \/ wire # <<>>)
    BY <1>6 DEF SocketCloses
  <2>2. DataTyped'
    BY <1>a, <2>1 DEF DataTyped
  <2>6. view'.fetch.done => view'.fetch.under
    BY <1>a, <2>1 DEF FetchIsFollowed
  <2>3. CASE missed'
    <3>1. FetchIsFollowed'
      BY <2>3, <2>6 DEF FetchIsFollowed
    <3> QED BY <2>2, <3>1
  <2>4. CASE ~missed'
    <3>1. ~missed /\ wire' = wire
      BY <2>1, <2>4
    <3>2. Triggered => Triggered'
      BY <2>1, <3>1 DEF Triggered, Tells
    <3>3. FetchIsFollowed'
      BY <1>a, <2>1, <3>1, <3>2 DEF FetchIsFollowed
    <3> QED BY <2>2, <3>3
  <2> QED BY <2>3, <2>4
<1>7. CASE FetchReads \/ FetchFails
  <2>1. PICK fetch \in [under : BOOLEAN, read : Nat, done : BOOLEAN] :
          /\ view' = [view EXCEPT !.fetch = fetch]
          /\ fetch.done => fetch.under
          /\ missed' = TRUE \/ (fetch.under /\ fetch.read = server.version)
    <3>1. CASE FetchReads
      <4>1. PICK fetch : fetch = [under |-> TRUE, read |-> server.version, done |-> TRUE]
        OBVIOUS
      <4>2. fetch \in [under : BOOLEAN, read : Nat, done : BOOLEAN]
        BY <1>a, <4>1
      <4>4. view' = [view EXCEPT !.fetch = fetch] /\ missed' = FALSE
        BY <3>1, <4>1 DEF FetchReads
      <4> QED BY <4>1, <4>2, <4>4
    <3>2. CASE FetchFails
      BY <3>2 DEF FetchFails, NoFetch
    <3> QED BY <1>7, <3>1, <3>2
  <2>2. /\ view'.fetch = fetch
        /\ view' \in [loaded : BOOLEAN, shown : Nat, fetch : [under : BOOLEAN, read : Nat, done : BOOLEAN],
                      debounce : BOOLEAN, later : BOOLEAN]
    BY <1>a, <2>1
  <2>3. UNCHANGED <<server, wire, progress>>
    BY <1>7 DEF FetchReads, FetchFails, queryOnly
  <2> QED BY <1>a, <2>1, <2>2, <2>3 DEF DataTyped, FetchIsFollowed
<1>8. ASSUME NEW changed \in BOOLEAN, FetchArrives(changed) PROVE DataTyped' /\ FetchIsFollowed'
  <2>1. /\ view' = [view EXCEPT !.loaded = TRUE, !.shown = view.fetch.read, !.fetch = NoFetch]
        /\ view.fetch.done
        /\ UNCHANGED <<server, socket, wire, progress, missed>>
    BY <1>8 DEF FetchArrives, queryOnly
  <2>2. /\ view'.shown = view.fetch.read /\ ~view'.fetch.done /\ view'.debounce = view.debounce
        /\ view'.later = view.later
        /\ view' \in [loaded : BOOLEAN, shown : Nat, fetch : [under : BOOLEAN, read : Nat, done : BOOLEAN],
                      debounce : BOOLEAN, later : BOOLEAN]
    BY <1>a, <2>1 DEF NoFetch
  <2>3. Triggered => Triggered'
    BY <2>1, <2>2 DEF Triggered, Tells
  <2> QED BY <1>a, <2>1, <2>2, <2>3 DEF DataTyped, FetchIsFollowed
<1>9. ASSUME \E later \in BOOLEAN : view' = [view EXCEPT !.debounce = TRUE, !.later = later],
             UNCHANGED server, wire' \in Seq(Event),
             progress' \in [shown : BOOLEAN, buffered : BOOLEAN, flush : BOOLEAN, clear : BOOLEAN]
      PROVE  DataTyped' /\ FetchIsFollowed'
  <2>1. /\ view'.debounce /\ view'.fetch = view.fetch
        /\ view' \in [loaded : BOOLEAN, shown : Nat, fetch : [under : BOOLEAN, read : Nat, done : BOOLEAN],
                      debounce : BOOLEAN, later : BOOLEAN]
    BY <1>9, <1>a
  <2>2. FetchIsFollowed'
    BY <1>a, <2>1 DEF FetchIsFollowed, Triggered
  <2> QED BY <1>9, <1>a, <2>1, <2>2 DEF DataTyped
<1>10. CASE LaterInvalidates
  <2>1. view' = [view EXCEPT !.debounce = TRUE, !.later = FALSE]
    BY <1>10, <1>a DEF LaterInvalidates
  <2> QED BY <1>9, <1>10, <1>a, <2>1 DEF LaterInvalidates, queryOnly
<1>11. CASE \/ HandleChange \/ HandleActionResult
            \/ \E type \in Completion : HandleUpdateComplete(type)
            \/ \E old \in BOOLEAN : HandleHeartbeatReceived(old)
  <2>1. wire # <<>> /\ wire' = Tail(wire) /\ UNCHANGED server
    BY <1>11 DEF HandleChange, HandleUpdateComplete, HandleActionResult,
                 HandleHeartbeatReceived, Received, Handled
  <2>2. wire' \in Seq(Event)
    BY <1>a, <2>1, TailTells
  <2>3. \E later \in BOOLEAN : view' = [view EXCEPT !.debounce = TRUE, !.later = later]
    <3>1. [view EXCEPT !.debounce = TRUE] = [view EXCEPT !.debounce = TRUE, !.later = view.later]
      BY <1>a
    <3>2. view.later \in BOOLEAN
      BY <1>a
    <3> QED BY <1>11, <3>1, <3>2
            DEF HandleChange, HandleUpdateComplete, HandleActionResult, HandleHeartbeatReceived
  <2>4. progress' \in [shown : BOOLEAN, buffered : BOOLEAN, flush : BOOLEAN, clear : BOOLEAN]
    <3>1. CASE HandleChange \/ HandleActionResult \/ \E old \in BOOLEAN : HandleHeartbeatReceived(old)
      BY <1>a, <3>1 DEF HandleChange, HandleActionResult, HandleHeartbeatReceived
    <3>2. ASSUME NEW type \in Completion, HandleUpdateComplete(type)
          PROVE  progress' \in [shown : BOOLEAN, buffered : BOOLEAN, flush : BOOLEAN, clear : BOOLEAN]
      <4>1. \/ progress' = [progress EXCEPT !.shown = FALSE, !.buffered = FALSE, !.clear = TRUE]
            \/ progress' = [progress EXCEPT !.clear = TRUE]
        BY <3>2 DEF HandleUpdateComplete
      <4> QED BY <1>a, <4>1
    <3> QED BY <1>11, <3>1, <3>2
  <2> QED BY <1>9, <2>1, <2>2, <2>3, <2>4
<1>12. CASE HandleUpdateProgress
  <2>1. /\ wire # <<>> /\ Head(wire).type = "progress" /\ wire' = Tail(wire)
        /\ UNCHANGED <<server, socket, missed, view>>
        /\ progress' = [progress EXCEPT !.buffered = TRUE, !.flush = TRUE]
    BY <1>12 DEF HandleUpdateProgress, Received, Handled
  <2>2. wire' \in Seq(Event) /\ (Tells(wire) => Tells(wire'))
    BY <1>a, <2>1, TailTells
  <2>3. Triggered => Triggered'
    BY <2>1, <2>2 DEF Triggered, Tells
  <2>4. progress' \in [shown : BOOLEAN, buffered : BOOLEAN, flush : BOOLEAN, clear : BOOLEAN]
    BY <1>a, <2>1
  <2> QED BY <1>a, <2>1, <2>2, <2>3, <2>4 DEF DataTyped, FetchIsFollowed
<1>13. ASSUME UNCHANGED <<server, socket, wire, view, missed>>,
              progress' \in [shown : BOOLEAN, buffered : BOOLEAN, flush : BOOLEAN, clear : BOOLEAN]
       PROVE  DataTyped' /\ FetchIsFollowed'
  BY <1>13, <1>a DEF DataTyped, FetchIsFollowed, Triggered, Tells
<1>14. CASE FlushProgress \/ \E more \in BOOLEAN : ClearProgress(more)
  BY <1>13, <1>14, <1>a DEF FlushProgress, ClearProgress
<1>15. CASE CheckTimesOut \/ (\E action \in Action : PressAction(action))
              \/ \E ok \in BOOLEAN : ActionAnswered(ok)
  BY <1>13, <1>15, <1>a DEF CheckTimesOut, PressAction, ActionAnswered, rowOnly
<1>16. CASE UNCHANGED browserVars
  BY <1>13, <1>16, <1>a DEF browserVars
<1>17. CASE AgentReportsQuietly
  <2>1. server' \in [version : Nat, events : Seq(Event)]
    BY <1>17, <1>a DEF AgentReportsQuietly
  <2> QED BY <1>17, <1>a, <2>1 DEF AgentReportsQuietly, clientUnchanged, DataTyped, FetchIsFollowed
<1> QED BY <1>1, <1>2, <1>3, <1>4, <1>5, <1>6, <1>7, <1>8, <1>10, <1>11, <1>12, <1>14, <1>15, <1>16,
           <1>17 DEF BrowserNext

LEMMA ProgressStep ==
  BrowserIInv /\ [BrowserNext]_browserVars => FinishedShowsNoProgress'
<1> SUFFICES ASSUME BrowserIInv, [BrowserNext]_browserVars PROVE FinishedShowsNoProgress'
  OBVIOUS
<1> USE DEF FinishedShowsNoProgress
<1>a. /\ progress \in [shown : BOOLEAN, buffered : BOOLEAN, flush : BOOLEAN, clear : BOOLEAN]
      /\ FinishedShowsNoProgress
  BY DEF BrowserIInv, DataTyped
<1>1. CASE UNCHANGED <<progress, updateIsOver>>
  BY <1>1, <1>a
<1>2. CASE \/ \E old \in BOOLEAN : HandleHeartbeatReceived(old)
           \/ HandleUpdateProgress
  BY <1>2, <1>a DEF HandleHeartbeatReceived, HandleUpdateProgress
<1>4. ASSUME NEW type \in Completion, HandleUpdateComplete(type) PROVE FinishedShowsNoProgress'
  <2>1. CASE type = "failed"
    <3>1. ~progress'.shown /\ ~progress'.buffered
      BY <1>4, <1>a, <2>1 DEF HandleUpdateComplete
    <3> QED BY <3>1
  <2>2. CASE type = "succeeded"
    <3>1. progress'.clear /\ updateIsOver' = "succeeded"
      BY <1>4, <1>a, <2>2 DEF HandleUpdateComplete
    <3> QED BY <3>1
  <2> QED BY <2>1, <2>2 DEF Completion
<1>3. CASE FlushProgress \/ \E more \in BOOLEAN : ClearProgress(more)
  BY <1>3, <1>a DEF FlushProgress, ClearProgress
<1> QED BY <1>1, <1>2, <1>3, <1>4
        DEF BrowserNext, browserVars, AgentReportsChange, AgentReportsOnly, Broadcast, SocketOpens,
            SocketCloses, FetchReads, FetchFails, DebounceEnds, LaterInvalidates, FetchArrives,
            HandleChange, HandleActionResult, CheckTimesOut, PressAction, AgentActs,
            ActionAnswered, AgentReportsQuietly, clientUnchanged, queryOnly, rowOnly

\* The data is of a version the controller has had, and the rest of the browser has its types.
VersionsInRange ==
  /\ server.version \in 0..MaxVersion
  /\ view.shown \in 0..MaxVersion
  /\ view.fetch.read \in 0..MaxVersion
RestTyped ==
  /\ socket \in {"open", "down"} /\ missed \in BOOLEAN /\ updateIsOver \in {"no"} \cup Completion
  /\ row \in [pending : Action \cup {NoAction}, request : Action \cup {NoAction},
              lastResult : Action \cup {NoAction}]

LEMMA VersionsStep ==
  BrowserIInv /\ VersionsInRange /\ [BrowserNext]_browserVars => VersionsInRange'
<1> SUFFICES ASSUME BrowserIInv, VersionsInRange, [BrowserNext]_browserVars PROVE VersionsInRange'
  OBVIOUS
<1>a. /\ server \in [version : Nat, events : Seq(Event)]
      /\ view \in [loaded : BOOLEAN, shown : Nat, fetch : [under : BOOLEAN, read : Nat, done : BOOLEAN],
                   debounce : BOOLEAN, later : BOOLEAN]
      /\ VersionsInRange /\ MaxVersion \in Nat
  BY BrowserAssumption DEF BrowserIInv, DataTyped
<1> USE DEF VersionsInRange
<1>1. ASSUME NEW type \in {"status", "heartbeat", "checked"} \cup Completion, AgentReportsChange(type)
      PROVE  VersionsInRange'
  <2>1. server.version < MaxVersion /\ server'.version = server.version + 1 /\ UNCHANGED view
    BY <1>1 DEF AgentReportsChange, clientUnchanged
  <2> QED BY <1>a, <2>1
<1>2. ASSUME NEW action \in Action, NEW changes \in BOOLEAN, AgentActs(action, changes)
      PROVE  VersionsInRange'
  <2>1. /\ server'.version = IF changes THEN server.version + 1 ELSE server.version
        /\ changes => server.version < MaxVersion
        /\ UNCHANGED view
    BY <1>2 DEF AgentActs, clientUnchanged
  <2> QED BY <1>a, <2>1
<1>12. CASE AgentReportsQuietly
  <2>1. server.version < MaxVersion /\ server'.version = server.version + 1 /\ UNCHANGED view
    BY <1>12, <1>a DEF AgentReportsQuietly, clientUnchanged
  <2> QED BY <1>a, <2>1
<1>3. ASSUME UNCHANGED view, server'.version = server.version PROVE VersionsInRange'
  BY <1>3, <1>a
<1>4. CASE \/ \E type \in {"heartbeat", "progress"} \cup Completion : AgentReportsOnly(type)
           \/ \E skipped \in BOOLEAN : Broadcast(skipped)
  <2>1. UNCHANGED view /\ \E events : server' = [server EXCEPT !.events = events]
    BY <1>4 DEF AgentReportsOnly, Broadcast, clientUnchanged
  <2>2. server'.version = server.version
    BY <1>a, <2>1
  <2> QED BY <1>3, <2>1, <2>2
<1>5. ASSUME NEW fetch, fetch.read \in 0..MaxVersion, UNCHANGED server,
             \/ view' = [view EXCEPT !.fetch = fetch]
             \/ view' = [view EXCEPT !.fetch = fetch, !.debounce = FALSE]
      PROVE  VersionsInRange'
  <2>1. view'.shown = view.shown /\ view'.fetch = fetch
    BY <1>5, <1>a
  <2> QED BY <1>5, <1>a, <2>1
<1>6. CASE SocketOpens \/ DebounceEnds
  <2>1. PICK fetch : fetch = IF Joined THEN view.fetch ELSE [under |-> TRUE, read |-> 0, done |-> FALSE]
    OBVIOUS
  <2>2. \/ view' = [view EXCEPT !.fetch = fetch]
        \/ view' = [view EXCEPT !.fetch = fetch, !.debounce = FALSE]
    <3>1. view = [view EXCEPT !.fetch = view.fetch]
      BY <1>a
    <3>2. [view EXCEPT !.debounce = FALSE] = [view EXCEPT !.fetch = view.fetch, !.debounce = FALSE]
      BY <1>a
    <3>3. CASE Joined
      BY <1>6, <2>1, <3>1, <3>2, <3>3 DEF SocketOpens, DebounceEnds, Refetch
    <3>4. CASE ~Joined
      BY <1>6, <1>a, <2>1, <3>4 DEF SocketOpens, DebounceEnds, Refetch, Fetching
    <3> QED BY <3>3, <3>4
  <2>3. fetch.read \in 0..MaxVersion /\ UNCHANGED server
    BY <1>6, <1>a, <2>1 DEF SocketOpens, DebounceEnds, queryOnly
  <2> QED BY <1>5, <2>2, <2>3
<1>7. CASE FetchReads
  <2>1. PICK fetch : fetch = [under |-> TRUE, read |-> server.version, done |-> TRUE]
    OBVIOUS
  <2> QED BY <1>5, <1>7, <1>a, <2>1 DEF FetchReads, queryOnly
<1>8. CASE FetchFails
  <2>1. NoFetch.read \in 0..MaxVersion
    BY <1>a DEF NoFetch
  <2> QED BY <1>5, <1>8, <2>1 DEF FetchFails, queryOnly
<1>9. ASSUME NEW changed \in BOOLEAN, FetchArrives(changed) PROVE VersionsInRange'
  <2>1. NoFetch.read \in 0..MaxVersion
    BY <1>a DEF NoFetch
  <2>2. view'.shown = view.fetch.read /\ view'.fetch = NoFetch /\ UNCHANGED server
    BY <1>9, <1>a DEF FetchArrives, queryOnly
  <2> QED BY <1>a, <2>1, <2>2
<1>10. CASE \/ LaterInvalidates \/ HandleChange \/ HandleActionResult
            \/ \E type \in Completion : HandleUpdateComplete(type)
            \/ \E old \in BOOLEAN : HandleHeartbeatReceived(old)
  <2>1. /\ UNCHANGED server
        /\ \/ view' = [view EXCEPT !.debounce = TRUE]
           \/ view' = [view EXCEPT !.debounce = TRUE, !.later = TRUE]
           \/ view' = [view EXCEPT !.later = FALSE, !.debounce = TRUE]
    BY <1>10 DEF LaterInvalidates, HandleChange, HandleUpdateComplete, HandleActionResult,
                 HandleHeartbeatReceived, Handled, queryOnly
  <2>2. view'.shown = view.shown /\ view'.fetch = view.fetch
    BY <1>a, <2>1
  <2> QED BY <1>a, <2>1, <2>2
<1>11. CASE \/ SocketCloses \/ HandleUpdateProgress \/ FlushProgress \/ CheckTimesOut
            \/ \E more \in BOOLEAN : ClearProgress(more)
            \/ \E action \in Action : PressAction(action)
            \/ \E ok \in BOOLEAN : ActionAnswered(ok)
            \/ UNCHANGED browserVars
  BY <1>3, <1>11 DEF SocketCloses, HandleUpdateProgress, FlushProgress, ClearProgress, CheckTimesOut,
                     PressAction, ActionAnswered, Handled, rowOnly, browserVars
<1> QED BY <1>1, <1>2, <1>4, <1>6, <1>7, <1>8, <1>9, <1>10, <1>11, <1>12 DEF BrowserNext

LEMMA RestStep == BrowserIInv /\ RestTyped /\ [BrowserNext]_browserVars => RestTyped'
<1> SUFFICES ASSUME BrowserIInv, RestTyped, [BrowserNext]_browserVars PROVE RestTyped'
  OBVIOUS
<1>a. socket \in {"open", "down"} /\ missed \in BOOLEAN /\ updateIsOver \in {"no"} \cup Completion
  BY DEF RestTyped
<1>r. row \in [pending : Action \cup {NoAction}, request : Action \cup {NoAction},
               lastResult : Action \cup {NoAction}]
  BY DEF RestTyped
<1>1. socket' \in {"open", "down"}
  <2>1. UNCHANGED socket \/ socket' = "open" \/ socket' = "down"
    BY DEF BrowserNext, browserVars, AgentReportsChange, AgentReportsOnly, Broadcast, SocketOpens,
           SocketCloses, FetchReads, FetchFails, DebounceEnds, LaterInvalidates, FetchArrives,
           HandleChange, HandleHeartbeatReceived, HandleUpdateProgress, FlushProgress,
           HandleUpdateComplete, ClearProgress, HandleActionResult, CheckTimesOut, PressAction,
           AgentActs, ActionAnswered, AgentReportsQuietly, clientUnchanged, queryOnly, rowOnly, Handled
  <2> QED BY <1>a, <2>1
<1>2. missed' \in BOOLEAN
  <2>1. \/ UNCHANGED missed \/ missed' = TRUE \/ missed' = FALSE
        \/ SocketCloses \/ SocketOpens \/ DebounceEnds
    BY DEF BrowserNext, browserVars, AgentReportsChange, AgentReportsOnly, Broadcast,
           FetchReads, FetchFails, LaterInvalidates, FetchArrives, HandleChange,
           HandleHeartbeatReceived, HandleUpdateProgress, FlushProgress, HandleUpdateComplete,
           ClearProgress, HandleActionResult, CheckTimesOut, PressAction, AgentActs, ActionAnswered,
           AgentReportsQuietly, rowOnly, Handled
  <2>2. CASE SocketCloses \/ SocketOpens \/ DebounceEnds
    <3>1. \/ missed' = (missed \/ wire # <<>>) \/ missed' = (missed /\ JoinedTooLate)
          \/ missed' = (missed \/ JoinedTooLate)
      BY <2>2 DEF SocketCloses, SocketOpens, DebounceEnds
    <3> QED BY <1>a, <3>1
  <2> QED BY <1>a, <2>1, <2>2
<1>3. updateIsOver' \in {"no"} \cup Completion
  <2>1. UNCHANGED updateIsOver \/ updateIsOver' \in {"no"} \cup Completion
    BY DEF BrowserNext, browserVars, AgentReportsChange, AgentReportsOnly, Broadcast, SocketOpens,
           SocketCloses, FetchReads, FetchFails, DebounceEnds, LaterInvalidates, FetchArrives,
           HandleChange, HandleHeartbeatReceived, HandleUpdateProgress, FlushProgress,
           HandleUpdateComplete, ClearProgress, HandleActionResult, CheckTimesOut, PressAction,
           AgentActs, ActionAnswered, AgentReportsQuietly, clientUnchanged, queryOnly, rowOnly
  <2> QED BY <1>a, <2>1
<1>4. row' \in [pending : Action \cup {NoAction}, request : Action \cup {NoAction},
                lastResult : Action \cup {NoAction}]
  <2>1. \/ UNCHANGED row
        \/ \E changed \in BOOLEAN : FetchArrives(changed)
        \/ HandleActionResult \/ CheckTimesOut
        \/ \E action \in Action : PressAction(action)
        \/ \E ok \in BOOLEAN : ActionAnswered(ok)
    BY DEF BrowserNext, browserVars, AgentReportsChange, AgentReportsOnly, Broadcast, SocketOpens,
           SocketCloses, FetchReads, FetchFails, DebounceEnds, LaterInvalidates, HandleChange,
           HandleHeartbeatReceived, HandleUpdateProgress, FlushProgress, HandleUpdateComplete,
           ClearProgress, AgentActs, AgentReportsQuietly
  <2>2. CASE \/ \E changed \in BOOLEAN : FetchArrives(changed)
             \/ CheckTimesOut
             \/ \E ok \in BOOLEAN : ActionAnswered(ok)
    BY <1>r, <2>2 DEF FetchArrives, CheckTimesOut, ActionAnswered
  <2>3. CASE HandleActionResult
    <3>1. PICK result : result = Head(wire).action
      OBVIOUS
    <3>2. wire # <<>> /\ wire \in Seq(Event)
      BY <2>3 DEF HandleActionResult, Received, BrowserIInv, DataTyped
    <3>3. result \in Action \cup {NoAction}
      BY <3>1, <3>2, TailTells DEF Event
    <3>4. row' = [row EXCEPT !.lastResult = result, !.pending = SettledAction(row.pending, result)]
      BY <1>r, <2>3, <3>1 DEF HandleActionResult
    <3> QED BY <1>r, <3>3, <3>4 DEF SettledAction
  <2>4. CASE \E action \in Action : PressAction(action)
    BY <1>r, <2>4 DEF PressAction, SettledAction
  <2> QED BY <1>r, <2>1, <2>2, <2>3, <2>4
<1> QED BY <1>1, <1>2, <1>3, <1>4 DEF RestTyped

-----------------------------------------------------------------------------
(* Theorems.                                                                 *)

\* The inductive invariant of the browser (useSocket.ts, useStore.ts): what is fetched is
\* fetched again when it is old by then, but for what missed stands for.
THEOREM BrowserInvariant == BrowserSpec => []BrowserIInv
<1>1. BrowserInit => BrowserIInv
  <2> SUFFICES ASSUME BrowserInit PROVE BrowserIInv
    OBVIOUS
  <2>1. DataTyped
    BY DEF BrowserInit, DataTyped, Fetching
  <2>2. FetchIsFollowed /\ FinishedShowsNoProgress
    BY DEF BrowserInit, FetchIsFollowed, FinishedShowsNoProgress, Fetching
  <2> QED BY <2>1, <2>2 DEF BrowserIInv
<1>2. BrowserIInv /\ [BrowserNext]_browserVars => BrowserIInv'
  BY DataStep, ProgressStep DEF BrowserIInv
<1> QED BY <1>1, <1>2, PTL DEF BrowserSpec

\* For any number of changes and events: data older than the controller's is about to be
\* fetched, or an event that makes the browser fetch it is under way, unless an event was
\* lost, a fetch failed, a change had no event, or an invalidation joined the first fetch too
\* late (onopen, the debounce and the later invalidation of useSocket.ts).
THEOREM StaleViewsAreRefreshed == BrowserSpec => []StaleViewHasTrigger
<1>1. ASSUME BrowserIInv PROVE StaleViewHasTrigger
  <2> SUFFICES ASSUME socket = "open", ~missed, view.shown < server.version, ~Refreshing
               PROVE  server.events # <<>> \/ \E i \in DOMAIN wire : wire[i].type # "progress"
    BY DEF StaleViewHasTrigger
  <2>1. view.fetch.under => view.fetch.done /\ view.fetch.read # server.version
    BY DEF Refreshing
  <2>2. Triggered
    BY <1>1, <2>1 DEF BrowserIInv, FetchIsFollowed
  <2>3. Tells(server.events) => server.events # <<>>
    BY <1>1 DEF Tells, BrowserIInv, DataTyped
  <2> QED BY <2>2, <2>3 DEF Triggered, Refreshing, Tells
<1> QED BY <1>1, BrowserInvariant, PTL

\* For any number of events: the flush timer brings no progress back after the
\* UPDATE_COMPLETE of a failed update, and after that of a successful one the fallback timer
\* is armed for as long as progress is shown or buffered (handleWSEvent).
THEOREM ProgressEnds == BrowserSpec => []FinishedShowsNoProgress
<1>1. BrowserIInv => FinishedShowsNoProgress
  BY DEF BrowserIInv
<1> QED BY <1>1, BrowserInvariant, PTL

\* For any number of changes and events: the data shown and fetched is of a version the
\* controller has had, and the queues, the row and the timers have values of their types
\* (useSocket.ts, useStore.ts, ContainerRow).
THEOREM BrowserIsTyped == BrowserSpec => []BrowserTypeOK
<1>1. BrowserInit => VersionsInRange /\ RestTyped
  <2> SUFFICES ASSUME BrowserInit PROVE VersionsInRange /\ RestTyped
    OBVIOUS
  <2>1. VersionsInRange
    BY BrowserAssumption DEF BrowserInit, VersionsInRange, Fetching
  <2>2. RestTyped
    BY DEF BrowserInit, RestTyped
  <2> QED BY <2>1, <2>2
<1>2. BrowserIInv /\ VersionsInRange /\ RestTyped => BrowserTypeOK
  BY DEF BrowserIInv, DataTyped, VersionsInRange, RestTyped, BrowserTypeOK
<1> QED BY <1>1, <1>2, BrowserInvariant, VersionsStep, RestStep, PTL DEF BrowserSpec

-----------------------------------------------------------------------------
(* Notification channels.                                                    *)

\* What the route has found is a channel.
FoundIsChannel == save.pc = "found" => save.id \in NoticeChannel

FormIInv == FormTypeOK /\ FoundIsChannel

\* The step of a channel's row that the form, the switch or the button Delete asks for.
RowStep(c) ==
  \/ channels[c] = NoChannel
  \/ channels'[c] = NoChannel
  \/ channels'[c] = channels[c]
  \/ /\ save.id = c /\ save.config \in Field
     /\ channels'[c] = [channels[c] EXCEPT !.config = save.config]
  \/ \E enabled \in BOOLEAN :
       /\ <<c, enabled>> \in switches
       /\ channels'[c] = [channels[c] EXCEPT !.enabled = enabled]

LEMMA RowsMove ==
  ASSUME FormIInv, [FormNext]_formVars
  PROVE  /\ channels' \in [NoticeChannel -> ChannelRow \cup {NoChannel}]
         /\ \A c \in NoticeChannel : RowStep(c)
<1> USE FormAssumption DEF FormIInv, FormTypeOK, RowStep
<1>1. CASE UNCHANGED channels
  BY <1>1
<1>2. ASSUME NEW c \in NoticeChannel, InsertChannel(c)
      PROVE  /\ channels' \in [NoticeChannel -> ChannelRow \cup {NoChannel}]
             /\ \A d \in NoticeChannel : RowStep(d)
  BY <1>2 DEF InsertChannel, ChannelRow
<1>3. CASE UpdateChannel
  <2>1. CASE channels[save.id] = NoChannel
    BY <1>3, <2>1 DEF UpdateChannel
  <2>2. CASE channels[save.id] # NoChannel
    <3>1. save.id \in NoticeChannel /\ channels[save.id] \in ChannelRow
      BY <1>3, <2>2 DEF UpdateChannel, FoundIsChannel
    <3>2. channels' = [channels EXCEPT ![save.id] = [channels[save.id] EXCEPT !.config = save.config]]
      BY <1>3, <2>2 DEF UpdateChannel, Updated
    <3> QED BY <3>1, <3>2 DEF ChannelRow
  <2> QED BY <2>1, <2>2
<1>4. ASSUME NEW c \in NoticeChannel, NEW enabled \in BOOLEAN, StoreToggle(c, enabled)
      PROVE  /\ channels' \in [NoticeChannel -> ChannelRow \cup {NoChannel}]
             /\ \A d \in NoticeChannel : RowStep(d)
  <2>1. CASE channels[c] = NoChannel
    BY <1>4, <2>1 DEF StoreToggle
  <2>2. CASE channels[c] # NoChannel
    <3>1. channels[c] \in ChannelRow /\ <<c, enabled>> \in switches
      BY <1>4, <2>2 DEF StoreToggle
    <3>2. channels' = [channels EXCEPT ![c] = [channels[c] EXCEPT !.enabled = enabled]]
      BY <1>4, <2>2 DEF StoreToggle
    <3> QED BY <3>1, <3>2 DEF ChannelRow
  <2> QED BY <2>1, <2>2
<1>5. ASSUME NEW c \in NoticeChannel, DeleteChannel(c)
      PROVE  /\ channels' \in [NoticeChannel -> ChannelRow \cup {NoChannel}]
             /\ \A d \in NoticeChannel : RowStep(d)
  BY <1>5 DEF DeleteChannel
<1>6. CASE \/ OpenAdd \/ DetailArrives \/ CancelForm \/ EscapeForm \/ FormCloses \/ LeaveTab
           \/ \E k \in Kind : ChooseType(k)
           \/ \E v \in ConfigValue : FillIn(v)
           \/ HandleSave \/ SaveSucceeds \/ SaveFails \/ FindChannel
           \/ \E c \in NoticeChannel : \/ OpenEdit(c)
                                       \/ \E enabled \in BOOLEAN : ToggleChannel(c, enabled)
           \/ UNCHANGED formVars
  <2>1. UNCHANGED channels
    BY <1>6 DEF OpenAdd, DetailArrives, CancelForm, EscapeForm, FormCloses, LeaveTab, ChooseType,
                FillIn, HandleSave, SaveSucceeds, SaveFails, FindChannel, OpenEdit, ToggleChannel,
                rowsUnchanged, formVars
  <2> QED BY <1>1, <2>1
<1>7. FormNext \/ UNCHANGED formVars
  OBVIOUS
<1> HIDE DEF FormIInv, FormTypeOK, RowStep
<1> QED BY <1>2, <1>3, <1>4, <1>5, <1>6, <1>7, Zenon DEF FormNext

LEMMA FormStep == FormIInv /\ [FormNext]_formVars => FormIInv'
<1> SUFFICES ASSUME FormIInv, [FormNext]_formVars PROVE FormIInv'
  OBVIOUS
<1>1. channels' \in [NoticeChannel -> ChannelRow \cup {NoChannel}]
  BY RowsMove
<1> USE FormAssumption, <1>1 DEF FormIInv, FormTypeOK, FoundIsChannel
<1>2. CASE OpenAdd \/ EscapeForm \/ \E c \in NoticeChannel : OpenEdit(c)
  <2>1. CASE OpenAdd
    BY <2>1 DEF OpenAdd, rowsUnchanged
  <2>2. CASE EscapeForm
    BY <2>2 DEF EscapeForm, rowsUnchanged
  <2>3. ASSUME NEW c \in NoticeChannel, OpenEdit(c) PROVE FormIInv'
    <3>1. [form EXCEPT !.open = TRUE, !.edit = c, !.seen = Blank] \in
            [open : BOOLEAN, edit : NoticeChannel \cup {NoChannel}, type : Kind, config : Field,
             seen : Field, state : {"idle", "saving", "success", "error"},
             saved : NoticeChannel \cup {NoChannel}]
      BY DEF Field
    <3> QED BY <2>3, <3>1 DEF OpenEdit, rowsUnchanged
  <2> QED BY <1>2, <2>1, <2>2, <2>3
<1>a. \A k \in Kind : ChooseType(k) => FormIInv'
  BY DEF ChooseType, rowsUnchanged
<1>b. \A v \in ConfigValue : FillIn(v) => FormIInv'
  BY DEF FillIn, rowsUnchanged, Field
<1>c. CASE CancelForm \/ FormCloses
  <2>1. Reset(form) \in [open : BOOLEAN, edit : NoticeChannel \cup {NoChannel}, type : Kind,
                         config : Field, seen : Field, state : {"idle", "saving", "success", "error"},
                         saved : NoticeChannel \cup {NoChannel}]
    BY DEF Reset, EmptyForm, Field
  <2> QED BY <1>c, <2>1 DEF CancelForm, FormCloses, rowsUnchanged
<1>3. CASE DetailArrives
  <2>1. /\ form.edit \in NoticeChannel /\ channels[form.edit] \in ChannelRow
    BY <1>3 DEF DetailArrives
  <2>2. Detail(channels[form.edit]) \in Field
    BY <2>1 DEF Detail, ChannelRow, Field
  <2> QED BY <1>3, <2>1, <2>2 DEF DetailArrives, rowsUnchanged, ChannelRow
<1>4. CASE HandleSave
  BY <1>4 DEF HandleSave
<1>d. CASE LeaveTab
  <2>1. PICK nobody \in BOOLEAN : nobody = (save.pc = "none")
    OBVIOUS
  <2>2. form' = EmptyForm /\ closers' = 0 /\ save' = [save EXCEPT !.heard = nobody] /\ UNCHANGED switches
    BY <1>d, <2>1 DEF LeaveTab
  <2> QED BY <2>2 DEF EmptyForm, Field, Kind
<1> DEFINE Forms == [open : BOOLEAN, edit : NoticeChannel \cup {NoChannel}, type : Kind, config : Field,
                     seen : Field, state : {"idle", "saving", "success", "error"},
                     saved : NoticeChannel \cup {NoChannel}]
<1>e. ASSUME save' = NoSave, form' \in Forms, closers' \in 0..1, UNCHANGED switches
      PROVE  FormIInv'
  BY <1>e DEF NoSave, Field, Kind
<1>h. CASE SaveSucceeds
  <2>1. CASE save.heard
    <3>1. form' \in Forms
      <4>1. /\ form' = [form EXCEPT !.state = "success", !.saved = save.id]
            /\ save.id \in NoticeChannel \cup {NoChannel}
        BY <1>h, <2>1 DEF SaveSucceeds
      <4> QED BY <4>1
    <3> QED BY <1>h, <1>e, <2>1, <3>1 DEF SaveSucceeds
  <2>2. CASE ~save.heard
    BY <1>h, <1>e, <2>2 DEF SaveSucceeds
  <2> QED BY <2>1, <2>2
<1>f. CASE SaveFails
  <2>1. form' = [form EXCEPT !.state = "error"] \/ form' = form
    BY <1>f DEF SaveFails
  <2>2. form' \in Forms
    BY <2>1
  <2> QED BY <1>f, <1>e, <2>2 DEF SaveFails
<1>g. CASE FindChannel \/ UpdateChannel
  BY <1>g DEF FindChannel, UpdateChannel
<1>5. ASSUME NEW c \in NoticeChannel, InsertChannel(c) \/ DeleteChannel(c)
      PROVE  FormIInv'
  BY <1>5 DEF InsertChannel, DeleteChannel
<1>6. ASSUME NEW c \in NoticeChannel, NEW enabled \in BOOLEAN,
             ToggleChannel(c, enabled) \/ StoreToggle(c, enabled)
      PROVE  FormIInv'
  BY <1>6 DEF ToggleChannel, StoreToggle
<1>7. CASE UNCHANGED formVars
  BY <1>7 DEF formVars
<1> QED BY <1>2, <1>3, <1>4, <1>5, <1>6, <1>7, <1>a, <1>b, <1>c, <1>d, <1>f, <1>g, <1>h DEF FormNext

\* The invariant of the form, its requests and the channels, for any number of channels.
THEOREM FormInvariant == FormSpec => []FormIInv
<1>1. FormInit => FormIInv
  BY FormAssumption DEF FormInit, FormIInv, FormTypeOK, FoundIsChannel, EmptyForm, NoSave, Field, Kind
<1> QED BY <1>1, FormStep, PTL DEF FormSpec

\* For any number of channels and of switches under way: a save touches the configuration
\* of its channel only, and a switch only whether it is enabled (updateNotificationChannel).
THEOREM EditsAndSwitchesApart == FormSpec => EditsAndSwitchesCommute
<1>1. FormIInv /\ [FormNext]_formVars
        => [\A c \in NoticeChannel :
              channels[c] # NoChannel /\ channels'[c] # NoChannel =>
                /\ channels'[c].type = channels[c].type
                /\ channels'[c].enabled # channels[c].enabled => <<c, channels'[c].enabled>> \in switches
                /\ channels'[c].config # channels[c].config => save.id = c]_formVars
  <2> SUFFICES ASSUME FormIInv, [FormNext]_formVars,
                      NEW c \in NoticeChannel, channels[c] # NoChannel, channels'[c] # NoChannel
               PROVE  /\ channels'[c].type = channels[c].type
                      /\ channels'[c].enabled # channels[c].enabled => <<c, channels'[c].enabled>> \in switches
                      /\ channels'[c].config # channels[c].config => save.id = c
    OBVIOUS
  <2>1. RowStep(c) /\ channels[c] \in ChannelRow
    BY RowsMove DEF FormIInv, FormTypeOK
  <2> QED BY <2>1 DEF RowStep, ChannelRow
<1> QED BY <1>1, FormInvariant, PTL DEF FormSpec, EditsAndSwitchesCommute

-----------------------------------------------------------------------------
(* Automatic updates.                                                        *)

\* What a check has found is about one candidate.
OneCandidate(reports) == \A r, q \in reports : r.candidate = q.candidate
RowOf(service, stored) == stored = NotStored \/ stored.service \in service
Order == [ids : SUBSET DockerId, auto : BOOLEAN, rollback : BOOLEAN]

AgreeingMessage == {m \in Message : OneCandidate(m.reports)}

\* The containers whose settings have forbidden an update since the check was handled are
\* forbidden by the rows the decision is made with: the current ones, until they are read.
BarredByRows(rows) ==
  \A i \in handling.barred : \A r \in handling.reports : r.id = i => Barred(rows[i], r.candidate)
BarredStays ==
  /\ handling.pc \in {"stored", "decided"} => BarredByRows(containerRows)
  /\ handling.pc = "read" => BarredByRows(handling.rows)

HandlingTyped ==
  /\ DOMAIN handling = {"pc", "reports", "rows", "barred"}
  /\ handling.pc \in {"idle", "stored", "decided", "read"}
  /\ handling.reports \in SUBSET Report
  /\ handling.rows \in {<<>>} \cup [DockerId -> StoredRow]
  /\ handling.barred \in SUBSET DockerId

HandlingFine == HandlingTyped /\ OneCandidate(handling.reports) /\ BarredStays

RowsIInv ==
  /\ RowsTypeOK
  /\ HandlingFine
  /\ \A i \in DockerId : RowOf(Service, containerRows[i])
  /\ inbox \in Seq(AgreeingMessage)

LEMMA HeadTail ==
  ASSUME NEW S, NEW s \in Seq(S), s # <<>>
  PROVE  Head(s) \in S /\ Tail(s) \in Seq(S)
OBVIOUS

\* A row keeps its settings, and is a row if it was one.
LEMMA RowsKeep ==
  ASSUME RowsIInv, [RowsNext]_rowsVars
  PROVE  /\ containerRows' \in [DockerId -> StoredRow]
         /\ \A i \in DockerId : RowOf(Service, containerRows'[i])
<1>a. /\ containerRows \in [DockerId -> StoredRow] /\ inbox \in Seq(Message)
      /\ patch \in [id : DockerId \cup {NoId}, ui : Settings]
      /\ \A i \in DockerId : RowOf(Service, containerRows[i])
  BY DEF RowsIInv, RowsTypeOK
<1> USE <1>a DEF RowOf
<1> DEFINE Goal == /\ containerRows' \in [DockerId -> StoredRow]
                   /\ \A i \in DockerId : RowOf(Service, containerRows'[i])
<1>0. NotStored \in StoredRow /\ NotStored.service = Unset
  BY RowsAssumption DEF NotStored, StoredRow, NoSettings, Settings
<1>1. CASE UNCHANGED containerRows
  BY <1>1
<1>2. CASE HandleHeartbeat
  <2> DEFINE reported(i) == \E r \in Head(inbox).reports : r.id = i
             r(i) == CHOOSE r \in Head(inbox).reports : r.id = i
             kept(i) == [containerRows[i] EXCEPT !.service = r(i).service, !.label = r(i).label]
  <2>1. Head(inbox) \in Message
    BY <1>2, HeadTail, Zenon DEF HandleHeartbeat, HubTakes
  <2>2. containerRows' = [i \in DockerId |-> IF reported(i) THEN kept(i) ELSE NotStored]
    BY <1>2 DEF HandleHeartbeat
  <2>3. ASSUME NEW i \in DockerId, reported(i) PROVE kept(i) \in StoredRow /\ kept(i).service \in Service
    <3>1. r(i) \in Head(inbox).reports
      BY <2>3
    <3>2. r(i) \in Report
      BY <2>1, <3>1 DEF Message
    <3> HIDE DEF r
    <3> QED BY <3>2 DEF Report, StoredRow
  <2> HIDE DEF reported, kept
  <2> QED BY <1>0, <2>2, <2>3
<1>3. ASSUME containerRows' = [i \in DockerId |-> containerRows'[i]],
             \A i \in DockerId :
               \/ containerRows'[i] = containerRows[i]
               \/ \E has \in BOOLEAN : /\ containerRows[i] # NotStored
                                       /\ containerRows'[i] = [containerRows[i] EXCEPT !.hasUpdate = has]
      PROVE  Goal
  <2>1. ASSUME NEW i \in DockerId
        PROVE  containerRows'[i] \in StoredRow /\ RowOf(Service, containerRows'[i])
    <3>1. ASSUME NEW has \in BOOLEAN, containerRows[i] # NotStored,
                 containerRows'[i] = [containerRows[i] EXCEPT !.hasUpdate = has]
          PROVE  containerRows'[i] \in StoredRow /\ RowOf(Service, containerRows'[i])
      <4>1. containerRows[i] \in StoredRow /\ containerRows[i].service \in Service
        BY <3>1
      <4> QED BY <3>1, <4>1 DEF StoredRow
    <3>2. CASE containerRows'[i] = containerRows[i]
      BY <3>2
    <3> QED BY <1>3, <3>1, <3>2
  <2> QED BY <1>3, <2>1
<1>4. CASE HandleCheck
  <2> DEFINE reports == Head(inbox).reports
             touched == [i \in DockerId |-> \E r \in reports : r.id = i]
             has == [i \in DockerId |-> \E r \in reports : r.id = i /\ r.candidate # Unset]
  <2>1. containerRows' = [i \in DockerId |->
          IF touched[i] /\ containerRows[i] # NotStored
          THEN [containerRows[i] EXCEPT !.hasUpdate = has[i]] ELSE containerRows[i]]
    BY <1>4 DEF HandleCheck
  <2>2. \A i \in DockerId : has[i] \in BOOLEAN
    OBVIOUS
  <2> HIDE DEF touched, has
  <2>3. \A i \in DockerId :
          containerRows'[i] = IF touched[i] /\ containerRows[i] # NotStored
                              THEN [containerRows[i] EXCEPT !.hasUpdate = has[i]] ELSE containerRows[i]
    BY <2>1
  <2>4. containerRows' = [i \in DockerId |-> containerRows'[i]]
    BY <2>1
  <2> QED BY <1>3, <2>2, <2>3, <2>4
<1>5. ASSUME NEW newer \in BOOLEAN, HandleResult(newer) PROVE Goal
  <2> DEFINE ids == {r.id : r \in Head(inbox).reports}
             touched == [i \in DockerId |-> Head(inbox).success /\ i \in ids]
             has == [i \in DockerId |-> newer /\ Head(inbox).rollback]
  <2>1. containerRows' = [i \in DockerId |->
          IF touched[i] /\ containerRows[i] # NotStored
          THEN [containerRows[i] EXCEPT !.hasUpdate = has[i]] ELSE containerRows[i]]
    BY <1>5 DEF HandleResult
  <2>2. \A i \in DockerId : has[i] \in BOOLEAN
    OBVIOUS
  <2> HIDE DEF touched, has
  <2>3. \A i \in DockerId :
          containerRows'[i] = IF touched[i] /\ containerRows[i] # NotStored
                              THEN [containerRows[i] EXCEPT !.hasUpdate = has[i]] ELSE containerRows[i]
    BY <2>1
  <2>4. containerRows' = [i \in DockerId |-> containerRows'[i]]
    BY <2>1
  <2> QED BY <1>3, <2>2, <2>3, <2>4
<1>6. CASE UpdateContainerPolicy
  <2>1. CASE containerRows[patch.id] = NotStored
    BY <1>6, <2>1 DEF UpdateContainerPolicy
  <2>2. CASE containerRows[patch.id] # NotStored /\ patch.id \in DockerId
    <3>1. containerRows' = [containerRows EXCEPT ![patch.id] = [containerRows[patch.id] EXCEPT !.ui = patch.ui]]
      BY <1>6, <2>2 DEF UpdateContainerPolicy
    <3>2. patch.ui \in Settings
      OBVIOUS
    <3> QED BY <2>2, <3>1, <3>2 DEF StoredRow
  <2>3. CASE containerRows[patch.id] # NotStored /\ patch.id \notin DockerId
    BY <1>6, <2>3 DEF UpdateContainerPolicy
  <2> QED BY <2>1, <2>2, <2>3
<1>7. CASE \/ AgentReports
           \/ \E candidate \in Candidate \cup {Unset} : AgentChecks(candidate)
           \/ \E s \in Service, i \in DockerId : AgentRecreates(s, i) \/ AgentFailsTo(s, i)
           \/ DecideOnUpdate \/ ReadRows
           \/ \E young \in SUBSET DockerId : SendAutoUpdate(young)
           \/ CollapseRow \/ SavePolicy
           \/ \E i \in DockerId : ExpandRow(i) \/ \E back \in BOOLEAN : AskForUpdate(i, back)
           \/ \E ui \in UiSettings : EditRow(ui)
           \/ \E autoUpdate \in BOOLEAN, level \in Level : SetConfig(autoUpdate, level)
           \/ UNCHANGED rowsVars
  <2>1. UNCHANGED containerRows
    BY <1>7 DEF AgentReports, AgentChecks, AgentRecreates, AgentFailsTo, DecideOnUpdate, ReadRows,
                SendAutoUpdate, CollapseRow, SavePolicy, ExpandRow, AskForUpdate, EditRow, SetConfig,
                agentUnchanged, rowsVars
  <2> QED BY <1>1, <2>1
<1> QED BY <1>2, <1>4, <1>5, <1>6, <1>7 DEF RowsNext

\* The messages of the agent are about containers of this name, and one candidate.
LEMMA InboxKeeps ==
  ASSUME RowsIInv, [RowsNext]_rowsVars
  PROVE  inbox' \in Seq(AgreeingMessage)
<1>a. /\ inbox \in Seq(AgreeingMessage)
      /\ docker \in [Service -> [id : DockerId, label : LabelSettings]]
      /\ orders \in Seq(Order)
  BY DEF RowsIInv, RowsTypeOK, Order
<1>1. CASE UNCHANGED inbox \/ (inbox # <<>> /\ inbox' = Tail(inbox))
  BY <1>1, <1>a, HeadTail
<1>2. ASSUME NEW type \in {"heartbeat", "check", "result"}, NEW reports \in SUBSET Report,
             OneCandidate(reports), NEW success \in BOOLEAN, NEW back \in BOOLEAN,
             Tell(type, reports, success, back)
      PROVE  inbox' \in Seq(AgreeingMessage)
  <2>1. [type |-> type, reports |-> reports, success |-> success, rollback |-> back] \in AgreeingMessage
    BY <1>2 DEF AgreeingMessage, Message
  <2> QED BY <1>2, <1>a, <2>1 DEF Tell
<1>3. ASSUME NEW candidate \in Candidate \cup {Unset}
      PROVE  Reports(candidate) \in SUBSET Report /\ OneCandidate(Reports(candidate))
  BY <1>a, SettingsAssumption DEF Reports, Report, OneCandidate
<1>4. ASSUME NEW s \in Service, NEW i \in DockerId
      PROVE  ResultOf(s, i) \in SUBSET Report /\ OneCandidate(ResultOf(s, i))
  BY <1>a, SettingsAssumption DEF ResultOf, Report, OneCandidate
<1>5. CASE AgentReports
  BY <1>2, <1>3, <1>5 DEF AgentReports
<1>6. ASSUME NEW candidate \in Candidate \cup {Unset}, AgentChecks(candidate)
      PROVE  inbox' \in Seq(AgreeingMessage)
  BY <1>2, <1>3, <1>6 DEF AgentChecks
<1>7. ASSUME NEW s \in Service, NEW i \in DockerId, AgentRecreates(s, i) \/ AgentFailsTo(s, i)
      PROVE  inbox' \in Seq(AgreeingMessage)
  <2>1. Head(orders).rollback \in BOOLEAN
    <3>1. orders # <<>>
      BY <1>7 DEF AgentRecreates, AgentFailsTo
    <3>2. Head(orders) \in Order
      BY <1>a, <3>1, HeadTail
    <3> QED BY <3>2 DEF Order
  <2>2. \E success \in BOOLEAN : Tell("result", ResultOf(s, i), success, Head(orders).rollback)
    BY <1>7, Zenon DEF AgentRecreates, AgentFailsTo
  <2> QED BY <1>2, <1>4, <2>1, <2>2
<1>8. CASE HandleHeartbeat \/ HandleCheck \/ \E newer \in BOOLEAN : HandleResult(newer)
  <2>1. inbox # <<>> /\ inbox' = Tail(inbox)
    BY <1>8, Zenon DEF HandleHeartbeat, HandleCheck, HandleResult, HubTakes
  <2> QED BY <1>1, <2>1
<1>9. CASE \/ DecideOnUpdate \/ ReadRows
           \/ \E young \in SUBSET DockerId : SendAutoUpdate(young)
           \/ CollapseRow \/ SavePolicy \/ UpdateContainerPolicy
           \/ \E i \in DockerId : ExpandRow(i) \/ \E back \in BOOLEAN : AskForUpdate(i, back)
           \/ \E ui \in UiSettings : EditRow(ui)
           \/ \E autoUpdate \in BOOLEAN, level \in Level : SetConfig(autoUpdate, level)
           \/ UNCHANGED rowsVars
  <2>1. UNCHANGED inbox
    BY <1>9 DEF DecideOnUpdate, ReadRows, SendAutoUpdate, CollapseRow, SavePolicy,
                UpdateContainerPolicy, ExpandRow, AskForUpdate, EditRow, SetConfig, uiUnchanged, rowsVars
  <2> QED BY <1>1, <2>1
<1> QED BY <1>5, <1>6, <1>7, <1>8, <1>9 DEF RowsNext

\* An order that asks for an automatic update was decided on with the rows that were read.
AutoOrder(order) ==
  order.auto =>
    /\ handling.pc = "read"
    /\ \A i \in order.ids :
         \E r \in handling.reports : r.id = i /\ ~Barred(handling.rows[i], r.candidate)

LEMMA OrdersMove ==
  ASSUME RowsIInv, [RowsNext]_rowsVars
  PROVE  /\ orders' \in Seq(Order)
         /\ Len(orders') > Len(orders) => AutoOrder(Last(orders'))
<1>a. /\ orders \in Seq(Order) /\ handling.reports \in SUBSET Report
  BY DEF RowsIInv, RowsTypeOK, Order
<1> DEFINE Goal == /\ orders' \in Seq(Order)
                   /\ Len(orders') > Len(orders) => AutoOrder(Last(orders'))
<1>1. CASE UNCHANGED orders
  BY <1>1, <1>a
<1>2. ASSUME NEW order \in Order, AutoOrder(order), orders' = Append(orders, order)
      PROVE  Goal
  <2>1. Last(orders') = order
    BY <1>2, <1>a DEF Last
  <2> QED BY <1>2, <1>a, <2>1
<1>3. ASSUME NEW i \in DockerId, orders # <<>>, Done(i) PROVE Goal
  <2>1. CASE orders' = Tail(orders)
    BY <1>3, <1>a, <2>1
  <2>2. CASE orders' = [orders EXCEPT ![1].ids = @ \ {i}]
    <3>1. orders[1] \in Order /\ 1 \in 1..Len(orders)
      BY <1>3, <1>a
    <3>2. orders' = [orders EXCEPT ![1] = [orders[1] EXCEPT !.ids = orders[1].ids \ {i}]]
      BY <2>2
    <3>3. [orders[1] EXCEPT !.ids = orders[1].ids \ {i}] \in Order
      BY <3>1 DEF Order
    <3> QED BY <1>a, <3>1, <3>2, <3>3
  <2> QED BY <1>3, <2>1, <2>2 DEF Done
<1>4. ASSUME NEW s \in Service, NEW i \in DockerId, AgentRecreates(s, i) \/ AgentFailsTo(s, i)
      PROVE  Goal
  <2>1. docker[s].id \in DockerId
    BY DEF RowsIInv, RowsTypeOK
  <2>2. orders # <<>> /\ (Done(docker[s].id) \/ Done(i))
    BY <1>4 DEF AgentRecreates, AgentFailsTo
  <2> QED BY <1>3, <2>1, <2>2
<1>5. ASSUME NEW young \in SUBSET DockerId, SendAutoUpdate(young) PROVE Goal
  <2> DEFINE allowed == {r \in handling.reports : ~Barred(handling.rows[r.id], r.candidate)}
             ids == {r.id : r \in allowed} \ young
             order == [ids |-> ids, auto |-> TRUE, rollback |-> FALSE]
  <2>1. orders' = Append(orders, order) \/ UNCHANGED orders
    BY <1>5 DEF SendAutoUpdate
  <2>2. ids \in SUBSET DockerId
    BY <1>a DEF Report
  <2>3. handling.pc = "read" /\ \A i \in ids : \E r \in handling.reports :
          r.id = i /\ ~Barred(handling.rows[i], r.candidate)
    BY <1>5 DEF SendAutoUpdate
  <2>4. order \in Order /\ AutoOrder(order)
    <3> HIDE DEF ids
    <3> QED BY <2>2, <2>3 DEF Order, AutoOrder
  <2> HIDE DEF order
  <2> QED BY <1>1, <1>2, <2>1, <2>4
<1>6. ASSUME NEW i \in DockerId, NEW back \in BOOLEAN, AskForUpdate(i, back)
      PROVE  Goal
  BY <1>2, <1>6 DEF AskForUpdate, Order, AutoOrder
<1>7. CASE \/ AgentReports
           \/ \E candidate \in Candidate \cup {Unset} : AgentChecks(candidate)
           \/ HandleHeartbeat \/ HandleCheck \/ DecideOnUpdate \/ ReadRows
           \/ \E newer \in BOOLEAN : HandleResult(newer)
           \/ CollapseRow \/ SavePolicy \/ UpdateContainerPolicy
           \/ \E i \in DockerId : ExpandRow(i)
           \/ \E ui \in UiSettings : EditRow(ui)
           \/ \E autoUpdate \in BOOLEAN, level \in Level : SetConfig(autoUpdate, level)
           \/ UNCHANGED rowsVars
  <2>1. UNCHANGED orders
    BY <1>7 DEF AgentReports, AgentChecks, HandleHeartbeat, HandleCheck, DecideOnUpdate, ReadRows,
                HandleResult, CollapseRow, SavePolicy, UpdateContainerPolicy, ExpandRow, EditRow,
                SetConfig, rowsVars
  <2> QED BY <1>1, <2>1
<1> QED BY <1>4, <1>5, <1>6, <1>7 DEF RowsNext

\* The handler goes from the rows it has noted to those it decides with.
LEMMA HandlingStep ==
  ASSUME RowsIInv, [RowsNext]_rowsVars
  PROVE  HandlingFine'
<1>a. HandlingTyped /\ OneCandidate(handling.reports) /\ BarredStays
      /\ containerRows \in [DockerId -> StoredRow]
  BY DEF RowsIInv, RowsTypeOK, HandlingFine
<1> USE DEF HandlingTyped, HandlingFine
<1>b. CASE handling' = NotHandling
  BY <1>b DEF NotHandling, OneCandidate, BarredStays, BarredByRows
<1>1. CASE UNCHANGED <<handling, containerRows, config>>
  BY <1>1, <1>a DEF BarredStays, BarredByRows, Barred, TooHigh
<1>2. ASSUME handling.pc = "idle", UNCHANGED handling
      PROVE  HandlingFine'
  BY <1>2, <1>a DEF BarredStays
<1>3. CASE HandleCheck
  <2> DEFINE reports == Head(inbox).reports
             found == {r \in reports : r.candidate # Unset}
             barred == {r.id : r \in {q \in reports : q.candidate # Unset
                                                  /\ Barred(containerRows[q.id], q.candidate)}}
  <2>1. Head(inbox) \in AgreeingMessage
    BY <1>3, HeadTail, Zenon DEF HandleCheck, HubTakes, RowsIInv
  <2>2. reports \in SUBSET Report /\ OneCandidate(reports)
    BY <2>1 DEF AgreeingMessage, Message
  <2>3. handling' = [pc |-> "stored", reports |-> found, rows |-> <<>>, barred |-> barred]
    BY <1>3 DEF HandleCheck
  <2>4. UNCHANGED config
    BY <1>3 DEF HandleCheck
  <2>5. barred \in SUBSET DockerId
    BY <2>2 DEF Report
  <2>6. ASSUME NEW i \in barred, NEW r \in found, r.id = i
        PROVE  Barred(containerRows[i], r.candidate)
    BY <2>2, <2>6 DEF OneCandidate
  <2>7. ASSUME NEW i \in DockerId, NEW candidate, Barred(containerRows[i], candidate)
        PROVE  Barred(containerRows[i], candidate)'
    <3>1. \/ containerRows'[i] = containerRows[i]
          \/ /\ containerRows[i] # NotStored
             /\ \E has \in BOOLEAN : containerRows'[i] = [containerRows[i] EXCEPT !.hasUpdate = has]
      BY <1>3 DEF HandleCheck
    <3>2. CASE containerRows'[i] = containerRows[i]
      BY <2>4, <2>7, <3>2 DEF Barred, TooHigh
    <3>3. CASE /\ containerRows[i] # NotStored
               /\ \E has \in BOOLEAN : containerRows'[i] = [containerRows[i] EXCEPT !.hasUpdate = has]
      <4>1. /\ containerRows'[i].service = containerRows[i].service
            /\ containerRows'[i].ui = containerRows[i].ui
            /\ containerRows'[i].label = containerRows[i].label
        BY <1>a, <3>3 DEF StoredRow
      <4>2. containerRows[i].service \in Service
        BY <3>3 DEF RowsIInv, RowOf
      <4>3. containerRows'[i] # NotStored
        BY <4>1, <4>2, RowsAssumption DEF NotStored
      <4> QED BY <2>4, <2>7, <3>3, <4>1, <4>3 DEF Barred, TooHigh
    <3> QED BY <3>1, <3>2, <3>3
  <2>8. found \in SUBSET Report /\ OneCandidate(found)
    BY <2>2 DEF OneCandidate
  <2> HIDE DEF found, barred
  <2>9. BarredStays'
    BY <2>3, <2>5, <2>6, <2>7 DEF BarredStays, BarredByRows
  <2> QED BY <2>3, <2>5, <2>8, <2>9
<1>4. CASE DecideOnUpdate
  <2>1. CASE handling' = [handling EXCEPT !.pc = "decided"]
    BY <1>4, <1>a, <2>1 DEF DecideOnUpdate, BarredStays, BarredByRows, Barred, TooHigh
  <2> QED BY <1>4, <1>b, <2>1 DEF DecideOnUpdate
<1>5. CASE ReadRows
  BY <1>5, <1>a DEF ReadRows, BarredStays, BarredByRows, Barred, TooHigh
<1>6. CASE UpdateContainerPolicy
  <2> DEFINE barred == {i \in handling.barred : \E r \in handling.reports :
                          r.id = i /\ Barred(containerRows'[i], r.candidate)}
  <2>1. handling' = [handling EXCEPT !.barred = barred] /\ UNCHANGED config
    BY <1>6 DEF UpdateContainerPolicy
  <2>2. ASSUME NEW i \in barred, NEW r \in handling.reports, r.id = i
        PROVE  i \in handling.barred /\ Barred(containerRows[i], r.candidate)'
    <3>1. Barred(containerRows'[i], r.candidate)
      BY <1>a, <2>2 DEF OneCandidate
    <3> QED BY <2>1, <2>2, <3>1 DEF Barred, TooHigh
  <2>3. barred \subseteq handling.barred
    OBVIOUS
  <2> HIDE DEF barred
  <2>4. /\ handling'.pc = handling.pc /\ handling'.reports = handling.reports
        /\ handling'.rows = handling.rows /\ handling'.barred = barred
        /\ DOMAIN handling' = DOMAIN handling
    BY <1>a, <2>1
  <2>5. handling.pc \in {"stored", "decided"} => BarredByRows(containerRows)'
    BY <2>2, <2>4 DEF BarredByRows
  <2>6. handling.pc = "read" => BarredByRows(handling.rows)'
    BY <1>a, <2>1, <2>3, <2>4 DEF BarredStays, BarredByRows, Barred, TooHigh
  <2> QED BY <1>a, <2>3, <2>4, <2>5, <2>6 DEF BarredStays
<1>7. ASSUME NEW autoUpdate \in BOOLEAN, NEW level \in Level, SetConfig(autoUpdate, level)
      PROVE  HandlingFine'
  BY <1>7, <1>a DEF SetConfig, BarredStays, BarredByRows
<1>8. ASSUME NEW young \in SUBSET DockerId, SendAutoUpdate(young) PROVE HandlingFine'
  BY <1>8, <1>b DEF SendAutoUpdate
<1>9. CASE HandleHeartbeat \/ \E newer \in BOOLEAN : HandleResult(newer)
  BY <1>2, <1>9 DEF HandleHeartbeat, HandleResult, HubTakes
<1>10. CASE \/ AgentReports
            \/ \E candidate \in Candidate \cup {Unset} : AgentChecks(candidate)
            \/ \E s \in Service, i \in DockerId : AgentRecreates(s, i) \/ AgentFailsTo(s, i)
            \/ CollapseRow \/ SavePolicy
            \/ \E i \in DockerId : ExpandRow(i) \/ \E back \in BOOLEAN : AskForUpdate(i, back)
            \/ \E ui \in UiSettings : EditRow(ui)
            \/ UNCHANGED rowsVars
  <2>1. UNCHANGED <<handling, containerRows, config>>
    BY <1>10 DEF AgentReports, AgentChecks, AgentRecreates, AgentFailsTo, CollapseRow, SavePolicy,
                 ExpandRow, AskForUpdate, EditRow, agentUnchanged, rowsVars
  <2> QED BY <1>1, <2>1
<1> HIDE DEF HandlingTyped, HandlingFine
<1> QED BY <1>3, <1>4, <1>5, <1>6, <1>7, <1>8, <1>9, <1>10 DEF RowsNext

LEMMA RowsStep == RowsIInv /\ [RowsNext]_rowsVars => RowsIInv'
<1> SUFFICES ASSUME RowsIInv, [RowsNext]_rowsVars PROVE RowsIInv'
  OBVIOUS
<1>1. /\ containerRows' \in [DockerId -> StoredRow]
      /\ \A i \in DockerId : RowOf(Service, containerRows'[i])
      /\ inbox' \in Seq(AgreeingMessage)
      /\ orders' \in Seq(Order)
  BY RowsKeep, InboxKeeps, OrdersMove
<1>2. inbox' \in Seq(Message)
  BY <1>1 DEF AgreeingMessage
<1>a. /\ docker \in [Service -> [id : DockerId, label : LabelSettings]]
      /\ usedIds \in SUBSET DockerId
      /\ updateMarked \in BOOLEAN
      /\ config \in [autoUpdate : BOOLEAN, level : Level]
      /\ containerRows \in [DockerId -> StoredRow]
      /\ rowForm \in [id : DockerId \cup {NoId}, ui : Settings]
      /\ patch \in [id : DockerId \cup {NoId}, ui : Settings]
  BY DEF RowsIInv, RowsTypeOK
<1>3. docker' \in [Service -> [id : DockerId, label : LabelSettings]] /\ usedIds' \in SUBSET DockerId
  <2>1. UNCHANGED <<docker, usedIds>> \/ \E s \in Service, i \in DockerId : AgentRecreates(s, i)
    BY DEF RowsNext, AgentReports, AgentChecks, AgentFailsTo, HandleHeartbeat, HandleCheck,
           DecideOnUpdate, ReadRows, SendAutoUpdate, HandleResult, CollapseRow, SavePolicy,
           UpdateContainerPolicy, ExpandRow, AskForUpdate, EditRow, SetConfig, uiUnchanged, rowsVars
  <2>2. ASSUME NEW s \in Service, NEW i \in DockerId,
               docker' = [docker EXCEPT ![s].id = i], usedIds' = usedIds \cup {i}
        PROVE  docker' \in [Service -> [id : DockerId, label : LabelSettings]] /\ usedIds' \in SUBSET DockerId
    BY <1>a, <2>2
  <2>3. CASE UNCHANGED <<docker, usedIds>>
    BY <1>a, <2>3
  <2> QED BY <2>1, <2>2, <2>3 DEF AgentRecreates
<1>4. updateMarked' \in BOOLEAN
  <2>1. UNCHANGED updateMarked \/ updateMarked' = FALSE \/ updateMarked' = TRUE
          \/ \E i \in DockerId, back \in BOOLEAN : AskForUpdate(i, back)
    BY DEF RowsNext, AgentReports, AgentChecks, AgentRecreates, AgentFailsTo, HandleHeartbeat,
           HandleCheck, DecideOnUpdate, ReadRows, SendAutoUpdate, HandleResult, CollapseRow, SavePolicy,
           UpdateContainerPolicy, ExpandRow, EditRow, SetConfig, agentUnchanged, rowsVars
  <2> QED BY <1>a, <2>1, Zenon DEF AskForUpdate
<1>5. config' \in [autoUpdate : BOOLEAN, level : Level]
  <2>1. UNCHANGED config \/ \E autoUpdate \in BOOLEAN, level \in Level : SetConfig(autoUpdate, level)
    BY DEF RowsNext, AgentReports, AgentChecks, AgentRecreates, AgentFailsTo, HandleHeartbeat,
           HandleCheck, DecideOnUpdate, ReadRows, SendAutoUpdate, HandleResult, CollapseRow, SavePolicy,
           UpdateContainerPolicy, ExpandRow, AskForUpdate, EditRow, agentUnchanged, rowsVars
  <2> QED BY <1>a, <2>1 DEF SetConfig
<1>6. /\ rowForm' \in [id : DockerId \cup {NoId}, ui : Settings]
      /\ patch' \in [id : DockerId \cup {NoId}, ui : Settings]
  <2>1. FormClosed \in [id : DockerId \cup {NoId}, ui : Settings]
    BY RowsAssumption DEF FormClosed, NoSettings, Settings
  <2>2. \/ UNCHANGED <<rowForm, patch>>
        \/ CollapseRow \/ SavePolicy \/ UpdateContainerPolicy
        \/ \E i \in DockerId : ExpandRow(i)
        \/ \E ui \in UiSettings : EditRow(ui)
    BY DEF RowsNext, AgentReports, AgentChecks, AgentRecreates, AgentFailsTo, HandleHeartbeat,
           HandleCheck, DecideOnUpdate, ReadRows, SendAutoUpdate, HandleResult, AskForUpdate,
           SetConfig, agentUnchanged, rowsVars
  <2>3. CASE CollapseRow \/ SavePolicy \/ UpdateContainerPolicy
    BY <1>a, <2>1, <2>3 DEF CollapseRow, SavePolicy, UpdateContainerPolicy
  <2>4. ASSUME NEW i \in DockerId, ExpandRow(i) PROVE <1>6!1 /\ <1>6!2
    BY <1>a, <2>4 DEF ExpandRow, StoredRow
  <2>5. ASSUME NEW ui \in UiSettings, EditRow(ui) PROVE <1>6!1 /\ <1>6!2
    BY <1>a, <2>5, SettingsAssumption DEF EditRow
  <2> QED BY <1>a, <2>2, <2>3, <2>4, <2>5
<1> QED BY <1>1, <1>2, <1>3, <1>4, <1>5, <1>6, HandlingStep
        DEF RowsIInv, RowsTypeOK, HandlingFine, HandlingTyped, Order

\* The invariant of the rows, the hub's handler and the dashboard's row, for any containers,
\* settings and versions.
THEOREM RowsInvariant == RowsSpec => []RowsIInv
<1>1. RowsInit => RowsIInv
  <2> SUFFICES ASSUME RowsInit PROVE RowsIInv
    OBVIOUS
  <2> USE RowsAssumption DEF RowsInit
  <2>1. NotStored \in StoredRow /\ FormClosed \in [id : DockerId \cup {NoId}, ui : Settings]
    BY DEF NotStored, StoredRow, FormClosed, NoSettings, Settings
  <2>2. usedIds \in SUBSET DockerId
    BY DEF Range
  <2>3. handling = NotHandling /\ inbox \in Seq(AgreeingMessage) /\ inbox \in Seq(Message)
        /\ orders \in Seq(Order)
    OBVIOUS
  <2>4. /\ containerRows \in [DockerId -> StoredRow]
        /\ rowForm = FormClosed /\ patch = FormClosed
        /\ config \in [autoUpdate : BOOLEAN, level : Level]
    BY <2>1
  <2>5. /\ handling.pc \in {"idle", "stored", "decided", "read"}
        /\ handling.reports \in SUBSET Report
        /\ handling.rows \in {<<>>} \cup [DockerId -> StoredRow]
        /\ handling.barred \in SUBSET DockerId
        /\ DOMAIN handling = {"pc", "reports", "rows", "barred"}
    BY <2>3 DEF NotHandling
  <2>6. RowsTypeOK
    BY <2>1, <2>2, <2>3, <2>4, <2>5 DEF RowsTypeOK, Order
  <2> QED BY <2>3, <2>5, <2>6 DEF RowsIInv, RowOf, HandlingFine, HandlingTyped, OneCandidate, BarredStays, NotHandling
<1> QED BY <1>1, RowsStep, PTL DEF RowsSpec

\* For any containers, settings and versions: an automatic update names no container whose
\* settings have forbidden it since the check was handled (CHECK_RESULT of ws/hub.ts).
THEOREM SettingsAreHonoured == RowsSpec => AutoUpdateHonoursSettings
<1>1. RowsIInv /\ [RowsNext]_rowsVars
        => [Len(orders') > Len(orders) /\ Last(orders').auto =>
              Last(orders').ids \cap handling.barred = {}]_rowsVars
  BY OrdersMove DEF RowsIInv, HandlingFine, BarredStays, BarredByRows, AutoOrder
<1> QED BY <1>1, RowsInvariant, PTL DEF RowsSpec, AutoUpdateHonoursSettings

-----------------------------------------------------------------------------
(* A rollback from the version picker.                                       *)

\* What is sent for a selection has the digest the operator was shown, up to the agent,
\* unless the route has taken the target away; and what the agent makes the container from
\* is this image, or a tag that names it and was not given to another one.
TargetKept ==
  /\ DOMAIN rollback = {"pc", "shown", "image", "tag", "retagged"}
  /\ localTags \in [Tag -> Image \cup {NoImage}]
  /\ rollback.pc = "posted" => rollback.image = rollback.shown
  /\ rollback.pc = "sent" =>
       \/ rollback.image = rollback.shown
       \/ rollback.image = NoImage /\ rollback.tag = NoTag
  /\ rollback.pc = "replacing" /\ rollback.shown # NoImage =>
       /\ rollback.image = rollback.shown
       /\ rollback.tag \in Tag \cup {NoTag}
       /\ rollback.tag \in Tag /\ ~rollback.retagged => localTags[rollback.tag] = rollback.image

LEMMA TargetStep == TargetKept /\ names \in [Tag -> Image] /\ rollback.image \in Image \cup {NoImage}
                      /\ instance \in Version /\ rollback.tag \in Tag \cup {NoTag}
                      /\ [PickerNext]_pickerVars => TargetKept'
<1> SUFFICES ASSUME TargetKept, names \in [Tag -> Image], rollback.image \in Image \cup {NoImage},
                    instance \in Version, rollback.tag \in Tag \cup {NoTag}, [PickerNext]_pickerVars
             PROVE  TargetKept'
  OBVIOUS
<1> USE DEF TargetKept
<1>1. CASE UNCHANGED <<rollback, localTags>>
  BY <1>1
<1>2. CASE HandleRollback
  BY <1>2 DEF HandleRollback, Body
<1>3. CASE PostRollback
  <2>1. /\ \/ rollback' = [rollback EXCEPT !.pc = "sent"]
           \/ rollback' = [rollback EXCEPT !.pc = "sent", !.image = NoImage, !.tag = NoTag]
        /\ UNCHANGED localTags
    BY <1>3 DEF PostRollback
  <2> QED BY <1>3, <2>1 DEF PostRollback
<1>4. CASE rollback' = NoRollback /\ UNCHANGED localTags
  BY <1>4 DEF NoRollback
<1>5. CASE RollbackRefused \/ AgentRollsBack \/ AgentRestores
  BY <1>4, <1>5 DEF RollbackRefused, AgentRollsBack, AgentRestores
<1>6. CASE \/ \E t \in Tag : SelectTag(t) \/ \E v \in Image : TagMoves(t, v)
           \/ \E v \in Version : SelectLocal(v)
           \/ \E listing \in RegistryTags :
                \/ VersionsArrive(listing)
                \/ \E page \in SUBSET Tag, more \in BOOLEAN : TagsArrive(page, listing, more)
           \/ \E ok \in BOOLEAN : RollbackAnswered(ok)
           \/ RowArrives \/ OpenPicker \/ ClosePicker
           \/ AskToConfirm \/ CancelConfirm
           \/ UNCHANGED pickerVars
  <2>1. UNCHANGED <<rollback, localTags>>
    BY <1>6 DEF SelectTag, TagMoves, SelectLocal, VersionsArrive, TagsArrive, RollbackAnswered,
                RowArrives, OpenPicker, ClosePicker, AskToConfirm, CancelConfirm,
                modalOnly, pickerVars
  <2> QED BY <1>1, <2>1
<1>7. CASE InstanceIsUpdated
  <2>1. instance.tag \in Tag
    BY <1>7 DEF InstanceIsUpdated, Version
  <2>2. /\ localTags' = [localTags EXCEPT ![instance.tag] = names[instance.tag]]
        /\ rollback.pc # "replacing" /\ UNCHANGED rollback
    BY <1>7 DEF InstanceIsUpdated
  <2> QED BY <2>1, <2>2
<1>8. ASSUME NEW t \in Tag, NEW v \in Image, LocalTagMoves(t, v) PROVE TargetKept'
  <2>1. PICK moved : moved = (rollback.retagged \/ (rollback.pc = "replacing" /\ rollback.tag = t))
    OBVIOUS
  <2>2. /\ localTags' = [localTags EXCEPT ![t] = v]
        /\ rollback' = [rollback EXCEPT !.retagged = moved]
    BY <1>8, <2>1 DEF LocalTagMoves
  <2>3. /\ DOMAIN rollback' = DOMAIN rollback
        /\ rollback'.pc = rollback.pc /\ rollback'.shown = rollback.shown
        /\ rollback'.image = rollback.image /\ rollback'.tag = rollback.tag
        /\ rollback'.retagged = moved
    BY <2>2
  <2>4. localTags' \in [Tag -> Image \cup {NoImage}]
    BY <2>2
  <2>5. ASSUME rollback.pc = "replacing", rollback.tag \in Tag, ~moved
        PROVE  ~rollback.retagged /\ localTags'[rollback.tag] = localTags[rollback.tag]
    BY <2>1, <2>2, <2>5
  <2> QED BY <2>3, <2>4, <2>5
<1>9. CASE AgentPullsDigest
  <2>8. PICK tag \in {t \in Tag : t = rollback.tag \/ localTags[t] = rollback.image} \cup {NoTag} :
          /\ rollback' = [rollback EXCEPT !.pc = "replacing", !.tag = tag]
          /\ localTags' = [t \in Tag |-> IF t = tag THEN rollback.image ELSE localTags[t]]
    BY <1>9 DEF AgentPullsDigest
  <2>9. tag \in Tag \cup {NoTag}
    BY <2>8
  <2>1. /\ rollback' = [rollback EXCEPT !.pc = "replacing", !.tag = tag]
        /\ localTags' = [t \in Tag |-> IF t = tag THEN rollback.image ELSE localTags[t]]
    BY <2>8
  <2>2. rollback.pc = "sent" /\ rollback.image # NoImage
    BY <1>9 DEF AgentPullsDigest
  <2>3. rollback.image = rollback.shown
    BY <2>2
  <2>4. /\ DOMAIN rollback' = DOMAIN rollback
        /\ rollback'.pc = "replacing" /\ rollback'.shown = rollback.shown
        /\ rollback'.image = rollback.image /\ rollback'.tag = tag
    BY <2>1
  <2>5. localTags' \in [Tag -> Image \cup {NoImage}]
    BY <2>1
  <2>6. tag \in Tag => localTags'[tag] = rollback.image
    BY <2>1
  <2> QED BY <2>3, <2>4, <2>5, <2>6, <2>9
<1>10. CASE AgentPullsTag
  <2>1. /\ rollback' = [rollback EXCEPT !.pc = "replacing", !.image = names[rollback.tag]]
        /\ localTags' = [localTags EXCEPT ![rollback.tag] = names[rollback.tag]]
        /\ rollback.pc = "sent" /\ rollback.image = NoImage /\ rollback.tag # NoTag
    BY <1>10 DEF AgentPullsTag
  <2>2. rollback.shown = NoImage /\ rollback.tag \in Tag /\ names[rollback.tag] \in Image
    BY <2>1
  <2>3. /\ DOMAIN rollback' = DOMAIN rollback
        /\ rollback'.pc = "replacing" /\ rollback'.shown = NoImage
    BY <2>1, <2>2
  <2>4. localTags' \in [Tag -> Image \cup {NoImage}]
    BY <2>1, <2>2
  <2> QED BY <2>3, <2>4
<1> QED BY <1>2, <1>3, <1>5, <1>6, <1>7, <1>8, <1>9, <1>10 DEF PickerNext

-----------------------------------------------------------------------------
(* The types of the version picker.                                          *)

Picker == [open : BOOLEAN, confirm : BOOLEAN, pending : BOOLEAN, local : SUBSET Version, tags : Listing,
           selected : Selection]
Rollback ==
  {r \in [pc : {"none", "posted", "sent", "replacing"}, shown : Image \cup {NoImage},
          image : Image \cup {NoImage}, tag : Tag \cup {NoTag}, retagged : BOOLEAN] :
     r.pc = "replacing" => r.image # NoImage}

PickerTyped ==
  /\ names \in [Tag -> Image]
  /\ localTags \in Listing
  /\ instance \in Version
  /\ history \in SUBSET Version
  /\ rowIsStale \in BOOLEAN
  /\ picker \in Picker
  /\ rollback \in Rollback

LEMMA BecomesTyped ==
  ASSUME history \in SUBSET Version, instance \in Version, NEW version \in Version,
         NEW pulled \in Version, Becomes(version, pulled)
  PROVE  instance' \in Version /\ history' \in SUBSET Version /\ rowIsStale' \in BOOLEAN
BY DEF Becomes, Mentioned

LEMMA PickerStep == PickerTyped /\ [PickerNext]_pickerVars => PickerTyped'
<1> SUFFICES ASSUME PickerTyped, [PickerNext]_pickerVars PROVE PickerTyped'
  OBVIOUS
<1>a. /\ names \in [Tag -> Image] /\ localTags \in Listing /\ instance \in Version
      /\ history \in SUBSET Version /\ rowIsStale \in BOOLEAN
  BY DEF PickerTyped
<1>p. picker \in Picker
  BY DEF PickerTyped
<1>r. rollback \in Rollback
  BY DEF PickerTyped
<1>1. ASSUME modalOnly, picker' \in Picker PROVE PickerTyped'
  BY <1>1, <1>a, <1>r DEF modalOnly, PickerTyped
<1>2. ASSUME NEW t \in Tag, SelectTag(t) PROVE PickerTyped'
  <2>1. picker.tags[t] \in Image \cup {NoImage}
    BY <1>p DEF Picker, Listing
  <2>2. [kind |-> "registry", digest |-> picker.tags[t], tag |-> t] \in Selection
    BY <2>1 DEF Selection
  <2> QED BY <1>1, <1>2, <1>p, <2>2 DEF SelectTag, Picker
<1>3. ASSUME NEW v \in Version, SelectLocal(v) PROVE PickerTyped'
  <2>1. [kind |-> "local", digest |-> v.digest, tag |-> v.tag] \in Selection
    BY DEF Selection, Version
  <2> QED BY <1>1, <1>3, <1>p, <2>1 DEF SelectLocal, Picker
<1>4. ASSUME NEW listing \in RegistryTags, VersionsArrive(listing) PROVE PickerTyped'
  <2>2. PICK local \in SUBSET Version : picker' = [picker EXCEPT !.local = local, !.tags = listing]
    BY <1>4, <1>a DEF VersionsArrive
  <2>3. picker' \in Picker
    BY <1>p, <2>2 DEF Picker, RegistryTags
  <2> QED BY <1>1, <1>4, <2>3 DEF VersionsArrive, modalOnly
<1>5. ASSUME NEW page \in SUBSET Tag, NEW listing \in RegistryTags, NEW more \in BOOLEAN,
             TagsArrive(page, listing, more)
      PROVE  PickerTyped'
  <2>1. PICK tags : tags = [t \in Tag |-> CASE t \in page -> listing[t]
                                            [] t \notin page /\ more -> picker.tags[t]
                                            [] OTHER -> NoImage]
    OBVIOUS
  <2>2. picker' = [picker EXCEPT !.tags = tags]
    BY <1>5, <1>p, <2>1 DEF TagsArrive, Picker
  <2>3. listing \in [Tag -> Image \cup {NoImage}] /\ picker.tags \in [Tag -> Image \cup {NoImage}]
    BY <1>p DEF RegistryTags, Listing, Picker
  <2>4. tags \in Listing
    BY <2>1, <2>3 DEF Listing
  <2>5. picker' \in Picker
    BY <1>p, <2>2, <2>4 DEF Picker
  <2> QED BY <1>1, <1>5, <2>5 DEF TagsArrive, modalOnly
<1>6. NothingSelected \in Selection /\ NoNames \in Listing
  BY DEF NothingSelected, Selection, NoNames, Listing
<1>7. ClosedPicker \in Picker
  BY <1>6 DEF ClosedPicker, Picker
<1>8. NoRollback \in Rollback
  BY <1>6 DEF NoRollback, Rollback
<1>9. CASE OpenPicker \/ ClosePicker \/ AskToConfirm \/ CancelConfirm
  BY <1>1, <1>6, <1>9, <1>p DEF OpenPicker, ClosePicker, AskToConfirm, CancelConfirm, Picker
<1>10. ASSUME NEW ok \in BOOLEAN, RollbackAnswered(ok) PROVE PickerTyped'
  <2>1. [ClosedPicker EXCEPT !.local = picker.local] \in Picker
    BY <1>7, <1>p DEF Picker
  <2>2. [picker EXCEPT !.pending = FALSE] \in Picker
    BY <1>p DEF Picker
  <2> QED BY <1>1, <1>10, <2>1, <2>2 DEF RollbackAnswered
<1>11. CASE HandleRollback
  <2>1. Body(picker.selected) \in Rollback
    BY <1>p DEF Body, Rollback, Picker, Selection
  <2>2. picker' \in Picker
    BY <1>11, <1>p DEF HandleRollback, Picker
  <2> QED BY <1>11, <1>a, <2>1, <2>2 DEF HandleRollback, PickerTyped
<1>12. CASE PostRollback
  <2>1. /\ [rollback EXCEPT !.pc = "sent"] \in Rollback
        /\ [rollback EXCEPT !.pc = "sent", !.image = NoImage, !.tag = NoTag] \in Rollback
    BY <1>r DEF Rollback
  <2> QED BY <1>12, <1>a, <1>p, <2>1 DEF PostRollback, PickerTyped
<1>13. CASE RollbackRefused
  BY <1>8, <1>13, <1>a, <1>p DEF RollbackRefused, PickerTyped
<1>14. ASSUME NEW version \in Version, NEW pulled \in Version, Becomes(version, pulled),
              UNCHANGED <<names, picker>>, rollback' \in Rollback, localTags' \in Listing
       PROVE  PickerTyped'
  BY <1>14, <1>a, <1>p, BecomesTyped DEF PickerTyped
<1>15. CASE InstanceIsUpdated
  <2>1. instance.tag \in Tag
    BY <1>15, <1>a DEF InstanceIsUpdated, Version
  <2>2. [digest |-> names[instance.tag], tag |-> instance.tag] \in Version
    BY <1>a, <2>1 DEF Version
  <2>3. localTags' \in Listing
    BY <1>15, <1>a, <2>1 DEF InstanceIsUpdated, Listing
  <2> QED BY <1>14, <1>15, <1>r, <2>2, <2>3 DEF InstanceIsUpdated
<1>21. ASSUME NEW image \in Image \cup {NoImage}, NEW tag \in Tag \cup {NoTag},
              MadeFrom(image, tag).digest # NoImage
       PROVE  MadeFrom(image, tag) \in Version
  <2>1. PICK digest : digest = IF tag = NoTag THEN image ELSE localTags[tag]
    OBVIOUS
  <2>2. digest \in Image \cup {NoImage}
    BY <1>a, <2>1 DEF Listing
  <2>3. MadeFrom(image, tag) = [digest |-> digest, tag |-> tag]
    BY <2>1 DEF MadeFrom
  <2> QED BY <1>21, <2>2, <2>3 DEF Version
<1>16. CASE AgentRollsBack
  <2>1. rollback.image \in Image \cup {NoImage} /\ rollback.tag \in Tag \cup {NoTag}
    BY <1>r DEF Rollback
  <2>2. MadeFrom(rollback.image, rollback.tag) \in Version
    BY <1>16, <1>21, <2>1 DEF AgentRollsBack
  <2>3. [digest |-> rollback.image, tag |-> rollback.tag] \in Version
    BY <1>16, <1>r, <2>1 DEF AgentRollsBack, Rollback, Version
  <2> QED BY <1>8, <1>14, <1>16, <1>a, <2>2, <2>3 DEF AgentRollsBack
<1>17. CASE AgentRestores
  <2>1. instance.digest \in Image \cup {NoImage} /\ instance.tag \in Tag \cup {NoTag}
    BY <1>a DEF Version
  <2>2. MadeFrom(instance.digest, instance.tag) \in Version
    BY <1>17, <1>21, <2>1 DEF AgentRestores
  <2> QED BY <1>8, <1>17, <1>a, <1>p, <2>2 DEF AgentRestores, PickerTyped
<1>22. CASE AgentPullsDigest
  <2>8. PICK tag \in {t \in Tag : t = rollback.tag \/ localTags[t] = rollback.image} \cup {NoTag} :
          /\ rollback' = [rollback EXCEPT !.pc = "replacing", !.tag = tag]
          /\ localTags' = [t \in Tag |-> IF t = tag THEN rollback.image ELSE localTags[t]]
    BY <1>22 DEF AgentPullsDigest
  <2>9. tag \in Tag \cup {NoTag}
    BY <2>8
  <2>1. /\ rollback' = [rollback EXCEPT !.pc = "replacing", !.tag = tag]
        /\ localTags' = [t \in Tag |-> IF t = tag THEN rollback.image ELSE localTags[t]]
    BY <2>8
  <2>2. rollback' \in Rollback
    BY <1>22, <1>r, <2>1, <2>9 DEF AgentPullsDigest, Rollback
  <2>3. localTags' \in Listing
    BY <1>a, <1>r, <2>1 DEF Listing, Rollback
  <2> QED BY <1>22, <1>a, <1>p, <2>2, <2>3 DEF AgentPullsDigest, PickerTyped
<1>23. CASE AgentPullsTag
  <2>1. rollback.tag \in Tag
    BY <1>23, <1>r DEF AgentPullsTag, Rollback
  <2>2. names[rollback.tag] \in Image
    BY <1>a, <2>1
  <2>4. PICK image \in Image : image = names[rollback.tag]
    BY <2>2
  <2>5. /\ rollback' = [rollback EXCEPT !.pc = "replacing", !.image = image]
        /\ localTags' = [localTags EXCEPT ![rollback.tag] = image]
    BY <1>23, <2>4 DEF AgentPullsTag
  <2>6. image # NoImage
    BY PickerAssumption
  <2>7. rollback' \in Rollback
    BY <1>r, <2>5, <2>6 DEF Rollback
  <2>8. localTags' \in Listing
    BY <1>a, <2>5 DEF Listing
  <2>3. rollback' \in Rollback /\ localTags' \in Listing
    BY <2>7, <2>8
  <2> QED BY <1>23, <1>a, <1>p, <2>3 DEF AgentPullsTag, PickerTyped
<1>24. ASSUME NEW t \in Tag, NEW v \in Image, LocalTagMoves(t, v) PROVE PickerTyped'
  <2>1. PICK moved \in BOOLEAN :
          moved = (rollback.retagged \/ (rollback.pc = "replacing" /\ rollback.tag = t))
    BY <1>r DEF Rollback
  <2>2. rollback' = [rollback EXCEPT !.retagged = moved]
    BY <1>24, <2>1 DEF LocalTagMoves
  <2>3. rollback' \in Rollback
    BY <1>r, <2>2 DEF Rollback
  <2>4. localTags' \in Listing
    BY <1>24, <1>a DEF LocalTagMoves, Listing
  <2> QED BY <1>24, <1>a, <1>p, <2>3, <2>4 DEF LocalTagMoves, PickerTyped
<1>18. CASE RowArrives
  BY <1>7, <1>18, <1>a, <1>r DEF RowArrives, PickerTyped
<1>19. ASSUME NEW t \in Tag, NEW v \in Image, TagMoves(t, v) PROVE PickerTyped'
  BY <1>19, <1>a, <1>p, <1>r DEF TagMoves, PickerTyped
<1>20. CASE UNCHANGED pickerVars
  BY <1>20, <1>a, <1>p, <1>r DEF pickerVars, PickerTyped
<1> QED BY <1>2, <1>3, <1>4, <1>5, <1>9, <1>10, <1>11, <1>12, <1>13, <1>15, <1>16, <1>17, <1>18, <1>19,
           <1>20, <1>22, <1>23, <1>24 DEF PickerNext

LEMMA PickerStarts == PickerInit => PickerTyped
<1> SUFFICES ASSUME PickerInit PROVE PickerTyped
  OBVIOUS
<1>2. NothingSelected \in Selection /\ NoNames \in Listing
  BY DEF NothingSelected, Selection, NoNames, Listing
<1>3. ClosedPicker \in Picker /\ NoRollback \in Rollback
  BY <1>2 DEF ClosedPicker, Picker, NoRollback, Rollback
<1>4. names \in [Tag -> Image] /\ history = {} /\ rowIsStale \in BOOLEAN
  BY DEF PickerInit
<1>5. PICK t \in Tag : /\ instance = [digest |-> names[t], tag |-> t]
                       /\ localTags = [NoNames EXCEPT ![t] = names[t]]
  BY DEF PickerInit
<1>6. instance \in Version
  BY <1>4, <1>5 DEF Version
<1>7. localTags \in Listing
  BY <1>2, <1>4, <1>5 DEF Listing
<1>8. picker \in Picker /\ rollback \in Rollback
  BY <1>3 DEF PickerInit
<1> QED BY <1>4, <1>6, <1>7, <1>8 DEF PickerTyped

\* For any images and tags: the registry, the host, the container, its history, the modal
\* and the rollback have values of their types (VersionPickerModal, the versions and
\* rollback routes, RollbackToImageWithTag).
THEOREM PickerIsTyped == PickerSpec => []PickerTypeOK
<1>2. PickerTyped => PickerTypeOK
  BY DEF PickerTyped, PickerTypeOK, Picker, Rollback
<1> QED BY <1>2, PickerStarts, PickerStep, PTL DEF PickerSpec

\* For any images, tags and updates meanwhile: a rollback that has a target ends in the
\* image whose digest was shown, unless somebody else gave its tag another image between
\* the rollback's own tagging and the new container (handleRollback, the rollback route,
\* RollbackToImageWithTag).
THEOREM ShownImageIsReached == PickerSpec => RollbackReachesShownImage
<1>1. PickerInit => TargetKept
  <2> SUFFICES ASSUME PickerInit PROVE TargetKept
    OBVIOUS
  <2>1. localTags \in [Tag -> Image \cup {NoImage}]
    BY PickerStarts DEF PickerTyped, Listing
  <2> QED BY <2>1 DEF PickerInit, NoRollback, TargetKept
<1>2. PickerTyped /\ TargetKept /\ [PickerNext]_pickerVars => TargetKept'
  BY TargetStep DEF PickerTyped, Rollback
<1>3. TargetKept /\ [PickerNext]_pickerVars
        => [AgentRollsBack /\ rollback.shown # NoImage /\ ~rollback.retagged
              => instance'.digest = rollback.shown]_pickerVars
  <2> SUFFICES ASSUME TargetKept, AgentRollsBack, rollback.shown # NoImage, ~rollback.retagged
               PROVE  instance'.digest = rollback.shown
    OBVIOUS
  <2>1. /\ rollback.image = rollback.shown /\ rollback.tag \in Tag \cup {NoTag}
        /\ rollback.tag \in Tag => localTags[rollback.tag] = rollback.image
    BY DEF AgentRollsBack, TargetKept
  <2>2. instance' = MadeFrom(rollback.image, rollback.tag)
    BY DEF AgentRollsBack, Becomes
  <2> QED BY <2>1, <2>2 DEF MadeFrom
<1> QED BY <1>1, <1>2, <1>3, PickerStarts, PickerStep, PTL DEF PickerSpec, RollbackReachesShownImage

-----------------------------------------------------------------------------
(* The components together.                                                  *)

\* A behaviour of the composition that is checked is one of each component, which moves or
\* stays as it began: what is proved of a component holds where TLC checks it.
THEOREM PartsAreComponents ==
  ServicesSpec =>
    /\ BatcherSpec /\ SchedulesSpec /\ PoliciesSpec /\ EnrolmentSpec
    /\ AccessSpec /\ FormSpec /\ RegistriesSpec /\ OrderSpec
    /\ RowsSpec /\ PickerSpec /\ BrowserSpec /\ HealthSpec
<1>1. ServicesInit =>
        /\ BatcherInit /\ SchedulesInit /\ PoliciesInit /\ EnrolmentInit
        /\ AccessInit /\ FormInit /\ RegistriesInit /\ OrderInit
        /\ RowsInit /\ PickerInit /\ BrowserInit /\ HealthInit
  BY DEF ServicesInit
<1>2. [ServicesNext]_servicesVars => [BatcherNext]_batcherVars
  BY DEF ServicesNext, servicesVars
<1>3. [ServicesNext]_servicesVars => [SchedulesNext]_schedulesVars
  BY DEF ServicesNext, servicesVars
<1>4. [ServicesNext]_servicesVars => [PoliciesNext]_policiesVars
  BY DEF ServicesNext, servicesVars
<1>5. [ServicesNext]_servicesVars => [EnrolmentNext]_enrolmentVars
  BY DEF ServicesNext, servicesVars
<1>6. [ServicesNext]_servicesVars => [AccessNext]_accessVars
  BY DEF ServicesNext, servicesVars
<1>7. [ServicesNext]_servicesVars => [FormNext]_formVars
  BY DEF ServicesNext, servicesVars
<1>8. [ServicesNext]_servicesVars => [RegistriesNext]_registriesVars
  BY DEF ServicesNext, servicesVars
<1>9. [ServicesNext]_servicesVars => [OrderNext]_orderVars
  BY DEF ServicesNext, servicesVars
<1>10. [ServicesNext]_servicesVars => [RowsNext]_rowsVars
  BY DEF ServicesNext, servicesVars
<1>11. [ServicesNext]_servicesVars => [PickerNext]_pickerVars
  BY DEF ServicesNext, servicesVars
<1>12. [ServicesNext]_servicesVars => [BrowserNext]_browserVars
  BY DEF ServicesNext, servicesVars
<1>13. [ServicesNext]_servicesVars => [HealthNext]_healthVars
  BY DEF ServicesNext, servicesVars
<1> QED
  BY <1>1, <1>2, <1>3, <1>4, <1>5, <1>6, <1>7, <1>8, <1>9, <1>10, <1>11, <1>12, <1>13, PTL
  DEF ServicesSpec, servicesVars,
      BatcherSpec, SchedulesSpec, PoliciesSpec, EnrolmentSpec, AccessSpec, FormSpec,
      RegistriesSpec, OrderSpec, RowsSpec, PickerSpec, BrowserSpec, HealthSpec

\* Every variable of the component that moves has a value of its type, whatever the agents,
\* containers, requests and channels are.
THEOREM PartsAreTyped == ServicesSpec => []ServicesTypeOK
<1>1. /\ BatcherIInv => BatcherTypeOK
      /\ EditIInv => PoliciesTypeOK
      /\ ShownIInv => AccessTypeOK
      /\ FormIInv => FormTypeOK
      /\ OrderIInv => OrderTypeOK
      /\ RowsIInv => RowsTypeOK
  BY DEF BatcherIInv, EditIInv, ShownIInv, FormIInv, OrderIInv, RowsIInv
<1>2. ASSUME BatcherTypeOK, SchedulesTypeOK, PoliciesTypeOK, EnrolmentTypeOK, AccessTypeOK,
             FormTypeOK, RegistriesTypeOK, OrderTypeOK, RowsTypeOK, PickerTypeOK, BrowserTypeOK,
             HealthTypeOK
      PROVE  ServicesTypeOK
  BY <1>2 DEF ServicesTypeOK
<1> QED
  BY <1>1, <1>2, PartsAreComponents, BatcherInvariant, SchedulesAreTyped, PoliciesInvariant,
     EnrolmentIsTyped, SecretsInvariant, FormInvariant, CredentialsAreTyped, OrderInvariant,
     RowsInvariant, PickerIsTyped, BrowserIsTyped, HealthIsTyped, PTL
=============================================================================

--------------------------- MODULE CheckSchedules ---------------------------
(***************************************************************************)
(* Schedules, from the settings in the browser to the cron tasks of the    *)
(* controller: class Scheduler of controller/src/scheduler/engine.ts, PUT  *)
(* /api/config and /api/agents/:id/config, and the pickers of the web UI.  *)
(*                                                                         *)
(* A request goes on after each await in an order of its own, since every  *)
(* query takes one of ten database connections. Cron expressions are       *)
(* values; a cron task is the schedule it was made with, and goes off      *)
(* whenever it lives. Log retention is left out.                           *)
(***************************************************************************)
EXTENDS Naturals, FiniteSets

CONSTANTS
  ScheduledAgent,
  Cron,
  DefaultCron,   \* "0 4 * * *"
  NoCron,
  Put,           \* PUT requests under way at a time
  NoPut,
  MaxTasks,      \* bound: live cron tasks of a target
  MaxDelayed     \* bound: delayed CHECK commands for an agent

ASSUME SchedulesAssumption ==
  /\ DefaultCron \in Cron /\ NoCron \notin Cron
  /\ "global" \notin ScheduledAgent
  /\ {MaxTasks, MaxDelayed} \subseteq Nat \ {0}

VARIABLES
  schedules,     \* global_schedule of config, schedule_override of the agents
  registered,    \* agents that have a row
  tasks,         \* globalTask and agentTasks: the task the scheduler knows
  liveTasks,     \* how many cron tasks of a target have not been stopped
  puts,          \* the PUT requests
  raced,         \* targets whose last writes overlapped
  delayed,       \* how many CHECKs wait in a setTimeout for an agent
  connected,     \* getOnlineAgentIds
  lastRunMissed, \* scheduler_last_run is more than a day ago
  checkOnStartup

schedulerVars == <<tasks, liveTasks, delayed>>
recordVars == <<schedules, registered, lastRunMissed, checkOnStartup>>
schedulesVars == <<schedulerVars, recordVars, puts, raced, connected>>

-----------------------------------------------------------------------------
ScheduleTarget == ScheduledAgent \cup {"global"}
PutRequest == [target : ScheduleTarget, cron : Cron \cup {NoCron}, pc : {"sent", "found", "stored"}]
ASSUME NoPutAssumption == NoPut \notin PutRequest

SchedulesTypeOK ==
  /\ schedules \in [ScheduleTarget -> Cron \cup {NoCron}]
  /\ registered \in SUBSET ScheduledAgent
  /\ tasks \in [ScheduleTarget -> Cron \cup {NoCron}]
  /\ liveTasks \in [ScheduleTarget -> 0..MaxTasks]
  /\ puts \in [Put -> PutRequest \cup {NoPut}]
  /\ raced \in SUBSET ScheduleTarget
  /\ delayed \in [ScheduledAgent -> 0..MaxDelayed]
  /\ connected \in SUBSET ScheduledAgent
  /\ {lastRunMissed, checkOnStartup} \subseteq BOOLEAN

\* What is made of the row of the global schedule.
Effective(t, cron) == IF t = "global" /\ cron = NoCron THEN DefaultCron ELSE cron

SchedulesInit ==
  /\ schedules = [t \in ScheduleTarget |-> NoCron]
  /\ registered = ScheduledAgent
  /\ tasks = [t \in ScheduleTarget |-> Effective(t, NoCron)]
  /\ liveTasks = [t \in ScheduleTarget |-> IF t = "global" THEN 1 ELSE 0]
  /\ puts = [w \in Put |-> NoPut]
  /\ raced = {}
  /\ delayed = [a \in ScheduledAgent |-> 0]
  /\ connected = {}
  /\ lastRunMissed = FALSE
  /\ checkOnStartup = FALSE

-----------------------------------------------------------------------------
(* The settings in the browser: each change is a request at once.            *)

SendsPut(w, t, cron) ==
  /\ puts[w] = NoPut
  /\ puts' = [puts EXCEPT ![w] = [target |-> t, cron |-> cron, pc |-> "sent"]]
  /\ UNCHANGED <<schedulerVars, recordVars, raced, connected>>

\* A preset, or every keystroke after which the field holds an expression.
PickSchedule(w, t, cron) == cron # NoCron /\ SendsPut(w, t, cron)

\* Use Global Schedule.
ClearOverride(w, a) == a # "global" /\ SendsPut(w, a, NoCron)

\* The switch Check on startup; it has no effect before the next start.
ToggleCheckOnStartup ==
  /\ checkOnStartup' = ~checkOnStartup
  /\ UNCHANGED <<schedulerVars, schedules, registered, lastRunMissed, puts, raced,
                 connected>>

-----------------------------------------------------------------------------
(* The routes.                                                               *)

At(w, pc) == puts[w] # NoPut /\ puts[w].pc = pc

\* getAgent.
FindAgent(w) ==
  /\ At(w, "sent")
  /\ puts[w].target # "global"
  /\ puts' = [puts EXCEPT ![w] = IF @.target \in registered
                                 THEN [@ EXCEPT !.pc = "found"] ELSE NoPut]
  /\ UNCHANGED <<schedulerVars, recordVars, raced, connected>>

\* setConfig and updateAgentConfig. An UPDATE of an agent that is gone does nothing.
StoreSchedule(w) ==
  /\ At(w, "found") \/ (At(w, "sent") /\ puts[w].target = "global")
  /\ LET t == puts[w].target IN
       /\ schedules' = IF t \in registered \cup {"global"}
                  THEN [schedules EXCEPT ![t] = puts[w].cron] ELSE schedules
       /\ raced' = IF \E v \in Put \ {w} : At(v, "stored") /\ puts[v].target = t
                   THEN raced \cup {t} ELSE raced \ {t}
  /\ puts' = [puts EXCEPT ![w].pc = "stored"]
  /\ UNCHANGED <<schedulerVars, registered, lastRunMissed, checkOnStartup, connected>>

\* Mutant: the task an override replaces is only forgotten.
SetTask_KeepsOldTask(t, cron) ==
  /\ tasks' = [tasks EXCEPT ![t] = cron]
  /\ liveTasks' = [liveTasks EXCEPT ![t] = @ + (IF cron = NoCron THEN 0 ELSE 1)]

\* updateGlobalSchedule and setAgentScheduleOverride: the task there is is stopped.
SetTask(t, cron) ==
  /\ tasks' = [tasks EXCEPT ![t] = cron]
  /\ liveTasks' = [liveTasks EXCEPT ![t] = @ - (IF tasks[t] = NoCron THEN 0 ELSE 1)
                                             + (IF cron = NoCron THEN 0 ELSE 1)]

\* The rest of the handler; the agent is told with CONFIG_UPDATE.
ApplySchedule(w) ==
  /\ At(w, "stored")
  /\ SetTask(puts[w].target, puts[w].cron)
  /\ puts' = [puts EXCEPT ![w] = NoPut]
  /\ UNCHANGED <<recordVars, raced, delayed, connected>>

\* DELETE /api/agents/:id. The scheduler hears nothing of it.
DeleteScheduledAgent(a) ==
  /\ a \in registered
  /\ registered' = registered \ {a}
  /\ schedules' = [schedules EXCEPT ![a] = NoCron]
  /\ UNCHANGED <<schedulerVars, lastRunMissed, checkOnStartup, puts, raced, connected>>

-----------------------------------------------------------------------------
(* The scheduler.                                                            *)

\* runGlobalCheckStaggered: those online that have no schedule of their own, two seconds
\* apart; the batch of notifications is told how many.
Due == {a \in connected : tasks[a] = NoCron}
CheckStaggered ==
  /\ \A a \in Due : delayed[a] < MaxDelayed
  /\ delayed' = [a \in ScheduledAgent |-> delayed[a] + (IF a \in Due THEN 1 ELSE 0)]

GlobalTaskFires ==
  /\ tasks["global"] # NoCron
  /\ lastRunMissed' = FALSE
  /\ CheckStaggered
  /\ UNCHANGED <<schedules, registered, checkOnStartup, tasks, liveTasks, puts, raced,
                 connected>>

\* The task of an agent, with its jitter; it asks neither the row nor the connection.
AgentTaskFires(a) ==
  /\ liveTasks[a] > 0
  /\ delayed[a] < MaxDelayed
  /\ delayed' = [delayed EXCEPT ![a] = @ + 1]
  /\ UNCHANGED <<recordVars, tasks, liveTasks, puts, raced, connected>>

\* sendToAgent, which drops the command when there is no connection.
DelayedCheckGoes(a) ==
  /\ delayed[a] > 0
  /\ delayed' = [delayed EXCEPT ![a] = @ - 1]
  /\ UNCHANGED <<recordVars, tasks, liveTasks, puts, raced, connected>>

DayPasses ==
  /\ lastRunMissed' = TRUE
  /\ UNCHANGED <<schedulerVars, schedules, registered, checkOnStartup, puts, raced, connected>>

\* An agent comes and goes; one that is deleted keeps the connection it has.
ConnectionOf(a) ==
  /\ connected' \in {connected \ {a}, connected \cup ({a} \cap registered)}
  /\ connected' # connected
  /\ UNCHANGED <<schedulerVars, recordVars, puts, raced>>

\* stop and the next process: init reads the rows before the server listens, so nobody
\* is online yet. A catch-up after a missed run waits ten seconds, by when agents are.
Restart ==
  /\ tasks' = [t \in ScheduleTarget |-> Effective(t, schedules[t])]
  /\ liveTasks' = [t \in ScheduleTarget |-> IF tasks'[t] = NoCron THEN 0 ELSE 1]
  /\ puts' = [w \in Put |-> NoPut]
  /\ raced' = {}
  /\ \E online \in {{}} \cup (IF checkOnStartup /\ lastRunMissed THEN SUBSET registered ELSE {}) :
       /\ connected' = online
       /\ delayed' = [a \in ScheduledAgent |-> IF a \in online /\ tasks'[a] = NoCron THEN 1 ELSE 0]
  /\ UNCHANGED recordVars

SchedulesNext ==
  \/ \E w \in Put :
       \/ \E t \in {"global"} \cup registered, cron \in Cron : PickSchedule(w, t, cron)
       \/ \E a \in registered : ClearOverride(w, a)
       \/ FindAgent(w) \/ StoreSchedule(w) \/ ApplySchedule(w)
  \/ \E a \in ScheduledAgent :
       \/ DeleteScheduledAgent(a) \/ AgentTaskFires(a) \/ DelayedCheckGoes(a) \/ ConnectionOf(a)
  \/ GlobalTaskFires \/ DayPasses \/ ToggleCheckOnStartup \/ Restart

SchedulesSpec == SchedulesInit /\ [][SchedulesNext]_schedulesVars

-----------------------------------------------------------------------------
\* What the scheduler runs is what the settings say, across requests, deletions and
\* restarts, unless two requests for the schedule overlapped and were applied in another
\* order than they were stored; and one task of a target lives at most.
TasksFollowRows ==
  \A t \in ScheduleTarget :
    /\ liveTasks[t] = IF tasks[t] = NoCron THEN 0 ELSE 1
    /\ t \in registered \cup {"global"} /\ t \notin raced
         /\ (\A w \in Put : ~(At(w, "stored") /\ puts[w].target = t))
       => tasks[t] = Effective(t, schedules[t])
=============================================================================

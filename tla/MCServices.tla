----------------------------- MODULE MCServices -----------------------------
(* Components that share no state with each other, in one run: part is the one *)
(* a behaviour is of, the others stay as they begin.                        *)
EXTENDS SessionBatcher, CheckSchedules, UpdatePolicies, Enrolment, Access,
        ChannelForm, Registries, UpdateOrder, ContainerRows, VersionPicker, Browser,
        HealthMonitor, TLC

CONSTANTS Part, r1, r2, d1, d2, m1, x1, x2, k1, k2, f1, v1, v2, i1, t1

VARIABLE part

-----------------------------------------------------------------------------
(* The instances.                                                           *)

OwnerOfContainers == (d1 :> r1) @@ (d2 :> r2)
MachineOfSockets == [s \in Socket |-> m1]
NameOfMachines == [m \in Machine |-> "host"]
FirstTokens == [m \in Machine |-> t1]
DefaultPolicyFields == [f \in PolicyField |-> v1]
FirstIds == [s \in Service |-> i1]
Version100 == <<1, 0, 0>>
Version200 == {<<2, 0, 0>>}
NoLabel == {{}}
JustManual == {[policy |-> "manual", level |-> Unset]}
LabelAuto == {NoSettings, [policy |-> "auto", level |-> Unset]}

-----------------------------------------------------------------------------
\* One initial state of the components that stay as they begin.
StayAs ==
  /\ IF part = "order" THEN TRUE
     ELSE settings = [n \in Target |-> [priority |-> DefaultPriority, dependsOn |-> {}, labelDependsOn |-> {}]]
          /\ selfContainer = NoSelf
  /\ IF part = "rows" THEN TRUE
     ELSE docker = [s \in Service |-> [id |-> FirstId[s], label |-> NoSettings]]
  /\ IF part = "picker" THEN TRUE
     ELSE names = [t \in Tag |-> CHOOSE i \in Image : TRUE]

ServicesInit ==
  /\ part \in Part
  /\ StayAs
  /\ BatcherInit /\ SchedulesInit /\ PoliciesInit /\ EnrolmentInit /\ AccessInit
  /\ FormInit /\ RegistriesInit /\ OrderInit /\ RowsInit /\ PickerInit /\ BrowserInit
  /\ HealthInit

\* The others first, so that TLC looks at them once per state.
ServicesNext ==
  /\ UNCHANGED part
  /\ IF part = "batcher" THEN TRUE ELSE UNCHANGED batcherVars
  /\ IF part = "schedules" THEN TRUE ELSE UNCHANGED schedulesVars
  /\ IF part = "policies" THEN TRUE ELSE UNCHANGED policiesVars
  /\ IF part = "enrolment" THEN TRUE ELSE UNCHANGED enrolmentVars
  /\ IF part = "access" THEN TRUE ELSE UNCHANGED accessVars
  /\ IF part = "form" THEN TRUE ELSE UNCHANGED formVars
  /\ IF part = "registries" THEN TRUE ELSE UNCHANGED registriesVars
  /\ IF part = "order" THEN TRUE ELSE UNCHANGED orderVars
  /\ IF part = "rows" THEN TRUE ELSE UNCHANGED rowsVars
  /\ IF part = "picker" THEN TRUE ELSE UNCHANGED pickerVars
  /\ IF part = "browser" THEN TRUE ELSE UNCHANGED browserVars
  /\ IF part = "health" THEN TRUE ELSE UNCHANGED healthVars
  /\ IF part = "batcher" THEN BatcherNext ELSE TRUE
  /\ IF part = "schedules" THEN SchedulesNext ELSE TRUE
  /\ IF part = "policies" THEN PoliciesNext ELSE TRUE
  /\ IF part = "enrolment" THEN EnrolmentNext ELSE TRUE
  /\ IF part = "access" THEN AccessNext ELSE TRUE
  /\ IF part = "form" THEN FormNext ELSE TRUE
  /\ IF part = "registries" THEN RegistriesNext ELSE TRUE
  /\ IF part = "order" THEN OrderNext ELSE TRUE
  /\ IF part = "rows" THEN RowsNext ELSE TRUE
  /\ IF part = "picker" THEN PickerNext ELSE TRUE
  /\ IF part = "browser" THEN BrowserNext ELSE TRUE
  /\ IF part = "health" THEN HealthNext ELSE TRUE

servicesVars ==
  <<batcherVars, schedulesVars, policiesVars, enrolmentVars, accessVars, formVars, registriesVars,
    orderVars, rowsVars, pickerVars, browserVars, healthVars, part>>

ServicesSpec == ServicesInit /\ [][ServicesNext]_servicesVars

\* What the component that moves is in. The others stay in the one state their
\* initial conditions and StayAs give them, so no two states share a view.
MovingPart ==
  CASE part = "batcher" -> <<part, batcherVars>>
    [] part = "schedules" -> <<part, schedulesVars>>
    [] part = "policies" -> <<part, policiesVars>>
    [] part = "enrolment" -> <<part, enrolmentVars>>
    [] part = "access" -> <<part, accessVars>>
    [] part = "form" -> <<part, formVars>>
    [] part = "registries" -> <<part, registriesVars>>
    [] part = "order" -> <<part, orderVars>>
    [] part = "rows" -> <<part, rowsVars>>
    [] part = "picker" -> <<part, pickerVars>>
    [] part = "browser" -> <<part, browserVars>>
    [] part = "health" -> <<part, healthVars>>

\* Every variable of the component that moves has a value of its type.
ServicesTypeOK ==
  /\ part = "batcher" => BatcherTypeOK
  /\ part = "schedules" => SchedulesTypeOK
  /\ part = "policies" => PoliciesTypeOK
  /\ part = "enrolment" => EnrolmentTypeOK
  /\ part = "access" => AccessTypeOK
  /\ part = "form" => FormTypeOK
  /\ part = "registries" => RegistriesTypeOK
  /\ part = "order" => OrderTypeOK
  /\ part = "rows" => RowsTypeOK
  /\ part = "picker" => PickerTypeOK
  /\ part = "browser" => BrowserTypeOK
  /\ part = "health" => HealthTypeOK
=============================================================================

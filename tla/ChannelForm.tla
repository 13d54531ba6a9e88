----------------------------- MODULE ChannelForm -----------------------------
(***************************************************************************)
(* Notification channels: AddChannelModal, ChannelCard and NotificationsTab *)
(* of the web UI with their hooks, api/routes/notifications.ts and the     *)
(* queries under it.                                                       *)
(*                                                                         *)
(* Of a channel's configuration the model keeps what the three ways back   *)
(* into the form tell apart: a secret the route masks (Telegram, Slack,    *)
(* e-mail), a value it does not (the token of ntfy), and the headers of a  *)
(* webhook, an object where the form keeps strings. Names, events and      *)
(* templates are part of that value. The wizard's steps only order the     *)
(* input; a save is bounded to one at a time.                              *)
(***************************************************************************)
EXTENDS Naturals, FiniteSets

CONSTANTS
  NoticeChannel,
  ConfigValue,  \* what an operator types
  Mangled,      \* what is no value of that kind: "••••1234", "[object Object]"
  Blank,
  NoChannel

ASSUME FormAssumption ==
  /\ {Mangled, Blank} \cap ConfigValue = {} /\ Mangled # Blank
  /\ NoChannel \notin NoticeChannel

VARIABLES
  channels,   \* the table notification_channels
  form,       \* the state of AddChannelModal, and addOpen and editChannel of the tab
  save,       \* the request of its button Save
  closers,    \* armed timers that reset and close the form
  switches    \* PUTs of the card's switch: the channel and the value they carry

formVars == <<channels, form, save, closers, switches>>

-----------------------------------------------------------------------------
Kind == {"telegram", "ntfy", "webhook"}
Field == ConfigValue \cup {Mangled, Blank}
ChannelRow == [type : Kind, config : Field, enabled : BOOLEAN]
NoSave == [pc |-> "none", id |-> NoChannel, type |-> "telegram", config |-> Blank,
           heard |-> TRUE]
EmptyForm == [open |-> FALSE, edit |-> NoChannel, type |-> "telegram", config |-> Blank,
              seen |-> Blank, state |-> "idle", saved |-> NoChannel]

FormTypeOK ==
  /\ channels \in [NoticeChannel -> ChannelRow \cup {NoChannel}]
  /\ form \in [open : BOOLEAN, edit : NoticeChannel \cup {NoChannel}, type : Kind, config : Field,
               seen : Field, state : {"idle", "saving", "success", "error"},
               saved : NoticeChannel \cup {NoChannel}]
  /\ save \in [pc : {"none", "sent", "found", "stored"}, id : NoticeChannel \cup {NoChannel},
               type : Kind, config : Field, heard : BOOLEAN]
  /\ closers \in 0..1
  /\ switches \in SUBSET (NoticeChannel \X BOOLEAN)

FormInit ==
  /\ channels = [c \in NoticeChannel |-> NoChannel]
  /\ form = EmptyForm
  /\ save = NoSave
  /\ closers = 0
  /\ switches = {}

-----------------------------------------------------------------------------
(* The form.                                                                 *)

rowsUnchanged == UNCHANGED <<channels, save, closers, switches>>

\* Add Channel: whatever was left in the form is still there.
OpenAdd ==
  /\ ~form.open
  /\ form' = [form EXCEPT !.open = TRUE]
  /\ rowsUnchanged

OpenEdit(c) ==
  /\ ~form.open
  /\ channels[c] # NoChannel
  /\ form' = [form EXCEPT !.open = TRUE, !.edit = c, !.seen = Blank]
  /\ rowsUnchanged

\* GET /api/notifications/:id for the form: masked; and what it makes of an object.
Detail(row) == IF row.type = "ntfy" THEN row.config ELSE Mangled

\* The effect that fills the form when the detail arrives, or has changed since.
DetailArrives ==
  /\ form.edit # NoChannel
  /\ channels[form.edit] # NoChannel
  /\ form.seen # Detail(channels[form.edit])
  /\ form' = [form EXCEPT !.type = channels[form.edit].type,
                          !.config = Detail(channels[form.edit]),
                          !.seen = Detail(channels[form.edit])]
  /\ rowsUnchanged

ChooseType(k) ==
  /\ form.open /\ form.edit = NoChannel
  /\ form' = [form EXCEPT !.type = k]
  /\ rowsUnchanged

FillIn(v) ==
  /\ form.open
  /\ form' = [form EXCEPT !.config = v]
  /\ rowsUnchanged

\* resetAndClose. The type, and the channel Test would use, stay.
Reset(f) == [EmptyForm EXCEPT !.type = f.type, !.saved = f.saved]

CancelForm ==
  /\ form.open
  /\ form' = Reset(form)
  /\ rowsUnchanged

\* The corner or the Escape key: only the tab's state changes.
EscapeForm ==
  /\ form.open
  /\ form' = [form EXCEPT !.open = FALSE, !.edit = NoChannel]
  /\ rowsUnchanged

\* canProceedStep2: the wizard does not come to its end without the required fields.
CanProceed == form.open /\ form.config # Blank

HandleSave ==
  /\ CanProceed
  /\ form.state \in {"idle", "error"}
  /\ save = NoSave
  /\ form' = [form EXCEPT !.state = "saving"]
  /\ save' = [pc |-> "sent", id |-> form.edit, type |-> form.type, config |-> form.config,
              heard |-> TRUE]
  /\ UNCHANGED <<channels, closers, switches>>

\* onSuccess; the form closes in a second and a half, whatever it shows by then. One
\* such timer at a time is modelled.
SaveSucceeds ==
  /\ save.pc = "stored"
  /\ IF save.heard
     THEN /\ closers = 0 /\ closers' = 1
          /\ form' = [form EXCEPT !.state = "success", !.saved = save.id]
     ELSE UNCHANGED <<form, closers>>
  /\ save' = NoSave
  /\ UNCHANGED <<channels, switches>>

SaveFails ==
  /\ save.pc # "none"
  /\ form' = IF save.heard THEN [form EXCEPT !.state = "error"] ELSE form
  /\ save' = NoSave
  /\ UNCHANGED <<channels, closers, switches>>

FormCloses ==
  /\ closers > 0
  /\ closers' = closers - 1
  /\ form' = Reset(form)
  /\ UNCHANGED <<channels, save, switches>>

\* The tab is left, and the state of all its components with it; nobody hears of a save.
LeaveTab ==
  /\ form' = EmptyForm
  /\ closers' = 0
  /\ save' = [save EXCEPT !.heard = save.pc = "none"]
  /\ UNCHANGED <<channels, switches>>

-----------------------------------------------------------------------------
(* The routes.                                                               *)

\* POST /api/notifications.
InsertChannel(c) ==
  /\ save.pc = "sent" /\ save.id = NoChannel
  /\ channels[c] = NoChannel /\ form.edit # c /\ form.saved # c
  /\ \A s \in switches : s[1] # c
  /\ channels' = [channels EXCEPT ![c] = [type |-> save.type, config |-> save.config, enabled |-> TRUE]]
  /\ save' = [save EXCEPT !.pc = "stored", !.id = c]
  /\ UNCHANGED <<form, closers, switches>>

\* PUT /api/notifications/:id: getNotificationChannel, or a 404.
FindChannel ==
  /\ save.pc = "sent" /\ save.id # NoChannel
  /\ channels[save.id] # NoChannel
  /\ save' = [save EXCEPT !.pc = "found"]
  /\ UNCHANGED <<channels, form, closers, switches>>

\* Mutant: what a request does not say is set as for a new channel.
Updated_Defaults(row, config) == [row EXCEPT !.config = config, !.enabled = TRUE]

\* updateNotificationChannel sets the columns the request names. The type is none of them.
Updated(row, config) == [row EXCEPT !.config = config]

UpdateChannel ==
  /\ save.pc = "found"
  /\ channels' = IF channels[save.id] = NoChannel THEN channels
                 ELSE [channels EXCEPT ![save.id] = Updated(@, save.config)]
  /\ save' = [save EXCEPT !.pc = "stored"]
  /\ UNCHANGED <<form, closers, switches>>

\* The card's switch: it shows what the last refetch gave, so any value may be sent.
ToggleChannel(c, enabled) ==
  /\ channels[c] # NoChannel
  /\ switches' = switches \cup {<<c, enabled>>}
  /\ UNCHANGED <<channels, form, save, closers>>

StoreToggle(c, enabled) ==
  /\ <<c, enabled>> \in switches
  /\ switches' = switches \ {<<c, enabled>>}
  /\ channels' = IF channels[c] = NoChannel THEN channels ELSE [channels EXCEPT ![c].enabled = enabled]
  /\ UNCHANGED <<form, save, closers>>

DeleteChannel(c) ==
  /\ channels[c] # NoChannel
  /\ channels' = [channels EXCEPT ![c] = NoChannel]
  /\ UNCHANGED <<form, save, closers, switches>>

FormNext ==
  \/ OpenAdd \/ DetailArrives \/ CancelForm \/ EscapeForm \/ FormCloses \/ LeaveTab
  \/ \E k \in Kind : ChooseType(k)
  \/ \E v \in ConfigValue : FillIn(v)
  \/ HandleSave \/ SaveSucceeds \/ SaveFails \/ FindChannel \/ UpdateChannel
  \/ \E c \in NoticeChannel :
       \/ OpenEdit(c) \/ InsertChannel(c) \/ DeleteChannel(c)
       \/ \E enabled \in BOOLEAN : ToggleChannel(c, enabled) \/ StoreToggle(c, enabled)

FormSpec == FormInit /\ [][FormNext]_formVars

-----------------------------------------------------------------------------
\* Editing a channel and switching it do not undo one another, in whatever order their
\* requests are served, and neither makes it another kind of channel (PUT).
EditsAndSwitchesCommute ==
  [][\A c \in NoticeChannel :
       channels[c] # NoChannel /\ channels'[c] # NoChannel =>
         /\ channels'[c].type = channels[c].type
         /\ channels'[c].enabled # channels[c].enabled => <<c, channels'[c].enabled>> \in switches
         /\ channels'[c].config # channels[c].config => save.id = c
    ]_formVars

\* useNotifications.ts: the configuration is fetched decrypted, for editing. Then a channel
\* that was configured stays so.
EditsKeepSecrets ==
  [][\A c \in NoticeChannel :
       channels[c] # NoChannel /\ channels'[c] # NoChannel /\ channels[c].config \in ConfigValue
       => channels'[c].config \in ConfigValue]_formVars
=============================================================================

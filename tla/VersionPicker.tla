------------------------------ MODULE VersionPicker ------------------------------
(***************************************************************************)
(* Rolling a container back to a version of the operator's choice:         *)
(* VersionPickerModal, the versions and rollback routes of                 *)
(* api/routes/agents.ts, lib/registry-client.ts, ROLLBACK of managed.go    *)
(* and RollbackToImageWithTag of updater.go.                               *)
(*                                                                         *)
(* Meanwhile tags move in the registry and on the agent's host, lists grow *)
(* old in the browser, and updates give the container a new ID. An image   *)
(* is its digest.                                                          *)
(***************************************************************************)

CONSTANTS
  Image,
  Tag,
  NoImage,     \* no digest, or no target
  NoTag

ASSUME PickerAssumption == NoImage \notin Image /\ NoTag \notin Tag

VARIABLES
  names,       \* the registry: what a tag names
  localTags,   \* the image store of the agent's host: what a tag names there
  instance,    \* the container: its image, and the tag of the reference it was made from
  history,     \* the versions its update log mentions
  rowIsStale,  \* the row in the browser has a former ID of the container
  picker,      \* the modal
  rollback     \* POST rollback and ROLLBACK on their way

pickerVars == <<names, localTags, instance, history, rowIsStale, picker, rollback>>

-----------------------------------------------------------------------------
Listing == [Tag -> Image \cup {NoImage}]
NoNames == [t \in Tag |-> NoImage]
Version == [digest : Image, tag : Tag \cup {NoTag}]
Selection == [kind : {"none", "local", "registry"}, digest : Image \cup {NoImage}, tag : Tag \cup {NoTag}]
NothingSelected == [kind |-> "none", digest |-> NoImage, tag |-> NoTag]

PickerTypeOK ==
  /\ names \in [Tag -> Image]
  /\ localTags \in Listing
  /\ instance \in Version
  /\ history \in SUBSET Version
  /\ rowIsStale \in BOOLEAN
  /\ picker.open \in BOOLEAN /\ picker.confirm \in BOOLEAN /\ picker.pending \in BOOLEAN
  /\ picker.local \in SUBSET Version /\ picker.tags \in Listing
  /\ picker.selected \in Selection
  /\ rollback.pc \in {"none", "posted", "sent", "replacing"}
  /\ rollback.shown \in Image \cup {NoImage}
  /\ rollback.image \in Image \cup {NoImage} /\ rollback.tag \in Tag \cup {NoTag}
  /\ rollback.retagged \in BOOLEAN

\* shown: the digest the operator has seen. image and tag: the target, and once it was
\* pulled what the container is made from. retagged: since then somebody else has given the
\* tag an image.
NoRollback == [pc |-> "none", shown |-> NoImage, image |-> NoImage, tag |-> NoTag, retagged |-> FALSE]
ClosedPicker == [open |-> FALSE, confirm |-> FALSE, pending |-> FALSE, local |-> {}, tags |-> NoNames,
                 selected |-> NothingSelected]

PickerInit ==
  /\ names \in [Tag -> Image]
  /\ \E t \in Tag :
       /\ instance = [digest |-> names[t], tag |-> t]
       /\ localTags = [NoNames EXCEPT ![t] = names[t]]
  /\ history = {}
  /\ rowIsStale = FALSE
  /\ picker = ClosedPicker
  /\ rollback = NoRollback

-----------------------------------------------------------------------------
(* The registry, the host and the container.                                *)

TagMoves(t, v) ==
  /\ names' = [names EXCEPT ![t] = v]
  /\ UNCHANGED <<localTags, instance, history, rowIsStale, picker, rollback>>

\* Somebody else gives a tag of the host an image: a pull, which an update makes without
\* the lock of its container, or a rollback of another container of the repository.
LocalTagMoves(t, v) ==
  /\ localTags' = [localTags EXCEPT ![t] = v]
  /\ rollback' = [rollback EXCEPT !.retagged = @ \/ (rollback.pc = "replacing" /\ rollback.tag = t)]
  /\ UNCHANGED <<names, localTags, instance, history, rowIsStale, picker>>

\* Both sides of the log's rows are versions, first what a row's update made, and of one
\* digest the newest mention counts.
Mentioned(new, old, earlier) ==
  {new} \cup {v \in {old} : v.digest # new.digest}
        \cup {v \in earlier : v.digest \notin {new.digest, old.digest}}

\* The container is replaced, and a row of what it was and what was pulled goes into the log.
Becomes(version, pulled) ==
  /\ instance' = version
  /\ history' = Mentioned(pulled, instance, history)
  /\ rowIsStale' = TRUE

\* Not while a rollback has the lock of the container.
InstanceIsUpdated ==
  /\ instance.tag # NoTag
  /\ rollback.pc # "replacing"
  /\ LET version == [digest |-> names[instance.tag], tag |-> instance.tag]
     IN  Becomes(version, version)
  /\ localTags' = [localTags EXCEPT ![instance.tag] = names[instance.tag]]
  /\ UNCHANGED <<names, picker, rollback>>

\* The agents query brings the new ID: the row and its modal are other ones.
RowArrives ==
  /\ rowIsStale
  /\ rowIsStale' = FALSE
  /\ picker' = ClosedPicker
  /\ UNCHANGED <<names, localTags, instance, history, rollback>>

-----------------------------------------------------------------------------
(* The versions route.                                                      *)

\* fetchRegistryTags: what tags name, or have named within the five minutes an answer is
\* cached for; a digest that could not be resolved is missing.
RegistryTags == Listing

\* useVersions: the first answer, or one that is newer. A selection stays as it is.
VersionsArrive(listing) ==
  /\ picker.open
  /\ picker' = [picker EXCEPT !.local = history, !.tags = listing]
  /\ UNCHANGED <<names, localTags, instance, history, rowIsStale, rollback>>

\* A search, or another page: its tags are shown instead of the others, or after them.
TagsArrive(page, listing, more) ==
  /\ picker.open
  /\ picker' = [picker EXCEPT !.tags =
       [t \in Tag |-> CASE t \in page -> listing[t]
                       [] t \notin page /\ more -> @[t]
                       [] OTHER -> NoImage]]
  /\ UNCHANGED <<names, localTags, instance, history, rowIsStale, rollback>>

-----------------------------------------------------------------------------
(* The modal.                                                               *)

modalOnly == UNCHANGED <<names, localTags, instance, history, rowIsStale, rollback>>

OpenPicker ==
  /\ ~picker.open
  /\ picker' = [picker EXCEPT !.open = TRUE]
  /\ modalOnly

\* The effect that resets the state leaves the confirmation alone.
ClosePicker ==
  /\ picker.open /\ ~picker.confirm
  /\ picker' = [picker EXCEPT !.open = FALSE, !.tags = NoNames, !.selected = NothingSelected]
  /\ modalOnly

\* An entry of the local history that is not the current version.
SelectLocal(v) ==
  /\ picker.open /\ ~picker.confirm
  /\ v \in picker.local
  /\ picker' = [picker EXCEPT !.selected = [kind |-> "local", digest |-> v.digest, tag |-> v.tag]]
  /\ modalOnly

\* A tag of the registry, whose digest may be missing.
SelectTag(t) ==
  /\ picker.open /\ ~picker.confirm
  /\ picker' = [picker EXCEPT !.selected = [kind |-> "registry", digest |-> picker.tags[t], tag |-> t]]
  /\ modalOnly

AskToConfirm ==
  /\ picker.open /\ ~picker.confirm
  /\ picker.selected # NothingSelected
  /\ picker' = [picker EXCEPT !.confirm = TRUE]
  /\ modalOnly

\* Cancel, which is disabled while the request is under way, or Escape, which is not.
CancelConfirm ==
  /\ picker.confirm
  /\ picker' = [picker EXCEPT !.confirm = FALSE]
  /\ modalOnly

\* What is sent for a selection: an entry of the history has its digest, and sends its tag
\* only without one; a tag of the registry is sent with its digest.
Body_TagOfHistory(selected) ==
  [pc |-> "posted", shown |-> selected.digest, tag |-> selected.tag, retagged |-> FALSE,
   image |-> IF selected.tag # NoTag THEN NoImage ELSE selected.digest]

Body(selected) ==
  [pc |-> "posted", shown |-> selected.digest, image |-> selected.digest, retagged |-> FALSE,
   tag |-> IF selected.kind = "registry" \/ selected.digest = NoImage THEN selected.tag ELSE NoTag]

\* handleRollback.
HandleRollback ==
  /\ picker.confirm /\ ~picker.pending
  /\ rollback = NoRollback
  /\ rollback' = Body(picker.selected)
  /\ picker' = [picker EXCEPT !.pending = TRUE]
  /\ UNCHANGED <<names, localTags, instance, history, rowIsStale>>

\* onSuccess closes what is open by then.
RollbackAnswered(ok) ==
  /\ picker.pending
  /\ ok => rollback.pc # "posted"
  /\ picker' = IF ok THEN [ClosedPicker EXCEPT !.local = picker.local]
               ELSE [picker EXCEPT !.pending = FALSE]
  /\ modalOnly

-----------------------------------------------------------------------------
(* The rollback route and the agent.                                        *)

\* The target image: by digest, or else by tag. A container the table does not have has
\* no target: the agent is told to use its snapshot.
PostRollback ==
  /\ rollback.pc = "posted"
  /\ \E known \in {TRUE, ~rowIsStale} :
       rollback' = IF known THEN [rollback EXCEPT !.pc = "sent"]
                   ELSE [rollback EXCEPT !.pc = "sent", !.image = NoImage, !.tag = NoTag]
  /\ UNCHANGED <<names, localTags, instance, history, rowIsStale, picker>>

\* A refusal of the route or a failure before the container is touched. A command without
\* a target fails too: it has an ID the agent's host no longer knows, and the name of its
\* snapshot belongs to the container in place (RollbackContainer).
RollbackRefused ==
  /\ rollback # NoRollback
  /\ rollback' = NoRollback
  /\ UNCHANGED <<names, localTags, instance, history, rowIsStale, picker>>

\* The lock, the pull by digest, and a tag for it: that of the target, or without one, and
\* where the host refuses it, one the host has for this image, or none.
AgentPullsDigest ==
  /\ rollback.pc = "sent" /\ rollback.image # NoImage
  /\ \E tag \in {t \in Tag : t = rollback.tag \/ localTags[t] = rollback.image} \cup {NoTag} :
       /\ rollback' = [rollback EXCEPT !.pc = "replacing", !.tag = tag]
       /\ localTags' = [t \in Tag |-> IF t = tag THEN rollback.image ELSE localTags[t]]
  /\ UNCHANGED <<names, instance, history, rowIsStale, picker>>

\* The lock and the pull of a tag.
AgentPullsTag ==
  /\ rollback.pc = "sent" /\ rollback.image = NoImage /\ rollback.tag # NoTag
  /\ rollback' = [rollback EXCEPT !.pc = "replacing", !.image = names[rollback.tag]]
  /\ localTags' = [localTags EXCEPT ![rollback.tag] = names[rollback.tag]]
  /\ UNCHANGED <<names, instance, history, rowIsStale, picker>>

\* What a container that is made from a reference runs.
MadeFrom(image, tag) == [digest |-> IF tag = NoTag THEN image ELSE localTags[tag], tag |-> tag]

\* Up to 30 seconds later the old container is stopped and removed, and the new one is
\* made from the tag. The result names the image that was pulled.
AgentRollsBack ==
  /\ rollback.pc = "replacing"
  /\ MadeFrom(rollback.image, rollback.tag).digest # NoImage
  /\ Becomes(MadeFrom(rollback.image, rollback.tag), [digest |-> rollback.image, tag |-> rollback.tag])
  /\ rollback' = NoRollback
  /\ UNCHANGED <<names, localTags, picker>>

\* The new container cannot be made: one of the old reference, and a result without digests.
AgentRestores ==
  /\ rollback.pc = "replacing"
  /\ MadeFrom(instance.digest, instance.tag).digest # NoImage
  /\ instance' = MadeFrom(instance.digest, instance.tag)
  /\ rowIsStale' = TRUE
  /\ rollback' = NoRollback
  /\ UNCHANGED <<names, localTags, history, picker>>

PickerNext ==
  \/ \E t \in Tag : SelectTag(t) \/ \E v \in Image : TagMoves(t, v) \/ LocalTagMoves(t, v)
  \/ \E v \in Version : SelectLocal(v)
  \/ \E listing \in RegistryTags :
       \/ VersionsArrive(listing)
       \/ \E page \in SUBSET Tag, more \in BOOLEAN : TagsArrive(page, listing, more)
  \/ \E ok \in BOOLEAN : RollbackAnswered(ok)
  \/ InstanceIsUpdated \/ RowArrives \/ OpenPicker \/ ClosePicker
  \/ AskToConfirm \/ CancelConfirm \/ HandleRollback
  \/ PostRollback \/ RollbackRefused
  \/ AgentPullsDigest \/ AgentPullsTag \/ AgentRollsBack \/ AgentRestores

PickerSpec == PickerInit /\ [][PickerNext]_pickerVars

-----------------------------------------------------------------------------
\* A rollback with a target ends in the image whose digest the operator was shown when
\* they chose it, wherever the tag has moved in the registry since, and whatever the host
\* had under the tag; only who gives the tag another image between the rollback's own
\* tagging and its creation can change that (handleRollback's choice of what to send, the
\* target of the rollback route, RollbackToImageWithTag).
RollbackReachesShownImage ==
  [][AgentRollsBack /\ rollback.shown # NoImage /\ ~rollback.retagged
       => instance'.digest = rollback.shown]_pickerVars
=============================================================================

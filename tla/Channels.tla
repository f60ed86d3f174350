------------------------------ MODULE Channels ------------------------------
(***************************************************************************)
(* The channels of the radio and the one conversation that is shown.  The  *)
(* NEW CHANNEL editor has a worker write a channel to a free slot of the   *)
(* radio and verify it; CTRL+D hides a channel from the app alone; each    *)
(* new link brings the radio's own list, against which the conversation    *)
(* that is shown is reconciled.  A channel is its stable_key: a slot may   *)
(* change its channel, a channel its slot, and two slots may have one.     *)
(* Tasks of the event loop empty the transcript, wait, and fill it.  The   *)
(* app has a chat store, and its radios have names.                        *)
(***************************************************************************)
EXTENDS RadioLink, SequencesExt

CONSTANTS
  MaxSlot,   \* the last logical slot: 7 in the firmware
  Keys,      \* stable keys of channels
  Free,      \* Channel.Role.DISABLED
  NoChannel, \* a channel the app has not been told of
  NotLoaded, \* a slot without a loaded ChannelChatState
  Reported,  \* the tables of channels that radios connect with
  MaxAsked   \* bound: channels chosen, deleted and saved, and names saved

ASSUME ChannelsAssumption ==
  /\ MaxSlot \in Nat /\ MaxAsked \in Nat
  /\ {Free, NoChannel, NotLoaded} \cap Keys = {} /\ NoChannel \notin {Free, NotLoaded}
  /\ Reported \subseteq {t \in [0..MaxSlot -> Keys \cup {Free}] : t[0] # Free}

VARIABLES
  slots,      \* the radio's channels
  slotCopy,   \* localNode.channels of the interface
  applier,    \* the worker of apply_private_channel and its result
  draft,      \* _pending_channel
  editing,    \* _new_channel_editor_open
  listed,     \* _channels, by index
  hidden,     \* settings.hidden_channel_ids
  current,    \* current_channel_index
  states,     \* _channel_states: the loaded_key of each slot
  queued,     \* switch and reconcile tasks not begun
  emptied,    \* conversations that tasks wait to fill the transcript with
  mounted,    \* conversations in the transcript
  overlapped, \* the transcript was emptied while another task waited
  bound,      \* _active_profile_key is set
  asked       \* channels chosen, deleted and saved, and names saved

applyVars == <<slots, slotCopy, applier, draft, editing>>
screenVars == <<current, states, emptied, mounted, overlapped>>
channelsVars == <<applyVars, screenVars, listed, hidden, queued, bound, asked>>

Slots == 0..MaxSlot
Least(s) == CHOOSE i \in s : \A j \in s : i <= j

-----------------------------------------------------------------------------
(* Lists.                                                                  *)

(* _read_channel_info, and then _filter_hidden_channels.                   *)
enabled(table) == {i \in Slots : table[i] # Free}
filtered(table, hid) == [i \in {j \in enabled(table) : table[j] \notin hid} |-> table[i]]

channel_key_for(i) == IF i \in DOMAIN listed THEN listed[i] ELSE NoChannel

(* _resolve_index_by_stable_key, or else _deterministic_channel_fallback.  *)
having(list, key) == {i \in DOMAIN list : list[i] = key}
selected_index(list, key, index) ==
  IF having(list, key) # {} THEN Least(having(list, key))
  ELSE IF list # <<>> THEN Least(DOMAIN list) ELSE index

(* Bug: nothing comes after the last.                                      *)
AfterNothing(i) ==
  LET higher == {j \in DOMAIN listed : j > i}
  IN  IF higher # {} THEN Least(higher) ELSE MaxSlot + 2

(* The next of the list after i, and after the last the first.             *)
after(i) ==
  LET others == DOMAIN listed \ {i}
      higher == {j \in others : j > i}
  IN  Least(IF higher # {} THEN higher ELSE others)

-----------------------------------------------------------------------------
(* Conversations.                                                          *)

(* Bug: current_channel_index is not yet that of the slot.                 *)
LoadedBefore(i) == IF states[i] = NotLoaded THEN channel_key_for(current) ELSE states[i]

(* _ensure_channel_loaded: what was loaded once is not loaded again.       *)
loaded(i) == IF states[i] = NotLoaded THEN channel_key_for(i) ELSE states[i]

Mount(key) ==
  /\ mounted' = {} /\ emptied' = Append(emptied, key)
  /\ overlapped' = (emptied # <<>>)

(* _switch_channel, up to its first await.                                 *)
SwitchTo(i) ==
  IF i = current THEN UNCHANGED screenVars
  ELSE /\ current' = i
       /\ states' = [states EXCEPT ![i] = loaded(i)]
       /\ Mount(loaded(i))

(* _reconcile_current_channel_identity.                                    *)
Reconcile ==
  LET key == channel_key_for(current) IN
  IF key = states[current] THEN UNCHANGED screenVars
  ELSE /\ states' = [states EXCEPT ![current] = key]
       /\ Mount(key)
       /\ UNCHANGED current

Reconciling == MaxSlot + 1

BeginTask ==
  /\ queued # <<>>
  /\ IF Head(queued) = Reconciling THEN Reconcile ELSE SwitchTo(Head(queued))
  /\ queued' = Tail(queued)
  /\ UNCHANGED <<linkVars, applyVars, listed, hidden, bound, asked>>

Fill(n) ==
  /\ mounted' = mounted \cup {emptied[n]}
  /\ emptied' = RemoveAt(emptied, n)
  /\ UNCHANGED <<linkVars, applyVars, current, states, overlapped, listed, hidden,
                 queued, bound, asked>>

(* The user picks a channel of the list.                                   *)
ChooseChannel(i) ==
  /\ asked < MaxAsked /\ i \in DOMAIN listed /\ i # current
  /\ SwitchTo(i)
  /\ asked' = asked + 1
  /\ UNCHANGED <<linkVars, applyVars, listed, hidden, queued, bound>>

(* _delete_current_channel: zero writes to the radio.                      *)
DeleteChannel ==
  /\ asked < MaxAsked /\ ~editing
  /\ current # 0 /\ current \in DOMAIN listed
  /\ hidden' = hidden \cup {listed[current]}
  /\ IF DOMAIN listed = {current} THEN UNCHANGED <<listed, states, queued>>
     ELSE /\ listed' = [i \in DOMAIN listed \ {current} |-> listed[i]]
          /\ states' = [states EXCEPT ![current] = NotLoaded]
          /\ queued' = Append(queued, after(current))
  /\ asked' = asked + 1
  /\ UNCHANGED <<linkVars, applyVars, current, emptied, mounted, overlapped, bound>>

-----------------------------------------------------------------------------
(* NEW CHANNEL.                                                            *)

Applier(pc, key, slot, on) == [pc |-> pc, key |-> key, slot |-> slot, on |-> on]
NoApplier == Applier("idle", NoChannel, 0, 0)
Step(pc) == applier' = [applier EXCEPT !.pc = pc]

StartNewChannel ==
  /\ ~editing /\ draft' = NoChannel /\ editing' = TRUE
  /\ UNCHANGED <<linkVars, slots, slotCopy, applier, screenVars, listed,
                 hidden, queued, bound, asked>>

CancelNewChannel ==
  /\ editing /\ draft' = NoChannel /\ editing' = FALSE
  /\ UNCHANGED <<linkVars, slots, slotCopy, applier, screenVars, listed,
                 hidden, queued, bound, asked>>

(* SAVE: a draft saved while another is applied is not applied.            *)
SaveNewChannel(key) ==
  /\ editing /\ shown # 0 /\ asked < MaxAsked
  /\ draft' = key /\ editing' = FALSE /\ asked' = asked + 1
  /\ applier' = IF applier.pc = "idle" THEN Applier("begin", key, 0, 0) ELSE applier
  /\ UNCHANGED <<linkVars, slots, slotCopy, screenVars, listed, hidden,
                 queued, bound>>

(* Bug: a slot after the primary one, whatever it has.                     *)
SecondSlot == Slots \ {0}

DisabledSlots == {i \in Slots : slotCopy[i] = Free}

(* apply_private_channel changes the copy before it sends.                 *)
StageChannel ==
  /\ applier.pc = "begin"
  /\ IF link = 0 \/ DisabledSlots = {} THEN Step("failed") /\ UNCHANGED slotCopy
     ELSE LET slot == Least(DisabledSlots) IN
          /\ slotCopy' = [slotCopy EXCEPT ![slot] = applier.key]
          /\ applier' = Applier("staged", applier.key, slot, link)
  /\ UNCHANGED <<linkVars, slots, draft, editing, screenVars, listed,
                 hidden, queued, bound, asked>>

(* The write may be lost; a refusal is seen at once.                       *)
SendChannel ==
  /\ applier.pc = "staged"
  /\ \/ /\ Alive(applier.on)
        /\ slots' \in {slots, [slots EXCEPT ![applier.slot] = applier.key]}
        /\ Step("asking")
     \/ Step("failed") /\ UNCHANGED slots
  /\ UNCHANGED <<linkVars, slotCopy, draft, editing, screenVars, listed,
                 hidden, queued, bound, asked>>

(* get_channel_response.                                                   *)
read_back == slots[applier.slot]

(* A match, or else mismatch, timeout or disconnected.                     *)
VerifyChannel ==
  /\ applier.pc = "asking"
  /\ \/ Alive(applier.on) /\ read_back = applier.key /\ Step("verified")
     \/ Step("failed")
  /\ UNCHANGED <<linkVars, slots, slotCopy, draft, editing, screenVars,
                 listed, hidden, queued, bound, asked>>

(* private_channel_apply_result; get_config_channels reads the copy.       *)
ApplyFailed ==
  /\ \/ applier.pc = "failed"
     \/ applier.pc = "verified" /\ (link = 0 \/ applier.slot \notin enabled(slotCopy))
  /\ applier' = NoApplier /\ editing' = TRUE
  /\ UNCHANGED <<linkVars, slots, slotCopy, draft, screenVars, listed,
                 hidden, queued, bound, asked>>

Promote ==
  /\ applier.pc = "verified" /\ link # 0 /\ applier.slot \in enabled(slotCopy)
  /\ hidden' = hidden \ {slotCopy[applier.slot]}
  /\ listed' = filtered(slotCopy, hidden')
  /\ applier' = NoApplier /\ draft' = NoChannel /\ editing' = FALSE
  /\ queued' = Append(queued, applier.slot)
  /\ UNCHANGED <<linkVars, slots, slotCopy, screenVars, bound, asked>>

-----------------------------------------------------------------------------
(* Links.                                                                  *)

(* A radio, with the channels it has; a posted result has been handled     *)
(* long before the next link.                                              *)
ChannelsOpen ==
  /\ OpenLink /\ applier.pc \notin {"verified", "failed"}
  /\ slots' \in Reported
  /\ slotCopy' = slots'
  /\ UNCHANGED <<applier, draft, editing, screenVars, listed, hidden,
                 queued, bound, asked>>

(* _invalidate_reassigned_channel_caches: never the current one, which     *)
(* _reconcile_current_channel_identity is left to handle.                  *)
reassigned(table, cached, index) ==
  {i \in enabled(table) \ {index} : cached[i] \notin {NotLoaded, NoChannel, table[i]}}

(* _reload_active_profile_view: every state goes, and the first slot is    *)
(* loaded and current, as the list has it so far; the transcript stays.    *)
reloaded == [i \in Slots |-> IF i = 0 THEN channel_key_for(0) ELSE NotLoaded]

(* _show_connection with the list of RadioInfo; the first profile of a run *)
(* finds nothing to reload.                                                *)
ChannelsShow ==
  /\ ShowLink /\ bound' = TRUE
  /\ LET index  == IF bound THEN 0 ELSE current
         cached == IF bound THEN reloaded ELSE states
         list   == filtered(slotCopy, hidden)
         chosen == selected_index(list, channel_key_for(index), index)
     IN  /\ listed' = list /\ current' = index
         /\ states' = [i \in Slots |->
                         IF i \in reassigned(slotCopy, cached, index) THEN NotLoaded
                         ELSE cached[i]]
         /\ queued' = Append(queued, IF chosen # index THEN chosen ELSE Reconciling)
  /\ UNCHANGED <<applyVars, emptied, mounted, overlapped, hidden, asked>>

(* identity_saved, for a new SHORT NAME: another profile.                  *)
NameSaved ==
  /\ shown # 0 /\ bound /\ asked < MaxAsked
  /\ current' = 0 /\ states' = reloaded
  /\ asked' = asked + 1
  /\ UNCHANGED <<linkVars, applyVars, emptied, mounted, overlapped, listed, hidden,
                 queued, bound>>

ChannelsInit ==
  /\ slots = [i \in Slots |-> Free] /\ slotCopy = slots
  /\ applier = NoApplier /\ draft = NoChannel /\ editing = FALSE
  /\ listed = [i \in {0} |-> NoChannel] /\ hidden = {} /\ current = 0
  /\ states = [i \in Slots |-> IF i = 0 THEN NoChannel ELSE NotLoaded]
  /\ queued = <<>> /\ emptied = <<>> /\ mounted = {NoChannel} /\ overlapped = FALSE
  /\ bound = FALSE /\ asked = 0

ChannelsNext ==
  \/ BeginTask \/ \E n \in DOMAIN emptied : Fill(n)
  \/ \E i \in Slots : ChooseChannel(i)
  \/ DeleteChannel \/ StartNewChannel \/ CancelNewChannel
  \/ \E key \in Keys : SaveNewChannel(key)
  \/ StageChannel \/ SendChannel \/ VerifyChannel \/ ApplyFailed \/ Promote
  \/ ChannelsOpen \/ ChannelsShow \/ NameSaved
  \/ (LoseLink \/ CloseLink \/ HideLink) /\ UNCHANGED channelsVars

ChannelsSpec ==
  LinkInit /\ ChannelsInit /\ [][ChannelsNext]_<<linkVars, channelsVars>>

-----------------------------------------------------------------------------
Table == [Slots -> Keys \cup {Free}]
Conversations == Keys \cup {NoChannel}

(* Types of the channel state.                                             *)
ChannelsTypeOK ==
  /\ slots \in Table /\ slotCopy \in Table
  /\ applier \in [pc : {"idle", "begin", "staged", "asking", "verified", "failed"},
                  key : Conversations, slot : Slots, on : 0..MaxOpened]
  /\ {editing, overlapped, bound} \subseteq BOOLEAN
  /\ DOMAIN listed \subseteq Slots /\ Range(listed) \subseteq Conversations
  /\ hidden \subseteq Conversations /\ current \in Slots /\ asked \in 0..MaxAsked
  /\ states \in [Slots -> Conversations \cup {NotLoaded}]
  /\ queued \in Seq(Slots \cup {Reconciling}) /\ emptied \in Seq(Conversations)
  /\ mounted \subseteq Conversations /\ draft \in Conversations

(* The app writes a channel only where the radio of the link has none,     *)
(* whatever writes were lost or refused before.                            *)
NoChannelOverwritten ==
  [][\A i \in Slots : opened' = opened /\ slots[i] # Free => slots'[i] = slots[i]]_channelsVars

Quiet == queued = <<>> /\ emptied = <<>>

(* A slot other than the first that is current shows the history of the    *)
(* channel that the slot has on this link, whatever it was loaded with and *)
(* whatever list or name came while tasks were filling the transcript.     *)
ChosenIsShown ==
  Quiet /\ ~overlapped /\ shown # 0 /\ shown = link /\ current \in DOMAIN listed \ {0} =>
    mounted \subseteq {listed[current], NoChannel}

(* _reload_active_profile_view: the transcript is remounted where the      *)
(* reload made it stale, so another channel's history is never shown for   *)
(* the channel that messages go to.                                        *)
ShownIsCurrent ==
  Quiet /\ ~overlapped /\ channel_key_for(current) # NoChannel =>
    mounted \subseteq {channel_key_for(current), NoChannel}
=============================================================================

# TLA+ verification of MeshtasticPass

MeshtasticPass is a terminal chat client for Meshtastic radios: one Textual UI
thread, one monitor thread that keeps a radio connected, the Meshtastic SDK's own
threads, short-lived worker threads for everything that blocks on the radio, and
one SQLite file. This directory models the parts of it whose correctness depends
on the order in which those threads run, on lost links and on crashes, checks
them with TLC, and proves some of the results with TLAPS. Line numbers below are
those of the source tree.

    tlc -workers 2 -config Delivery_promise.cfg MCDelivery    # one of the runs
    tlapm DeliveryProofs.tla                                  # the proofs

## Inventory of the system

| Part | State it keeps | Operations | What is hard |
|---|---|---|---|
| Outgoing delivery (`app.py` 8529-8714, 10444, 12081, 12865-13057; `radio_service.send_text`) | a `ChatEntry` per message: delivery state, generation, attempt id, packet id, deadline; `_pending_sends` | send, resend, delete, `SendSubmitted`, `SendFailed`, `DeliveryStatusReceived`, 0.45 s timer | two callback paths for one acknowledgement, late and duplicate ones, resend generations, crashes with messages in flight |
| Message store (`chat_store.py`) | `messages`, `send_attempts`, `local_profiles`, encounters | add, update, delete, page, reconcile at open | several transactions per UI operation; the process dies between two |
| Radio connection (`radio_service.connect`, `connection_events`; `app_controller.RadioMonitor`) | `_interface`, `_connect_in_progress`, `_connect_arrivals`, `_connection_lost` | connect, watch, close, retry, switch device | the SDK constructor blocks while the radio already delivers; delivery is destructive; a stopped monitor may outlive its stop |
| Receive path (`_on_text_received`, `_accept_received_message`, `_persist_incoming`) | the UI inbox, rows, the loaded transcript | accept, hold, replay, store | which profile is bound when the message is handled |
| Local profiles (`_activate_local_profile`, `chat_store` 356-520) | active profile of app and of store, pending resolution | bind, unbind, rename with migration, switch | events of several connects, a store fault half way |
| Channel view and unread tracking (`app.py` 8940-9400, 12640-12830) | per-channel entries, window, id sets, counters | switch channel, trim, load older, mark viewed | a window over a store that changes underneath it |
| NETWORK apply (`app.py` 7800-8200) | one outstanding apply with a token, a timer | begin, worker result, disconnect, reconnect, timeout | late worker results, an expected reboot in the middle |
| Verified config writes, clock sync (`radio_service.py` 1330-1480, `app.py` 7380-7480, 8203-8360) | the SDK's local config, a snapshot, sync generations | write, read back, repaint | local copy changed before confirmation, two workers on one section |
| Private channel, channel list (`radio_service.py` 1560-1760, `app.py` 8720-9130) | `localNode.channels`, `_channels`, `_channel_states`, the transcript | apply, hide, switch, reconcile at a new link | slots change their channel, tasks that empty and fill one transcript |
| Traceroute, node removal (`app.py` 10292-10443, 12440-12520) | one active request, a banner, an armed confirmation | start, answer, failure, timeout, disconnect; press twice | answer racing the timeout, a press for another node |
| Direct messages (`app.py` 10560-11080, 11940-12080) | `_dm_states`, the open conversation, NEW DM, drafts | open, write, send, receive, delete, change of profile | one input line and one transcript for all conversations |
| Passes (`chat_store.record_encounter`, `app.py` 5600-5700, 9380-9440, 9640-9720) | one row per node, `_recorded_passes`, the list | sweep, message, read, sort | monotone merge of partial evidence, writes that are suppressed |
| Store schema (`chat_store._create_schema`) | the file's tables, columns, index, version | open at any age | crashes between statements |
| Mesh state and topology (`mesh_state.py`, `mesh_topology.py`) | remembered slots, rings, extents; the view | refresh, select, resize | arithmetic at boundaries, memory from refresh to refresh |
| Settings, backlog indicator, timestamps | one JSON file; pure functions | | little that depends on order |
| Rendering, composer, menus, probes, command line tools | | | nothing that depends on order |

The parts meet in four places. The monitor calls the UI synchronously
(`call_from_thread`) and waits until it has handled the event. The SDK's
publishing thread and its one-shot response handlers call `RadioService`, which
posts messages to the UI's queue. Workers post their results to the same queue.
All of them share the one `ChatStore` (under its lock), whose bound profile
decides what a row belongs to.

What makes each part correct is listed with the properties of its module below.

## Modules

| Module | Role |
|---|---|
| `Delivery` | the life of outgoing messages: all threads, queues, rows and crashes |
| `DeliveryPromise` | what that amounts to for the user, with no thread or database |
| `DeliveryProofs` | TLAPS proofs about `Delivery` |
| `Reception` | monitor threads, connect window, receive path, profile binding, device switch |
| `ReceptionProofs` | TLAPS proofs about `Reception` |
| `NetworkApply` | changing the radio's NETWORK: request, worker, timer, reconnect, selector |
| `NetworkApplyProofs` | TLAPS proofs about `NetworkApply` |
| `Profiles`, `ProfilesProofs` | whose history a row is: rename, switch of device, store faults, restarts; TLAPS proofs about it |
| `RadioLink` | the link to the radio as the modules below see it |
| `RadioConfig` | single-field writes and the clock sync over one shared configuration section |
| `Channels` | the private-channel apply, the channel lists of successive links, the shown conversation |
| `RadioConfigProofs` | TLAPS proofs about `RadioConfig` and `Channels` |
| `NodeActions` | traceroutes and the removal of a node |
| `MessageWindow` | the window over a channel's history, paging, unread counts |
| `DirectMessages` | the DM conversations, their drafts, profiles that come and go |
| `Encounters` | PASSES: the record of every node ever known |
| `StoreSchema` | `ChatStore.open` on a file of any version, with crashes |
| `HistoryProofs` | TLAPS proofs about `MessageWindow`, `DirectMessages`, `StoreSchema`, `NodeActions` and `Encounters` |
| `MeshGrid` | the geometry of the MESH board, as operators |
| `MeshBoard` | the MESH board over time: what is known, the layout it remembers, the view |
| `MeshGridProofs`, `MeshBoardProofs` | TLAPS proofs about what the geometry computes, and about the board |
| `MCDelivery`, `MCReception`, `MCNetworkApply`, `MCProfiles` | the instances TLC checks |
| `MCAppParts` | one instance for the parts that have nothing in common but the link: `part` chooses one at the start, and the others stay as they are |

A definition that carries the source's name (`update_delivery_state`,
`reconcile_abandoned_sending`, `unbind`, ...) models that code; the `map` of
`PROJECT.json` gives its lines. Some definitions are commented `Bug:`. No action
uses them: they are plausible mistakes which, put in place of the definition they
vary, make a property fail, and so show that the property is about the code.

### Delivery

State: `entry` holds the ChatEntry objects (`state`, `gen` = `send_generation`,
`attempt` = `active_attempt_id`, `packet`, `deadline` = a `confirmation_deadline`
is set, `deleted`); `shown` says which object of a message is in an in-memory
list; `row` is the message's row with its `send_attempts` and the send that
placed it in the transcript; `worker` is the program counter of each send's
worker thread; `oneShot` the SDK's `onAckNak` handlers; `pending` is
`_pending_sends`; `pubq` and `uiq` are the queues of the SDK's publishing thread
and of the UI. `evidence` is a history of what really happened to each send: the
properties compare claims with it.

| Actions | Code |
|---|---|
| `Compose`, `Rebroadcast`, `DeleteEntry` | `send_chat_message`, `_rebroadcast`, `_delete_chat_entry` with every transaction they make |
| `SendWasSubmitted`, `SendFailed`, `DeliveryStatusReceived`, `IgnoreEvent` | the three message handlers and their early returns |
| `AdvanceDeliveryStates` | one tick of the timer |
| `SubmitToSdk`, `RefuseSend`, `RegisterPendingSend`, `PostSubmitted` | `send_text` and `_send_from_thread`, split where another thread can run |
| `RoutingResponse`, `OnRoutingResponse` | the SDK reader thread (one-shot handler) and publishing thread (pubsub) |
| `LoseLink`, `Reconnect`, `TrimFromWindow`, `LoadOlder` | what rebuilds ChatEntry objects from rows |
| `Crash`, `CrashIn...`, `Shutdown`, `Start` | a crash at any point, also between two transactions of one handler; `on_unmount`; `ChatStore.open` and the load of the history |

A send is named by object and generation, which also stands for its packet id
(the SDK never reuses one while the process runs). Abstractions: texts, times and
channels are left out; a deadline is present or not, and may expire at any tick;
the one-shot handlers of a lost interface die with it, and what its publishing
queue still holds is dropped, because `_on_routing_response` compares the
interface (radio_service.py:2036); the simulated radio's immediate results and the
eviction from `_pending_sends` after 200 sends are left out.

Bounds: `MaxLoads` ChatEntry objects for one message (2: one composed, one
reloaded), `MaxGen` generations of one object (2: a send and a resend),
`MaxResponses` routing responses in all (2: an implicit one and a final one, in
either order), `MaxFaults` failed transactions. One message is enough: no handler
looks at two messages except the timer, `Start` and `LoadView`, which treat each
alike, and the proofs below are for any number. `MidSessionReload` says whether a
channel view may be rebuilt while the process runs: `delivery_promise` is about a direct
message, whose view is not, `delivery_view` about a channel message, whose view is. In
every run a routing response may beat the worker's `SendSubmitted`.

Fairness (`FairSpec`): the UI loop and the timer keep running, and a worker whose
`sendText` has returned posts `SendSubmitted` (`PostSubmitted`), weak fairness each.
Nothing is assumed of the user, the mesh, the link or crashes, and not that `sendText`
returns: it writes to the radio and may block for ever.

| Property | Says |
|---|---|
| `EntryTruthful`, `RowTruthful` | screen and database never claim HEARD, SENT or FAILED without evidence, of the current generation or of some send |
| `FinalWithinGeneration` | HEARD and FAILED are final until a resend |
| `NoAbandonedSending` | a SENDING row or attempt has a live entry waiting for it |
| `AttemptsAreHistory` | an older attempt never changes (working store) |
| `EverySendResolves` | no listed message stays SENDING for ever once its `sendText` has returned |
| `KeepsPromise` | every step is a step of `DeliveryPromise`, or invisible to it |
| `SentIsNeverScheduled` | an entry that is SENT gets no deadline from the same send (a finding) |

`DeliveryPromise` has one step that the source's comments would not have: `Reopen`. The
program's note that a send has left may come after its first answer, and then takes
"sent" back, once for each send (`fresh`). `SentIsNeverScheduled` is the comment's word.

### Reception

State: `interface`, `connecting`, `held`, `lost`, `subscribed`, `path` are
`RadioService`'s fields; `monitors` the monitor threads with their stop events;
`calls` those blocked in `call_from_thread`; `inbox` the UI's message queue, which
is separate from `calls`: an event overtakes queued messages. `active`,
`unresolved` are the app's `_active_profile_key` and
`_profile_pending_resolution`, `bound` the store's profile, `rows` pairs of packet
and profile, `view` the loaded channel transcript.

| Actions | Code |
|---|---|
| `DeviceMissing`, `Connect`, `OpenFails`, `OpenSucceeds`, `ReadRadioInfo` | `connect(defer_held=True)` |
| `Drain`, `LeaveWatch`, `DeviceGone`, `Retry`, `Yield` | the rest of `connection_events` and `RadioMonitor._run` |
| `OnConnectionLost`, `OnTextReceived`, `HoldOrDrop` | the pubsub handlers; the comparison with `_interface` and the test of `_connect_in_progress` are two steps |
| `HandleEvent`, `AcceptMessage` | `_show_connection` with `_activate_local_profile`; `_accept_received_message` with `add_incoming` |
| `StopMonitor`, `FinishSwitch` | `_switch_device`: `stop()` and its waits, then `set_device_path` and the new monitor |
| `Deliver`, `LinkDies` | the radio and the SDK (external) |

Abstractions: one radio and one short name per device (`Profiles` has renames), a
store that works, one channel, no restart of the process. A reader thread starts inside
the constructor and may end at any time from then on (`LinkDies`): also while the
constructor still runs, which may then raise or return, and after it returned but before
`connect()` assigns the interface. An interface whose construction failed delivers
nothing more. After its stop event a monitor ends at
once unless it is blocked in the SDK constructor or in a call to the UI.

Bounds: `MaxConnects` interface objects (2: a failed or lost one and another),
`MaxMonitors` (2: one switch), `MaxHeld` for `MAX_CONNECT_ARRIVALS` (1, so that
two packets overflow it), two packets of the first device. Fairness: monitor
threads, publishing thread and UI loop keep running.

| Property | Says |
|---|---|
| `TypeOK` | types, and the hold never outgrows its bound |
| `NothingReplayedTwice` | a packet is in one place only, whatever attempts fail |
| `WatchingHoldsNothing` | an established link strands no held packet |
| `ReplayAfterBinding` | held packets are replayed when the store is bound to the connected radio's profile |
| `BoundOnlyOnline` | no profile is bound in an unresolved window |
| `ReconnectShowsOwn` | after a reconnect the transcript is that of the bound profile |
| `HeldIsNeverLost` | if the link keeps coming up, what was held reaches the database |
| `LostLinkIsNoticed` | a link whose reader thread was alive at some time after the assignment of the interface is not watched for ever once it is dead |
| `DeadLinkIsNoticed` | no dead link is watched for ever (a finding) |
| `WatchesAnInterface` | a monitor that watches has an interface to watch (a finding) |

The properties that speak of an established link are about one monitor (`Alone`);
what two of them do to each other is a finding.

### NetworkApply

State: `apply`, `awaiting`, `armed`, `begun`, `selected`, `unmatched` are the UI's
`_network_apply` (its token and `awaiting_reconnect`), its timer,
`_network_apply_seq`, `_selected_network` and `_network_unmatched`; `workers` the
worker thread of each token with the interface it took; `iface`, `lost` are
`RadioService`'s; `local` is the SDK's copy of the configuration, `config` what the
radio is really set to and `edits` the writes it has not carried out; `reads` the
readback requests on their way. `outcome`, `shown`, `since` and `late` are histories: what
became of each apply, what the radio reported on this connection, what it reported of
the wanted NETWORK since the apply began, and what workers that had outlived their apply
wrote into the SDK's copy of this connection. A configuration is two fields
(`lora` for preset and slot, `key` for the primary channel), each set as in some
preset, so that a half-applied one can be told from a whole one.

| Actions | Code |
|---|---|
| `SelectNetwork`, `SaveNetwork` | `_on_network_selected`, `save_network`, with `_begin_network_apply` |
| `StartWriting`, `WriteLora`, `WriteChannel`, `Commit` | the stages of `apply_network_config`: each is refused if disconnected, may raise, or is fired and forgotten |
| `RequestReadback`, `FinishReadback` | one round of `_verify_network_apply_converge` with `reread_lora_and_primary_channel` |
| `HandleApplied`, `TimeOut` | `radio_config_preset_applied`, `_network_apply_timed_out`, with `_finish_network_apply` |
| `ShowDown`, `ShowOnline` | the parts of `_show_connection` that resolve an apply and detect the active NETWORK |
| `NoticeLoss`, `CloseLink`, `Reconnect` | `RadioService` and its monitor |
| `CarryOutEdit`, `Answer`, `LoseLink` | the radio and the SDK's reader thread |

Abstractions: presets differ in both fields and no two are equal; a radio carries
edits out in order, at any time, committed or not; the monitor waits for the UI
(`call_from_thread`), so a connection event is one step with its handling; a Textual
timer calls its callback on the UI loop; the editor, its confirmation and a failing
settings file are left out. Deadlines of the readback are not modelled: a round may
end at any time and be the last or not.

Bounds: `MaxApplies` (2: a late result of the first meets the second), `MaxConnects`
(2: one reboot or loss; the second connection lasts), two presets, of which the
second may also be saved again (`Savable`) and may be what the radio comes back
with (`Elsewhere`). A worker that is stuck in an SDK call goes on when it is let, also
when its apply has ended or waits for a reconnect (`Late`).

Fairness: the UI loop and its timers run and a worker that polls goes on. A write
may block for ever, and the radio may never come back.

| Property | Says |
|---|---|
| `OneOutstanding` | one apply at a time, and none is forgotten without an outcome |
| `SuccessWasReported` | APPLIED is said only of what the radio reported since the apply began, or a late worker wrote |
| `SelectorWasReported` | the selector names only a NETWORK the radio reported on this connection, or a late worker wrote (or a saved one that failed, as documented) |
| `AppliedIsOnTheRadio` | APPLIED is said only of what the radio reported since the apply began (a finding) |
| `WaitsForReconnect` | a failed write or readback on a healthy link is never taken for a reboot |
| `EveryApplyEnds` | every apply ends |

### Profiles

State: `rows`, `profiles` are the tables; `named` the short name each radio has;
`attached`, `step`, `reported`, `target` the link, the monitor and the device;
`shown`, `current`, `pending` the app's `_radio_state`, `_active_profile_key` and
`_profile_pending_resolution`; `isBound`, `stamp` the store's binding; `loaded` the
rows in the transcript; `saver` the worker of a rename.

| Actions | Code |
|---|---|
| `ShowOnline`, `ShowOnlineBreaks`, `ReconcileTranscript`, `ShowDown` | `_show_connection` with `_activate_local_profile`: unbind, bind, follow a rename, switch; the store may raise at every step; the reload that follows |
| `SaveShortName`, `TakeInterface`, `WriteOwner`, `WriteOwnerFails`, `ReadOwner`, `IdentitySaved`, `IdentitySavedBreaks` | the rename dialog and its worker, which reads the interface of the moment twice |
| `Receive` | a message handled by the UI, stamped and mounted |
| `SwitchDevice`, `Connect`, `LinkLost`, `RenamedElsewhere`, `Crash`, `Start` | the surroundings |

Abstractions: one channel; a packet is handled when it arrives (`Reception` has the
queues); one rename worker, whose second start waits for the first. Bounds: two
radios, three usable spellings of two names and a blank one, two packets of one radio,
two renames, three links, one store fault and one crash.

| Property | Says |
|---|---|
| `RowKeepsItsRadio` | no row ever belongs to a profile of another radio than the one that delivered it |
| `HistoriesNeverMerge` | a history moves whole and to an empty profile only (working store) |
| `OnlyOwnEnters` | with a profile resolved, only its rows enter the transcript, and a change of profile leaves none behind (working store) |

### RadioLink

`RadioConfig`, `Channels` and `NodeActions` share the variables `link` (the interface),
`lost`, `shown` (the link the screen calls ONLINE) and `opened`. A module that reacts
to the link conjoins its own update to `OpenLink`, `ShowLink` or `HideLink`. This is
`Reception` seen from afar: one monitor, and a link that is shown after it is made and
hidden after it is closed.

### RadioConfig

State: `device` is one section on the radio, `copy` the SDK's copy of it, `snapshot`
the app's; `writer` the write that each of two workers carries out, `message` the whole
section that it took from the copy to send; `rows` what the dropdowns show; `clock`, `syncing`, `syncGen`, `results`, `lastSync` the clock sync.

| Actions | Code |
|---|---|
| `StageValue`, `CopySection`, `SendSection`, `AnswerSection`, `AnswerLate`, `WriteApplied`, `WriteFailed` | `write_verified_config_field`: it changes the copy, takes the whole section from it, sends that, asks for the section back; the answer replaces the copy, also one that comes after the wait |
| `ChooseValue`, `RadioSettingApplied` | the dropdown and the worker's result |
| `SetTime`, `SetZone`, `ZoneWritten`, `PostResult`, `ClockSyncApplied` | `_sync_clock` and the message it posts |
| `ConfigOpen`, `ConfigShow`, `ConfigHide` | a link brings its section; ONLINE starts a sync; down cancels it |

`unsure` remembers that on this link a write failed, a choice was refused because a
write was running, both workers wrote one field, or a message went out whose other fields
were no longer those of the copy (`Overtaken`): it may undo on the radio what the other
worker had confirmed. Then nothing is claimed.

| Property | Says |
|---|---|
| `RowsAreTrue` | when all writes have ended, none failed, contended or was overtaken, every row shows what the radio has |
| `SyncIsOfThisLink` | a clock sync counts only for the link it was begun on |

### Channels

State: `slots` the radio's channels, `slotCopy` the SDK's copy, `applier`, `draft`,
`editing` the NEW CHANNEL editor and its worker; `listed`, `hidden` what the app lists;
`current`, `states` the conversation shown and what each slot's cache was loaded for;
`queued` and `emptied` the tasks that empty the transcript, wait for its removal and
fill it; `mounted` whose messages are in it; `bound` whether a profile was ever resolved.

| Actions | Code |
|---|---|
| `StartNewChannel`, `CancelNewChannel`, `SaveNewChannel`, `StageChannel`, `SendChannel`, `VerifyChannel`, `ApplyFailed`, `Promote` | the editor and `apply_private_channel` with its result |
| `ChooseChannel`, `DeleteChannel`, `BeginTask`, `Fill` | switching and hiding, and the two halves of the tasks they start |
| `ChannelsOpen`, `ChannelsShow` | a new link's table; `_show_connection`: the profile is activated and the view reloaded (all states go, slot 0 is loaded and current, the transcript stays), then the caches are invalidated, the conversation is chosen and a reconciliation is queued |
| `NameSaved` | `identity_saved` with a new SHORT NAME: the same reload |

The chat store is there, as it is whenever the file could be opened. With it every ONLINE
event after the first reloads, so that `_invalidate_reassigned_channel_caches` finds
nothing left to invalidate.

Bounds: three slots, three keys, two links, three tables of channels that a radio may
connect with (`MCReported`: the same channels in other slots, one channel in two
slots, another channel in a slot), two requests of the user (choices, deletions, saves,
names).

| Property | Says |
|---|---|
| `NoChannelOverwritten` | on a link, an occupied slot is never written |
| `ChosenIsShown` | a current slot other than the first shows the history of the channel it has on this link |
| `ShownIsCurrent` | no other channel's history is shown for the current channel (a finding) |

### NodeActions

State: `traced`, `active`, `senders`, `waiting`, `timers`, `posted`, `banner`, `routes`
follow each traceroute by its token; `happened` is the history of what really became of
it; `nodedb`, `armed`, `removers` the removal of nodes, and `presses` the history of
what was pressed. Actions: `StartTraceroute`, `SendTraceroute`, `AnswerTraceroute` (the
SDK's thread), `TracerouteOutcome` (the queue, in any order), `TracerouteTimedOut`,
`DismissBanner`, `RequestNodeRemove`, `NodeRemoveConfirmExpired`, `RemoveNode`, and
`NodesHide` for the loss of the link. Bounds: two nodes, two traces, three presses.

| Property | Says |
|---|---|
| `TraceEndsAsItself` | banner and board speak of a request's own outcome whatever is late, and a shown trace has its timer |
| `RemovedWhenConfirmed` | a node is removed only after two presses for it in a row |

### MessageWindow

State: `stored` and, per channel, `entries` (the window), `state` (whether older rows
remain, the target size), `count` and, for the shown channel, the app's copies `mine`;
`fresh` and `unread` the marks; `page` the task of LOAD OLDER at its await, `mounting` the
switches at theirs; `unseen`, `raced`, `crossed` and `mixed` are histories (what came
unseen; whether a page met an older message or a trim; whether it met a change of channel
or a reconnect; whether it was read while a switch was at its awaits).

| Actions | Code |
|---|---|
| `Receive`, `SelectMessage` | a message handled by the UI, with the trim; a selected one is read |
| `LoadOlder`, `PageMounted` | the two halves of a page |
| `SwitchChannel`, `TranscriptMounted` | `_mount_channel_transcript` up to its awaits, and what follows them: only then is the channel viewed. A message that comes between is counted |
| `LeaveChat`, `EnterChat` | the CHAT tab in CHANNEL mode |
| `Reload` | a reconnect or a new SHORT NAME: all states go, with their unread counts, and slot 0 is loaded |

Messages are numbered in the order of history, so that a banked one may come after a
newer one. Bounds: five messages of two channels (of which the rows stored at first are
chosen freely), windows and pages of one message, four moves.

| Property | Says |
|---|---|
| `NothingIsHidden` | unless a page met a change of channel or a reconnect, a window has every row from its oldest on, and LOAD OLDER is offered while rows remain before it (and no page met an older message) |
| `UnreadIsCounted` | CHAT (N) counts each message that came unseen, once; a reconnect forgets them (unless a page was read while a switch was at its awaits: that may bring back what is marked unread but was counted long ago) |

### DirectMessages

State: `dmRows`, `dmProfile` (what the store is bound to, and the active profile),
`dmStates` (loaded, entries, unread, draft of each conversation), `openDm`, `newDmMode`,
`dmVisible`, `dmOrder`, `dmLog`, `dmInput`. A text is identified by where it was
written. Actions: `OpenDm`, `StartNewDm`, `SubmitNewDm`, `CancelNewDm`, `WriteDm`,
`SendDm`, `ReceiveDm`, `DeleteDm`, `LeaveDms`, `EnterDms`, and `Unresolve`, `Resolve`
for the profile. Bounds: two peers, two profiles, two messages.

| Property | Says |
|---|---|
| `DmGoesWhereShown` | the transcript and the input line are those of the open conversation |
| `DmHistoryIsOwn` | a conversation never has another profile's messages, nor lacks its own, unless it was loaded with no profile bound |
| `DmHistorySurvives` | the same without the exception (a finding) |

### Encounters

State: `nodeDb` what the radio knows, `encountered` the table, `recorded` what the last
sweep wrote of each node, `passes` the list; `sightings` and `unswept` are histories.
Actions: `Sweep` (each node's write may fail), `Message`, `ShowPasses`, `LeavePasses`,
`Reorder`, `Tick`, `Hear`, `Unlink`, `TimeGoesOn`, `Restart`. Bounds: two nodes, two
moments, one hop, two events (changes of the radio's list, messages, failures).

| Property | Says |
|---|---|
| `NothingIsForgotten` | a row is the sum of all sightings of its node, in whatever order; what a sweep skips is on record already |
| `ListIsRecord` | the list shows the table in the chosen order, unless a repaint is due or a read failed |

### StoreSchema

`disk` is what is committed: the version, the tables and columns, the unique index and
the copies of one packet; `pending` and `holder` the one transaction there can be;
`opening` where the process is in `_create_schema`, `todo` the columns it found
missing, by their places in the migration. One process has the file open at a time, as
`ChatStore.open` says (chat_store.py:578-588); the module has room for more, which
the theorems exclude by name (`OneOpener`). Python's `sqlite3` commits a script and data
definitions outside a transaction statement by statement; writing the version opens the
transaction that then holds the index too. `Stop` may come anywhere. Files of versions 0 (none) to 9 (a future one).

| Property | Says |
|---|---|
| `OpensAsCurrent` | whatever earlier openings died, an open store is complete, and only future files are refused |
| `PacketIsStoredOnce` | a repeated packet is stored once, also when an opening died between the removal of the index and its making |

### MeshGrid and MeshBoard

`MeshGrid` translates the pure functions of `mesh_topology.py`: the regions and ideal
slots, the searches ring by ring for a free cell, the scaling to the board, the hop
markers, the connectors and their elbows, the clip to a viewport and the arrow keys.
Its operators are checked over everything that `MeshBoard` reaches. `MeshBoard`: `mesh`
is what is known (the radio's records, messages, traced routes, YOU's position, the
time), `layout` what one refresh leaves to the next (`sticky` slots, depths, rings,
extents), `view` is `MeshTopologyView`. Actions: `Refresh` (also with a NodeDB that
cannot be read), changes of what is known, selection, arrow keys and resizing.

A node is a number, in the order of the ids, YOU is number 0, and a marker is
`Span` times its node plus its step. A search ring by ring is one operator, `nearest`:
the first free cell in the code's order of the cells of each ring; `reserve_slot`,
`reserve_bounded_cell`, `reserve_edge_cell` and `reserve_relay_stage_cell` say what is
free for them. A sort is `in_order`, by the rank of the keys; a loop over it is a fold.
`Cosine` and `Sine` are tables, of which the proofs assume only that they are numbers.

Abstractions: positions are points of the plane of integers; times count windows of
activity; products of floats are exact (ties aside, that holds over these ranges), and
the angles of the fan are whole degrees; labels, glyphs and painting order are left out.
`projected` scales the cluster by the farthest axis, `direction_bucket` compares
tangents. Bounds: a grid of 11 by 21 cells, three
remote nodes and room for two and the relays, two depths, two positions, two windows of
time, two viewports, two changes.

| Property | Says |
|---|---|
| `EveryNodeHasItsCell` | while board and viewport have as many cells as there are nodes and markers, these never share one, on the board or clipped to the viewport |
| `RingsTellDepth` | rings (`DepthOrder`) and markers (`MarkersCountRings`) never contradict the depths the radio reports |
| `LayoutIsStable` | a node that keeps ring and region keeps its slot, unless an earlier region takes it |

## Runs

| Run | Result |
|---|---|
| `delivery_promise` | holds: a direct message, link losses, crashes, resends, two responses at any time, working store |
| `delivery_view` | holds: a channel message, reloads, trims, one store fault |
| `reception_link` | holds: failed attempts, lost links, a switch of device |
| `network_apply` | holds: two applies, a reboot or loss, late results, timeouts, half-applied settings |
| `profiles` | holds: two radios, renames from both sides, switches, one store fault, one crash |
| `app_parts` | holds: the nine parts of `MCAppParts` (settings and clock, channels, traceroutes, removals, MESH board, windows, DMs, PASSES, the opening of the store), each with all its actions |
| `delivery_downgrade` | violated: an acknowledgement overtakes the worker's `SendSubmitted`, which puts SENT back to SENDING and arms the timer (app.py:8661, against the comment that follows) |
| `reception_dead_link` | violated: a reader thread ends between the constructor and the assignment of the interface; its `connection.lost` is dropped, and the dead link is watched for ever (radio_service.py:874, 2539) |
| `reception_switch_monitors` | violated: a monitor that outlives its stop closes the interface of its successor (app_controller.py:319) |
| `network_late_worker` | violated: a worker that outlived its apply writes into the copy with which the next apply is verified (radio_service.py:1859) |
| `channel_history` | violated: a reconnect or a new SHORT NAME makes slot 0 current and leaves another channel's transcript (app.py:13258) |
| `dm_history` | violated: a conversation loaded in a window without a profile keeps an empty or partial history after the profile returns (app.py:10775) |

`findings` in `PROJECT.json` quotes what the repository says in each case.
Deadlock is not checked: the bounded models stop when a bound is reached, and the
real system rests when nobody sends. `MCAppParts` starts in one of its parts and stays
there, so its states are the sum, not the product, of theirs. The packets of `profiles`
are interchangeable; that is the only symmetry used, in a run without liveness.

## Proofs

TLC explores the instances above; these theorems hold for every value of the
constants that satisfies `DeliveryAssumption` (direct messages are messages, the
bounds are natural numbers, and one object and one generation are allowed) or
`ReceptionAssumption` (a first device, one radio for each packet, `None` is
neither a device nor a packet, the bounds are natural numbers and at least one
monitor may start) or `NetworkAssumption` (the first preset is one of the presets,
the bounds are natural numbers and one connection is allowed) or `EncountersAssumption`
(finitely many nodes, named by numbers, and natural numbers for the bounds, with at
least one moment), `ProfilesAssumption` (each radio has a first name, each text a radio
that heard it, `NoKey` is no key), `ConfigAssumption` and `LinkAssumption` (the time zone
is a field, the sections give each field a value), `ChannelsAssumption` (the tables a
radio may report have a primary channel, the markers are no keys) or
`NodeActionsAssumption` (`NoNode` is no node), `WindowAssumption` (there is a channel,
messages are finitely many numbers, a window and a page hold at least one),
`DirectMessagesAssumption` (`NoPeer` is no peer, `NoKey` no key) or
`StoreSchemaAssumption` (versions are numbers, `Nobody` is no process) or
`MeshGridAssumption` and `MeshBoardAssumption` (the sizes are positive numbers, there are
more than two rings, nodes are numbers below `Span`, places are points, a radio reports
finitely many depths). `LinkAssumption` is that the number of connections is bounded. Further hypotheses are named in the
theorems that need them, and explained below.

`DeliveryProofs`: `Inductive` proves `Spec => []IInv` where `IInv` is
`TypeOK /\ Truthful /\ DeadProcess`. That no screen entry or row lies is not
inductive by itself: an entry becomes truthful or not when a queued event is
handled, so the events waiting in the UI queue (`QueueTruthful`) and in the SDK's
publishing queue (`PubTruthful`) must be backed by evidence too, and the row that a
start reads back must be (`RowTruthful`). `DeadProcess` says that no queue survives
a crash and that a row always leaves room to load it at the next start, which is
what keeps the types at a start. From it follow `TypeCorrect`, `ScreenIsTruthful`
(`EntryTruthful`) and `DatabaseIsTruthful` (`RowTruthful`), for any number of
messages, resends, reloads, responses and store faults.

`FinalStates` (`FinalWithinGeneration`) needs one more invariant, `SentOnce`. The guard
of `send_failed` compares generations only, so that HEARD is not overwritten by FAILED
rests on the fact that a refused send is answered by nobody (`Refusals`), and this on
the fact that a generation of an object is never sent twice (`Fresh`): objects are
numbered as they are loaded, and one that is loaded again is a new one.

Three more theorems have hypotheses. `ReliableStore` (`MaxFaults = 0`) is that no
transaction fails, as the properties themselves say; `NoRebuild` that no channel's view is
rebuilt under a send (direct messages may be). What happens without them is among the
known behaviours. Of the order of responses and `SendSubmitted` nothing is assumed.

- `NothingIsAbandoned` (`NoAbandonedSending`, for `ReliableStore`) is not inductive
  because the entry that a row waits for may be one that is no longer listed, and must be
  able to write. `Accounting` says so: each SENDING row or attempt has an object that
  says SENDING, listed or not, with that attempt, and every object in use has its row.
  Reloads are allowed.
- `HistoryIsKept` (`AttemptsAreHistory`, with `NoRebuild` too) rests on `Mirroring`: the
  one object in use for a message is the listed one, says what its row says, and only the
  last attempt can be under way. A rebuilt view is excluded because then two objects write
  to one row.
- `PromiseIsKept` (`KeepsPromise`, under the same two) is the refinement: under
  `SentOnce`, `Accounting`, `Mirroring` and `Ordered`, each step changes the mark of at
  most one message, and in a way that is a step of `DeliveryPromise` (`PromiseStep`).
  `Ordered` has two parts. `QueueOrder`: a send's `SendSubmitted` is posted once, after
  its `sendText` has returned, and a status event carries an outcome. `UnopenedEntries`:
  the entry of a send whose `SendSubmitted` has not been handled says SENDING, SENT, HEARD
  or FAILED and has no deadline. So the late event takes back a SENT at most, and once.

`ReceptionProofs`: `IInv` is the conjunction of

- `TypeOK`;
- `Threads`: only the current monitor can be without a stop event, later ones have
  not started;
- `Queue`: a monitor is blocked in `call_from_thread` exactly when it stands in
  `calls`, and monitors stand there in the order they were started;
- `OnePending`: at most one monitor may still come up with an ONLINE event, and
  none while the screen says ONLINE. This is why a second ONLINE event cannot
  follow a first one with no CONNECTING between them. It needs `Queue`: a stopped
  monitor whose ONLINE event is still queued stands before its successor;
- `Binding`: how the screen, the app's profile and the store's hang together. With
  `OnePending` it makes every ONLINE event after the first reload the transcript,
  hence `ReconnectShowsOwn`;
- `Announced`: what a lone monitor has announced is the interface that is current,
  and what it drains is what the store is bound to, hence `ReplayAfterBinding`.

Theorems: `Inductive`, `TypeCorrect`, `NoStaleBinding` (`BoundOnlyOnline`),
`OwnTranscript` (`ReconnectShowsOwn`), `ReplaysToItsProfile`
(`ReplayAfterBinding`) and, with one more invariant (`Window`: a lone monitor's
arrivals are held exactly while it is in the constructor), `NothingStranded`
(`WatchingHoldsNothing`). `NoStaleBinding` and `OwnTranscript` hold across device
switches, with any number of monitors that outlive their stop, and so does `NothingTwice`
(`NothingReplayedTwice`): `OnePlace` sums the places of a packet (its radio, the
publishing thread's queue, its judgement, the hold, the inbox, the table), and no step
makes the sum larger. `CountAppend`, `CountTail` and `CountJoin` say what the operations
on a queue do to the number of places in it.

`NetworkApplyProofs`: `IInv` is `TypeOK` with `Link` (what the monitor is about to
do tells whether the UI is ONLINE and whether there is an interface), `Tokened`
(tokens are given out in order, no message carries one that was not), `Outstanding`
(the apply without an outcome is the one with the timer, and it either waits or is
ONLINE) and `Waits` (a refused write of the outstanding apply, done or to come,
means that the UI is about to be told that the link is down). From it follow
`TypeCorrect`, `OneAtATime` (`OneOutstanding`), `AlwaysTimed` and
`OnlyDisconnectsAreAwaited` (`WaitsForReconnect`). `SuccessIsReported`
(`SuccessWasReported`) adds `Backed`: each field that the SDK's copy shows as wanted,
when it is going to be compared, and each field of a verified result that is queued, was
reported since the apply began or written by a worker that outlived its apply. It is about
the copy and not about the radio because the writes change the copy first.
`SelectorIsReported` (`SelectorWasReported`) adds `Selector`: what ONLINE is going to
compare was reported on this connection or written by such a worker, and what was reported
since the apply began was, while it does not wait for a reconnect; so each name the
selector takes is one of these, saved only, or being saved.

`ProfilesProofs`: `ProfilesInv` is `ProfilesTypeOK`, `RowKeepsItsRadio` and what keeps
it: the interface is one to the target of the moment (`LinkIsTarget`), the store is bound
to a profile of the target or to none (`BoundToTarget`), the rename worker holds what it
read of a radio that may be gone (`SaverRead`), and, unless the store has failed, each
profile in use is one that the store knows and the app and the store agree (`Owned`). A
worker's result is the hard case: it is used only while the screen says ONLINE, and then
what it read is of the target. Theorems: `ProfilesTypeCorrect`, `RadiosNeverShareHistory`
(`RowKeepsItsRadio`), `HistoriesStayApart` (`HistoriesNeverMerge`) and `OthersStayOut`
(`OnlyOwnEnters`).

`RadioConfigProofs`: `ConfigInv` has the types, `OneLink` (while the screen speaks of a
link there is no other) and, for the clock, that a worker of the current generation and
its results are of the link that is shown, however long they were stuck; that gives
`SyncsAreOfThisLink` (`SyncIsOfThisLink`). `RowsInv` adds why rows that settle are true
(`SettledRowsAreTrue`, `RowsAreTrue`): on a live link where nothing has failed or was
overtaken, a field in which the SDK's copy or the snapshot differs from the radio is held
by a write that is under way (`CopyBacked`, `SnapshotBacked`), no two writes that have
begun hold one field (`Apart`), an answer that confirms a value stays true
(`ConfirmedStays`), and a row that differs is due to be settled (`RowsBacked`). A message
is taken from the copy in one step and sent in another; when it is sent and not overtaken,
its other fields are those of the copy, and its own is the value being written.

For `Channels`, in the same module: `NoChannelOverwritten` is about the step that sends, but the slot is
chosen earlier, from the copy. `ChannelsInv` therefore adds `CopyKnowsChannels` (a slot
that the copy calls free is free on the radio: a write changes the copy before the radio,
and a new link reads both together) and `StagedForFree` (what was staged on the current
link is for a slot that is free yet, and no worker has the interface of a later link).
That an apply takes the least free slot is where the well-foundedness of the numbers is
used. `ChosenHistoryIsShown` (`ChosenIsShown`) rests on `ShownInv`, which is `OfLink`
(the list, the caches of the slots other than the first, and the transcript are of the
channel table of the link that is shown: `ListIsOfLink`, `StatesAreOfLink`,
`TranscriptIsOfLink`) and `NothingYet` (before the first profile nothing is loaded, which
is why the first ONLINE event needs no reload). A reconnect keeps it because it drops every
state and makes slot 0 current, the slot of which nothing is claimed: that is the finding
`ShownIsCurrent`. Theorems: `ChannelsTypeCorrect` (`ChannelsTypeOK`),
`ChannelsAreNotOverwritten` (`NoChannelOverwritten`) and `ChosenHistoryIsShown`.

`HistoryProofs` has five parts.

- `MessageWindow`: `WindowInv` says what a window is. `Onto` is the heart: it is the
  newest of the rows, so many as its target when there are older ones or may be, and
  offers these. That is what `outside_mounted_window` relies on when it compares the size
  with the target. `Copies` lets the app's copy of the target run ahead of the state while
  a page is mounted, and `PageIs` that the answer the page holds is not older than the
  window. `CountInv` adds what the marks are: what is unseen is unread, what is unread is
  fresh, all is stored, and a channel that is not loaded has no marks; the channel on the
  screen, when no switch is at its awaits, has nothing unseen; and elsewhere what a window
  has unread is unseen, until a page is read while a switch is at its awaits (`mixed`).
  Theorems: `WindowHidesNothing` (`NothingIsHidden`), `UnreadIsExact`
  (`UnreadIsCounted`). Both hold across reconnects. The first led to `crossed`: a page that is mounted after a switch
  of channel leaves its answer to the other channel, whose window may then lie as it
  wishes, and with windows of two messages or more a later message is put outside of a
  window that has room, and is not offered.
- `DirectMessages`: `DmInv` says that ids are given out in order (`RowsAre`) and what a
  conversation has (`ChatIs`): text written in it, rows of the active profile or of none
  and, unless it was loaded with no profile bound, all of the profile's. That a deletion
  opens the next conversation needs that `list_dm_conversations` lists each peer once
  (`ConversationsAre`). Theorems: `DraftsStayWithTheirPeer` (`DmGoesWhereShown`),
  `HistoryIsOfTheProfile` (`DmHistoryIsOwn`).
- `StoreSchema`: `SchemaInv` says that a column can be missing only with its table or from
  a file that says it is older than the column (`FileIs`, which every crash preserves),
  and what the opener knows where it is (`OpeningIs`). Theorems: `OpeningIsCurrent`
  (`OpensAsCurrent`) and `OnePacketOneRow` (`PacketIsStoredOnce`), for files of any
  version and any number of crashes. Both assume `OneOpener`, as the code does
  (chat_store.py:578-588). The second rests on the first: packets are stored by an open
  store only, and that has its index.
- `NodeActions`: `NodesInv` adds to the types and to `TraceEndsAsItself` that what is
  posted did happen and that only requests which were made go on (`Requests`), and that
  the armed node is the last that was pressed and each removal on its way was confirmed
  (`Presses`). Theorems: `NodesTypeCorrect`, `TracesEndAsThemselves`
  (`TraceEndsAsItself`) and `RemovalsAreConfirmed` (`RemovedWhenConfirmed`).
- `Encounters`: `PassesInv` is `PassesTypeOK /\ RecordIsWhole /\ DirectWasHeard /\
  NeighboursAreHeard`. `RecordIsWhole` is inductive by itself, because `record_all` merges
  one sighting of each node into what spans all earlier ones (`UpsertCovers`, from
  `SpanWidens` and `HearingSpan`). That a sweep may skip a neighbour needs
  `DirectWasHeard`: what the app remembers of a sweep as direct is on record as heard.
  Theorems: `PassesTypeCorrect`, `RecordKeepsEverything` (`NothingIsForgotten`) and, by
  the same invariant, `ListIsTheTable` (`ListIsRecord`): every step that changes the table
  or the order leaves the list stale only with a repaint due.

`MeshGridProofs` says what the geometry computes, for any board, nodes and places.

- A search finds a free cell if there is one in reach. `NearestFinds` is for any search;
  in the whole plane 4095 rings have more cells than the nodes before have taken as long
  as there are at most 4095 nodes (`Few`), on the board the rings up to rows plus columns
  have every cell.
- A sort has every member once, in the order of the keys (`SortedBy`: the ranks of
  different keys differ and are less than the number of members, so each is taken).
- Each loop is a fold, and a fold is unfolded where it is used, into the values after
  0, 1, 2, ... rounds. The community modules define a fold by the choice of a recursive
  function, so it must be shown first that there is one. `RecursiveIs` shows it once, for
  any function over the subsets of a range of numbers that is given by what it does to the
  rest of its argument, by induction over their size; what a round does is passed as a
  function, not as an operator. What holds after every round is then an ordinary induction
  over the numbers.

Theorems: `AssignedIs` (the slots), `PlacedWithin` (the cells of the board),
`MarkersBuilt` (those of the markers) and `ProjectedIs` (those of the viewport: a node that is in view keeps its cell, the others are
clipped). Each says what has a cell, where, that no two have the same cell if there are enough, and, for the
slots, that who stays in its region keeps its slot unless a node of an earlier region has
it.

`MeshBoardProofs`: `MeshInv` is the invariant of the tab. `MeshIs` says what can be known,
`IsLayout` that the remembered slots are numbers, apart from each other, and that the
depths remembered were reported; `IsView` that the view has a cell for each node it
shows, that the selected one is shown, and that the markers are those that
`build_relay_stages` makes of the cells and the rings of this view, not of an earlier one,
whatever was selected, moved to or resized since; `RingsAreOf` that the rings are ranked by
the depths remembered. It is inductive by the theorems about the geometry. From it follow

- `MeshTypes` (`MeshTypeOK`);
- `RingsAndMarkersTellDepth` (`RingsTellDepth`): `LadderOf` (ring 1 is of depth 0 alone),
  `DeeperIsNoNearer` and `UnknownIsBeyond` (also when no depth is known, where the floor of
  2 is needed) give the rings. For the markers, the steps that are drawn for a node are all
  or none, and a connector goes through the markers of its own node only: a marker's
  number tells its node because a ring is less than `Span`. It needs more than two rings
  (`MESH_UNKNOWN_HOPS_RING` is 5) and finitely many depths that a radio can report;
- `NodesHaveTheirCells` (`EveryNodeHasItsCell`, which has `RoomForAll` as its condition:
  the board and the viewport each have as many cells as there are nodes and markers). The
  condition is about the state and cannot be dropped: with more of them than cells the code stacks them
  (mesh_topology.py:1071). The app shows eight remote nodes and the relays on 231 cells, but a
  terminal may be small;
- `LayoutStays` (`LayoutIsStable`), for at most 4095 nodes, as many as the rings that
  `_reserve_slot` searches (mesh_topology.py:1272).

In the instance of `app_parts` condition and hypothesis hold in every state.

`BoundOnlyOnline` (no profile is bound in an unresolved window), `ReplayAfterBinding`
(held packets are replayed when the store is bound to the connected radio's profile),
`WatchingHoldsNothing` (an established link strands no held packet), `OneOutstanding`
(one apply at a time, none forgotten without an outcome) and `WaitsForReconnect` (a failed
write on a healthy link is never taken for a reboot) are proved, so that no run checks
them.

Left to TLC:

- liveness (`EverySendResolves`, `HeldIsNeverLost`, `LostLinkIsNoticed`,
  `EveryApplyEnds`), because fairness and ENABLED are out of the prover's reach;
- `PartsTypeOK`, a conjunction over the parts of `MCAppParts`. The types of each part are
  in the invariants above, those of the window without the upper bound of its target;
- the six properties that runs show to be violated.

## Known behaviours

What the code does that a reader of its comments may not expect, met while modelling.
Six of them are checked as violations (see Runs). The others are part of the models,
where a property excepts them or a guard or a history variable names them.

Delivery and reception:

- A routing response that beats the worker's `SendSubmitted` settles the entry as SENT,
  and `SendSubmitted` sets it back to SENDING with a deadline (app.py:8661, against
  8666-8670); the timer then makes it UNCONFIRMED. Checked (`delivery_downgrade`).
- The deadline is armed by `SendSubmitted` alone (app.py:8673): a `sendText` that never
  returns leaves its message SENDING for ever.
- A link that dies between the constructor and the assignment of the interface
  (radio_service.py:874) is never noticed: its `connection.lost` is compared with the
  interface before and dropped (radio_service.py:2539). Checked (`reception_dead_link`).
- A monitor that outlives its stop closes the interface of its successor
  (app_controller.py:319). Checked (`reception_switch_monitors`).
- Rebuilding a channel's view while a send is in flight reads its row back as INTERRUPTED
  and offers RESEND (app.py:13243). After a restart the first resend does not move the
  message to the end, as it does otherwise (app.py:12925).
- A packet that arrives between the assignment of the interface and the handling of
  ONLINE is stored without a profile (app.py:13154). Packets held for one device are
  replayed for the next (radio_service.py:925).
- If `add_send_attempt` fails in a resend, the next update rewrites the previous attempt
  (app.py:12894).

NETWORK, settings, channels:

- A half-applied switch that fails leaves the selector at the old NETWORK (app.py:8197).
  A worker stuck in an SDK call goes on after its apply ended (radio_service.py:1859), and
  the next apply may be called APPLIED for what that worker wrote into the SDK's copy.
  Checked (`network_late_worker`).
- `write_verified_config_field` takes the whole section from the copy
  (radio_service.py:1386) and sends it later (1396). When the other worker has confirmed
  another field in between, the message sets that one back on the radio, although the
  docstring says it "Never touches any field but the one named here."
  (radio_service.py:1364). `RowsAreTrue` excepts it (`unsure`).
- A reconnect or a new SHORT NAME makes slot 0 current, forgets the unread counts of all
  channels and leaves the transcript as it is (app.py:13258-13277). Checked
  (`channel_history`).
- A refused value stays in the SDK's copy and in the row (comment near app.py:7400), and
  the next write of another field sends it (radio_service.py:1376). A second choice while
  a write runs is silently ignored. A sync thread that is stuck blocks the next link's
  sync and leaves it "in progress" (docstring app.py:8203).
- A private channel that the radio refused stays in the copy and uses up its slot; after
  a timeout a retry makes the channel twice. A draft saved while an apply runs is dropped
  by that one's success. Two tasks may fill the transcript in turn (`overlapped`).

Profiles and direct messages:

- The rename worker reads the interface of the moment (radio_service.py:1322): after a
  switch it may rename another radio. If the store raises in the ONLINE event, the app
  keeps the new key while the store is unbound. Before the first profile the store's reads
  are not narrowed.
- A DM for the open conversation that arrives while DMS is not visible is not mounted when
  DMS is shown again (app.py:11990), and showing CHAT in DMS mode does not mark it read.
  A conversation opened from the dropdown while NEW DM is open leaves that mode on, and
  ENTER takes the text for a node id.

History, nodes, MESH, PASSES, store:

- `_has_older_history` is set from a page after an await (`raced`), and windows of
  channels that are not shown are not trimmed (app.py:8817, 9324).
- `remove_node` takes no acknowledgement, so a refusal by the radio is not seen; other
  menu actions and a device switch do not disarm the confirmation (docstring
  app.py:12463). Evidence of an earlier radio's routes stays on the board.
- An explicit relay that is older than 24 h is filtered before its guaranteed admission
  (mesh_state.py:401), and its destination loses its connector. A NodeDB that changes
  while it is read empties the board for one refresh and drops the selection
  (radio_service.py:1101). A node farther out stretches the axis and so moves the cells,
  not the slots, of the others (mesh_topology.py:846).
- A sweep compares time and directness only, so a changed name or depth waits for the next
  time (app.py:9672). A failed read shows an empty list. The table is not kept per
  profile.
- The store assumes one process at a time (chat_store.py:578-588). Of two that migrate one
  file at once, the second one's ALTER fails as a duplicate column; between its DROP INDEX
  and its CREATE UNIQUE INDEX (chat_store.py:1579) the first may store a packet twice, and
  the index is then never made again. The comment near chat_store.py:1520 says that older code opens a newer file; the
  version check refuses it. A second opener also turns the running app's SENDING rows into
  INTERRUPTED.

## Plan

Done: the modules above. Next, in this order:

1. Theorems: what a connector covers, and that the arrow keys reach every node.
2. Compositions: `Delivery` with `Profiles` (a switch of profile while sends are in
   flight); `Channels` with `MessageWindow` (a reassigned slot and its window).
3. Pure operators: `pass_layout`, `message_time`, `backlog`, `app_settings`.

## Not modelled

Rendering, key handling, menus and terminal widths have no state that a property
here is about. The settings file is replaced atomically as a whole. The simulated radio
is a test double. Probes and command line tools are one-shot scripts, except for what
they do to a store that the app has open (`StoreSchema`). Device discovery, geography and
the configuration snapshot are I/O, formulas and tables. `tcp://` targets are abstracted
to devices; as the code stands `_device_exists` (radio_service.py:2820) tests a file
path, so such a target is always missing.

Smaller cuts: the eviction from `_pending_sends` after 200 sends, which is not cleared by
`close()` (radio_service.py:2027); a NAK taken for an answer of the readback
(radio_service.py:1763); the NETWORK editor and the failure to save the settings file; the
edit of a channel's name, which is local until the next list.

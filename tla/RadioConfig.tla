---------------------------- MODULE RadioConfig ----------------------------
(***************************************************************************)
(* Writes of single configuration fields and their verification.  Two      *)
(* daemon threads share the SDK's copy of one section of the radio's       *)
(* configuration, localConfig.device: "setting" writes what the user chose *)
(* in a dropdown, "clock" sets the clock of each new link and then the     *)
(* time zone.  A write changes the copy, takes the whole section from it   *)
(* as a message, sends that, and asks the radio for the section back; the  *)
(* answer replaces the copy.                                               *)
(***************************************************************************)
EXTENDS RadioLink, Sequences

CONSTANTS
  Fields,    \* fields of the section
  TzField,   \* device.tzdef
  Values,    \* their values
  Sections,  \* what radios hold when they connect
  HostTz,    \* the time zone of the host
  NoValue,
  MaxChosen  \* bound: values the user chooses

ASSUME ConfigAssumption ==
  /\ TzField \in Fields /\ HostTz \in Values /\ NoValue \notin Values
  /\ Sections \subseteq [Fields -> Values]
  /\ MaxChosen \in Nat

VARIABLES
  device,   \* the section on the radio
  copy,     \* localConfig.device of the interface
  snapshot, \* RadioService._config_snapshot
  writer,   \* the write each worker carries out
  message,  \* the set_config message of each worker
  overdue,  \* an answer may still come for a write that ended
  rows,     \* what the dropdowns show
  chosen,   \* values chosen
  unsure,   \* on this link a write failed, a choice was refused, both workers
            \* wrote one field, or a message was sent that the other worker's
            \* change had overtaken
  clock,    \* the sync-clock worker
  syncing,  \* _clock_sync_in_progress
  syncGen,  \* _clock_sync_generation
  results,  \* ClockSyncApplied messages
  lastSync  \* the link of _last_clock_sync_at

configVars == <<device, copy, snapshot, writer, message, overdue, rows, chosen, unsure,
                clock, syncing, syncGen, results, lastSync>>
clockVars == <<clock, syncing, syncGen, results, lastSync>>

Workers == {"setting", "clock"}

-----------------------------------------------------------------------------
(* write_verified_config_field.                                            *)

Write(pc, field, value, on, got) ==
  [pc |-> pc, field |-> field, value |-> value, on |-> on, got |-> got]
NoWrite == Write("idle", TzField, NoValue, 0, NoValue)
NoMessage == [f \in {} |-> NoValue]
Begun(field, value) == Write("begin", field, value, 0, NoValue)
Advance(w, pc, on, got) ==
  writer' = [writer EXCEPT ![w] = Write(pc, @.field, @.value, on, got)]

Contended(w) ==
  \E u \in Workers \ {w} : writer[u].pc # "idle" /\ writer[u].field = writer[w].field

(* setattr on the section: before anything is sent.                        *)
StageValue(w) ==
  /\ writer[w].pc = "begin"
  /\ IF link = 0
     THEN copy' = copy /\ Advance(w, "failed", 0, NoValue)
     ELSE /\ copy' = [copy EXCEPT ![writer[w].field] = writer[w].value]
          /\ Advance(w, "staged", link, NoValue)
  /\ unsure' = (unsure \/ Contended(w))
  /\ UNCHANGED <<linkVars, device, snapshot, message, overdue, rows, chosen, clockVars>>

(* CopyFrom: the message has the section as it is now.                     *)
CopySection(w) ==
  /\ writer[w].pc = "staged"
  /\ message' = [message EXCEPT ![w] = copy]
  /\ Advance(w, "copied", writer[w].on, NoValue)
  /\ UNCHANGED <<linkVars, device, copy, snapshot, overdue, rows, chosen, unsure,
                 clockVars>>

(* The other worker has since changed, or had answered, another field.     *)
Overtaken(w) == \E f \in Fields \ {writer[w].field} : message[w][f] # copy[f]

(* The whole section goes out; it may be lost or refused.                  *)
SendSection(w) ==
  /\ writer[w].pc = "copied"
  /\ message' = [message EXCEPT ![w] = NoMessage]
  /\ IF Alive(writer[w].on)
     THEN /\ device' \in {device, message[w]}
          /\ unsure' = (unsure \/ Overtaken(w))
          /\ Advance(w, "asking", link, NoValue)
     ELSE UNCHANGED <<device, unsure>> /\ Advance(w, "failed", 0, NoValue)
  /\ UNCHANGED <<linkVars, copy, snapshot, overdue, rows, chosen, clockVars>>

(* Bug: the value is looked up in the copy.                                *)
CopyValue(w) == copy[writer[w].field]

(* The field of the get_config_response.                                   *)
answered_value(w) == device[writer[w].field]

(* onResponseRequestSettings: the answer replaces the copy of the section. *)
AnswerSection(w) ==
  /\ writer[w].pc = "asking" /\ Alive(writer[w].on)
  /\ copy' = device
  /\ Advance(w, "asking", link, answered_value(w))
  /\ UNCHANGED <<linkVars, device, snapshot, message, overdue, rows, chosen, unsure, clockVars>>

AnswerLate ==
  /\ overdue /\ link # 0 /\ ~lost
  /\ copy' = device /\ overdue' = FALSE
  /\ UNCHANGED <<linkVars, device, snapshot, writer, message, rows, chosen, unsure,
                 clockVars>>

(* _rebuild_config_snapshot follows a confirmed write only.  A posted      *)
(* result is shown long before another answer, or link, comes.             *)
NoneUnshown(us) == \A u \in us : writer[u].pc \notin {"applied", "failed"}

WriteApplied(w) ==
  /\ writer[w].pc = "asking" /\ Alive(writer[w].on) /\ NoneUnshown(Workers \ {w})
  /\ writer[w].got = writer[w].value
  /\ Advance(w, "applied", link, writer[w].got)
  /\ snapshot' = copy
  /\ UNCHANGED <<linkVars, device, copy, message, overdue, rows, chosen, unsure, clockVars>>

(* disconnected, nak, mismatch or timeout: the first two are looked for    *)
(* before the answer is, and the deadline may pass when it has just come.  *)
WriteFailed(w) ==
  /\ writer[w].pc = "asking"
  /\ Advance(w, "failed", 0, NoValue)
  /\ overdue' = (overdue \/ (Alive(writer[w].on) /\ writer[w].got = NoValue))
  /\ unsure' = (unsure \/ Alive(writer[w].on))
  /\ UNCHANGED <<linkVars, device, copy, snapshot, message, rows, chosen, clockVars>>

-----------------------------------------------------------------------------
(* The dropdowns.                                                          *)

(* _render_radio_settings: TIMEZONE from the snapshot, the others from the *)
(* copy.                                                                   *)
rendered == [f \in Fields |-> IF f = TzField THEN snapshot[f] ELSE copy[f]]

(* _apply_radio_setting: the dropdown shows the choice already; a second   *)
(* thread of the group is refused.                                         *)
ChooseValue(f, v) ==
  /\ shown # 0 /\ chosen < MaxChosen /\ rows[f] # v
  /\ rows' = [rows EXCEPT ![f] = v]
  /\ chosen' = chosen + 1
  /\ IF writer["setting"].pc = "idle"
     THEN writer' = [writer EXCEPT !["setting"] = Begun(f, v)] /\ UNCHANGED unsure
     ELSE unsure' = TRUE /\ UNCHANGED writer
  /\ UNCHANGED <<linkVars, device, copy, snapshot, message, overdue, clockVars>>

(* radio_setting_applied: the read-back value, or read_synced_config_field.*)
settled_value(w) ==
  IF w.pc = "applied" THEN w.got
  ELSE IF link = 0 THEN rows[w.field] ELSE copy[w.field]

RadioSettingApplied ==
  LET w == writer["setting"] IN
  /\ w.pc \in {"applied", "failed"}
  /\ rows' = [rows EXCEPT ![w.field] = settled_value(w)]
  /\ writer' = [writer EXCEPT !["setting"] = NoWrite]
  /\ UNCHANGED <<linkVars, device, copy, snapshot, message, overdue, chosen, unsure, clockVars>>

-----------------------------------------------------------------------------
(* Clock sync.                                                             *)

Clock(pc, gen, on, ok) == [pc |-> pc, gen |-> gen, on |-> on, ok |-> ok]
NoClock == Clock("idle", 0, 0, FALSE)

(* sync_clock: waitForAckNak may take minutes.                             *)
SetTime ==
  /\ \/ clock.pc = "begin" /\ clock' = Clock("sync", clock.gen, link, FALSE)
     \/ /\ clock.pc = "sync"
        /\ \E ok \in BOOLEAN :
             /\ ok => Alive(clock.on)
             /\ clock' = Clock("zone", clock.gen, clock.on, ok)
  /\ UNCHANGED <<linkVars, device, copy, snapshot, writer, message, overdue, rows, chosen,
                 unsure, syncing, syncGen, results, lastSync>>

(* _sync_host_timezone_from_thread: nothing is written that is there.      *)
SetZone ==
  /\ clock.pc = "zone"
  /\ \/ /\ link # 0 /\ copy[TzField] # HostTz
        /\ writer' = [writer EXCEPT !["clock"] = Begun(TzField, HostTz)]
        /\ clock' = Clock("write", clock.gen, clock.on, clock.ok)
     \/ /\ link = 0 \/ copy[TzField] = HostTz
        /\ UNCHANGED writer
        /\ clock' = Clock("post", clock.gen, clock.on, clock.ok)
  /\ UNCHANGED <<linkVars, device, copy, snapshot, message, overdue, rows, chosen, unsure,
                 syncing, syncGen, results, lastSync>>

(* A confirmed zone is rendered through call_from_thread.                  *)
ZoneWritten ==
  /\ clock.pc = "write" /\ writer["clock"].pc \in {"applied", "failed"}
  /\ rows' = IF writer["clock"].pc = "applied" /\ shown # 0 /\ link # 0
             THEN rendered ELSE rows
  /\ writer' = [writer EXCEPT !["clock"] = NoWrite]
  /\ clock' = Clock("post", clock.gen, clock.on, clock.ok)
  /\ UNCHANGED <<linkVars, device, copy, snapshot, message, overdue, chosen, unsure,
                 syncing, syncGen, results, lastSync>>

PostResult ==
  /\ clock.pc = "post"
  /\ results' = Append(results, [gen |-> clock.gen, on |-> clock.on, ok |-> clock.ok])
  /\ clock' = NoClock
  /\ UNCHANGED <<linkVars, device, copy, snapshot, writer, message, overdue, rows, chosen,
                 unsure, syncing, syncGen, lastSync>>

(* Bug: any result counts.                                                 *)
AnyResult(result) == TRUE

is_current(result) == result.gen = syncGen

ClockSyncApplied ==
  /\ results # <<>>
  /\ LET r == Head(results) IN
     IF is_current(r)
     THEN /\ syncing' = FALSE
          /\ lastSync' = IF r.ok THEN r.on ELSE lastSync
     ELSE UNCHANGED <<syncing, lastSync>>
  /\ results' = Tail(results)
  /\ UNCHANGED <<linkVars, device, copy, snapshot, writer, message, overdue, rows, chosen,
                 unsure, clock, syncGen>>

-----------------------------------------------------------------------------
(* The link, with what the app does at each event of it.                   *)

(* The first configuration of a link is whatever that radio has.           *)
ConfigOpen ==
  /\ OpenLink /\ NoneUnshown(Workers)
  /\ device' \in Sections
  /\ copy' = device' /\ snapshot' = device'
  /\ overdue' = FALSE /\ unsure' = FALSE
  /\ UNCHANGED <<writer, message, rows, chosen, clockVars>>

(* _reset_clock_sync_state and _maybe_auto_sync_clock: a thread of the     *)
(* group that still runs refuses the new one.                              *)
ConfigShow ==
  /\ ShowLink
  /\ rows' = rendered
  /\ syncing' = TRUE /\ syncGen' = syncGen + 2
  /\ clock' = IF clock.pc = "idle" THEN Clock("begin", syncGen', 0, FALSE) ELSE clock
  /\ UNCHANGED <<device, copy, snapshot, writer, message, overdue, chosen, unsure, results,
                 lastSync>>

ConfigHide ==
  /\ HideLink
  /\ syncing' = FALSE /\ syncGen' = syncGen + 1
  /\ UNCHANGED <<device, copy, snapshot, writer, message, overdue, rows, chosen, unsure,
                 clock, results, lastSync>>

ConfigInit ==
  /\ device = [f \in Fields |-> HostTz] /\ copy = device /\ snapshot = device
  /\ writer = [w \in Workers |-> NoWrite] /\ message = [w \in Workers |-> NoMessage]
  /\ overdue = FALSE
  /\ rows = device /\ chosen = 0 /\ unsure = FALSE
  /\ clock = NoClock /\ syncing = FALSE /\ syncGen = 0 /\ results = <<>>
  /\ lastSync = 0

ConfigNext ==
  \/ \E w \in Workers : \/ StageValue(w) \/ CopySection(w) \/ SendSection(w) \/ AnswerSection(w)
                        \/ WriteApplied(w) \/ WriteFailed(w)
  \/ AnswerLate
  \/ \E f \in Fields, v \in Values : ChooseValue(f, v)
  \/ RadioSettingApplied
  \/ SetTime \/ SetZone \/ ZoneWritten \/ PostResult \/ ClockSyncApplied
  \/ ConfigOpen \/ ConfigShow \/ ConfigHide
  \/ (LoseLink \/ CloseLink) /\ UNCHANGED configVars

ConfigSpec == LinkInit /\ ConfigInit /\ [][ConfigNext]_<<linkVars, configVars>>

-----------------------------------------------------------------------------
Section == [Fields -> Values]
Writes == [pc : {"idle", "begin", "staged", "copied", "asking", "applied", "failed"},
           field : Fields, value : Values \cup {NoValue}, on : 0..MaxOpened,
           got : Values \cup {NoValue}]

(* Types of the configuration state.                                       *)
ConfigTypeOK ==
  /\ device \in Section /\ copy \in Section /\ snapshot \in Section /\ rows \in Section
  /\ writer \in [Workers -> Writes]
  /\ message \in [Workers -> Section \cup {NoMessage}]
  /\ {overdue, unsure, syncing} \subseteq BOOLEAN
  /\ chosen \in 0..MaxChosen
  /\ clock \in [pc : {"idle", "begin", "sync", "zone", "write", "post"}, gen : Nat,
                on : 0..MaxOpened, ok : BOOLEAN]
  /\ syncGen \in Nat
  /\ results \in Seq([gen : Nat, on : 0..MaxOpened, ok : BOOLEAN])
  /\ lastSync \in 0..MaxOpened

Settled ==
  /\ shown # 0 /\ shown = link /\ ~lost
  /\ \A w \in Workers : writer[w].pc = "idle"

(* Once every write of a link has ended, none failed or was refused, no    *)
(* two workers contended for one field, and no message went out with a     *)
(* section that was overtaken, every dropdown shows what the radio itself  *)
(* has, whatever was done to the copy and the snapshot.                    *)
RowsAreTrue == Settled /\ ~unsure => rows = device

(* The clock counts as synced by a sync of the link that is shown, never   *)
(* by one that a link that is gone began.                                  *)
SyncIsOfThisLink == [][lastSync' # lastSync => lastSync' = shown]_configVars
=============================================================================

---------------------------- MODULE NetworkApply ----------------------------
(***************************************************************************)
(* Changing the NETWORK (LoRa preset and primary channel key) of the       *)
(* connected radio: one outstanding apply with a token and a timer, a      *)
(* worker thread that writes, commits and polls readbacks, the disconnect  *)
(* and reconnect that a commit may cause, and the selector that shows      *)
(* which NETWORK is active.                                                *)
(*                                                                         *)
(* Actors: the UI thread, one worker thread for each apply, the monitor    *)
(* thread, the SDK reader thread and the radio.                            *)
(***************************************************************************)
EXTENDS Naturals, Sequences, FiniteSets

CONSTANTS
  Networks,    \* presets: LongFast and the saved ones
  LongFast,    \* the preset the radio starts with
  Savable,     \* bound: presets the user may save again
  MaxApplies,  \* bound: applies ever begun
  MaxConnects, \* bound: connections ever made
  Elsewhere    \* bound: what a radio may have been set to by others while away

ASSUME NetworkAssumption ==
  /\ LongFast \in Networks
  /\ Savable \subseteq Networks
  /\ MaxApplies \in Nat
  /\ MaxConnects \in Nat \ {0}
  /\ Elsewhere \subseteq [{"lora", "key"} -> Networks]

Fields  == {"lora", "key"}
Tokens  == 1..MaxApplies
Configs == [Fields -> Networks]  \* which preset each field is set as

VARIABLES
  config,    \* what the radio is set to
  edits,     \* writes the radio has received and not yet carried out
  alive,     \* the link of the current interface works
  iface,     \* RadioService._interface, as the number of the connection
  lost,      \* RadioService._connection_lost
  local,     \* the SDK's copy of the configuration, of the last interface
  connects,  \* connections made
  monitor,   \* what the monitor thread is about to do
  online,    \* the UI's radio state is ONLINE
  selected,  \* _selected_network
  unmatched, \* _network_unmatched
  apply,     \* token of _network_apply, 0 if None
  awaiting,  \* its awaiting_reconnect
  begun,     \* _network_apply_seq
  armed,     \* tokens of running timers
  uiq,       \* messages the UI has not handled
  workers,   \* the worker thread of each token
  reads,     \* readback requests <<token, field>> on their way
  outcome,   \* history: what became of each apply
  shown,     \* history: what the radio reported on this connection
  since,     \* history: what it reported since the outstanding apply began
  late       \* history: what workers that outlived their apply wrote into the
             \* SDK's copy on this connection

radio    == <<config, edits, alive>>
service  == <<iface, lost, connects, monitor>>
outstanding == <<apply, awaiting, armed, outcome, since>>
ui       == <<online, selected, unmatched, begun, apply, awaiting, armed, outcome>>
app      == <<ui, since>>
known    == <<shown, late>>
vars     == <<radio, service, local, app, uiq, workers, reads, known>>

-----------------------------------------------------------------------------
(* Presets and readbacks.                                                  *)

Preset(n) == [f \in Fields |-> n]

NoCopy == [f \in {} |-> LongFast]

(* verify_radio_config_preset: of the current interface's copy, which the  *)
(* writes of an apply change before the radio has seen them.               *)
verify(n) == local = Preset(n)

Pairs(c) == {<<f, c[f]>> : f \in Fields}

(* The radio has reported these.  Whether it does so while an apply is     *)
(* outstanding matters, before and after that it does not.                 *)
Reported(pairs) ==
  since' = IF apply = 0 THEN {} ELSE since \cup (pairs \cap Pairs(Preset(workers[apply].name)))

-----------------------------------------------------------------------------
(* The UI thread: requests.                                                *)

(* A worker that uses no interface and has no readback under way.          *)
Worker(pc, n, saved) == [pc |-> pc, name |-> n, saved |-> saved, iface |-> 0,
                         got |-> {}]

(* Bug: the apply is begun with no timer behind it.                        *)
NoTimer(token) == {}

(* A timer that is still running is stopped.                               *)
timer(token) == {token}

(* _begin_network_apply                                                    *)
Begin(n, saved) ==
  LET token == begun + 1 IN
  /\ token \in Tokens
  /\ begun' = token /\ apply' = token /\ awaiting' = FALSE
  /\ armed' = timer(token)
  /\ workers' = [workers EXCEPT ![token] = Worker("start", n, saved)]
  /\ outcome' = [outcome EXCEPT ![token] = "pending"]
  /\ since' = {}

(* "if self._network_apply is not None: ... return"                        *)
Free == apply = 0

(* _on_network_selected                                                    *)
SelectNetwork(n) ==
  /\ n # selected \/ unmatched
  /\ Free /\ online
  /\ Begin(n, FALSE)
  /\ UNCHANGED <<radio, service, local, online, selected, unmatched, uiq, reads, known>>

(* save_network: saved and selected first, applied if the radio is there.  *)
SaveNetwork(n) ==
  /\ Free /\ n \in Savable
  /\ selected' = n /\ unmatched' = FALSE
  /\ IF online THEN Begin(n, TRUE)
     ELSE UNCHANGED <<begun, workers, outstanding>>
  /\ UNCHANGED <<radio, service, local, online, uiq, reads, known>>

-----------------------------------------------------------------------------
(* The worker thread.                                                      *)

Pc(t) == workers[t].pc

Goto(t, pc) == workers' = [workers EXCEPT ![t].pc = pc]

(* RadioConfigPresetApplied is posted and the thread ends: every write     *)
(* succeeded and a readback did or did not show the preset, or a write was *)
(* refused because of a disconnect, or it failed otherwise.                *)
Post(t, result) ==
  /\ uiq' = Append(uiq, [token |-> t, result |-> result])
  /\ workers' = [workers EXCEPT ![t] = Worker("done", @.name, @.saved)]

(* apply_network_config takes the interface once.                          *)
StartWriting(t) ==
  /\ Pc(t) = "start"
  /\ IF iface = 0
     THEN Post(t, "failed")
     ELSE /\ workers' = [workers EXCEPT ![t].pc = "lora", ![t].iface = iface]
          /\ UNCHANGED uiq
  /\ UNCHANGED <<radio, service, local, app, reads, known>>

Disconnected(t) == iface # workers[t].iface \/ lost

(* The field is set in the SDK's copy, then the message is sent.           *)
staged(f, n) == [local EXCEPT ![f] = n]

(* A worker is late when its apply has ended, or waits for a reconnect;    *)
(* apply_network_config asks only for the link, and goes on writing.       *)
Late(t) == apply # t \/ awaiting

Stage(t, f) ==
  /\ local' = staged(f, workers[t].name)
  /\ late' = IF Late(t) THEN late \cup {<<f, workers[t].name>>} ELSE late

(* One write stage: refused if disconnected; raises; or fire and forget.   *)
Write(t, f, next) ==
  /\ Pc(t) = f
  /\ \/ /\ Disconnected(t)
        /\ Post(t, "disconnected")
        /\ UNCHANGED <<edits, local, late>>
     \/ /\ ~Disconnected(t)
        /\ Stage(t, f)
        /\ Post(t, "failed")
        /\ UNCHANGED edits
     \/ /\ ~Disconnected(t)
        /\ Stage(t, f)
        /\ edits' = IF alive THEN Append(edits, <<f, workers[t].name>>) ELSE edits
        /\ Goto(t, next)
        /\ UNCHANGED uiq
  /\ UNCHANGED <<config, alive, service, app, reads, shown>>

WriteLora(t)    == Write(t, "lora", "key")
WriteChannel(t) == Write(t, "key", "commit")

Commit(t) ==
  /\ Pc(t) = "commit"
  /\ IF Disconnected(t)
     THEN Post(t, "disconnected")
     ELSE Goto(t, "check") /\ UNCHANGED uiq
  /\ UNCHANGED <<radio, service, local, app, reads, known>>

cancelled(t) == apply # t \/ ~online

(* One round of _verify_network_apply_converge: given up when the apply is *)
(* over or the radio is down, else a fresh readback is asked for.          *)
RequestReadback(t) ==
  /\ Pc(t) = "check"
  /\ IF cancelled(t)
     THEN Post(t, "unverified") /\ UNCHANGED reads
     ELSE /\ workers' = [workers EXCEPT ![t].pc = "reread", ![t].got = {}]
          /\ reads' = reads \cup {<<t, f>> : f \in IF alive /\ iface # 0 THEN Fields
                                                   ELSE {}}
          /\ UNCHANGED uiq
  /\ UNCHANGED <<radio, service, local, app, known>>

(* Bug: one response is taken for both.                                    *)
AnyResponse(got) == got # {}

(* "if got["lora"] and got["channel"]"                                     *)
complete(got) == got = Fields

(* The readback ends: answered in full, or the link is lost, or timed out. *)
(* What it shows decides, unless there is time for another round.  (An     *)
(* answer that comes after its readback was given up precedes the answers  *)
(* to any later one, which replace what it brings: it is left out.)        *)
FinishReadback(t) ==
  LET verified == complete(workers[t].got) /\ ~lost /\ verify(workers[t].name) IN
  /\ Pc(t) = "reread"
  /\ reads' = {r \in reads : r[1] # t}
  /\ \/ Post(t, IF verified THEN "verified" ELSE "unverified")
     \/ ~verified /\ Goto(t, "check") /\ UNCHANGED uiq
  /\ UNCHANGED <<radio, service, local, app, known>>

-----------------------------------------------------------------------------
(* The radio and the SDK's reader thread.                                  *)

CarryOutEdit ==
  /\ edits # <<>> /\ alive
  /\ config' = [config EXCEPT ![Head(edits)[1]] = Head(edits)[2]]
  /\ edits' = Tail(edits)
  /\ UNCHANGED <<alive, service, local, app, uiq, workers, reads, known>>

(* A readback may still report what was set before the edits.              *)
Answer(t, f) ==
  /\ <<t, f>> \in reads /\ alive
  /\ reads' = reads \ {<<t, f>>}
  /\ local' = [local EXCEPT ![f] = config[f]]
  /\ workers' = [workers EXCEPT ![t].got = @ \cup {f}]
  /\ shown' = shown \cup {<<f, config[f]>>} /\ Reported({<<f, config[f]>>})
  /\ UNCHANGED <<radio, service, ui, uiq, late>>

(* The radio reboots, or the cable goes: what is on its way is gone.  The  *)
(* last connection that is modelled is not lost.                           *)
LoseLink ==
  /\ alive /\ connects < MaxConnects
  /\ alive' = FALSE /\ edits' = <<>> /\ reads' = {}
  /\ UNCHANGED <<config, service, local, app, uiq, workers, known>>

(* _on_connection_lost                                                     *)
NoticeLoss ==
  /\ ~alive /\ iface # 0 /\ ~lost
  /\ lost' = TRUE
  /\ UNCHANGED <<radio, iface, connects, monitor, local, app, uiq, workers, reads, known>>

-----------------------------------------------------------------------------
(* The monitor thread and the UI's connection states.                      *)

(* The wait loop ends: the loss was noticed, or the device file is gone.   *)
CloseLink ==
  /\ monitor = "watching" /\ ~alive
  /\ iface' = 0 /\ local' = NoCopy /\ monitor' = "down"
  /\ UNCHANGED <<radio, lost, connects, app, uiq, workers, reads, known>>

(* Bug: the apply is not told that the radio is down.                      *)
Unawaited == awaiting

(* "if not apply.awaiting_reconnect: apply.awaiting_reconnect = True"      *)
awaits_from_now == IF apply # 0 THEN TRUE ELSE awaiting

(* _show_connection with any state but ONLINE                              *)
ShowDown ==
  /\ monitor = "down"
  /\ monitor' = "connect"
  /\ online' = FALSE
  /\ awaiting' = awaits_from_now
  /\ shown' = {} /\ late' = {}
  /\ UNCHANGED <<radio, iface, lost, connects, local, selected, unmatched, apply,
                 begun, armed, outcome, since, uiq, workers, reads>>

(* connect(): a new interface and a full configuration sync, of a radio    *)
(* that may have been changed meanwhile, or be another one.                *)
Reconnect(c) ==
  /\ c \in Elsewhere \cup {config}
  /\ monitor = "connect" /\ connects < MaxConnects
  /\ connects' = connects + 1 /\ iface' = connects'
  /\ monitor' = "online" /\ lost' = FALSE /\ alive' = TRUE
  /\ config' = c /\ local' = c
  /\ shown' = Pairs(c) /\ Reported(Pairs(c))
  /\ UNCHANGED <<edits, ui, uiq, workers, reads, late>>

(* Bug: the timer is left running.                                         *)
StillArmed == armed

(* _finish_network_apply stops the timer.                                  *)
disarmed == {}

(* _finish_network_apply                                                   *)
Finish(success) ==
  /\ apply' = 0 /\ awaiting' = FALSE /\ armed' = disarmed /\ since' = {}
  /\ outcome' = [outcome EXCEPT ![apply] = IF success THEN "success" ELSE "failure"]

(* On success the selector follows; a failed switch leaves it alone.       *)
SelectIf(success) ==
  IF success
  THEN selected' = workers[apply].name /\ unmatched' = FALSE
  ELSE UNCHANGED <<selected, unmatched>>

Matches == {n \in Networks : verify(n)}

(* _detect_active_network_from_radio                                       *)
Detect ==
  /\ unmatched' = (Matches = {})
  /\ selected' = IF Matches = {} THEN selected ELSE CHOOSE n \in Matches : TRUE

(* _show_connection with ONLINE, after some other state: an apply that     *)
(* awaits it is resolved by what the full sync shows, and the active       *)
(* NETWORK is detected unless an apply is still in flight.                 *)
ShowOnline ==
  /\ monitor = "online"
  /\ monitor' = "watching"
  /\ online' = TRUE
  /\ IF apply # 0 /\ awaiting
     THEN Finish(verify(workers[apply].name))
     ELSE UNCHANGED outstanding
  /\ IF apply = 0 \/ awaiting THEN Detect ELSE UNCHANGED <<selected, unmatched>>
  /\ UNCHANGED <<radio, iface, lost, connects, local, begun, uiq, workers, reads, known>>

-----------------------------------------------------------------------------
(* The UI thread: results and timeouts.                                    *)

(* Bug: a result is taken for the apply that is outstanding now.           *)
AnyToken(token) == apply # 0

(* "if apply is None or apply.token != event.token: return"                *)
current(token) == apply # 0 /\ apply = token

(* Only a disconnect the service has seen counts as one.                   *)
reboots(result) == result = "disconnected"

(* radio_config_preset_applied, with _finish_network_apply_from_verification *)
HandleApplied ==
  LET e == Head(uiq) IN
  /\ uiq # <<>> /\ uiq' = Tail(uiq)
  /\ CASE ~current(e.token) \/ awaiting ->
            UNCHANGED <<outstanding, selected, unmatched>>
       [] OTHER ->
            IF ~online \/ reboots(e.result)
            THEN /\ awaiting' = TRUE
                 /\ UNCHANGED <<apply, armed, outcome, since, selected, unmatched>>
            ELSE Finish(e.result = "verified") /\ SelectIf(e.result = "verified")
  /\ UNCHANGED <<radio, service, local, online, begun, workers, reads, known>>

(* _network_apply_timed_out, called by its timer on the UI loop.           *)
TimeOut(t) ==
  /\ t \in armed
  /\ IF current(t) THEN Finish(FALSE)
     ELSE armed' = armed \ {t} /\ UNCHANGED <<apply, awaiting, outcome, since>>
  /\ UNCHANGED <<radio, service, local, online, selected, unmatched, begun, uiq,
                 workers, reads, known>>

-----------------------------------------------------------------------------
Init ==
  /\ config = Preset(LongFast) /\ edits = <<>> /\ alive = TRUE
  /\ iface = 1 /\ connects = 1 /\ lost = FALSE /\ monitor = "watching"
  /\ local = config
  /\ online = TRUE /\ selected = LongFast /\ unmatched = FALSE
  /\ apply = 0 /\ awaiting = FALSE /\ begun = 0 /\ armed = {} /\ uiq = <<>>
  /\ workers = [t \in Tokens |-> Worker("none", LongFast, FALSE)]
  /\ reads = {}
  /\ outcome = [t \in Tokens |-> "none"]
  /\ shown = Pairs(config) /\ since = {} /\ late = {}

WorkerStep(t) ==
  \/ StartWriting(t) \/ WriteLora(t) \/ WriteChannel(t) \/ Commit(t)
  \/ RequestReadback(t) \/ FinishReadback(t)

Next ==
  \/ \E n \in Networks : SelectNetwork(n) \/ SaveNetwork(n)
  \/ \E t \in Tokens : WorkerStep(t) \/ TimeOut(t)
  \/ \E t \in Tokens, f \in Fields : Answer(t, f)
  \/ CarryOutEdit \/ LoseLink
  \/ NoticeLoss \/ CloseLink \/ ShowDown \/ ShowOnline
  \/ \E c \in Configs : Reconnect(c)
  \/ HandleApplied

Spec == Init /\ [][Next]_vars

(* The UI loop and its timers run, and a worker that polls goes on; writes *)
(* may block for ever, and nothing is assumed of the radio and the link.   *)
Fairness ==
  /\ WF_vars(HandleApplied)
  /\ \A t \in Tokens : /\ WF_vars(TimeOut(t))
                       /\ WF_vars(RequestReadback(t) \/ FinishReadback(t))

FairSpec == Spec /\ Fairness

-----------------------------------------------------------------------------
(* Properties.                                                             *)

Messages ==
  [token : Tokens, result : {"verified", "unverified", "disconnected", "failed"}]

WorkerStates ==
  [pc : {"none", "start", "lora", "key", "commit", "check", "reread", "done"},
   name : Networks, saved : BOOLEAN, iface : 0..MaxConnects,
   got : SUBSET Fields]

(* Types; a timer runs for the outstanding apply only.                     *)
TypeOK ==
  /\ config \in Configs /\ local \in Configs \cup {NoCopy}
  /\ edits \in Seq(Fields \X Networks)
  /\ alive \in BOOLEAN /\ lost \in BOOLEAN /\ online \in BOOLEAN
  /\ connects \in 1..MaxConnects /\ iface \in {0, connects}
  /\ monitor \in {"watching", "down", "connect", "online"}
  /\ selected \in Networks /\ unmatched \in BOOLEAN
  /\ begun \in 0..MaxApplies /\ apply \in {0, begun} /\ awaiting \in BOOLEAN
  /\ armed \subseteq {apply} \ {0}
  /\ uiq \in Seq(Messages)
  /\ workers \in [Tokens -> WorkerStates]
  /\ reads \subseteq Tokens \X Fields
  /\ outcome \in [Tokens -> {"none", "pending", "success", "failure"}]
  /\ shown \subseteq Fields \X Networks /\ since \subseteq Fields \X Networks
  /\ late \subseteq Fields \X Networks

(* There is one outstanding apply, and it is the one the user is waiting   *)
(* for: no apply is forgotten without an outcome.                          *)
OneOutstanding == \A t \in Tokens : outcome[t] = "pending" <=> apply = t

(* "APPLIED" is said only if the radio itself has reported every field of  *)
(* the NETWORK since the apply began, not the copy that was written to,    *)
(* but for a field that a worker which outlived its apply wrote into that  *)
(* copy.  The apply's own writes never pass for the radio's answer.        *)
SuccessWasReported ==
  [][\A t \in Tokens :
       outcome[t] # outcome'[t] /\ outcome'[t] = "success"
       => Pairs(Preset(workers[t].name)) \subseteq since \cup late]_vars

(* The same with no exception, which is what                               *)
(* _verify_network_apply_converge says of the moment it returns.           *)
AppliedIsOnTheRadio ==
  [][\A t \in Tokens :
       outcome[t] # outcome'[t] /\ outcome'[t] = "success"
       => Pairs(Preset(workers[t].name)) \subseteq since]_vars

(* The selector shows a NETWORK as active only if the connected radio has  *)
(* reported every field of it on this connection, but for what a worker    *)
(* that outlived its apply wrote.  The other exception is the documented   *)
(* one: a NETWORK that was saved and could not be applied.                 *)
SelectorWasReported ==
  online /\ apply = 0 /\ ~unmatched =>
    \/ Pairs(Preset(selected)) \subseteq shown \cup late
    \/ \E t \in Tokens : /\ workers[t].saved /\ outcome[t] = "failure"
                         /\ workers[t].name = selected

(* The UI waits for a reconnect only if one is coming: a write or readback *)
(* that fails on a healthy link never looks like a reboot.                 *)
WaitsForReconnect == awaiting /\ online => lost \/ monitor # "watching"

(* Every apply ends, even if an SDK call never returns and the radio never *)
(* comes back (see OneOutstanding: it ends with an outcome).               *)
EveryApplyEnds == apply # 0 ~> apply = 0

=============================================================================

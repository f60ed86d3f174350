----------------------------- MODULE Reception ------------------------------
(***************************************************************************)
(* How an incoming text message gets from a radio to the message table:    *)
(* the RadioMonitor thread that connects, announces, watches and           *)
(* reconnects; the window in which a connecting radio already replays what *)
(* it had banked; the UI thread that binds the history profile of the      *)
(* connected radio; and the change of device, which starts a new monitor   *)
(* on the same RadioService while the old one may still be inside the SDK. *)
(*                                                                         *)
(* Actors: the monitor threads, the SDK reader threads (one per interface  *)
(* object), the SDK publishing thread (FIFO, calls the pubsub handlers),   *)
(* the UI thread (its message queue, and the calls of call_from_thread).   *)
(***************************************************************************)
EXTENDS Naturals, Sequences, FiniteSets

CONSTANTS
  Devices,     \* connection targets; a device is one radio, hence one profile
  FirstDevice, \* the target of the settings file
  Packets,     \* text packets
  RadioOf,     \* the radio that received a packet, and delivers it once
  None,        \* no device, no profile, no packet
  MaxConnects, \* bound: interface objects ever constructed
  MaxMonitors, \* bound: monitors ever started, one more for each switch
  MaxHeld      \* MAX_CONNECT_ARRIVALS

ASSUME ReceptionAssumption ==
  /\ FirstDevice \in Devices
  /\ RadioOf \in [Packets -> Devices]
  /\ None \notin Devices \cup Packets
  /\ MaxConnects \in Nat
  /\ MaxMonitors \in Nat \ {0}
  /\ MaxHeld \in Nat

Monitors   == 1..MaxMonitors
Interfaces == 1..MaxConnects   \* 0 is Python's None

VARIABLES
  bank,       \* packets no interface has read from its radio yet
  opened,     \* the device of each interface object, in construction order
  alive,      \* interfaces whose reader thread runs
  interface,  \* RadioService._interface
  connecting, \* RadioService._connect_in_progress
  held,       \* RadioService._connect_arrivals
  lost,       \* RadioService._connection_lost
  subscribed, \* RadioService._pub is set
  path,       \* RadioService.device_path
  monitors,   \* the monitor threads
  current,    \* index of the app's own monitor
  picked,     \* the device a running _switch_device goes to
  pubq,       \* the SDK publishing thread's queue
  judged,     \* a packet _on_text_received has found to be of no known interface
  calls,      \* monitors blocked in call_from_thread
  inbox,      \* RadioMessageReceived messages the UI has not handled
  online,     \* the UI shows ONLINE
  active,     \* the app's _active_profile_key
  unresolved, \* the app's _profile_pending_resolution
  bound,      \* the profile the store stamps on rows
  rows,       \* <<packet, profile>> of the messages table
  view,       \* packets of the loaded channel transcript
  sessions    \* history: ONLINE events handled

link == <<opened, alive, interface, connecting, lost, subscribed, path>>
app  == <<online, active, unresolved, bound, view, sessions>>

vars == <<bank, link, held, monitors, current, picked, pubq, judged, calls,
          inbox, app, rows>>

-----------------------------------------------------------------------------
(* Monitor threads.                                                        *)

Events == {"connecting", "online", "down"}

NoMonitor ==
  [pc |-> "none", stop |-> FALSE, event |-> "down", iface |-> 0, info |-> None]

(* A started monitor's first event is CONNECTING.                          *)
NewMonitor == [NoMonitor EXCEPT !.pc = "asking", !.event = "connecting"]

At(i, pc) == monitors[i].pc = pc

(* RadioService.close(): the current interface, whoever opened it.         *)
Close == interface' = 0 /\ alive' = alive \ {interface}

(* _run looks at its stop event after every yield.  If it is set, leaving  *)
(* the loop ends the generator, whose finally unsubscribes everything;     *)
(* otherwise the monitor blocks until the UI has handled the event.        *)
Yield(i, event, info) ==
  IF monitors[i].stop
  THEN /\ monitors' = [monitors EXCEPT ![i].pc = "ended"]
       /\ subscribed' = FALSE
       /\ UNCHANGED calls
  ELSE /\ monitors' = [monitors EXCEPT ![i].pc = "asking", ![i].event = event,
                                       ![i].info = info]
       /\ calls' = Append(calls, i)
       /\ UNCHANGED subscribed

(* connect() raises: it closes and the failure is announced.               *)
ConnectFails(i) == Close /\ Yield(i, "down", None)

(* The device is missing or not permitted.                                 *)
DeviceMissing(i) ==
  /\ At(i, "connect")
  /\ lost' = FALSE
  /\ ConnectFails(i)
  /\ UNCHANGED <<bank, opened, connecting, held, path, current, picked, pubq,
                 judged, inbox, app, rows>>

(* connect() up to the SDK constructor, which starts the reader thread.    *)
Connect(i) ==
  LET n == Len(opened) + 1 IN
  /\ At(i, "connect") /\ n \in Interfaces
  /\ lost' = FALSE /\ connecting' = TRUE /\ subscribed' = TRUE
  /\ opened' = Append(opened, path)
  /\ alive' = alive \cup {n}
  /\ monitors' = [monitors EXCEPT ![i].pc = "opening", ![i].iface = n]
  /\ UNCHANGED <<bank, interface, held, path, current, picked, pubq, judged,
                 calls, inbox, app, rows>>

(* Bug: a failed attempt discards what it held.                            *)
Discarded(h) == <<>>

(* "NOT cleared here": what a failed attempt holds is carried on.          *)
carried(h) == h

OpenFails(i) ==
  /\ At(i, "opening")
  /\ connecting' = FALSE
  /\ held' = carried(held)
  /\ interface' = 0 /\ alive' = alive \ {interface, monitors[i].iface}
  /\ Yield(i, "down", None)
  /\ UNCHANGED <<bank, opened, lost, path, current, picked, pubq, judged,
                 inbox, app, rows>>

(* The handler is registered except while the device is being switched.    *)
Posted(packets) == IF picked = None THEN inbox \o packets ELSE inbox

(* Bug: the held list is walked but not swapped out.                       *)
NotSwapped(h) == h

(* "held, self._connect_arrivals = self._connect_arrivals, []"             *)
swapped_out(h) == <<>>

(* Every held packet is replayed as one of the current interface.          *)
drain_connect_arrivals == held' = swapped_out(held) /\ inbox' = Posted(held)

(* connection_events calls connect(defer_held=True).                       *)
defer_held == TRUE

(* The finally of connect().                                               *)
window_after_open == FALSE

OpenSucceeds(i) ==
  /\ At(i, "opening")
  /\ interface' = monitors[i].iface
  /\ connecting' = window_after_open
  /\ IF defer_held THEN UNCHANGED <<held, inbox>> ELSE drain_connect_arrivals
  /\ monitors' = [monitors EXCEPT ![i].pc = "reading"]
  /\ UNCHANGED <<bank, opened, alive, lost, subscribed, path, current, picked,
                 pubq, judged, calls, app, rows>>

(* _read_radio_info, of the interface that is current by now.              *)
ReadRadioInfo(i) ==
  /\ At(i, "reading")
  /\ \/ ConnectFails(i)
     \/ /\ interface # 0
        /\ IF monitors[i].stop THEN Close ELSE UNCHANGED <<interface, alive>>
        /\ Yield(i, "online", opened[interface])
  /\ UNCHANGED <<bank, opened, connecting, held, lost, path, current, picked,
                 pubq, judged, inbox, app, rows>>

(* The generator resumes once the ONLINE event has been handled.           *)
Drain(i) ==
  /\ At(i, "drain")
  /\ drain_connect_arrivals
  /\ monitors' = [monitors EXCEPT ![i].pc = "watching"]
  /\ UNCHANGED <<bank, link, current, picked, pubq, judged, calls, app, rows>>

(* The wait loop ends: the link is lost, or the monitor is stopped.        *)
LeaveWatch(i) ==
  /\ At(i, "watching")
  /\ lost \/ monitors[i].stop
  /\ Close
  /\ Yield(i, "down", None)
  /\ UNCHANGED <<bank, opened, connecting, held, lost, path, current, picked,
                 pubq, judged, inbox, app, rows>>

(* The same when the device file is gone.                                  *)
DeviceGone(i) ==
  /\ At(i, "watching")
  /\ Close
  /\ Yield(i, "down", None)
  /\ UNCHANGED <<bank, opened, connecting, held, lost, path, current, picked,
                 pubq, judged, inbox, app, rows>>

(* retry_delay is over, or the wait is cut short by the stop event.        *)
Retry(i) ==
  /\ At(i, "retry")
  /\ IF monitors[i].stop THEN Close ELSE UNCHANGED <<interface, alive>>
  /\ Yield(i, "connecting", None)
  /\ UNCHANGED <<bank, opened, connecting, held, lost, path, current, picked,
                 pubq, judged, inbox, app, rows>>

-----------------------------------------------------------------------------
(* The SDK.                                                                *)

(* The radio delivers a packet to an attached client, destructively; the   *)
(* reader thread queues it for the publishing thread.                      *)
Deliver(p, n) ==
  /\ p \in bank /\ n \in alive /\ opened[n] = RadioOf[p]
  /\ bank' = bank \ {p}
  /\ pubq' = Append(pubq, [type |-> "text", iface |-> n, packet |-> p])
  /\ UNCHANGED <<link, held, monitors, current, picked, judged, calls, inbox,
                 app, rows>>

(* The reader thread of an interface ends, at any time after it started;   *)
(* the SDK publishes meshtastic.connection.lost.                           *)
LinkDies(n) ==
  /\ n \in alive
  /\ alive' = alive \ {n}
  /\ pubq' = Append(pubq, [type |-> "lost", iface |-> n, packet |-> None])
  /\ UNCHANGED <<bank, opened, interface, connecting, lost, subscribed, path,
                 held, monitors, current, picked, judged, calls, inbox, app,
                 rows>>

-----------------------------------------------------------------------------
(* The publishing thread.                                                  *)

(* Bug: a loss before the screen says ONLINE does not count.               *)
LosesOnceOnline(n) == n = interface /\ online

(* "if interface is self._interface"                                       *)
loses(n) == n = interface

Publish(type) ==
  /\ pubq # <<>> /\ judged = None /\ Head(pubq).type = type
  /\ pubq' = Tail(pubq)

OnConnectionLost ==
  /\ Publish("lost")
  /\ lost' = (lost \/ (subscribed /\ loses(Head(pubq).iface)))
  /\ UNCHANGED <<bank, opened, alive, interface, connecting, subscribed, path,
                 held, monitors, current, picked, judged, calls, inbox, app,
                 rows>>

(* _on_text_received: a packet of the current interface goes to the        *)
(* handlers; for any other the next test is made later.                    *)
OnTextReceived ==
  LET e == Head(pubq) IN
  /\ Publish("text")
  /\ CASE ~subscribed                          -> UNCHANGED <<judged, inbox>>
       [] subscribed /\ e.iface = interface    -> /\ inbox' = Posted(<<e.packet>>)
                                                  /\ UNCHANGED judged
       [] subscribed /\ e.iface # interface    -> /\ judged' = e.packet
                                                  /\ UNCHANGED inbox
  /\ UNCHANGED <<bank, link, held, monitors, current, picked, calls, app, rows>>

(* Bug: the hold is not bounded.                                           *)
AlwaysRoom(h) == Len(h) >= 0

HasRoom(h) == Len(h) < MaxHeld

(* ... held while some connect is in progress, else stale and dropped.     *)
HoldOrDrop ==
  /\ judged # None
  /\ judged' = None
  /\ held' = IF connecting /\ HasRoom(held) THEN Append(held, judged) ELSE held
  /\ UNCHANGED <<bank, link, monitors, current, picked, pubq, calls, inbox,
                 app, rows>>

-----------------------------------------------------------------------------
(* The UI thread.                                                          *)

(* set_active_profile(None), once some profile has been active.            *)
unbind(b) == IF active = None THEN b ELSE None

(* _activate_local_profile with no identity.                               *)
Unresolve ==
  /\ online' = FALSE
  /\ unresolved' = (active # None)
  /\ bound' = unbind(bound)
  /\ UNCHANGED <<active, view, sessions>>

(* Bug: the view is reloaded only for another profile.                     *)
ReloadOnChange(profile) == active \notin {None, profile}

(* The first profile of a run reloads nothing; later, another profile or   *)
(* the same one after an unresolved window does.                           *)
Reloads(profile) == active # None /\ (unresolved \/ active # profile)

(* _activate_local_profile with the identity of the connected radio.       *)
ActivateProfile(profile) ==
  /\ online' = TRUE
  /\ unresolved' = FALSE
  /\ active' = profile
  /\ bound' = profile
  /\ view' = IF Reloads(profile) THEN {p \in Packets : <<p, profile>> \in rows}
             ELSE view
  /\ sessions' = sessions + 1

Next_pc(event) ==
  CASE event = "connecting" -> "connect"
    [] event = "online"     -> "drain"
    [] event = "down"       -> "retry"

(* _apply_radio_event, run for a monitor that waits for it.                *)
HandleEvent ==
  LET i == Head(calls)
      m == monitors[i]
  IN
  /\ calls # <<>> /\ picked = None
  /\ calls' = Tail(calls)
  /\ monitors' = [monitors EXCEPT ![i].pc = Next_pc(m.event)]
  /\ IF m.event = "online" THEN ActivateProfile(m.info) ELSE Unresolve
  /\ UNCHANGED <<bank, link, held, current, picked, pubq, judged, inbox, rows>>

(* _accept_received_message: the row is stamped with whatever profile the  *)
(* store is bound to now; a duplicate of that profile is ignored.          *)
AcceptMessage ==
  LET row == <<Head(inbox), bound>> IN
  /\ inbox # <<>> /\ picked = None
  /\ inbox' = Tail(inbox)
  /\ rows' = rows \cup {row}
  /\ view' = IF row \in rows THEN view ELSE view \cup {Head(inbox)}
  /\ UNCHANGED <<bank, link, held, monitors, current, picked, pubq, judged,
                 calls, online, active, unresolved, bound, sessions>>

(* _switch_device, first half: stop() sets the event, removes the handler  *)
(* and closes; then it waits for the thread.                               *)
StopMonitor(device) ==
  /\ picked = None /\ device # path /\ current + 1 \in Monitors
  /\ picked' = device
  /\ monitors' = [monitors EXCEPT ![current].stop = TRUE]
  /\ Close
  /\ UNCHANGED <<bank, opened, connecting, lost, subscribed, path, held,
                 current, pubq, judged, calls, inbox, app, rows>>

(* The wait is over: the thread has ended, or two seconds have passed with *)
(* it blocked in the SDK constructor or in a call to this very thread.     *)
(* Then set_device_path, and a new monitor on the same RadioService.       *)
FinishSwitch ==
  /\ picked # None
  /\ monitors[current].pc \in {"ended", "opening", "asking"}
  /\ Close
  /\ path' = picked
  /\ picked' = None
  /\ current' = current + 1
  /\ monitors' = [monitors EXCEPT ![current + 1] = NewMonitor]
  /\ calls' = Append(calls, current + 1)
  /\ Unresolve
  /\ UNCHANGED <<bank, opened, connecting, lost, subscribed, held, pubq,
                 judged, inbox, rows>>

-----------------------------------------------------------------------------
Init ==
  /\ bank = Packets
  /\ opened = <<>> /\ alive = {} /\ interface = 0
  /\ connecting = FALSE /\ held = <<>> /\ lost = FALSE /\ subscribed = FALSE
  /\ path = FirstDevice
  /\ monitors = [i \in Monitors |-> IF i = 1 THEN NewMonitor ELSE NoMonitor]
  /\ current = 1 /\ picked = None
  /\ pubq = <<>> /\ judged = None
  /\ calls = <<1>> /\ inbox = <<>>
  /\ online = FALSE /\ active = None /\ unresolved = FALSE /\ bound = None
  /\ rows = {} /\ view = {} /\ sessions = 0

MonitorStep(i) ==
  \/ DeviceMissing(i) \/ Connect(i) \/ OpenFails(i) \/ OpenSucceeds(i)
  \/ ReadRadioInfo(i) \/ Drain(i) \/ LeaveWatch(i) \/ Retry(i)

PublisherStep == OnConnectionLost \/ OnTextReceived \/ HoldOrDrop

Next ==
  \/ \E i \in Monitors : MonitorStep(i) \/ DeviceGone(i)
  \/ \E p \in Packets, n \in Interfaces : Deliver(p, n)
  \/ \E n \in Interfaces : LinkDies(n)
  \/ PublisherStep
  \/ HandleEvent \/ AcceptMessage \/ FinishSwitch
  \/ \E device \in Devices : StopMonitor(device)

Spec == Init /\ [][Next]_vars

(* Threads and the event loop keep running; nothing is assumed of the      *)
(* radios, of the link or of the user.                                     *)
Fairness ==
  /\ \A i \in Monitors : WF_vars(MonitorStep(i))
  /\ WF_vars(PublisherStep)
  /\ WF_vars(HandleEvent) /\ WF_vars(AcceptMessage) /\ WF_vars(FinishSwitch)

FairSpec == Spec /\ Fairness

-----------------------------------------------------------------------------
(* Properties.                                                             *)

Publications ==
  [type : {"text"}, iface : Interfaces, packet : Packets]
    \cup [type : {"lost"}, iface : Interfaces, packet : {None}]

Profiles == Devices \cup {None}

MonitorStates ==
  [pc : {"none", "asking", "connect", "opening", "reading", "drain",
         "watching", "retry", "ended"},
   stop : BOOLEAN, event : Events, iface : Interfaces \cup {0}, info : Profiles]

(* Types; the hold for arrivals never outgrows MAX_CONNECT_ARRIVALS.       *)
TypeOK ==
  /\ bank \subseteq Packets
  /\ opened \in Seq(Devices) /\ Len(opened) <= MaxConnects
  /\ alive \subseteq DOMAIN opened
  /\ interface \in DOMAIN opened \cup {0}
  /\ connecting \in BOOLEAN /\ lost \in BOOLEAN /\ subscribed \in BOOLEAN
  /\ held \in Seq(Packets) /\ Len(held) <= MaxHeld
  /\ path \in Devices
  /\ monitors \in [Monitors -> MonitorStates]
  /\ current \in Monitors /\ picked \in Profiles
  /\ pubq \in Seq(Publications)
  /\ judged \in Packets \cup {None}
  /\ calls \in Seq(Monitors) /\ inbox \in Seq(Packets)
  /\ online \in BOOLEAN /\ unresolved \in BOOLEAN
  /\ active \in Profiles /\ bound \in Profiles
  /\ rows \subseteq Packets \X Profiles
  /\ view \subseteq Packets
  /\ sessions \in Nat

Times(x, s) == Cardinality({k \in DOMAIN s : s[k] = x})

Waiting(p) == {k \in DOMAIN pubq : pubq[k].packet = p}

(* A packet is in one place: still with its radio, queued, held, posted or *)
(* stored.  Nothing is replayed twice, whatever connect attempts fail, so  *)
(* no transcript relies on the duplicate index.                            *)
NothingReplayedTwice ==
  \A p \in Packets :
    LET stored == {r \in rows : r[1] = p}
        banked == {b \in bank : b = p}
    IN  Cardinality(banked) + Cardinality(Waiting(p))
        + (IF judged = p THEN 1 ELSE 0)
        + Times(p, held) + Times(p, inbox) + Cardinality(stored) <= 1

Alone == current = 1 /\ picked = None

Watching(i) == At(i, "watching") /\ ~monitors[i].stop

(* An established link strands no packet in the hold.                      *)
WatchingHoldsNothing == Alone /\ Watching(1) => held = <<>>

(* What was held is replayed only after the store has been bound to the    *)
(* profile of the radio that is now connected.                             *)
ReplayAfterBinding ==
  [][Alone /\ held # <<>> /\ held' = <<>> => bound = opened[interface']]_vars

(* The store is bound to a profile only while the screen says ONLINE: what *)
(* arrives in an unresolved window is never written under the profile that *)
(* was active before it.                                                   *)
BoundOnlyOnline == bound # None => online

(* After a reconnect the transcript shows rows of the bound profile only,  *)
(* not what was mounted while no profile was bound.                        *)
ReconnectShowsOwn ==
  online /\ sessions >= 2 => \A p \in view : <<p, bound>> \in rows

(* Nothing held is ever lost: if the link keeps coming up, a packet caught *)
(* by some attempt, failed ones included, ends in the database.            *)
HeldIsNeverLost ==
  []<>(~Alone \/ Watching(1)) =>
    \A p \in Packets :
      Times(p, held) > 0 ~> ~Alone \/ \E d \in Profiles : <<p, d>> \in rows

(* Interface n is watched although its reader thread has ended.            *)
DeadWatch(n) == Alone /\ Watching(1) /\ interface = n /\ n \notin alive

(* A link that dies does not stay ONLINE: if its reader thread was alive   *)
(* at any time after connect() assigned the interface, its end, while the  *)
(* info is read, the ONLINE event is handled or the link is watched, makes *)
(* the monitor stop watching it.                                           *)
LostLinkIsNoticed ==
  \A n \in Interfaces :
    <>(interface = n /\ n \in alive) => (DeadWatch(n) ~> ~DeadWatch(n))

(* What connection_events promises of every link: it keeps the radio       *)
(* connected and emits state changes until stopped.                        *)
DeadLinkIsNoticed == \A n \in Interfaces : DeadWatch(n) ~> ~DeadWatch(n)

(* connection_events: the monitor keeps the radio connected until it is    *)
(* stopped, so one that watches a link has an interface to watch.          *)
WatchesAnInterface == \A i \in Monitors : Watching(i) => interface # 0
=============================================================================

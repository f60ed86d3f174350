-------------------------- MODULE ReceptionProofs ---------------------------
(***************************************************************************)
(* Theorems about Reception, for any number of devices, packets, connect   *)
(* attempts and device switches: types and the bound of the hold, what the *)
(* store is bound to, what a reconnect shows, and that held packets are    *)
(* replayed only under the profile of the connected radio.                 *)
(***************************************************************************)
EXTENDS Reception, FiniteSetTheorems, SequenceTheorems, TLAPS

Asks(i, event) == At(i, "asking") /\ monitors[i].event = event

(* A monitor whose CONNECTING event is the last it got handled, and that   *)
(* may still come up with an ONLINE event.                                 *)
Pending(i) ==
  \/ Asks(i, "online")
  \/ monitors[i].pc \in {"connect", "opening", "reading"} /\ ~monitors[i].stop

(* Only the current monitor can be without a stop event.                   *)
Threads ==
  /\ \A i \in Monitors : i > current => monitors[i] = NoMonitor
  /\ \A i \in Monitors : i < current => monitors[i].stop
  /\ picked # None => monitors[current].stop /\ current + 1 \in Monitors
  /\ \A i \in Monitors : monitors[i].iface \in DOMAIN opened \cup {0}
  /\ \A i \in Monitors : Asks(i, "online") => monitors[i].info \in Devices

(* call_from_thread serves monitors in the order they were started.        *)
Queue ==
  /\ \A k \in DOMAIN calls : calls[k] <= current /\ At(calls[k], "asking")
  /\ \A j, k \in DOMAIN calls : j < k => calls[j] < calls[k]
  /\ \A i \in Monitors : At(i, "asking") => \E k \in DOMAIN calls : calls[k] = i

(* The screen, the app's profile and the store's.                          *)
Binding ==
  /\ bound # None => online
  /\ online => active # None /\ bound = active /\ ~unresolved
  /\ ~online /\ active # None => unresolved
  /\ active = None => sessions = 0

(* No ONLINE event can follow another without a CONNECTING in between.     *)
OnePending ==
  /\ \A i, j \in Monitors : Pending(i) /\ Pending(j) => i = j
  /\ online => \A i \in Monitors : ~Pending(i)

(* While there is one monitor, what it announced is what is connected, and *)
(* what it drains is what the store is bound to.                           *)
Announced ==
  Alone =>
    /\ ~monitors[1].stop
    /\ Asks(1, "online") \/ At(1, "drain") =>
         interface # 0 /\ opened[interface] = monitors[1].info
    /\ At(1, "drain") => bound = monitors[1].info

IInv ==
  /\ TypeOK /\ Threads /\ Queue /\ Binding /\ OnePending
  /\ ReconnectShowsOwn /\ Announced

-----------------------------------------------------------------------------
(* Numbers and queues.                                                     *)

LEMMA FirstMonitor == 1 \in Monitors
BY ReceptionAssumption DEF Monitors

LEMMA QueueTail ==
  ASSUME NEW S, NEW q \in Seq(S), q # <<>>
  PROVE  /\ Head(q) \in S /\ Head(q) = q[1] /\ 1 \in DOMAIN q
         /\ Tail(q) \in Seq(S)
         /\ \A k \in DOMAIN Tail(q) : k + 1 \in DOMAIN q /\ Tail(q)[k] = q[k + 1]
         /\ \A k \in DOMAIN q : k # 1 => k - 1 \in DOMAIN Tail(q) /\ Tail(q)[k - 1] = q[k]
OBVIOUS

LEMMA QueueAppend ==
  ASSUME NEW S, NEW q \in Seq(S), NEW e \in S
  PROVE  /\ Append(q, e) \in Seq(S)
         /\ Len(Append(q, e)) = Len(q) + 1
         /\ DOMAIN Append(q, e) = DOMAIN q \cup {Len(q) + 1}
         /\ \A k \in DOMAIN q : Append(q, e)[k] = q[k]
         /\ Append(q, e)[Len(q) + 1] = e
OBVIOUS

LEMMA QueueJoin ==
  ASSUME NEW S, NEW q \in Seq(S), NEW r \in Seq(S)
  PROVE  q \o r \in Seq(S)
OBVIOUS

(* What a post adds to the inbox is packets.                               *)
LEMMA PostedType ==
  ASSUME inbox \in Seq(Packets), NEW q \in Seq(Packets)
  PROVE  Posted(q) \in Seq(Packets)
BY QueueJoin DEF Posted

LEMMA NoMonitorType ==
  /\ NoMonitor \in MonitorStates /\ NewMonitor \in MonitorStates
  /\ NoMonitor.pc = "none" /\ NoMonitor.iface = 0 /\ ~NoMonitor.stop
  /\ NewMonitor.pc = "asking" /\ NewMonitor.event = "connecting"
  /\ NewMonitor.iface = 0 /\ ~NewMonitor.stop
BY DEF NoMonitor, NewMonitor, MonitorStates, Events, Profiles

(* A monitor that has not been started has none of the states of one that  *)
(* runs; without a stop event only the current one runs.                   *)
LEMMA Running ==
  ASSUME Threads, NEW i \in Monitors, ~At(i, "none"), current \in Monitors
  PROVE  i <= current /\ (~monitors[i].stop => i = current)
<1>1. i \in Nat /\ current \in Nat
  BY DEF Monitors
<1>2. ~(i > current)
  BY NoMonitorType DEF Threads, At
<1> QED
  BY <1>1, <1>2 DEF Threads

-----------------------------------------------------------------------------
(* Steps that leave the monitor threads alone.                             *)

LEMMA QuietThreads ==
  ASSUME Threads, Queue, UNCHANGED <<monitors, calls, current, picked, opened>>
  PROVE  Threads' /\ Queue' /\ \A i \in Monitors : Pending(i)' <=> Pending(i)
BY DEF Threads, Queue, Pending, Asks, At

LEMMA QuietApp ==
  ASSUME Binding, ReconnectShowsOwn, UNCHANGED <<app, rows>>
  PROVE  Binding' /\ ReconnectShowsOwn'
BY DEF Binding, ReconnectShowsOwn, app

LEMMA QuietPending ==
  ASSUME OnePending, online' = online,
         \A i \in Monitors : Pending(i)' => Pending(i)
  PROVE  OnePending'
BY DEF OnePending

(* One running monitor moves on; its stop event stays as it is or is set.   *)
LEMMA ThreadsKept ==
  ASSUME Threads, current \in Monitors, NEW i \in Monitors, i <= current,
         \A j \in Monitors : j # i => monitors'[j] = monitors[j],
         monitors[i].stop => monitors'[i].stop,
         monitors'[i].iface \in DOMAIN opened' \cup {0},
         Asks(i, "online")' => monitors'[i].info \in Devices,
         DOMAIN opened \subseteq DOMAIN opened',
         current' = current, picked' = picked
  PROVE  Threads'
<1>1. \A j \in Monitors : j > current => j # i
  BY DEF Monitors
<1>2. \A j \in Monitors : j > current => monitors'[j] = NoMonitor
  BY <1>1 DEF Threads
<1>3. \A j \in Monitors : j < current => monitors'[j].stop
  BY DEF Threads
<1>4. picked # None => monitors'[current].stop /\ current + 1 \in Monitors
  BY DEF Threads
<1>5. \A j \in Monitors : monitors'[j].iface \in DOMAIN opened' \cup {0}
  <2> TAKE j \in Monitors
  <2>1. CASE j = i
    BY <2>1
  <2>2. CASE j # i
    BY <2>2 DEF Threads
  <2> QED
    BY <2>1, <2>2
<1>6. \A j \in Monitors : Asks(j, "online")' => monitors'[j].info \in Devices
  <2> TAKE j \in Monitors
  <2>1. CASE j = i
    BY <2>1
  <2>2. CASE j # i
    BY <2>2 DEF Threads, Asks, At
  <2> QED
    BY <2>1, <2>2
<1> QED
  BY <1>2, <1>3, <1>4, <1>5, <1>6 DEF Threads

(* A monitor yields an event.                                              *)
LEMMA YieldKeeps ==
  ASSUME TypeOK, Threads, Queue, NEW i \in Monitors,
         ~At(i, "none"), ~At(i, "asking"),
         NEW event \in Events, NEW info \in Profiles,
         event = "online" => info \in Devices /\ Pending(i),
         Yield(i, event, info),
         UNCHANGED <<current, picked, opened>>
  PROVE  /\ monitors' \in [Monitors -> MonitorStates]
         /\ calls' \in Seq(Monitors) /\ subscribed' \in BOOLEAN
         /\ Threads' /\ Queue'
         /\ \A j \in Monitors : Pending(j)' => Pending(j)
         /\ monitors[i].stop' = monitors[i].stop
         /\ \A j \in Monitors : j # i => monitors'[j] = monitors[j]
         /\ monitors'[i].pc \in {"asking", "ended"}
         /\ Asks(i, "online")' =>
              event = "online" /\ monitors'[i].info = info /\ ~monitors[i].stop
<1>1. monitors \in [Monitors -> MonitorStates] /\ calls \in Seq(Monitors)
      /\ current \in Monitors /\ subscribed \in BOOLEAN
  BY DEF TypeOK
<1>2. i <= current /\ (~monitors[i].stop => i = current)
  BY <1>1, Running
<1>3. CASE monitors[i].stop
  <2>1. /\ monitors' = [monitors EXCEPT ![i].pc = "ended"]
        /\ subscribed' = FALSE /\ calls' = calls
    BY <1>3 DEF Yield
  <2>2. /\ monitors' \in [Monitors -> MonitorStates]
        /\ monitors'[i] = [monitors[i] EXCEPT !.pc = "ended"]
        /\ \A j \in Monitors : j # i => monitors'[j] = monitors[j]
    BY <1>1, <2>1 DEF MonitorStates
  <2>3. /\ monitors'[i].pc = "ended" /\ monitors'[i].stop = monitors[i].stop
        /\ monitors'[i].iface = monitors[i].iface
    BY <1>1, <2>2 DEF MonitorStates
  <2>4. Threads'
    <3>1. monitors'[i].iface \in DOMAIN opened' \cup {0}
      BY <2>3 DEF Threads
    <3>2. Asks(i, "online")' => monitors'[i].info \in Devices
      BY <2>3 DEF Asks, At
    <3> QED
      BY <1>1, <1>2, <2>2, <2>3, <3>1, <3>2, ThreadsKept
  <2>5. Queue'
    <3>1. \A k \in DOMAIN calls : calls[k] \in Monitors /\ calls[k] # i
      BY <1>1 DEF Queue
    <3>2. \A j \in Monitors : At(j, "asking")' => At(j, "asking")
      BY <2>2, <2>3 DEF At
    <3>3. \A k \in DOMAIN calls :
            calls[k] <= current /\ monitors'[calls[k]].pc = "asking"
      BY <2>2, <3>1 DEF Queue, At
    <3> QED
      BY <2>1, <3>2, <3>3 DEF Queue, At
  <2>6. \A j \in Monitors : Pending(j)' => Pending(j)
    BY <2>2, <2>3 DEF Pending, Asks, At
  <2> QED
    BY <1>1, <2>1, <2>2, <2>3, <2>4, <2>5, <2>6 DEF Asks, At
<1>4. CASE ~monitors[i].stop
  <2>1. /\ monitors' = [monitors EXCEPT ![i].pc = "asking", ![i].event = event,
                                        ![i].info = info]
        /\ calls' = Append(calls, i) /\ subscribed' = subscribed
    BY <1>4 DEF Yield
  <2>2. /\ monitors' \in [Monitors -> MonitorStates]
        /\ monitors'[i] = [monitors[i] EXCEPT !.pc = "asking", !.event = event,
                                              !.info = info]
        /\ \A j \in Monitors : j # i => monitors'[j] = monitors[j]
    <3> DEFINE m == [monitors[i] EXCEPT !.pc = "asking", !.event = event,
                                        !.info = info]
    <3>1. m \in MonitorStates
      BY <1>1 DEF MonitorStates
    <3>2. monitors' = [monitors EXCEPT ![i] = m]
      BY <1>1, <2>1 DEF MonitorStates
    <3> HIDE DEF m
    <3>3. /\ monitors' \in [Monitors -> MonitorStates] /\ monitors'[i] = m
          /\ \A j \in Monitors : j # i => monitors'[j] = monitors[j]
      BY <1>1, <3>1, <3>2
    <3> QED
      BY <3>3 DEF m
  <2>3. /\ monitors'[i].pc = "asking" /\ monitors'[i].event = event
        /\ monitors'[i].info = info /\ monitors'[i].stop = monitors[i].stop
        /\ monitors'[i].iface = monitors[i].iface
    BY <1>1, <2>2 DEF MonitorStates
  <2>4. Threads'
    <3>1. monitors'[i].iface \in DOMAIN opened' \cup {0}
      BY <2>3 DEF Threads
    <3>2. Asks(i, "online")' => monitors'[i].info \in Devices
      BY <2>3 DEF Asks, At
    <3> QED
      BY <1>1, <1>2, <2>2, <2>3, <3>1, <3>2, ThreadsKept
  <2>5. i = current
    BY <1>2, <1>4
  <2>6. Queue'
    <3> DEFINE n == Len(calls) + 1
    <3>1. /\ calls' \in Seq(Monitors) /\ DOMAIN calls' = DOMAIN calls \cup {n}
          /\ \A k \in DOMAIN calls : calls'[k] = calls[k]
          /\ calls'[n] = i
          /\ \A k \in DOMAIN calls : k < n
          /\ \A k \in DOMAIN calls : ~(n < k)
      BY <1>1, <2>1, QueueAppend
    <3>2. \A k \in DOMAIN calls :
            calls[k] \in Monitors /\ calls[k] # i /\ calls[k] <= current
      BY <1>1 DEF Queue
    <3>3. \A k \in DOMAIN calls : calls[k] < i
      BY <1>1, <2>5, <3>2 DEF Monitors
    <3>4. \A k \in DOMAIN calls' :
            calls'[k] <= current /\ monitors'[calls'[k]].pc = "asking"
      <4> TAKE k \in DOMAIN calls'
      <4>1. CASE k = n
        BY <1>2, <2>3, <3>1, <4>1
      <4>2. CASE k \in DOMAIN calls
        BY <2>2, <3>1, <3>2, <4>2 DEF Queue, At
      <4> QED
        BY <3>1, <4>1, <4>2
    <3>5. \A j, k \in DOMAIN calls' : j < k => calls'[j] < calls'[k]
      <4> SUFFICES ASSUME NEW j \in DOMAIN calls', NEW k \in DOMAIN calls', j < k
                   PROVE  calls'[j] < calls'[k]
        OBVIOUS
      <4>1. n \in Nat /\ j # n
        BY <1>1, <3>1
      <4>2. j \in DOMAIN calls
        BY <3>1, <4>1
      <4>3. CASE k = n
        BY <3>1, <3>3, <4>2, <4>3
      <4>4. CASE k \in DOMAIN calls
        BY <3>1, <4>2, <4>4 DEF Queue
      <4> QED
        BY <3>1, <4>3, <4>4
    <3>6. \A j \in Monitors : At(j, "asking")' => \E k \in DOMAIN calls' : calls'[k] = j
      <4> SUFFICES ASSUME NEW j \in Monitors, monitors'[j].pc = "asking"
                   PROVE  \E k \in DOMAIN calls' : calls'[k] = j
        BY DEF At
      <4>1. CASE j = i
        BY <3>1, <4>1
      <4>2. CASE j # i
        <5>1. At(j, "asking")
          BY <2>2, <4>2 DEF At
        <5> QED
          BY <3>1, <5>1 DEF Queue
      <4> QED
        BY <4>1, <4>2
    <3>7. \A k \in DOMAIN calls' : calls'[k] <= current' /\ At(calls[k], "asking")'
      BY <3>4 DEF At
    <3> QED
      BY <3>5, <3>6, <3>7 DEF Queue
  <2>7. \A j \in Monitors : Pending(j)' => Pending(j)
    BY <2>2, <2>3 DEF Pending, Asks, At
  <2>8. calls' \in Seq(Monitors)
    BY <1>1, <2>1, QueueAppend
  <2> QED
    BY <1>1, <1>4, <2>1, <2>2, <2>3, <2>4, <2>6, <2>7, <2>8 DEF Asks, At
<1> QED
  BY <1>3, <1>4

(* A monitor moves on to a state in which it waits for nobody.             *)
LEMMA MoveKeeps ==
  ASSUME TypeOK, Threads, Queue, NEW i \in Monitors,
         ~At(i, "none"), ~At(i, "asking"), ~At(i, "asking")',
         \A j \in Monitors : j # i => monitors'[j] = monitors[j],
         monitors'[i].stop = monitors[i].stop,
         monitors'[i].iface \in DOMAIN opened' \cup {0},
         DOMAIN opened \subseteq DOMAIN opened',
         current' = current, picked' = picked, calls' = calls
  PROVE  Threads' /\ Queue'
<1>1. calls \in Seq(Monitors) /\ current \in Monitors
  BY DEF TypeOK
<1>2. Threads'
  BY <1>1, Running, ThreadsKept DEF Asks
<1>3. \A k \in DOMAIN calls : calls[k] \in Monitors /\ calls[k] # i
  BY <1>1 DEF Queue
<1>4. \A k \in DOMAIN calls :
        calls[k] <= current /\ monitors'[calls[k]].pc = "asking"
  BY <1>3 DEF Queue, At
<1>5. \A j \in Monitors : At(j, "asking")' => At(j, "asking")
  BY DEF At
<1> QED
  BY <1>2, <1>4, <1>5 DEF Queue, At

(* A monitor yields an event that is not ONLINE.                           *)
LEMMA YieldStep ==
  ASSUME IInv, NEW i \in Monitors, ~At(i, "none"), ~At(i, "asking"),
         NEW event \in Events \ {"online"}, NEW info \in Profiles,
         Yield(i, event, info),
         UNCHANGED <<current, picked, opened, app, rows>>
  PROVE  /\ monitors' \in [Monitors -> MonitorStates]
         /\ calls' \in Seq(Monitors) /\ subscribed' \in BOOLEAN
         /\ Threads' /\ Queue' /\ Binding' /\ OnePending'
         /\ ReconnectShowsOwn' /\ Announced'
<1>1. TypeOK /\ Threads /\ Queue /\ current \in Monitors
  BY DEF IInv, TypeOK
<1>2. /\ monitors' \in [Monitors -> MonitorStates]
      /\ calls' \in Seq(Monitors) /\ subscribed' \in BOOLEAN
      /\ Threads' /\ Queue'
      /\ \A j \in Monitors : Pending(j)' => Pending(j)
      /\ monitors[i].stop' = monitors[i].stop
      /\ monitors'[i].pc \in {"asking", "ended"}
      /\ ~Asks(i, "online")'
  BY <1>1, YieldKeeps
<1>3. Binding' /\ ReconnectShowsOwn'
  BY QuietApp DEF IInv
<1>4. OnePending'
  BY <1>2, QuietPending DEF IInv, app
<1>5. Announced'
  <2> SUFFICES ASSUME Alone'
               PROVE  /\ ~monitors'[1].stop
                      /\ ~Asks(1, "online")' /\ ~At(1, "drain")'
    BY DEF Announced
  <2>1. Alone
    BY DEF Alone
  <2>2. i = 1
    BY <1>1, <2>1, Running DEF Alone, Monitors
  <2> QED
    BY <1>2, <2>1, <2>2 DEF IInv, Announced, At
<1> QED
  BY <1>2, <1>3, <1>4, <1>5

-----------------------------------------------------------------------------
(* The monitor threads preserve the invariant.                             *)

(* connect() finds no device to open.                                      *)
LEMMA DeviceMissingKeeps ==
  ASSUME IInv, NEW i \in Monitors, DeviceMissing(i)
  PROVE  IInv'
<1>1. /\ monitors' \in [Monitors -> MonitorStates]
      /\ calls' \in Seq(Monitors) /\ subscribed' \in BOOLEAN
      /\ Threads' /\ Queue' /\ Binding' /\ OnePending'
      /\ ReconnectShowsOwn' /\ Announced'
  BY YieldStep DEF DeviceMissing, ConnectFails, At, Events, Profiles
<1>2. TypeOK'
  BY <1>1 DEF DeviceMissing, ConnectFails, Close, IInv, TypeOK, app
<1> QED
  BY <1>1, <1>2 DEF IInv

(* The SDK constructor raises.                                             *)
LEMMA OpenFailsKeeps ==
  ASSUME IInv, NEW i \in Monitors, OpenFails(i)
  PROVE  IInv'
<1>1. /\ monitors' \in [Monitors -> MonitorStates]
      /\ calls' \in Seq(Monitors) /\ subscribed' \in BOOLEAN
      /\ Threads' /\ Queue' /\ Binding' /\ OnePending'
      /\ ReconnectShowsOwn' /\ Announced'
  BY YieldStep DEF OpenFails, At, Events, Profiles
<1>2. TypeOK'
  BY <1>1 DEF OpenFails, carried, IInv, TypeOK, app
<1> QED
  BY <1>1, <1>2 DEF IInv

(* The watched link is given up, or its device file is gone.               *)
LEMMA LeaveWatchKeeps ==
  ASSUME IInv, NEW i \in Monitors, LeaveWatch(i) \/ DeviceGone(i)
  PROVE  IInv'
<1>1. /\ monitors' \in [Monitors -> MonitorStates]
      /\ calls' \in Seq(Monitors) /\ subscribed' \in BOOLEAN
      /\ Threads' /\ Queue' /\ Binding' /\ OnePending'
      /\ ReconnectShowsOwn' /\ Announced'
  BY YieldStep DEF LeaveWatch, DeviceGone, At, Events, Profiles
<1>2. TypeOK'
  BY <1>1 DEF LeaveWatch, DeviceGone, Close, IInv, TypeOK, app
<1> QED
  BY <1>1, <1>2 DEF IInv

(* The retry delay is over.                                                *)
LEMMA RetryKeeps ==
  ASSUME IInv, NEW i \in Monitors, Retry(i)
  PROVE  IInv'
<1>1. /\ monitors' \in [Monitors -> MonitorStates]
      /\ calls' \in Seq(Monitors) /\ subscribed' \in BOOLEAN
      /\ Threads' /\ Queue' /\ Binding' /\ OnePending'
      /\ ReconnectShowsOwn' /\ Announced'
  BY YieldStep DEF Retry, At, Events, Profiles
<1>2. TypeOK'
  BY <1>1 DEF Retry, Close, IInv, TypeOK, app
<1> QED
  BY <1>1, <1>2 DEF IInv

(* _read_radio_info raises, or the ONLINE event is yielded.                *)
LEMMA ReadRadioInfoKeeps ==
  ASSUME IInv, NEW i \in Monitors, ReadRadioInfo(i)
  PROVE  IInv'
<1>1. CASE ConnectFails(i)
  <2>1. /\ monitors' \in [Monitors -> MonitorStates]
        /\ calls' \in Seq(Monitors) /\ subscribed' \in BOOLEAN
        /\ Threads' /\ Queue' /\ Binding' /\ OnePending'
        /\ ReconnectShowsOwn' /\ Announced'
    BY <1>1, YieldStep DEF ReadRadioInfo, ConnectFails, At, Events, Profiles
  <2>2. TypeOK'
    BY <1>1, <2>1 DEF ReadRadioInfo, ConnectFails, Close, IInv, TypeOK, app
  <2> QED
    BY <2>1, <2>2 DEF IInv
<1>2. CASE /\ interface # 0
           /\ IF monitors[i].stop THEN Close ELSE UNCHANGED <<interface, alive>>
           /\ Yield(i, "online", opened[interface])
  <2> DEFINE info == opened[interface]
  <2>1. /\ TypeOK /\ Threads /\ Queue /\ current \in Monitors
        /\ opened \in Seq(Devices) /\ interface \in DOMAIN opened
    BY <1>2 DEF IInv, TypeOK
  <2>2. info \in Devices
    BY <2>1
  <2>3. CASE monitors[i].stop
    <3>1. Yield(i, "down", None)
      BY <1>2, <2>3 DEF Yield
    <3>2. /\ monitors' \in [Monitors -> MonitorStates]
          /\ calls' \in Seq(Monitors) /\ subscribed' \in BOOLEAN
          /\ Threads' /\ Queue' /\ Binding' /\ OnePending'
          /\ ReconnectShowsOwn' /\ Announced'
      BY <3>1, YieldStep DEF ReadRadioInfo, At, Events, Profiles
    <3>3. TypeOK'
      BY <1>2, <3>2 DEF ReadRadioInfo, Close, IInv, TypeOK, app
    <3> QED
      BY <3>2, <3>3 DEF IInv
  <2>4. CASE ~monitors[i].stop
    <3>1. Pending(i) /\ ~At(i, "none") /\ ~At(i, "asking")
      BY <2>4 DEF ReadRadioInfo, At, Pending
    <3> HIDE DEF info
    <3>2. Yield(i, "online", info) /\ interface' = interface /\ alive' = alive
      BY <1>2, <2>4 DEF info
    <3>3. /\ monitors' \in [Monitors -> MonitorStates]
          /\ calls' \in Seq(Monitors) /\ subscribed' \in BOOLEAN
          /\ Threads' /\ Queue'
          /\ \A j \in Monitors : Pending(j)' => Pending(j)
          /\ monitors[i].stop' = monitors[i].stop
          /\ monitors'[i].pc \in {"asking", "ended"}
          /\ Asks(i, "online")' => monitors'[i].info = info
      BY <2>1, <2>2, <3>1, <3>2, YieldKeeps DEF ReadRadioInfo, Events, Profiles
    <3>4. Binding' /\ ReconnectShowsOwn'
      BY QuietApp DEF ReadRadioInfo, IInv
    <3>5. OnePending'
      BY <3>3, QuietPending DEF ReadRadioInfo, IInv, app
    <3>6. Announced'
      <4> SUFFICES ASSUME Alone'
                   PROVE  /\ ~monitors'[1].stop /\ ~At(1, "drain")'
                          /\ Asks(1, "online")' =>
                               /\ interface' # 0
                               /\ opened'[interface'] = monitors'[1].info
        BY DEF Announced
      <4>1. Alone
        BY DEF Alone, ReadRadioInfo
      <4>2. i = 1
        BY <2>1, <3>1, <4>1, Running DEF Alone, Monitors
      <4>3. opened'[interface'] = info /\ interface' # 0
        BY <1>2, <3>2 DEF ReadRadioInfo, info
      <4> QED
        BY <3>3, <4>1, <4>2, <4>3 DEF IInv, Announced, At
    <3>7. TypeOK'
      BY <3>2, <3>3 DEF ReadRadioInfo, IInv, TypeOK, app
    <3> QED
      BY <3>3, <3>4, <3>5, <3>6, <3>7 DEF IInv
  <2> QED
    BY <2>3, <2>4
<1> QED
  BY <1>1, <1>2 DEF ReadRadioInfo

(* A monitor moves on without an event.                                    *)
LEMMA MoveStep ==
  ASSUME IInv, NEW i \in Monitors, ~At(i, "none"), ~At(i, "asking"),
         ~At(i, "asking")', ~At(i, "drain")', Pending(i)' => Pending(i),
         \A j \in Monitors : j # i => monitors'[j] = monitors[j],
         monitors'[i].stop = monitors[i].stop,
         monitors'[i].iface \in DOMAIN opened' \cup {0},
         DOMAIN opened \subseteq DOMAIN opened',
         UNCHANGED <<current, picked, calls, app, rows>>
  PROVE  /\ Threads' /\ Queue' /\ Binding' /\ OnePending'
         /\ ReconnectShowsOwn' /\ Announced'
<1>1. TypeOK /\ Threads /\ Queue /\ current \in Monitors
  BY DEF IInv, TypeOK
<1>2. Threads' /\ Queue'
  BY <1>1, MoveKeeps
<1>3. Binding' /\ ReconnectShowsOwn'
  BY QuietApp DEF IInv
<1>4. OnePending'
  <2>1. \A j \in Monitors : Pending(j)' => Pending(j)
    BY DEF Pending, Asks, At
  <2> QED
    BY <2>1, QuietPending DEF IInv, app
<1>5. Announced'
  <2> SUFFICES ASSUME Alone'
               PROVE  /\ ~monitors'[1].stop
                      /\ ~Asks(1, "online")' /\ ~At(1, "drain")'
    BY DEF Announced
  <2>1. Alone
    BY DEF Alone
  <2>2. i = 1
    BY <1>1, <2>1, Running DEF Alone, Monitors
  <2> QED
    BY <2>1, <2>2 DEF IInv, Announced, Asks
<1> QED
  BY <1>2, <1>3, <1>4, <1>5

(* The constructor is entered with one more interface.                     *)
LEMMA ConnectKeeps ==
  ASSUME IInv, NEW i \in Monitors, Connect(i)
  PROVE  IInv'
<1> DEFINE n == Len(opened) + 1
<1>1. /\ opened \in Seq(Devices) /\ path \in Devices /\ n \in Interfaces
      /\ monitors \in [Monitors -> MonitorStates]
  BY DEF IInv, TypeOK, Connect
<1>2. /\ opened' \in Seq(Devices) /\ Len(opened') = n /\ n <= MaxConnects
      /\ DOMAIN opened' = DOMAIN opened \cup {n}
  BY <1>1, QueueAppend, ReceptionAssumption DEF Connect, Interfaces
<1> HIDE DEF n
<1>3. /\ monitors' = [monitors EXCEPT ![i].pc = "opening", ![i].iface = n]
      /\ alive' = alive \cup {n}
  BY DEF Connect, n
<1>4. /\ monitors' \in [Monitors -> MonitorStates]
      /\ monitors'[i].pc = "opening" /\ monitors'[i].iface = n
      /\ monitors'[i].stop = monitors[i].stop
      /\ \A j \in Monitors : j # i => monitors'[j] = monitors[j]
  <2> DEFINE m == [monitors[i] EXCEPT !.pc = "opening", !.iface = n]
  <2>1. m \in MonitorStates
    BY <1>1 DEF MonitorStates
  <2>2. monitors' = [monitors EXCEPT ![i] = m]
    BY <1>1, <1>3 DEF MonitorStates
  <2>3. m.pc = "opening" /\ m.iface = n /\ m.stop = monitors[i].stop
    BY <1>1 DEF MonitorStates
  <2> HIDE DEF m
  <2> QED
    BY <1>1, <2>1, <2>2, <2>3
<1>5. /\ Threads' /\ Queue' /\ Binding' /\ OnePending'
      /\ ReconnectShowsOwn' /\ Announced'
  <2>1. Pending(i)' => Pending(i)
    BY <1>4 DEF Connect, Pending, Asks, At
  <2> QED
    BY <1>2, <1>4, <2>1, MoveStep DEF Connect, At
<1>6. TypeOK'
  BY <1>2, <1>3, <1>4 DEF Connect, IInv, TypeOK, app
<1> QED
  BY <1>5, <1>6 DEF IInv

(* The constructor returns: the interface becomes the service's.           *)
LEMMA OpenSucceedsKeeps ==
  ASSUME IInv, NEW i \in Monitors, OpenSucceeds(i)
  PROVE  IInv'
<1>1. monitors \in [Monitors -> MonitorStates]
      /\ monitors' = [monitors EXCEPT ![i].pc = "reading"]
  BY DEF IInv, TypeOK, OpenSucceeds
<1>2. /\ monitors' \in [Monitors -> MonitorStates]
      /\ monitors'[i].pc = "reading" /\ monitors'[i].iface = monitors[i].iface
      /\ monitors'[i].stop = monitors[i].stop
      /\ \A j \in Monitors : j # i => monitors'[j] = monitors[j]
  BY <1>1 DEF MonitorStates
<1>3. monitors[i].iface \in DOMAIN opened \cup {0}
  BY DEF IInv, Threads
<1>4. /\ Threads' /\ Queue' /\ Binding' /\ OnePending'
      /\ ReconnectShowsOwn' /\ Announced'
  <2>1. Pending(i)' => Pending(i)
    BY <1>2 DEF OpenSucceeds, Pending, Asks, At
  <2> QED
    BY <1>2, <1>3, <2>1, MoveStep DEF OpenSucceeds, At
<1>5. TypeOK'
  BY <1>2, <1>3 DEF OpenSucceeds, defer_held, window_after_open, IInv, TypeOK, app
<1> QED
  BY <1>4, <1>5 DEF IInv

(* What was held is replayed.                                              *)
LEMMA DrainKeeps ==
  ASSUME IInv, NEW i \in Monitors, Drain(i)
  PROVE  IInv'
<1>1. monitors \in [Monitors -> MonitorStates]
      /\ monitors' = [monitors EXCEPT ![i].pc = "watching"]
  BY DEF IInv, TypeOK, Drain
<1>2. /\ monitors' \in [Monitors -> MonitorStates]
      /\ monitors'[i].pc = "watching" /\ monitors'[i].iface = monitors[i].iface
      /\ monitors'[i].stop = monitors[i].stop
      /\ \A j \in Monitors : j # i => monitors'[j] = monitors[j]
  BY <1>1 DEF MonitorStates
<1>3. monitors[i].iface \in DOMAIN opened \cup {0}
  BY DEF IInv, Threads
<1>4. /\ Threads' /\ Queue' /\ Binding' /\ OnePending'
      /\ ReconnectShowsOwn' /\ Announced'
  <2>1. ~Pending(i)'
    BY <1>2 DEF Pending, Asks, At
  <2> QED
    BY <1>2, <1>3, <2>1, MoveStep DEF Drain, link, At
<1>5. held' = <<>> /\ inbox' \in Seq(Packets)
  BY PostedType DEF Drain, drain_connect_arrivals, swapped_out, IInv, TypeOK
<1>6. TypeOK'
  BY <1>2, <1>5, ReceptionAssumption DEF Drain, link, IInv, TypeOK, app
<1> QED
  BY <1>4, <1>6 DEF IInv

-----------------------------------------------------------------------------
(* The SDK and the publishing thread preserve the invariant.               *)

(* A step that leaves alone the monitors, the interface and the app.       *)
LEMMA QuietStep ==
  ASSUME IInv,
         UNCHANGED <<monitors, calls, current, picked, opened, interface, app, rows>>
  PROVE  /\ Threads' /\ Queue' /\ Binding' /\ OnePending'
         /\ ReconnectShowsOwn' /\ Announced'
<1>1. Threads' /\ Queue' /\ \A i \in Monitors : Pending(i)' => Pending(i)
  BY QuietThreads DEF IInv
<1>2. Binding' /\ ReconnectShowsOwn'
  BY QuietApp DEF IInv
<1>3. OnePending'
  BY <1>1, QuietPending DEF IInv, app
<1>4. Announced'
  BY DEF IInv, Announced, Alone, Asks, At, app
<1> QED
  BY <1>1, <1>2, <1>3, <1>4

(* A radio delivers a packet to an attached reader.                        *)
LEMMA DeliverKeeps ==
  ASSUME IInv, NEW p \in Packets, NEW n \in Interfaces, Deliver(p, n)
  PROVE  IInv'
<1>1. [type |-> "text", iface |-> n, packet |-> p] \in Publications
  BY DEF Publications
<1>2. pubq' \in Seq(Publications)
  BY <1>1, QueueAppend DEF Deliver, IInv, TypeOK
<1>3. TypeOK'
  BY <1>2 DEF Deliver, IInv, TypeOK, link, app
<1> QED
  BY <1>3, QuietStep DEF Deliver, IInv, link

(* The reader thread of an interface ends.                                 *)
LEMMA LinkDiesKeeps ==
  ASSUME IInv, NEW n \in Interfaces, LinkDies(n)
  PROVE  IInv'
<1>2. [type |-> "lost", iface |-> n, packet |-> None] \in Publications
  BY DEF Publications
<1>3. pubq' \in Seq(Publications)
  BY <1>2, QueueAppend DEF LinkDies, IInv, TypeOK
<1>4. TypeOK'
  BY <1>3 DEF LinkDies, IInv, TypeOK, app
<1> QED
  BY <1>4, QuietStep DEF LinkDies, IInv

(* The publishing thread judges a publication.                             *)
LEMMA PublisherKeeps ==
  ASSUME IInv, PublisherStep
  PROVE  IInv'
<1>1. CASE OnConnectionLost
  <2>1. pubq' \in Seq(Publications) /\ lost' \in BOOLEAN
    BY <1>1, QueueTail DEF OnConnectionLost, Publish, IInv, TypeOK
  <2>2. TypeOK'
    BY <1>1, <2>1 DEF OnConnectionLost, IInv, TypeOK, app
  <2> QED
    BY <1>1, <2>2, QuietStep DEF OnConnectionLost, IInv
<1>2. CASE OnTextReceived
  <2>1. /\ pubq' \in Seq(Publications)
        /\ Head(pubq) \in Publications /\ Head(pubq).type = "text"
    BY <1>2, QueueTail DEF OnTextReceived, Publish, IInv, TypeOK
  <2>2. Head(pubq).packet \in Packets
    BY <2>1 DEF Publications
  <2>3. CASE ~subscribed \/ Head(pubq).iface # interface
    <3>1. judged' \in Packets \cup {None} /\ inbox' = inbox
      BY <1>2, <2>2, <2>3 DEF OnTextReceived, IInv, TypeOK
    <3>2. TypeOK'
      BY <1>2, <2>1, <3>1 DEF OnTextReceived, IInv, TypeOK, link, app
    <3> QED
      BY <1>2, <3>2, QuietStep DEF OnTextReceived, IInv, link
  <2>4. CASE subscribed /\ Head(pubq).iface = interface
    <3>1. judged' = judged /\ inbox' = Posted(<<Head(pubq).packet>>)
      BY <1>2, <2>4 DEF OnTextReceived
    <3>2. <<Head(pubq).packet>> \in Seq(Packets)
      BY <2>2
    <3>3. inbox' \in Seq(Packets)
      <4>1. inbox \in Seq(Packets)
        BY DEF IInv, TypeOK
      <4> QED
        BY <3>1, <3>2, <4>1, PostedType
    <3>4. TypeOK'
      BY <1>2, <2>1, <3>1, <3>3 DEF OnTextReceived, IInv, TypeOK, link, app
    <3> QED
      BY <1>2, <3>4, QuietStep DEF OnTextReceived, IInv, link
  <2> QED
    BY <2>3, <2>4
<1>3. CASE HoldOrDrop
  <2>1. held' \in Seq(Packets) /\ Len(held') <= MaxHeld
    <3>1. CASE connecting /\ HasRoom(held)
      <4>1. judged \in Packets /\ held' = Append(held, judged)
        BY <1>3, <3>1 DEF HoldOrDrop, IInv, TypeOK
      <4> QED
        BY <3>1, <4>1, QueueAppend, ReceptionAssumption DEF HasRoom, IInv, TypeOK
    <3>2. CASE ~(connecting /\ HasRoom(held))
      BY <1>3, <3>2 DEF HoldOrDrop, IInv, TypeOK
    <3> QED
      BY <3>1, <3>2
  <2>2. TypeOK'
    BY <1>3, <2>1 DEF HoldOrDrop, IInv, TypeOK, link, app
  <2> QED
    BY <1>3, <2>2, QuietStep DEF HoldOrDrop, IInv, link
<1> QED
  BY <1>1, <1>2, <1>3 DEF PublisherStep

-----------------------------------------------------------------------------
(* The UI thread preserves the invariant.                                  *)

(* A received message is stored under the bound profile and shown.         *)
LEMMA AcceptMessageKeeps ==
  ASSUME IInv, AcceptMessage
  PROVE  IInv'
<1> DEFINE row == <<Head(inbox), bound>>
<1>1. /\ inbox' \in Seq(Packets) /\ Head(inbox) \in Packets
      /\ bound \in Profiles
  BY QueueTail DEF AcceptMessage, IInv, TypeOK
<1>2. row \in Packets \X Profiles
  BY <1>1
<1>3. rows' = rows \cup {row} /\ (view' = view \/ view' = view \cup {Head(inbox)})
      /\ (row \in rows => view' = view)
  BY DEF AcceptMessage
<1>4. TypeOK'
  BY <1>1, <1>2, <1>3 DEF AcceptMessage, IInv, TypeOK, link
<1>5. Threads' /\ Queue' /\ OnePending'
  <2>1. Threads' /\ Queue' /\ \A i \in Monitors : Pending(i)' => Pending(i)
    BY QuietThreads DEF AcceptMessage, link, IInv
  <2> QED
    BY <2>1, QuietPending DEF AcceptMessage, IInv
<1>6. Binding'
  BY DEF AcceptMessage, IInv, Binding
<1>7. ReconnectShowsOwn'
  BY <1>3 DEF AcceptMessage, IInv, ReconnectShowsOwn
<1>8. Announced'
  BY DEF AcceptMessage, link, IInv, Announced, Alone, Asks, At
<1> QED
  BY <1>4, <1>5, <1>6, <1>7, <1>8 DEF IInv

(* The first half of _switch_device.                                       *)
LEMMA StopMonitorKeeps ==
  ASSUME IInv, NEW device \in Devices, StopMonitor(device)
  PROVE  IInv'
<1>1. /\ monitors \in [Monitors -> MonitorStates] /\ current \in Monitors
      /\ monitors' = [monitors EXCEPT ![current].stop = TRUE]
      /\ picked' = device /\ device # None /\ picked = None
      /\ current' = current /\ calls' = calls /\ opened' = opened
  BY ReceptionAssumption DEF StopMonitor, IInv, TypeOK
<1>2. /\ monitors' \in [Monitors -> MonitorStates]
      /\ monitors'[current].stop
      /\ \A i \in Monitors : i # current => monitors'[i] = monitors[i]
      /\ \A i \in Monitors : /\ monitors'[i].pc = monitors[i].pc
                             /\ monitors'[i].event = monitors[i].event
                             /\ monitors'[i].iface = monitors[i].iface
                             /\ monitors'[i].info = monitors[i].info
                             /\ monitors[i].stop => monitors'[i].stop
  BY <1>1 DEF MonitorStates
<1>3. TypeOK'
  BY <1>1, <1>2 DEF StopMonitor, Close, IInv, TypeOK, Profiles, app
<1>4. Threads'
  <2>1. \A i \in Monitors : i > current => i # current
    BY <1>1 DEF Monitors
  <2>2. \A i \in Monitors : i > current => monitors'[i] = NoMonitor
    BY <1>2, <2>1 DEF IInv, Threads
  <2>3. \A i \in Monitors : i < current => monitors'[i].stop
    BY <1>2 DEF IInv, Threads
  <2>4. current + 1 \in Monitors
    BY DEF StopMonitor
  <2>5. \A i \in Monitors : monitors'[i].iface \in DOMAIN opened \cup {0}
    BY <1>2 DEF IInv, Threads
  <2>6. \A i \in Monitors : Asks(i, "online")' => monitors'[i].info \in Devices
    BY <1>2 DEF IInv, Threads, Asks, At
  <2> QED
    BY <1>1, <1>2, <2>2, <2>3, <2>4, <2>5, <2>6 DEF Threads
<1>5. Queue'
  <2>1. \A k \in DOMAIN calls : calls[k] \in Monitors
    BY DEF IInv, TypeOK
  <2> QED
    BY <1>1, <1>2, <2>1 DEF IInv, Queue, At
<1>6. Binding' /\ ReconnectShowsOwn'
  BY QuietApp DEF StopMonitor, IInv
<1>7. OnePending'
  <2>1. \A i \in Monitors : Pending(i)' => Pending(i)
    BY <1>2 DEF Pending, Asks, At
  <2> QED
    BY <2>1, QuietPending DEF StopMonitor, IInv, app
<1>8. Announced'
  BY <1>1 DEF Announced, Alone
<1> QED
  BY <1>3, <1>4, <1>5, <1>6, <1>7, <1>8 DEF IInv

(* The second half: a new monitor is started.                              *)
LEMMA FinishSwitchKeeps ==
  ASSUME IInv, FinishSwitch
  PROVE  IInv'
<1> DEFINE n == current + 1
<1>1. /\ monitors \in [Monitors -> MonitorStates] /\ current \in Monitors
      /\ calls \in Seq(Monitors) /\ n \in Monitors /\ current \in Nat
      /\ monitors[current].stop
      /\ monitors' = [monitors EXCEPT ![n] = NewMonitor]
      /\ calls' = Append(calls, n) /\ current' = n
      /\ picked' = None /\ opened' = opened /\ rows' = rows
  BY DEF FinishSwitch, IInv, TypeOK, Threads, Monitors
<1>2. /\ monitors' \in [Monitors -> MonitorStates]
      /\ monitors'[n] = NewMonitor
      /\ \A i \in Monitors : i # n => monitors'[i] = monitors[i]
  BY <1>1, NoMonitorType
<1>3. /\ online' = FALSE /\ unresolved' = (active # None)
      /\ active' = active /\ view' = view /\ sessions' = sessions
      /\ bound' = unbind(bound)
  BY DEF FinishSwitch, Unresolve
<1>4. bound' = None /\ (active = None => sessions = 0)
  BY <1>3 DEF unbind, IInv, Binding, TypeOK
<1>5. /\ calls' \in Seq(Monitors)
      /\ DOMAIN calls' = DOMAIN calls \cup {Len(calls) + 1}
      /\ \A k \in DOMAIN calls : calls'[k] = calls[k]
      /\ calls'[Len(calls) + 1] = n
      /\ \A k \in DOMAIN calls : calls[k] \in Monitors /\ calls[k] <= current
      /\ \A k \in DOMAIN calls : ~(Len(calls) + 1 < k)
  BY <1>1, QueueAppend DEF IInv, Queue
<1>6. TypeOK'
  BY <1>1, <1>2, <1>3, <1>4, <1>5 DEF FinishSwitch, Close, IInv, TypeOK, Profiles
<1>7. Threads'
  <2>1. \A i \in Monitors : i > n => i > current /\ i # n
    BY <1>1 DEF Monitors
  <2>2. \A i \in Monitors : i > n => monitors'[i] = NoMonitor
    BY <1>2, <2>1 DEF IInv, Threads
  <2>3. \A i \in Monitors : i < n => i # n /\ (i < current \/ i = current)
    BY <1>1 DEF Monitors
  <2>4. \A i \in Monitors : i < n => monitors'[i].stop
    BY <1>1, <1>2, <2>3 DEF IInv, Threads
  <2>5. \A i \in Monitors : monitors'[i].iface \in DOMAIN opened \cup {0}
    BY <1>2, NoMonitorType DEF IInv, Threads
  <2>6. \A i \in Monitors : Asks(i, "online")' => monitors'[i].info \in Devices
    BY <1>2, NoMonitorType DEF IInv, Threads, Asks, At
  <2> QED
    BY <1>1, <2>2, <2>4, <2>5, <2>6 DEF Threads
<1>8. Queue'
  <2>1. \A k \in DOMAIN calls : calls[k] # n /\ calls[k] < n /\ calls[k] <= n
    BY <1>1, <1>5 DEF Monitors
  <2>2. \A k \in DOMAIN calls' :
          calls'[k] <= n /\ monitors'[calls'[k]].pc = "asking"
    <3> TAKE k \in DOMAIN calls'
    <3>1. CASE k \in DOMAIN calls
      BY <1>2, <1>5, <2>1, <3>1 DEF IInv, Queue, At
    <3>2. CASE k = Len(calls) + 1
      BY <1>1, <1>2, <1>5, <3>2, NoMonitorType
    <3> QED
      BY <1>5, <3>1, <3>2
  <2>3. \A j, k \in DOMAIN calls' : j < k => calls'[j] < calls'[k]
    <3> SUFFICES ASSUME NEW j \in DOMAIN calls', NEW k \in DOMAIN calls', j < k
                 PROVE  calls'[j] < calls'[k]
      OBVIOUS
    <3>1. j \in DOMAIN calls
      BY <1>1, <1>5
    <3>2. CASE k \in DOMAIN calls
      BY <1>5, <3>1, <3>2 DEF IInv, Queue
    <3>3. CASE k = Len(calls) + 1
      BY <1>5, <2>1, <3>1, <3>3
    <3> QED
      BY <1>5, <3>2, <3>3
  <2>4. \A j \in Monitors : At(j, "asking")' => \E k \in DOMAIN calls' : calls'[k] = j
    <3> SUFFICES ASSUME NEW j \in Monitors, monitors'[j].pc = "asking"
                 PROVE  \E k \in DOMAIN calls' : calls'[k] = j
      BY DEF At
    <3>1. CASE j = n
      BY <1>5, <3>1
    <3>2. CASE j # n
      <4>1. At(j, "asking")
        BY <1>2, <3>2 DEF At
      <4> QED
        BY <1>5, <4>1 DEF IInv, Queue
    <3> QED
      BY <3>1, <3>2
  <2>5. \A k \in DOMAIN calls' : calls'[k] <= current' /\ At(calls[k], "asking")'
    BY <1>1, <2>2 DEF At
  <2> QED
    BY <2>3, <2>4, <2>5 DEF Queue
<1>9. Binding' /\ ReconnectShowsOwn'
  BY <1>3, <1>4 DEF Binding, ReconnectShowsOwn
<1>10. OnePending'
  <2>1. \A i \in Monitors : Pending(i)' => Pending(i)
    BY <1>2, NoMonitorType DEF Pending, Asks, At
  <2> QED
    BY <1>3, <2>1 DEF OnePending, IInv
<1>11. Announced'
  <2>1. current' # 1
    BY <1>1 DEF Monitors
  <2> QED
    BY <2>1 DEF Announced, Alone
<1> QED
  BY <1>6, <1>7, <1>8, <1>9, <1>10, <1>11 DEF IInv

(* The event of the monitor that has waited longest is handled.            *)
LEMMA HandleEventKeeps ==
  ASSUME IInv, HandleEvent
  PROVE  IInv'
<1>0. PICK i \in Monitors : i = Head(calls)
  BY QueueTail DEF HandleEvent, IInv, TypeOK
<1>1. /\ calls \in Seq(Monitors) /\ current \in Monitors
      /\ monitors \in [Monitors -> MonitorStates] /\ calls # <<>>
      /\ monitors' = [monitors EXCEPT ![i].pc = Next_pc(monitors[i].event)]
      /\ calls' = Tail(calls) /\ current' = current /\ picked' = picked
      /\ opened' = opened /\ interface' = interface /\ rows' = rows
  BY <1>0 DEF HandleEvent, link, IInv, TypeOK
<1>2. /\ i \in Monitors /\ i = calls[1] /\ 1 \in DOMAIN calls
      /\ calls' \in Seq(Monitors)
      /\ \A k \in DOMAIN calls' : k + 1 \in DOMAIN calls /\ calls'[k] = calls[k + 1]
      /\ \A k \in DOMAIN calls :
           k # 1 => k - 1 \in DOMAIN calls' /\ calls'[k - 1] = calls[k]
      /\ \A k \in DOMAIN calls : k # 1 => 1 < k
  BY <1>0, <1>1, QueueTail
<1>3. i <= current /\ At(i, "asking") /\ monitors[i].event \in Events
  BY <1>1, <1>2 DEF IInv, Queue, MonitorStates
<1>4. \A k \in DOMAIN calls : k # 1 => i < calls[k]
  BY <1>2 DEF IInv, Queue
<1>5. Next_pc(monitors[i].event) \in {"connect", "drain", "retry"}
  BY <1>3 DEF Events, Next_pc
<1>6. /\ monitors' \in [Monitors -> MonitorStates]
      /\ monitors'[i].pc = Next_pc(monitors[i].event)
      /\ monitors'[i].iface = monitors[i].iface
      /\ monitors'[i].info = monitors[i].info
      /\ monitors'[i].stop = monitors[i].stop
      /\ \A j \in Monitors : j # i => monitors'[j] = monitors[j]
  <2> DEFINE m == [monitors[i] EXCEPT !.pc = Next_pc(monitors[i].event)]
  <2>1. m \in MonitorStates
    <3> DEFINE pc == Next_pc(monitors[i].event)
    <3>1. pc \in {"connect", "drain", "retry"} /\ monitors[i] \in MonitorStates
      BY <1>1, <1>5
    <3> HIDE DEF pc
    <3>2. [monitors[i] EXCEPT !.pc = pc] \in MonitorStates
      BY <3>1 DEF MonitorStates
    <3> QED
      BY <3>2 DEF pc
  <2>2. monitors' = [monitors EXCEPT ![i] = m]
    BY <1>1, <1>2 DEF MonitorStates
  <2>3. /\ m.pc = Next_pc(monitors[i].event) /\ m.stop = monitors[i].stop
        /\ m.iface = monitors[i].iface /\ m.info = monitors[i].info
    BY <1>1, <1>2 DEF MonitorStates
  <2> HIDE DEF m
  <2> QED
    BY SMTT(30), <1>1, <1>2, <2>1, <2>2, <2>3
<1>7. Threads'
  <2>1. monitors'[i].iface \in DOMAIN opened' \cup {0}
    BY <1>1, <1>2, <1>6 DEF IInv, Threads
  <2>2. ~Asks(i, "online")'
    BY <1>5, <1>6 DEF Asks, At
  <2> QED
    BY <1>1, <1>2, <1>3, <1>6, <2>1, <2>2, ThreadsKept DEF IInv
<1>8. Queue'
  <2>1. \A k \in DOMAIN calls' :
          calls'[k] <= current /\ monitors'[calls'[k]].pc = "asking"
    <3> TAKE k \in DOMAIN calls'
    <3>1. /\ k + 1 \in DOMAIN calls /\ k + 1 # 1 /\ calls'[k] = calls[k + 1]
          /\ calls[k + 1] \in Monitors
      BY <1>1, <1>2
    <3>2. calls[k + 1] # i
      BY <1>2, <1>4, <3>1 DEF Monitors
    <3> QED
      BY <1>6, <3>1, <3>2 DEF IInv, Queue, At
  <2>2. \A j, k \in DOMAIN calls' : j < k => calls'[j] < calls'[k]
    <3> SUFFICES ASSUME NEW j \in DOMAIN calls', NEW k \in DOMAIN calls', j < k
                 PROVE  calls'[j] < calls'[k]
      OBVIOUS
    <3>1. j + 1 < k + 1
      BY <1>2
    <3> QED
      BY <1>2, <3>1 DEF IInv, Queue
  <2>3. \A j \in Monitors : At(j, "asking")' => \E k \in DOMAIN calls' : calls'[k] = j
    <3> SUFFICES ASSUME NEW j \in Monitors, monitors'[j].pc = "asking"
                 PROVE  \E k \in DOMAIN calls' : calls'[k] = j
      BY DEF At
    <3>1. j # i
      BY <1>5, <1>6
    <3>2. At(j, "asking")
      BY <1>6, <3>1 DEF At
    <3>3. PICK k \in DOMAIN calls : calls[k] = j
      BY <3>2 DEF IInv, Queue
    <3>4. k # 1
      BY <1>2, <3>1, <3>3
    <3> QED
      BY <1>2, <3>3, <3>4
  <2>4. \A k \in DOMAIN calls' : calls'[k] <= current' /\ At(calls[k], "asking")'
    BY <1>1, <2>1 DEF At
  <2> QED
    BY <2>2, <2>3, <2>4 DEF Queue
<1>9. ASSUME NEW j \in Monitors, j # i, Pending(j)'
      PROVE  Pending(j)
  BY <1>6, <1>9 DEF Pending, Asks, At
<1>10. CASE monitors[i].event = "online"
  <2> DEFINE info == monitors[i].info
  <2>1. Asks(i, "online") /\ Pending(i) /\ info \in Devices /\ info # None
    BY <1>2, <1>3, <1>10, ReceptionAssumption DEF Asks, Pending, IInv, Threads
  <2>2. ~online /\ \A j \in Monitors : Pending(j) => j = i
    BY <1>2, <2>1 DEF IInv, OnePending
  <2>3. ActivateProfile(info)
    BY <1>0, <1>10 DEF HandleEvent
  <2>4. /\ online' = TRUE /\ unresolved' = FALSE /\ active' = info
        /\ bound' = info /\ sessions' = sessions + 1
        /\ view' = IF Reloads(info) THEN {p \in Packets : <<p, info>> \in rows}
                   ELSE view
    BY <2>3 DEF ActivateProfile
  <2>5. Binding'
    BY <2>1, <2>4 DEF Binding
  <2>6. ReconnectShowsOwn'
    <3> SUFFICES ASSUME sessions' >= 2, NEW p \in view'
                 PROVE  <<p, info>> \in rows
      BY <1>1, <2>4 DEF ReconnectShowsOwn
    <3>1. sessions # 0
      BY <2>4 DEF IInv, TypeOK
    <3>2. Reloads(info)
      BY <2>2, <3>1 DEF Reloads, IInv, Binding
    <3> QED
      BY <2>4, <3>2
  <2>7. OnePending'
    <3>1. monitors'[i].pc = "drain"
      BY <1>6, <1>10 DEF Next_pc
    <3>2. ~Pending(i)'
      BY <3>1 DEF Pending, Asks, At
    <3>3. \A j \in Monitors : ~Pending(j)'
      BY <1>9, <2>2, <3>2
    <3> QED
      BY <3>3 DEF OnePending
  <2>8. Announced'
    <3> SUFFICES ASSUME Alone'
                 PROVE  /\ ~monitors'[1].stop /\ ~Asks(1, "online")'
                        /\ interface' # 0 /\ opened'[interface'] = monitors'[1].info
                        /\ bound' = monitors'[1].info
      BY DEF Announced
    <3>1. Alone
      BY <1>1 DEF Alone
    <3>2. i = 1
      BY <1>2, <1>3, <3>1 DEF Alone, Monitors
    <3>3. ~Asks(1, "online")'
      BY <1>5, <1>6, <3>2 DEF Asks, At
    <3> QED
      BY <1>1, <1>6, <2>1, <2>4, <3>1, <3>2, <3>3 DEF IInv, Announced
  <2>9. TypeOK'
    <3>1. view' \subseteq Packets /\ sessions' \in Nat
      BY <2>4 DEF IInv, TypeOK
    <3>2. active' \in Profiles /\ bound' \in Profiles
      BY <2>1, <2>4 DEF Profiles
    <3>3. online' \in BOOLEAN /\ unresolved' \in BOOLEAN
      BY <2>4
    <3>4. UNCHANGED <<bank, link, held, picked, pubq, judged, inbox, rows>>
      BY DEF HandleEvent
    <3> HIDE DEF info
    <3> QED
      BY <1>1, <1>2, <1>6, <3>1, <3>2, <3>3, <3>4 DEF link, IInv, TypeOK
  <2> QED
    BY <1>7, <1>8, <2>5, <2>6, <2>7, <2>8, <2>9 DEF IInv
<1>11. CASE monitors[i].event # "online"
  <2>1. Unresolve
    BY <1>0, <1>11 DEF HandleEvent
  <2>2. /\ online' = FALSE /\ unresolved' = (active # None)
        /\ active' = active /\ view' = view /\ sessions' = sessions
        /\ bound' = unbind(bound)
    BY <2>1 DEF Unresolve
  <2>3. bound' = None /\ (active = None => sessions = 0)
    BY <2>2 DEF unbind, IInv, Binding, TypeOK
  <2>4. Binding' /\ ReconnectShowsOwn'
    BY <2>2, <2>3 DEF Binding, ReconnectShowsOwn
  <2>5. OnePending'
    <3> SUFFICES ASSUME NEW j \in Monitors, NEW k \in Monitors,
                        Pending(j)', Pending(k)'
                 PROVE  j = k
      BY <2>2 DEF OnePending
    <3>1. ASSUME NEW l \in Monitors, l # i, Pending(i)', Pending(l)
          PROVE  FALSE
      <4>1. ~monitors[i].stop
        BY <1>5, <1>6, <3>1 DEF Pending, Asks, At
      <4>2. i = current
        BY <1>1, <1>2, <1>3, <4>1, Running DEF IInv, At
      <4>3. ~At(l, "none") /\ current \in Nat /\ l \in Nat
        BY <1>1, <3>1 DEF Pending, Asks, At, Monitors
      <4>4. l < current
        BY <1>1, <3>1, <4>2, <4>3, Running DEF IInv
      <4>5. Asks(l, "online")
        BY <3>1, <4>4 DEF Pending, IInv, Threads
      <4>6. PICK k1 \in DOMAIN calls : calls[k1] = l
        BY <4>5 DEF IInv, Queue, Asks
      <4>7. i < l
        BY <1>2, <1>4, <3>1, <4>6
      <4> QED
        BY <4>2, <4>3, <4>4, <4>7
    <3> QED
      BY <1>2, <1>9, <3>1 DEF IInv, OnePending
  <2>6. Announced'
    <3> SUFFICES ASSUME Alone'
                 PROVE  /\ ~monitors'[1].stop
                        /\ ~Asks(1, "online")' /\ ~At(1, "drain")'
      BY DEF Announced
    <3>1. Alone
      BY <1>1 DEF Alone
    <3>2. i = 1
      BY <1>2, <1>3, <3>1 DEF Alone, Monitors
    <3>3. monitors'[1].pc \in {"connect", "retry"}
      BY <1>3, <1>6, <1>11, <3>2 DEF Events, Next_pc
    <3> QED
      BY <1>6, <3>1, <3>2, <3>3 DEF IInv, Announced, Asks, At
  <2>7. TypeOK'
    BY <1>1, <1>2, <1>6, <2>2, <2>3 DEF HandleEvent, link, IInv, TypeOK, Profiles
  <2> QED
    BY <1>7, <1>8, <2>4, <2>5, <2>6, <2>7 DEF IInv
<1> QED
  BY <1>10, <1>11

-----------------------------------------------------------------------------
(* The theorems.                                                           *)

(* The program starts with one monitor, no link and no profile.            *)
LEMMA InitHolds == Init => IInv
<1> SUFFICES ASSUME Init PROVE IInv
  OBVIOUS
<1>1. \A i \in Monitors : monitors[i] = IF i = 1 THEN NewMonitor ELSE NoMonitor
  BY DEF Init
<1>2. TypeOK
  <2>1. /\ calls \in Seq(Monitors) /\ current \in Monitors
        /\ monitors \in [Monitors -> MonitorStates]
    BY FirstMonitor, NoMonitorType DEF Init
  <2>2. /\ bank \subseteq Packets /\ rows \subseteq Packets \X Profiles
        /\ view \subseteq Packets /\ sessions \in Nat
        /\ online \in BOOLEAN /\ unresolved \in BOOLEAN
        /\ active \in Profiles /\ bound \in Profiles /\ picked \in Profiles
    BY DEF Init, Profiles
  <2>3. /\ opened \in Seq(Devices) /\ Len(opened) <= MaxConnects
        /\ path \in Devices
    <3>1. opened = <<>> /\ path = FirstDevice
      BY DEF Init
    <3> QED
      BY <3>1, ReceptionAssumption
  <2>6. connecting \in BOOLEAN /\ lost \in BOOLEAN /\ subscribed \in BOOLEAN
    BY DEF Init
  <2>5. alive \subseteq DOMAIN opened /\ interface \in DOMAIN opened \cup {0}
    BY DEF Init
  <2>4. /\ held \in Seq(Packets) /\ Len(held) <= MaxHeld
        /\ pubq \in Seq(Publications) /\ judged \in Packets \cup {None}
        /\ inbox \in Seq(Packets)
    BY ReceptionAssumption DEF Init
  <2> QED
    BY <2>1, <2>2, <2>3, <2>4, <2>5, <2>6 DEF TypeOK
<1>3. \A i \in Monitors : ~Pending(i)
  BY <1>1, NoMonitorType DEF Pending, Asks, At
<1>4. Threads
  BY <1>1, <1>3, FirstMonitor, NoMonitorType DEF Threads, Init, Monitors, Pending
<1>5. Queue
  <2>1. DOMAIN calls = {1} /\ calls[1] = 1 /\ current = 1
    BY DEF Init
  <2>2. At(1, "asking") /\ \A j \in Monitors : At(j, "asking") => j = 1
    BY <1>1, FirstMonitor, NoMonitorType DEF At
  <2> QED
    BY <2>1, <2>2 DEF Queue
<1>6. Binding /\ ReconnectShowsOwn
  BY DEF Init, Binding, ReconnectShowsOwn
<1>7. OnePending
  BY <1>3 DEF OnePending
<1>8. Announced
  BY <1>1, <1>3, FirstMonitor, NoMonitorType DEF Announced, Pending, At
<1> QED
  BY <1>2, <1>4, <1>5, <1>6, <1>7, <1>8 DEF IInv

(* Every step of every thread preserves the invariant.                     *)
LEMMA StepHolds == IInv /\ [Next]_vars => IInv'
<1> SUFFICES ASSUME IInv, [Next]_vars PROVE IInv'
  OBVIOUS
<1>1. ASSUME NEW i \in Monitors, MonitorStep(i) \/ DeviceGone(i)
      PROVE  IInv'
  BY <1>1, DeviceMissingKeeps, ConnectKeeps, OpenFailsKeeps, OpenSucceedsKeeps,
     ReadRadioInfoKeeps, DrainKeeps, LeaveWatchKeeps, RetryKeeps DEF MonitorStep
<1>2. ASSUME NEW p \in Packets, NEW n \in Interfaces, Deliver(p, n)
      PROVE  IInv'
  BY <1>2, DeliverKeeps
<1>3. ASSUME NEW device \in Devices, StopMonitor(device)
      PROVE  IInv'
  BY <1>3, StopMonitorKeeps
<1>4. CASE UNCHANGED vars
  <2>1. TypeOK'
    BY <1>4 DEF vars, link, app, IInv, TypeOK
  <2> QED
    BY <1>4, <2>1, QuietStep DEF vars, link, IInv
<1> QED
  BY <1>1, <1>2, <1>3, <1>4, LinkDiesKeeps, PublisherKeeps, HandleEventKeeps,
     AcceptMessageKeeps, FinishSwitchKeeps DEF Next

(* The inductive invariant holds in every reachable state.                 *)
THEOREM Inductive == Spec => []IInv
BY InitHolds, StepHolds, PTL DEF Spec

(* Every variable has its type and the hold never outgrows its limit.      *)
THEOREM TypeCorrect == Spec => []TypeOK
<1>1. IInv => TypeOK
  BY DEF IInv
<1> QED
  BY <1>1, Inductive, PTL

(* The store is bound to a profile only while the screen says ONLINE.      *)
THEOREM NoStaleBinding == Spec => []BoundOnlyOnline
<1>1. IInv => BoundOnlyOnline
  BY DEF IInv, Binding, BoundOnlyOnline
<1> QED
  BY <1>1, Inductive, PTL

(* After a reconnect the transcript shows rows of the bound profile only.  *)
THEOREM OwnTranscript == Spec => []ReconnectShowsOwn
<1>1. IInv => ReconnectShowsOwn
  BY DEF IInv
<1> QED
  BY <1>1, Inductive, PTL

(* While no device switch has happened, the hold is emptied only by a      *)
(* replay, and when the store is bound to the connected radio's profile.   *)
THEOREM ReplaysToItsProfile == Spec => ReplayAfterBinding
<1> DEFINE Replays == Alone /\ held # <<>> /\ held' = <<>> => bound = opened[interface']
<1>1. IInv /\ [Next]_vars => Replays
  <2> SUFFICES ASSUME IInv, [Next]_vars, Alone, held # <<>>, held' = <<>>
               PROVE  bound = opened[interface']
    OBVIOUS
  <2>1. ASSUME NEW i \in Monitors, Drain(i)
        PROVE  bound = opened[interface']
    <3>1. i <= 1
      BY <2>1, Running DEF Drain, At, Alone, IInv, TypeOK
    <3>2. i = 1
      BY <3>1 DEF Monitors
    <3> QED
      BY <2>1, <3>2 DEF Drain, link, IInv, Announced
  <2>2. ASSUME NEW i \in Monitors, MonitorStep(i) \/ DeviceGone(i), ~Drain(i)
        PROVE  held' = held
    BY <2>2 DEF MonitorStep, DeviceMissing, Connect, OpenFails, carried,
                OpenSucceeds, defer_held, ReadRadioInfo, LeaveWatch, Retry, DeviceGone
  <2>3. HoldOrDrop => held' # <<>>
    BY SMTT(30), QueueAppend DEF HoldOrDrop, IInv, TypeOK
  <2>4. ASSUME Next, ~HoldOrDrop, \A i \in Monitors : ~(MonitorStep(i) \/ DeviceGone(i))
        PROVE  held' = held
    BY <2>4 DEF Next, Deliver, LinkDies, PublisherStep, OnConnectionLost,
                OnTextReceived, HandleEvent, AcceptMessage, FinishSwitch, StopMonitor
  <2>5. UNCHANGED vars => held' = held
    BY DEF vars
  <2> QED
    BY <2>1, <2>2, <2>3, <2>4, <2>5
<1> QED
  BY <1>1, Inductive, PTL DEF Spec, ReplayAfterBinding

(* While there is one monitor, arrivals are held exactly while it is in    *)
(* the constructor, and it watches a link with nothing held.               *)
Window ==
  Alone => (connecting <=> At(1, "opening")) /\ WatchingHoldsNothing

(* The steps of the monitor keep the window.                               *)
LEMMA MonitorKeepsWindow ==
  ASSUME IInv, Window, NEW i \in Monitors, MonitorStep(i) \/ DeviceGone(i)
  PROVE  Window'
<1> SUFFICES ASSUME Alone'
             PROVE  /\ connecting' <=> At(1, "opening")'
                    /\ At(1, "watching")' => held' = <<>>
  BY DEF Window, WatchingHoldsNothing, Watching
<1>1. monitors \in [Monitors -> MonitorStates] /\ current \in Monitors
  BY DEF IInv, TypeOK
<1>2. Alone
  BY DEF Alone, MonitorStep, DeviceGone, DeviceMissing, Connect, OpenFails,
         OpenSucceeds, ReadRadioInfo, Drain, LeaveWatch, Retry
<1>3. ~At(i, "none")
  BY DEF At, MonitorStep, DeviceGone, DeviceMissing, Connect, OpenFails,
         OpenSucceeds, ReadRadioInfo, Drain, LeaveWatch, Retry
<1>4. i = 1
  BY <1>1, <1>2, <1>3, Running DEF Alone, IInv, Monitors
<1>5. connecting <=> At(1, "opening")
  BY <1>2 DEF Window
<1>6. ASSUME NEW event \in Events, NEW info, Yield(i, event, info)
      PROVE  ~At(1, "opening")' /\ ~At(1, "watching")'
  BY <1>1, <1>4, <1>6 DEF Yield, At, MonitorStates
<1>7. CASE DeviceMissing(i) \/ LeaveWatch(i) \/ DeviceGone(i) \/ Retry(i)
  <2>1. /\ connecting' = connecting /\ ~At(1, "opening")
        /\ Yield(i, "down", None) \/ Yield(i, "connecting", None)
    BY <1>4, <1>7 DEF DeviceMissing, ConnectFails, LeaveWatch, DeviceGone, Retry, At
  <2> QED
    BY <1>5, <1>6, <2>1 DEF Events
<1>8. CASE ReadRadioInfo(i)
  <2>1. /\ connecting' = connecting /\ ~At(1, "opening")
        /\ Yield(i, "down", None) \/ Yield(i, "online", opened[interface])
    BY <1>4, <1>8 DEF ReadRadioInfo, ConnectFails, At
  <2> QED
    BY <1>5, <1>6, <2>1 DEF Events
<1>9. CASE Connect(i)
  BY <1>1, <1>4, <1>9 DEF Connect, At, MonitorStates
<1>10. CASE OpenFails(i)
  <2>1. connecting' = FALSE /\ Yield(i, "down", None)
    BY <1>10 DEF OpenFails
  <2> QED
    BY <1>6, <2>1 DEF Events
<1>11. CASE OpenSucceeds(i)
  BY <1>1, <1>4, <1>11 DEF OpenSucceeds, window_after_open, At, MonitorStates
<1>12. CASE Drain(i)
  BY <1>1, <1>4, <1>5, <1>12
     DEF Drain, drain_connect_arrivals, swapped_out, link, At, MonitorStates
<1> QED
  BY <1>7, <1>8, <1>9, <1>10, <1>11, <1>12 DEF MonitorStep

(* The publishing thread holds nothing once the window is closed, and no   *)
(* other step opens it.                                                    *)
LEMMA OthersKeepWindow ==
  ASSUME IInv, Window, [Next]_vars,
         \A i \in Monitors : ~(MonitorStep(i) \/ DeviceGone(i))
  PROVE  Window'
<1> SUFFICES ASSUME Alone'
             PROVE  /\ connecting' <=> At(1, "opening")'
                    /\ Watching(1)' => held' = <<>>
  BY DEF Window, WatchingHoldsNothing
<1>1. CASE FinishSwitch
  BY <1>1 DEF FinishSwitch, Alone, IInv, TypeOK, Monitors
<1>2. CASE \E device \in Devices : StopMonitor(device)
  BY <1>2, ReceptionAssumption DEF StopMonitor, Alone
<1>3. CASE HandleEvent
  <2>1. /\ Head(calls) \in Monitors /\ At(Head(calls), "asking")
        /\ monitors[Head(calls)].event \in Events
        /\ Head(calls) <= current /\ current = 1
    <3>1. Head(calls) \in Monitors /\ Head(calls) = calls[1] /\ 1 \in DOMAIN calls
      BY <1>3, QueueTail DEF HandleEvent, IInv, TypeOK
    <3>2. current = 1
      BY <1>3 DEF HandleEvent, Alone
    <3> QED
      BY <3>1, <3>2 DEF IInv, TypeOK, Queue, MonitorStates
  <2>2. Head(calls) = 1
    BY <2>1 DEF Monitors
  <2>3. monitors'[1].pc = Next_pc(monitors[1].event)
    BY <1>3, <2>1, <2>2 DEF HandleEvent, IInv, TypeOK, MonitorStates
  <2>4. monitors'[1].pc \in {"connect", "drain", "retry"}
    BY <2>1, <2>2, <2>3 DEF Next_pc, Events
  <2> QED
    BY <1>3, <2>1, <2>2, <2>4 DEF HandleEvent, link, Alone, Window, At, Watching
<1>4. CASE \/ UNCHANGED vars \/ (\E n \in Interfaces : LinkDies(n)) \/ PublisherStep \/ AcceptMessage
           \/ \E p \in Packets, n \in Interfaces : Deliver(p, n)
  <2>1. /\ connecting' = connecting /\ monitors' = monitors
        /\ current' = current /\ picked' = picked
        /\ held' = held \/ connecting
    BY <1>4 DEF vars, link, LinkDies, PublisherStep, OnConnectionLost,
                OnTextReceived, HoldOrDrop, AcceptMessage, Deliver
  <2>2. Watching(1) => ~At(1, "opening")
    BY DEF Watching, At
  <2> QED
    BY <2>1, <2>2 DEF Window, WatchingHoldsNothing, Alone, Watching, At
<1> QED
  BY <1>1, <1>2, <1>3, <1>4 DEF Next

(* An established link strands no packet in the hold.                      *)
THEOREM NothingStranded == Spec => []WatchingHoldsNothing
<1>1. Init => Window
  BY FirstMonitor, NoMonitorType DEF Init, Window, WatchingHoldsNothing, Watching, At
<1>2. IInv /\ Window /\ [Next]_vars => Window'
  BY MonitorKeepsWindow, OthersKeepWindow
<1>3. Window => WatchingHoldsNothing
  BY DEF Window, WatchingHoldsNothing
<1> QED
  BY <1>1, <1>2, <1>3, Inductive, PTL DEF Spec

-----------------------------------------------------------------------------
(* How often a packet is in a queue.                                       *)

Where(s, X) == {k \in DOMAIN s : s[k] \in X}

Count(s, X) == Cardinality(Where(s, X))

In(x, S) == IF x \in S THEN 1 ELSE 0

LEMMA CountType ==
  ASSUME NEW S, NEW s \in Seq(S), NEW X
  PROVE  IsFiniteSet(Where(s, X)) /\ Count(s, X) \in Nat
<1>1. Len(s) \in Nat /\ DOMAIN s = 1..Len(s)
  BY LenProperties
<1>2. 1 \in Int /\ Len(s) \in Int
  BY <1>1
<1>3. IsFiniteSet(1..Len(s))
  BY <1>2, FS_Interval
<1>4. Where(s, X) \in SUBSET (1..Len(s))
  BY <1>1 DEF Where
<1>5. IsFiniteSet(Where(s, X))
  BY <1>3, <1>4, FS_Subset
<1> QED
  BY <1>5, FS_CardinalityType DEF Count

LEMMA CountEmpty ==
  ASSUME NEW X
  PROVE  Count(<<>>, X) = 0
<1>1. Where(<<>>, X) = {}
  BY DEF Where
<1> QED
  BY <1>1, FS_EmptySet DEF Count

LEMMA CountAppend ==
  ASSUME NEW S, NEW s \in Seq(S), NEW e \in S, NEW X
  PROVE  Count(Append(s, e), X) = Count(s, X) + In(e, X)
<1> DEFINE n == Len(s) + 1
<1>1. /\ DOMAIN Append(s, e) = DOMAIN s \cup {n}
      /\ \A k \in DOMAIN s : Append(s, e)[k] = s[k]
      /\ Append(s, e)[n] = e /\ n \notin DOMAIN s
  BY QueueAppend
<1>2. IsFiniteSet(Where(s, X)) /\ Count(s, X) \in Nat /\ n \notin Where(s, X)
  BY <1>1, CountType DEF Where
<1> HIDE DEF n
<1>3. CASE e \in X
  <2>1. Where(Append(s, e), X) = Where(s, X) \cup {n}
    BY <1>1, <1>3 DEF Where
  <2>2. Cardinality(Where(s, X) \cup {n}) = Cardinality(Where(s, X)) + 1
    BY <1>2, FS_AddElement
  <2> QED
    BY <1>3, <2>1, <2>2 DEF Count, In
<1>4. CASE e \notin X
  <2>1. Where(Append(s, e), X) = Where(s, X)
    BY <1>1, <1>4 DEF Where
  <2> QED
    BY <1>2, <1>4, <2>1 DEF Count, In
<1> QED
  BY <1>3, <1>4

(* The places of the second queue are shifted by the length of the first.  *)
LEMMA CountJoin ==
  ASSUME NEW S, NEW s \in Seq(S), NEW t \in Seq(S), NEW X
  PROVE  Count(s \o t, X) = Count(s, X) + Count(t, X)
<1> DEFINE W == Where(t, X)
           V == {k \in DOMAIN (s \o t) : k > Len(s) /\ (s \o t)[k] \in X}
           f == [k \in W |-> Len(s) + k]
<1>1. /\ Len(s) \in Nat /\ DOMAIN s = 1..Len(s)
      /\ Len(t) \in Nat /\ DOMAIN t = 1..Len(t)
      /\ DOMAIN (s \o t) = 1..(Len(s) + Len(t))
      /\ \A k \in 1..(Len(s) + Len(t)) :
           (s \o t)[k] = IF k <= Len(s) THEN s[k] ELSE t[k - Len(s)]
  BY LenProperties, ConcatProperties
<1>2. Where(s \o t, X) = Where(s, X) \cup V /\ Where(s, X) \cap V = {}
  BY <1>1 DEF Where
<1>3. f \in Bijection(W, V)
  <2>1. \A k \in W : k \in 1..Len(t) /\ t[k] \in X /\ f[k] = Len(s) + k
    BY <1>1 DEF Where
  <2>2. f \in [W -> V]
    <3>1. \A k \in W : Len(s) + k \in V
      <4> TAKE k \in W
      <4>1. /\ k \in 1..Len(t) /\ t[k] \in X
            /\ Len(s) + k \in 1..(Len(s) + Len(t)) /\ Len(s) + k > Len(s)
            /\ (Len(s) + k) - Len(s) = k /\ ~(Len(s) + k <= Len(s))
        BY <1>1, <2>1
      <4>2. (s \o t)[Len(s) + k] = t[k]
        BY <1>1, <4>1
      <4> QED
        BY <1>1, <4>1, <4>2
    <3> QED
      BY <3>1
  <2>3. \A j, k \in W : f[j] = f[k] => j = k
    BY <1>1, <2>1
  <2>4. \A v \in V : \E k \in W : f[k] = v
    <3> TAKE v \in V
    <3>1. v \in 1..(Len(s) + Len(t)) /\ v > Len(s) /\ (s \o t)[v] \in X
      BY <1>1
    <3>2. v - Len(s) \in 1..Len(t) /\ t[v - Len(s)] \in X /\ Len(s) + (v - Len(s)) = v
      BY <1>1, <3>1
    <3>3. v - Len(s) \in W
      BY <1>1, <3>2 DEF Where
    <3> WITNESS v - Len(s) \in W
    <3> QED
      BY <3>2, <3>3
  <2> HIDE DEF f, W, V
  <2> QED
    BY <2>2, <2>3, <2>4, Zenon DEF Bijection, Injection, Surjection, IsInjective
<1> HIDE DEF f
<1>4. IsFiniteSet(W) /\ IsFiniteSet(Where(s, X))
      /\ Count(s, X) \in Nat /\ Count(t, X) \in Nat
  BY CountType
<1>5. IsFiniteSet(V) /\ Cardinality(V) = Cardinality(W)
  <2> HIDE DEF V, W
  <2> QED
    BY <1>3, <1>4, FS_Bijection DEF ExistsBijection
<1> HIDE DEF V
<1>6. Cardinality(Where(s, X) \cup V)
        = Cardinality(Where(s, X)) + Cardinality(V) - Cardinality(Where(s, X) \cap V)
  BY <1>4, <1>5, FS_Union
<1>7. Cardinality(Where(s, X) \cap V) = 0
  BY <1>2, FS_EmptySet
<1> QED
  BY <1>2, <1>4, <1>5, <1>6, <1>7 DEF Count

LEMMA CountTail ==
  ASSUME NEW S, NEW s \in Seq(S), s # <<>>, NEW X
  PROVE  Count(s, X) = In(Head(s), X) + Count(Tail(s), X)
<1>1. /\ Head(s) \in S /\ Tail(s) \in Seq(S) /\ <<>> \in Seq(S)
      /\ <<Head(s)>> \in Seq(S) /\ Append(<<>>, Head(s)) = <<Head(s)>>
      /\ s = <<Head(s)>> \o Tail(s)
  OBVIOUS
<1>2. Count(<<Head(s)>> \o Tail(s), X) = Count(<<Head(s)>>, X) + Count(Tail(s), X)
  BY <1>1, CountJoin
<1>3. Count(Append(<<>>, Head(s)), X) = Count(<<>>, X) + In(Head(s), X)
  BY <1>1, CountAppend
<1>4. Count(<<>>, X) = 0
  BY CountEmpty
<1>5. In(Head(s), X) \in Nat
  BY DEF In
<1>6. Count(<<Head(s)>>, X) = In(Head(s), X)
  <2>1. Count(<<Head(s)>>, X) = Count(<<>>, X) + In(Head(s), X)
    BY <1>1, <1>3, Zenon
  <2> HIDE DEF In
  <2> QED
    BY <1>4, <1>5, <2>1
<1>7. Count(s, X) = Count(<<Head(s)>> \o Tail(s), X)
  BY <1>1, Zenon
<1> QED
  BY <1>2, <1>6, <1>7

-----------------------------------------------------------------------------
(* A packet is in one place: no step puts it in a second one.              *)

Of(p) == {e \in Publications : e.packet = p}

RowsOf(p, r) == {x \in r : x[1] = p}

(* The places of a packet: its radio, the publishing thread's queue, its   *)
(* judgement, the hold, the UI's queue and the table.                      *)
Places(p, b, q, j, h, i, r) ==
  In(p, b) + Count(q, Of(p)) + In(j, {p}) + Count(h, {p}) + Count(i, {p})
    + Cardinality(RowsOf(p, r))

OnePlace ==
  /\ IsFiniteSet(rows)
  /\ \A p \in Packets : Places(p, bank, pubq, judged, held, inbox, rows) <= 1

LEMMA RowsType ==
  ASSUME NEW r, IsFiniteSet(r), NEW p
  PROVE  IsFiniteSet(RowsOf(p, r)) /\ Cardinality(RowsOf(p, r)) \in Nat
<1>1. RowsOf(p, r) \in SUBSET r
  BY DEF RowsOf
<1>2. IsFiniteSet(RowsOf(p, r))
  BY <1>1, FS_Subset
<1> QED
  BY <1>2, FS_CardinalityType

(* The terms of the sum are natural numbers.                               *)
LEMMA PlacesType ==
  ASSUME TypeOK, IsFiniteSet(rows), NEW p \in Packets
  PROVE  /\ In(p, bank) \in Nat /\ Count(pubq, Of(p)) \in Nat
         /\ In(judged, {p}) \in Nat /\ Count(held, {p}) \in Nat
         /\ Count(inbox, {p}) \in Nat /\ Cardinality(RowsOf(p, rows)) \in Nat
<1>1. pubq \in Seq(Publications) /\ held \in Seq(Packets) /\ inbox \in Seq(Packets)
  BY DEF TypeOK
<1>2. Count(pubq, Of(p)) \in Nat /\ Count(held, {p}) \in Nat /\ Count(inbox, {p}) \in Nat
  BY <1>1, CountType
<1>3. In(p, bank) \in Nat /\ In(judged, {p}) \in Nat
  BY DEF In
<1> QED
  BY <1>2, <1>3, RowsType

(* The publishing thread takes an event off its queue.                     *)
LEMMA PublishTakes ==
  ASSUME TypeOK, NEW type, Publish(type), NEW p \in Packets
  PROVE  /\ judged = None /\ judged # p
         /\ Head(pubq) \in Publications /\ Head(pubq).type = type
         /\ Count(pubq', Of(p)) \in Nat
         /\ Count(pubq, Of(p)) = In(Head(pubq).packet, {p}) + Count(pubq', Of(p))
<1>1. /\ pubq \in Seq(Publications) /\ pubq # <<>> /\ pubq' = Tail(pubq)
      /\ judged = None /\ Head(pubq).type = type
  BY DEF TypeOK, Publish
<1>2. Head(pubq) \in Publications /\ Tail(pubq) \in Seq(Publications)
  BY <1>1, QueueTail
<1>3. Count(pubq, Of(p)) = In(Head(pubq), Of(p)) + Count(Tail(pubq), Of(p))
  BY <1>1, CountTail
<1>4. Count(Tail(pubq), Of(p)) \in Nat
  BY <1>2, CountType
<1>5. In(Head(pubq), Of(p)) = In(Head(pubq).packet, {p})
  BY <1>2 DEF Of, In
<1>6. judged # p
  BY <1>1, ReceptionAssumption
<1> QED
  BY <1>1, <1>2, <1>3, <1>4, <1>5, <1>6

(* A post adds each of its packets to the inbox once, or not at all.       *)
LEMMA PostAdds ==
  ASSUME TypeOK, NEW q \in Seq(Packets), inbox' = Posted(q), NEW p
  PROVE  Count(inbox', {p}) <= Count(inbox, {p}) + Count(q, {p})
         /\ Count(inbox', {p}) \in Nat
<1>1. inbox \in Seq(Packets)
  BY DEF TypeOK
<1>2. Count(inbox, {p}) \in Nat /\ Count(q, {p}) \in Nat
  BY <1>1, CountType
<1>3. CASE picked = None
  <2>1. inbox' = inbox \o q
    BY <1>3 DEF Posted
  <2>2. Count(inbox \o q, {p}) = Count(inbox, {p}) + Count(q, {p})
    BY <1>1, CountJoin
  <2> QED
    BY <1>2, <2>1, <2>2
<1>4. CASE picked # None
  <2>1. inbox' = inbox
    BY <1>4 DEF Posted
  <2> QED
    BY <1>2, <2>1
<1> QED
  BY <1>3, <1>4

(* A packet leaves its radio for the queue, once.                          *)
LEMMA DeliverMoves ==
  ASSUME IInv, OnePlace, NEW x \in Packets, NEW n \in Interfaces, Deliver(x, n)
  PROVE  OnePlace'
<1> SUFFICES ASSUME NEW p \in Packets
             PROVE  Places(p, bank', pubq', judged, held, inbox, rows) <= 1
  BY DEF OnePlace, Deliver
<1> DEFINE e == [type |-> "text", iface |-> n, packet |-> x]
<1>1. TypeOK /\ IsFiniteSet(rows) /\ pubq \in Seq(Publications)
      /\ x \in bank /\ bank' = bank \ {x} /\ pubq' = Append(pubq, e)
      /\ Places(p, bank, pubq, judged, held, inbox, rows) <= 1
  BY DEF IInv, TypeOK, OnePlace, Deliver
<1>2. e \in Publications /\ In(e, Of(p)) = In(x, {p})
  BY DEF Publications, Of, In
<1> HIDE DEF e
<1>3. Count(Append(pubq, e), Of(p)) = Count(pubq, Of(p)) + In(e, Of(p))
  BY <1>1, <1>2, CountAppend
<1>4. Count(pubq', Of(p)) = Count(pubq, Of(p)) + In(x, {p})
  BY <1>1, <1>2, <1>3
<1>5. In(p, bank') + In(x, {p}) = In(p, bank)
  BY <1>1 DEF In
<1>6. In(p, bank') \in Nat /\ In(x, {p}) \in Nat
  BY DEF In
<1> QED
  BY <1>1, <1>4, <1>5, <1>6, PlacesType DEF Places

(* A loss is no packet.                                                    *)
LEMMA LinkDiesMoves ==
  ASSUME IInv, OnePlace, NEW n \in Interfaces, LinkDies(n)
  PROVE  OnePlace'
<1> SUFFICES ASSUME NEW p \in Packets
             PROVE  Places(p, bank, pubq', judged, held, inbox, rows) <= 1
  BY DEF OnePlace, LinkDies
<1> DEFINE e == [type |-> "lost", iface |-> n, packet |-> None]
<1>1. TypeOK /\ IsFiniteSet(rows) /\ pubq \in Seq(Publications)
      /\ pubq' = Append(pubq, e)
      /\ Places(p, bank, pubq, judged, held, inbox, rows) <= 1
  BY DEF IInv, TypeOK, OnePlace, LinkDies
<1>3. e \in Publications /\ e \notin Of(p)
  BY ReceptionAssumption DEF Publications, Of
<1> HIDE DEF e
<1>4. Count(Append(pubq, e), Of(p)) = Count(pubq, Of(p)) + In(e, Of(p))
  BY <1>1, <1>3, CountAppend
<1>5. In(e, Of(p)) = 0 /\ Count(pubq, Of(p)) \in Nat
  BY <1>1, <1>3, PlacesType DEF In
<1>6. Count(pubq', Of(p)) = Count(pubq, Of(p))
  BY <1>1, <1>4, <1>5
<1> QED
  BY <1>1, <1>6, PlacesType DEF Places

(* What the publishing thread takes off its queue it posts, judges, holds  *)
(* or drops.                                                               *)
LEMMA PublisherMoves ==
  ASSUME IInv, OnePlace, PublisherStep
  PROVE  OnePlace'
<1> SUFFICES ASSUME NEW p \in Packets
             PROVE  Places(p, bank, pubq', judged', held', inbox', rows) <= 1
  BY DEF OnePlace, PublisherStep, OnConnectionLost, OnTextReceived, HoldOrDrop
<1>1. TypeOK /\ IsFiniteSet(rows) /\ held \in Seq(Packets)
      /\ Places(p, bank, pubq, judged, held, inbox, rows) <= 1
  BY DEF IInv, TypeOK, OnePlace
<1>0. /\ In(p, bank) \in Nat /\ Count(pubq, Of(p)) \in Nat
      /\ In(judged, {p}) \in Nat /\ Count(held, {p}) \in Nat
      /\ Count(inbox, {p}) \in Nat /\ Cardinality(RowsOf(p, rows)) \in Nat
      /\ In(p, bank) + Count(pubq, Of(p)) + In(judged, {p}) + Count(held, {p})
           + Count(inbox, {p}) + Cardinality(RowsOf(p, rows)) <= 1
  BY <1>1, PlacesType DEF Places
<1>2. CASE OnConnectionLost
  <2>1. Publish("lost") /\ judged' = judged /\ held' = held /\ inbox' = inbox
    BY <1>2 DEF OnConnectionLost
  <2>2. Count(pubq, Of(p)) = In(Head(pubq).packet, {p}) + Count(pubq', Of(p))
        /\ Count(pubq', Of(p)) \in Nat
    BY <1>1, <2>1, PublishTakes
  <2>3. In(Head(pubq).packet, {p}) \in Nat
    BY DEF In
  <2>4. /\ In(judged', {p}) = In(judged, {p})
        /\ Count(held', {p}) = Count(held, {p}) /\ Count(inbox', {p}) = Count(inbox, {p})
    BY <2>1, Zenon
  <2> QED
    BY <1>0, <2>2, <2>3, <2>4 DEF Places
<1>3. CASE OnTextReceived
  <2> DEFINE x == Head(pubq).packet
  <2>1. Publish("text") /\ held' = held
    BY <1>3 DEF OnTextReceived
  <2>2. /\ Count(pubq, Of(p)) = In(x, {p}) + Count(pubq', Of(p))
        /\ Count(pubq', Of(p)) \in Nat /\ judged # p
        /\ Head(pubq) \in Publications /\ Head(pubq).type = "text"
    BY <1>1, <2>1, PublishTakes
  <2>3. x \in Packets
    BY <2>2 DEF Publications
  <2>4. In(x, {p}) \in Nat /\ In(judged, {p}) = 0
    BY <2>2 DEF In
  <2>5. \/ judged' = judged /\ inbox' = inbox
        \/ judged' = judged /\ inbox' = Posted(<<x>>)
        \/ judged' = x /\ inbox' = inbox
    BY <1>3 DEF OnTextReceived
  <2> HIDE DEF x
  <2>6. CASE judged' = judged /\ inbox' = inbox
    <3>1. /\ In(judged', {p}) = In(judged, {p})
          /\ Count(held', {p}) = Count(held, {p}) /\ Count(inbox', {p}) = Count(inbox, {p})
      BY <2>1, <2>6, Zenon
    <3> QED
      BY <1>0, <2>2, <2>4, <3>1 DEF Places
  <2>7. CASE judged' = judged /\ inbox' = Posted(<<x>>)
    <3>1. <<x>> \in Seq(Packets) /\ Append(<<>>, x) = <<x>> /\ <<>> \in Seq(Packets)
      BY <2>3
    <3>2. Count(<<x>>, {p}) = In(x, {p})
      <4>1. Count(Append(<<>>, x), {p}) = Count(<<>>, {p}) + In(x, {p})
        BY <2>3, <3>1, CountAppend
      <4>2. Count(<<>>, {p}) = 0
        BY CountEmpty
      <4>3. Count(Append(<<>>, x), {p}) = In(x, {p})
        BY <2>4, <4>1, <4>2
      <4> QED
        BY <3>1, <4>3, Zenon
    <3>3. /\ Count(inbox', {p}) <= Count(inbox, {p}) + Count(<<x>>, {p})
          /\ Count(inbox', {p}) \in Nat
      BY <1>1, <2>7, <3>1, PostAdds
    <3>4. /\ In(judged', {p}) = In(judged, {p})
          /\ Count(held', {p}) = Count(held, {p})
      BY <2>1, <2>7, Zenon
    <3> QED
      BY <1>0, <2>2, <2>4, <3>2, <3>3, <3>4 DEF Places
  <2>8. CASE judged' = x /\ inbox' = inbox
    <3>1. In(judged', {p}) = In(x, {p})
      BY <2>8
    <3> QED
      BY <1>1, <2>1, <2>2, <2>4, <2>8, <3>1, <1>0 DEF Places
  <2> QED
    BY <2>5, <2>6, <2>7, <2>8
<1>4. CASE HoldOrDrop
  <2>1. /\ judged \in Packets /\ judged' = None /\ pubq' = pubq /\ inbox' = inbox
        /\ held' = Append(held, judged) \/ held' = held
    BY <1>1, <1>4 DEF HoldOrDrop, TypeOK
  <2>2. In(judged', {p}) = 0
    BY <2>1, ReceptionAssumption DEF In
  <2>3. Count(Append(held, judged), {p}) = Count(held, {p}) + In(judged, {p})
    BY <1>1, <2>1, CountAppend
  <2>4. \/ Count(held', {p}) = Count(held, {p}) + In(judged, {p})
        \/ Count(held', {p}) = Count(held, {p})
    BY <2>1, <2>3
  <2> QED
    BY SMTT(30), <1>1, <2>1, <2>2, <2>4, <1>0 DEF Places
<1> QED
  BY <1>2, <1>3, <1>4 DEF PublisherStep

(* A replay empties the hold into the inbox.                               *)
LEMMA DrainMoves ==
  ASSUME IInv, OnePlace, NEW i \in Monitors, Drain(i)
  PROVE  OnePlace'
<1> SUFFICES ASSUME NEW p \in Packets
             PROVE  Places(p, bank, pubq, judged, held', inbox', rows) <= 1
  BY DEF OnePlace, Drain
<1>1. /\ TypeOK /\ IsFiniteSet(rows) /\ held \in Seq(Packets)
      /\ held' = <<>> /\ inbox' = Posted(held)
      /\ Places(p, bank, pubq, judged, held, inbox, rows) <= 1
  BY DEF IInv, TypeOK, OnePlace, Drain, drain_connect_arrivals, swapped_out
<1>2. /\ In(p, bank) \in Nat /\ Count(pubq, Of(p)) \in Nat
      /\ In(judged, {p}) \in Nat /\ Count(held, {p}) \in Nat
      /\ Count(inbox, {p}) \in Nat /\ Cardinality(RowsOf(p, rows)) \in Nat
      /\ In(p, bank) + Count(pubq, Of(p)) + In(judged, {p}) + Count(held, {p})
           + Count(inbox, {p}) + Cardinality(RowsOf(p, rows)) <= 1
  BY <1>1, PlacesType DEF Places
<1>3. Count(<<>>, {p}) = 0
  BY CountEmpty
<1>4. Count(held', {p}) = Count(<<>>, {p})
  BY <1>1, Zenon
<1>5. /\ Count(inbox', {p}) <= Count(inbox, {p}) + Count(held, {p})
      /\ Count(inbox', {p}) \in Nat
  BY <1>1, PostAdds
<1> QED
  BY <1>2, <1>3, <1>4, <1>5 DEF Places

(* An accepted message leaves the inbox for one row.                       *)
LEMMA AcceptMoves ==
  ASSUME IInv, OnePlace, AcceptMessage
  PROVE  OnePlace'
<1> DEFINE x == Head(inbox)
           row == <<x, bound>>
<1>1. /\ TypeOK /\ IsFiniteSet(rows) /\ inbox \in Seq(Packets) /\ inbox # <<>>
      /\ inbox' = Tail(inbox) /\ rows' = rows \cup {row}
      /\ row[1] = x
      /\ UNCHANGED <<bank, pubq, judged, held>>
  BY DEF IInv, TypeOK, OnePlace, AcceptMessage
<1>2. Tail(inbox) \in Seq(Packets)
  BY <1>1, QueueTail
<1> HIDE DEF x, row
<1>3. IsFiniteSet(rows')
  BY <1>1, FS_AddElement
<1> SUFFICES ASSUME NEW p \in Packets
             PROVE  Places(p, bank, pubq, judged, held, inbox', rows') <= 1
  BY <1>1, <1>3 DEF OnePlace
<1>4. /\ In(p, bank) \in Nat /\ Count(pubq, Of(p)) \in Nat
      /\ In(judged, {p}) \in Nat /\ Count(held, {p}) \in Nat
      /\ Count(inbox, {p}) \in Nat /\ Cardinality(RowsOf(p, rows)) \in Nat
      /\ In(p, bank) + Count(pubq, Of(p)) + In(judged, {p}) + Count(held, {p})
           + Count(inbox, {p}) + Cardinality(RowsOf(p, rows)) <= 1
  BY <1>1, PlacesType DEF Places, OnePlace
<1>5. Count(inbox, {p}) = In(x, {p}) + Count(inbox', {p}) /\ Count(inbox', {p}) \in Nat
  <2>1. Count(inbox, {p}) = In(Head(inbox), {p}) + Count(Tail(inbox), {p})
    BY <1>1, CountTail
  <2>2. Count(Tail(inbox), {p}) \in Nat
    BY <1>2, CountType
  <2> QED
    BY <1>1, <2>1, <2>2 DEF x
<1>6. Cardinality(RowsOf(p, rows')) <= Cardinality(RowsOf(p, rows)) + In(x, {p})
      /\ Cardinality(RowsOf(p, rows')) \in Nat
  <2>1. CASE x = p
    <3>1. RowsOf(p, rows') = RowsOf(p, rows) \cup {row}
      BY <1>1, <2>1 DEF RowsOf
    <3>2. IsFiniteSet(RowsOf(p, rows)) /\ In(x, {p}) = 1
      BY <1>1, <2>1, RowsType DEF In
    <3>3. Cardinality(RowsOf(p, rows) \cup {row})
            = IF row \in RowsOf(p, rows) THEN Cardinality(RowsOf(p, rows))
              ELSE Cardinality(RowsOf(p, rows)) + 1
      BY <3>2, FS_AddElement
    <3> QED
      BY <1>4, <3>1, <3>2, <3>3
  <2>2. CASE x # p
    <3>1. RowsOf(p, rows') = RowsOf(p, rows)
      BY <1>1, <2>2 DEF RowsOf
    <3>2. In(x, {p}) = 0
      BY <2>2 DEF In
    <3> QED
      BY <1>4, <3>1, <3>2
  <2> QED
    BY <2>1, <2>2
<1>7. In(x, {p}) \in Nat
  BY DEF In
<1> QED
  BY <1>4, <1>5, <1>6, <1>7 DEF Places

(* Every other step leaves the packets where they are: a failed attempt    *)
(* carries on what it holds, and a connect leaves the replay to the        *)
(* monitor.                                                                *)
LEMMA OthersMoveNothing ==
  ASSUME OnePlace, [Next]_vars,
         \A i \in Monitors : ~Drain(i),
         \A p \in Packets, n \in Interfaces : ~Deliver(p, n),
         ~(\E n \in Interfaces : LinkDies(n)), ~PublisherStep, ~AcceptMessage
  PROVE  OnePlace'
<1>1. ASSUME NEW i \in Monitors, MonitorStep(i) \/ DeviceGone(i)
      PROVE  UNCHANGED <<bank, pubq, judged, held, inbox, rows>>
  BY <1>1 DEF MonitorStep, DeviceMissing, Connect, OpenFails, carried, OpenSucceeds,
              defer_held, ReadRadioInfo, LeaveWatch, Retry, DeviceGone
<1>2. CASE HandleEvent \/ FinishSwitch
           \/ (\E device \in Devices : StopMonitor(device)) \/ UNCHANGED vars
  BY <1>2 DEF HandleEvent, FinishSwitch, StopMonitor, vars, OnePlace
<1>3. UNCHANGED <<bank, pubq, judged, held, inbox, rows>> => OnePlace'
  BY DEF OnePlace
<1> QED
  BY <1>1, <1>2, <1>3 DEF Next

LEMMA InitOnePlace == Init => OnePlace
<1> SUFFICES ASSUME Init PROVE OnePlace
  OBVIOUS
<1>1. /\ bank = Packets /\ pubq = <<>> /\ judged = None /\ held = <<>>
      /\ inbox = <<>> /\ rows = {}
  BY DEF Init
<1>2. IsFiniteSet(rows)
  BY <1>1, FS_EmptySet
<1> SUFFICES ASSUME NEW p \in Packets
             PROVE  Places(p, bank, pubq, judged, held, inbox, rows) <= 1
  BY <1>2 DEF OnePlace
<1>3. In(p, bank) = 1 /\ In(judged, {p}) = 0
  BY <1>1, ReceptionAssumption DEF In
<1>4. Count(pubq, Of(p)) = 0 /\ Count(held, {p}) = 0 /\ Count(inbox, {p}) = 0
  BY <1>1, CountEmpty
<1>5. Cardinality(RowsOf(p, rows)) = 0
  <2>1. RowsOf(p, rows) = {}
    BY <1>1 DEF RowsOf
  <2> QED
    BY <2>1, FS_EmptySet
<1> QED
  BY <1>3, <1>4, <1>5 DEF Places

LEMMA StepOnePlace == IInv /\ OnePlace /\ [Next]_vars => OnePlace'
<1> SUFFICES ASSUME IInv, OnePlace, [Next]_vars PROVE OnePlace'
  OBVIOUS
<1>1. ASSUME NEW i \in Monitors, Drain(i) PROVE OnePlace'
  BY <1>1, DrainMoves
<1>2. ASSUME NEW p \in Packets, NEW n \in Interfaces, Deliver(p, n) PROVE OnePlace'
  BY <1>2, DeliverMoves
<1> QED
  BY <1>1, <1>2, LinkDiesMoves, PublisherMoves, AcceptMoves, OthersMoveNothing

(* The sum of the property, term by term.                                  *)
LEMMA OnePlaceIsOnce == IInv /\ OnePlace => NothingReplayedTwice
<1> SUFFICES ASSUME IInv, OnePlace, NEW p \in Packets
             PROVE  Cardinality({b \in bank : b = p}) + Cardinality(Waiting(p))
                    + (IF judged = p THEN 1 ELSE 0)
                    + Times(p, held) + Times(p, inbox)
                    + Cardinality({r \in rows : r[1] = p}) <= 1
  BY DEF NothingReplayedTwice
<1>1. TypeOK /\ IsFiniteSet(rows) /\ pubq \in Seq(Publications)
  BY DEF IInv, TypeOK, OnePlace
<1>2. /\ In(p, bank) \in Nat /\ Count(pubq, Of(p)) \in Nat
      /\ In(judged, {p}) \in Nat /\ Count(held, {p}) \in Nat
      /\ Count(inbox, {p}) \in Nat /\ Cardinality(RowsOf(p, rows)) \in Nat
      /\ In(p, bank) + Count(pubq, Of(p)) + In(judged, {p}) + Count(held, {p})
           + Count(inbox, {p}) + Cardinality(RowsOf(p, rows)) <= 1
  BY <1>1, PlacesType DEF Places, OnePlace
<1>3. Cardinality({b \in bank : b = p}) = In(p, bank)
  <2>1. CASE p \in bank
    <3>1. {b \in bank : b = p} = {p}
      BY <2>1
    <3>2. Cardinality({p}) = 1
      BY FS_Singleton
    <3> QED
      BY <2>1, <3>1, <3>2 DEF In
  <2>2. CASE p \notin bank
    <3>1. {b \in bank : b = p} = {}
      BY <2>2
    <3> QED
      BY <2>2, <3>1, FS_EmptySet DEF In
  <2> QED
    BY <2>1, <2>2
<1>4. Cardinality(Waiting(p)) = Count(pubq, Of(p))
  <2>1. \A k \in DOMAIN pubq : pubq[k] \in Publications
    BY <1>1
  <2>2. Waiting(p) = Where(pubq, Of(p))
    BY <2>1 DEF Waiting, Where, Of
  <2> QED
    BY <2>2 DEF Count
<1>5. (IF judged = p THEN 1 ELSE 0) = In(judged, {p})
  BY DEF In
<1>6. Times(p, held) = Count(held, {p}) /\ Times(p, inbox) = Count(inbox, {p})
  <2>1. \A s : {k \in DOMAIN s : s[k] = p} = Where(s, {p})
    BY DEF Where
  <2> QED
    BY <2>1 DEF Times, Count
<1>7. Cardinality({r \in rows : r[1] = p}) = Cardinality(RowsOf(p, rows))
  BY DEF RowsOf
<1> QED
  BY <1>2, <1>3, <1>4, <1>5, <1>6, <1>7

(* Nothing is replayed twice: whatever attempts fail, whatever devices are *)
(* switched to, a packet is in at most one of the places between its radio *)
(* and the table, and is stored under one profile at most.                 *)
THEOREM NothingTwice == Spec => []NothingReplayedTwice
BY Inductive, InitOnePlace, StepOnePlace, OnePlaceIsOnce, PTL DEF Spec
=============================================================================

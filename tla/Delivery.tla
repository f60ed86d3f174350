------------------------------ MODULE Delivery ------------------------------
(***************************************************************************)
(* The life of an outgoing message of MeshtasticPass: composed on the UI   *)
(* thread, written to SQLite, handed to the Meshtastic SDK by a worker     *)
(* thread, acknowledged (or not) through two independent callback paths,   *)
(* timed out, resent by hand, deleted, reloaded from the store, and cut    *)
(* short by a crash.                                                       *)
(*                                                                         *)
(* Actors: the UI thread (handlers run one at a time, events in FIFO       *)
(* order), one worker thread per send, the SDK reader thread (one-shot     *)
(* onAckNak), the SDK publishing thread (pubsub, _on_routing_response),    *)
(* the 0.45 s delivery timer, the mesh, and the process itself.            *)
(***************************************************************************)
EXTENDS Naturals, Sequences, FiniteSets

CONSTANTS
  Messages,        \* message slots; each is one row of the messages table
  DirectMessages,  \* those addressed to one node (dm_node_id is set)
  MaxLoads,        \* bound: ChatEntry objects ever built for one message
  MaxGen,          \* bound: send generations of one ChatEntry
  MaxResponses,    \* bound: routing responses the mesh ever sends
  MaxFaults,       \* bound: store transactions that raise ChatStoreError
  MidSessionReload \* may the view be rebuilt while the process runs?

ASSUME DeliveryAssumption ==
  /\ DirectMessages \subseteq Messages
  /\ MaxLoads \in Nat \ {0}
  /\ MaxGen \in Nat \ {0}
  /\ MaxResponses \in Nat
  /\ MaxFaults \in Nat
  /\ MidSessionReload \in BOOLEAN

Objects == Messages \X (1..MaxLoads)   \* <<message, n-th ChatEntry for it>>
Sends   == Objects \X (1..MaxGen)      \* <<ChatEntry, send_generation>>

(* No packet id, no chronological move.                                    *)
NoSend == <<>>

DeliveryStates ==
  {"SENDING", "SENT", "HEARD", "UNCONFIRMED", "FAILED", "INTERRUPTED"}

(* What the mesh can answer to a packet: an implicit ack of the local      *)
(* radio, an ack from a remote node that counts, a routing error, an ack   *)
(* of a node that is not the destination of a direct message.              *)
Responses == {"implicit", "remote", "nak", "other"}

(* What is known to have happened to a send; "refused" is a RadioSendError *)
Outcomes == Responses \cup {"refused"}

VARIABLES
  up,        \* the process is running
  online,    \* the monitor holds an interface and the UI shows ONLINE
  unresolved,\* _profile_pending_resolution: a bound profile lost its radio
  shown,     \* index of the ChatEntry listed for a message, 0 for none
  loads,     \* ChatEntry objects built so far for a message
  entry,     \* the ChatEntry objects
  row,       \* the message's row and its send_attempts rows
  worker,    \* program counter of the worker thread of a send
  oneShot,   \* sends whose onAckNak handler the SDK still holds
  pending,   \* RadioService._pending_sends
  pubq,      \* the SDK publishing thread's queue
  uiq,       \* the UI thread's message queue
  evidence,  \* history: what has happened to each send
  faults     \* store transactions that have failed

vars == <<up, online, unresolved, shown, loads, entry, row, worker, oneShot,
          pending, pubq, uiq, evidence, faults>>

memory == <<shown, loads, entry>>
radio  == <<worker, oneShot, pending, pubq, evidence>>
link   == <<up, online, unresolved>>

-----------------------------------------------------------------------------
(* ChatEntry and row values.                                               *)

(* Bug: RESEND offered for a message that already went out.                *)
ResendAfterSent == {"UNCONFIRMED", "FAILED", "INTERRUPTED", "SENT"}

ManualResendStates == {"UNCONFIRMED", "FAILED", "INTERRUPTED"}

Entries ==
  [state : DeliveryStates, gen : 0..MaxGen, attempt : Nat, stored : BOOLEAN,
   packet : Sends \cup {NoSend}, deadline : BOOLEAN, deleted : BOOLEAN]

Rows ==
  [state : DeliveryStates \cup {"absent"}, attempts : Seq(DeliveryStates),
   packet : Sends \cup {NoSend}, placed : Sends \cup {NoSend}]

NoRow ==
  [state |-> "absent", attempts |-> <<>>, packet |-> NoSend, placed |-> NoSend]

(* The value of an object that is not in memory.                           *)
Blank ==
  [state |-> "INTERRUPTED", gen |-> 0, attempt |-> 0, stored |-> FALSE,
   packet |-> NoSend, deadline |-> FALSE, deleted |-> FALSE]

(* The entry _start_outgoing builds, before it is persisted.               *)
outgoing_chat_entry == [Blank EXCEPT !.state = "SENDING", !.gen = 1]

(* A row read back: SENDING reads INTERRUPTED, nothing process-local       *)
(* (generation, attempt, deadline) survives.                               *)
stored_chat_entry(r) ==
  [Blank EXCEPT !.state  = IF r.state = "SENDING" THEN "INTERRUPTED" ELSE r.state,
                !.stored = TRUE,
                !.packet = r.packet]

MessageOf(o) == o[1]
Present(m)   == row[m].state # "absent"
Listed(o)    == up /\ shown[o[1]] = o[2]
ListedObjects == {o \in Objects : Listed(o)}
can_manual_resend(o) == entry[o].state \in ManualResendStates

(* The send the entry is waiting for.                                      *)
Current(o) == <<o, entry[o].gen>>

-----------------------------------------------------------------------------
(* Store transactions.                                                     *)

(* Bug: WHERE message_id = ? without id = ?.                               *)
UpdateEveryAttempt(r, e) ==
  IF r.state = "absent" \/ ~e.stored THEN r
  ELSE [r EXCEPT !.state = e.state,
                 !.attempts = [i \in DOMAIN @ |-> e.state]]

(* UPDATE messages ... and the entry's own send_attempts row.              *)
update_delivery_state(r, e) ==
  IF r.state = "absent" \/ ~e.stored THEN r
  ELSE [r EXCEPT !.state    = e.state,
                 !.packet   = IF e.packet = NoSend THEN @ ELSE e.packet,
                 !.attempts = IF e.attempt \in DOMAIN @
                              THEN [@ EXCEPT ![e.attempt] = e.state]
                              ELSE @]

update_message_chronology(r, s) ==
  IF r.state = "absent" THEN r ELSE [r EXCEPT !.placed = s]

(* Bug: the startup pass forgets the send_attempts table.                  *)
ReconcileMessagesOnly(r) ==
  [r EXCEPT !.state = IF @ = "SENDING" THEN "INTERRUPTED" ELSE @]

(* The startup pass of ChatStore.open(): every abandoned SENDING, in both  *)
(* tables, becomes INTERRUPTED.                                            *)
reconcile_abandoned_sending(r) ==
  [r EXCEPT !.state    = IF @ = "SENDING" THEN "INTERRUPTED" ELSE @,
            !.attempts = [i \in DOMAIN @ |->
                            IF @[i] = "SENDING" THEN "INTERRUPTED" ELSE @[i]]]

(* A transaction commits, or raises ChatStoreError: every handler reports  *)
(* that and goes on.                                                       *)
Commit(m, r) == row' = [row EXCEPT ![m] = r] /\ faults' = faults

Fail(n) == faults + n <= MaxFaults /\ faults' = faults + n

CommitOrFail(m, r) == Commit(m, r) \/ (Fail(1) /\ UNCHANGED row)

-----------------------------------------------------------------------------
(* UI thread: compose, resend, delete.                                     *)

Post(e) == uiq' = Append(uiq, e)

(* run_worker(_send_from_thread(entry, generation)).                       *)
StartWorker(s) == worker' = [worker EXCEPT ![s] = "calling"]

(* send_chat_message / dm_input_submitted: a new entry, two transactions   *)
(* (add_outgoing, add_send_attempt) either of which may fail.              *)
Compose(m) ==
  LET o == <<m, 1>>
      e == outgoing_chat_entry
  IN
  /\ up /\ online /\ loads[m] = 0 /\ ~Present(m)
  /\ loads' = [loads EXCEPT ![m] = 1]
  /\ shown' = [shown EXCEPT ![m] = 1]
  /\ \/ /\ row' = [row EXCEPT ![m] = [NoRow EXCEPT !.state = "SENDING",
                                                   !.attempts = <<"SENDING">>,
                                                   !.placed = <<o, 1>>]]
        /\ entry' = [entry EXCEPT ![o] = [e EXCEPT !.attempt = 1, !.stored = TRUE]]
        /\ UNCHANGED faults
     \/ /\ Fail(1)
        /\ \/ /\ row' = [row EXCEPT ![m] = [NoRow EXCEPT !.state = "SENDING",
                                                         !.placed = <<o, 1>>]]
              /\ entry' = [entry EXCEPT ![o] = [e EXCEPT !.stored = TRUE]]
           \/ /\ entry' = [entry EXCEPT ![o] = e]
              /\ UNCHANGED row
  /\ StartWorker(<<o, 1>>)
  /\ UNCHANGED <<link, oneShot, pending, pubq, uiq, evidence>>

(* _rebroadcast: add_send_attempt, update_delivery_state, and the update   *)
(* of _set_delivery_state.  When the insert fails, active_attempt_id keeps *)
(* the previous attempt and the last update rewrites that one.             *)
Rebroadcast(o) ==
  LET m  == MessageOf(o)
      e  == [entry[o] EXCEPT !.state = "SENDING", !.gen = @ + 1,
                             !.packet = NoSend, !.deadline = FALSE]
      ok == e.stored /\ Present(m)
      r1 == [row[m] EXCEPT !.attempts = Append(@, "SENDING")]
      e1 == [e EXCEPT !.attempt = Len(r1.attempts)]
  IN
  /\ Listed(o) /\ can_manual_resend(o) /\ entry[o].gen < MaxGen
  /\ \/ /\ ok
        /\ entry' = [entry EXCEPT ![o] = e1]
        /\ \/ Commit(m, update_delivery_state(r1, e1))
           \/ Fail(2) /\ row' = [row EXCEPT ![m] = r1]
     \/ /\ ok
        /\ entry' = [entry EXCEPT ![o] = e]
        /\ \/ Fail(1) /\ row' = [row EXCEPT ![m] = update_delivery_state(@, e)]
           \/ Fail(2) /\ UNCHANGED row
     \/ /\ ~ok
        /\ entry' = [entry EXCEPT ![o] = [e EXCEPT !.attempt = 0]]
        /\ UNCHANGED <<row, faults>>
  /\ StartWorker(<<o, e.gen>>)
  /\ UNCHANGED <<link, shown, loads, oneShot, pending, pubq, uiq, evidence>>

(* _delete_chat_entry / _delete_dm_entry: the deleted mark first, then the *)
(* radio-layer correlation, the list, the rows.                            *)
DeleteEntry(o) ==
  LET m == MessageOf(o) IN
  /\ Listed(o) /\ can_manual_resend(o)
  /\ entry' = [entry EXCEPT ![o].deleted = TRUE]
  /\ pending' = pending \ {entry[o].packet}
  /\ shown' = [shown EXCEPT ![m] = 0]
  /\ CommitOrFail(m, IF entry[o].stored THEN NoRow ELSE row[m])
  /\ UNCHANGED <<link, loads, worker, oneShot, pubq, uiq, evidence>>

-----------------------------------------------------------------------------
(* UI thread: the three delivery events and the timer.                     *)

(* Bug: the deadline set by send_was_submitted is retired at once.         *)
WithoutDeadline(e, state, packet) ==
  [e EXCEPT !.state = state, !.deadline = FALSE,
            !.packet = IF packet = NoSend THEN @ ELSE packet]

(* _set_delivery_state(entry, state, packet_id) for an entry in state e    *)
(* (the caller may have changed fields first): what the entry becomes.     *)
(* Any state but SENDING retires the confirmation deadline.                *)
WithState(e, state, packet) ==
  [e EXCEPT !.state    = state,
            !.packet   = IF packet = NoSend THEN @ ELSE packet,
            !.deadline = @ /\ state = "SENDING"]

(* A manual resend that enters the mesh moves the message in time.         *)
Moves(e, state) ==
  /\ e.gen > 1 /\ e.state = "SENDING"
  /\ state \in {"SENT", "HEARD"}

(* The row after _update_effective_transmission_time.                      *)
MovedRow(o, e, state) ==
  IF Moves(e, state) /\ e.stored
  THEN update_message_chronology(row[o[1]], <<o, e.gen>>)
  ELSE row[o[1]]

(* The whole of _set_delivery_state, its two transactions included.        *)
SetDeliveryState(o, e, state, packet) ==
  LET m     == MessageOf(o)
      e1    == WithState(e, state, packet)
      moved == MovedRow(o, e, state)
  IN
  /\ entry' = [entry EXCEPT ![o] = e1]
  /\ \/ Commit(m, update_delivery_state(moved, e1))
     \/ Fail(1) /\ row' = [row EXCEPT ![m] = moved]
     \/ /\ Fail(IF moved = row[m] THEN 1 ELSE 2)
        /\ UNCHANGED row
     \/ /\ moved # row[m] /\ Fail(1)
        /\ row' = [row EXCEPT ![m] = update_delivery_state(@, e1)]

(* The handlers' first guard: a deleted entry or an earlier generation.    *)
Stale(e) ==
  LET o == e.send[1] IN entry[o].deleted \/ e.send[2] # entry[o].gen

Dequeue(type) == uiq # <<>> /\ Head(uiq).type = type /\ uiq' = Tail(uiq)

(* Bug: every SendSubmitted reopens the entry.                             *)
SubmittedReopens(old) == IF old = "SENDING" THEN old ELSE "SENDING"

(* Bug: local acceptance counts as SENT.                                   *)
SubmittedIsSent(old) == IF old \in {"HEARD", "FAILED"} THEN old ELSE "SENT"

(* What send_was_submitted makes of the state it finds: acceptance by the  *)
(* SDK is no delivery evidence.                                            *)
SubmittedState(old) == IF old \in {"HEARD", "FAILED"} THEN old ELSE "SENDING"

SendWasSubmitted ==
  LET e    == Head(uiq)
      o    == e.send[1]
      next == SubmittedState(entry[o].state)
  IN
  /\ Dequeue("submitted") /\ ~Stale(e)
  /\ SetDeliveryState(o, [entry[o] EXCEPT !.packet = e.send,
                                          !.deadline = next = "SENDING"],
                      next, e.send)
  /\ UNCHANGED <<link, shown, loads, radio>>

SendFailed ==
  LET e == Head(uiq)
      o == e.send[1]
  IN
  /\ Dequeue("failed") /\ ~Stale(e)
  /\ SetDeliveryState(o, entry[o], "FAILED", NoSend)
  /\ UNCHANGED <<link, shown, loads, radio>>

(* A routing status the handler drops: another packet's, or one that comes *)
(* after the strongest state.                                              *)
Superseded(e) ==
  LET o == e.send[1] IN
  \/ entry[o].packet \notin {NoSend, e.send}
  \/ entry[o].state \in {"HEARD", "FAILED"}

DeliveryStatusReceived ==
  LET e == Head(uiq)
      o == e.send[1]
  IN
  /\ Dequeue("status") /\ ~Stale(e) /\ ~Superseded(e)
  /\ SetDeliveryState(o, entry[o], e.state, e.send)
  /\ UNCHANGED <<link, shown, loads, radio>>

(* The early returns of the three handlers.                                *)
IgnoreEvent ==
  /\ uiq # <<>> /\ uiq' = Tail(uiq)
  /\ \/ Stale(Head(uiq))
     \/ Head(uiq).type = "status" /\ Superseded(Head(uiq))
  /\ UNCHANGED <<link, memory, row, radio, faults>>

(* The SENDING entries in some list whose deadline may have passed; an     *)
(* entry no list holds is not looked at.                                   *)
Overdue == {o \in ListedObjects : entry[o].state = "SENDING" /\ entry[o].deadline}

(* One tick gives up every entry whose deadline has passed.  The store     *)
(* takes all of a tick's updates or, in one fault, none.                   *)
AdvanceDeliveryStates ==
  \E expired \in SUBSET Overdue :
    LET gone(m) == shown[m] # 0 /\ <<m, shown[m]>> \in expired
        new(o)  == WithState(entry[o], "UNCONFIRMED", NoSend)
    IN
    /\ expired # {}
    /\ entry' = [o \in Objects |-> IF o \in expired THEN new(o) ELSE entry[o]]
    /\ \/ /\ row' = [m \in Messages |->
                       IF gone(m)
                       THEN update_delivery_state(row[m], new(<<m, shown[m]>>))
                       ELSE row[m]]
          /\ UNCHANGED faults
       \/ Fail(1) /\ UNCHANGED row
    /\ UNCHANGED <<link, shown, loads, radio, uiq>>

-----------------------------------------------------------------------------
(* Worker thread: RadioService.send_text, then the post to the UI.         *)

(* Inside sendText: the packet is with the radio, the SDK holds the        *)
(* one-shot.  Nothing bounds how long the call takes.                      *)
SubmitToSdk(s) ==
  /\ up /\ online /\ worker[s] = "calling"
  /\ worker' = [worker EXCEPT ![s] = "accepted"]
  /\ oneShot' = oneShot \cup {s}
  /\ UNCHANGED <<link, memory, row, pending, pubq, uiq, evidence, faults>>

(* RadioSendError: no interface, or the SDK raised.                        *)
RefuseSend(s) ==
  /\ up /\ worker[s] = "calling"
  /\ worker' = [worker EXCEPT ![s] = "done"]
  /\ evidence' = [evidence EXCEPT ![s] = @ \cup {"refused"}]
  /\ Post([type |-> "failed", send |-> s, state |-> "FAILED"])
  /\ UNCHANGED <<link, memory, row, oneShot, pending, pubq, faults>>

(* sendText has returned.                                                  *)
RegisterPendingSend(s) ==
  /\ up /\ worker[s] = "accepted"
  /\ worker' = [worker EXCEPT ![s] = "registered"]
  /\ pending' = pending \cup {s}
  /\ UNCHANGED <<link, memory, row, oneShot, pubq, uiq, evidence, faults>>

PostSubmitted(s) ==
  /\ up /\ worker[s] = "registered"
  /\ worker' = [worker EXCEPT ![s] = "submitted"]
  /\ Post([type |-> "submitted", send |-> s, state |-> "SENDING"])
  /\ UNCHANGED <<link, memory, row, oneShot, pending, pubq, evidence, faults>>

-----------------------------------------------------------------------------
(* The mesh and the SDK's two callback threads.                            *)

(* Bug: expected_destination_number is not compared.                       *)
AnyNodeConfirms(kind) ==
  CASE kind = "implicit" -> "SENT" [] kind = "nak" -> "FAILED" [] OTHER -> "HEARD"

(* _parse_send_response; "none" is the None that carries no evidence.      *)
parse_send_response(kind) ==
  CASE kind = "implicit" -> "SENT"
    [] kind = "remote"   -> "HEARD"
    [] kind = "nak"      -> "FAILED"
    [] kind = "other"    -> "none"

(* Bug: a response without evidence is forwarded.                          *)
AnyStatus(status) == status = status

(* "if status is not None", in both callbacks.                             *)
IsStatus(status) == status # "none"

Answers == {a \in Sends \X Responses : a[2] \in evidence[a[1]]}

(* The radio has the packet: its answer may well overtake the worker's own *)
(* SendSubmitted.                                                          *)
OnAir(s) == worker[s] \in {"accepted", "registered", "submitted"}

(* The reader thread: a routing response consumes the one-shot handler, if *)
(* it is still there, and is queued for the publishing thread.             *)
RoutingResponse(s, kind) ==
  LET status == parse_send_response(kind) IN
  /\ up /\ online /\ OnAir(s) /\ kind \notin evidence[s]
  /\ kind = "other" => s[1][1] \in DirectMessages
  /\ Cardinality(Answers) < MaxResponses
  /\ evidence' = [evidence EXCEPT ![s] = @ \cup {kind}]
  /\ oneShot' = oneShot \ {s}
  /\ IF s \in oneShot /\ IsStatus(status)
     THEN Post([type |-> "status", send |-> s, state |-> status])
     ELSE UNCHANGED uiq
  /\ pubq' = Append(pubq, [send |-> s, kind |-> kind])
  /\ UNCHANGED <<link, memory, row, worker, pending, faults>>

(* The publishing thread: _on_routing_response forwards a response to a    *)
(* send it still tracks, and stops tracking after a conclusive one.        *)
OnRoutingResponse ==
  LET s == Head(pubq).send
      status == parse_send_response(Head(pubq).kind)
      tracked == s \in pending /\ IsStatus(status)
  IN
  /\ pubq # <<>>
  /\ pubq' = Tail(pubq)
  /\ IF tracked
     THEN Post([type |-> "status", send |-> s, state |-> status])
     ELSE UNCHANGED uiq
  /\ pending' = IF tracked /\ status \in {"HEARD", "FAILED"}
                THEN pending \ {s} ELSE pending
  /\ UNCHANGED <<link, memory, row, worker, oneShot, evidence, faults>>

-----------------------------------------------------------------------------
(* The view is rebuilt from the rows while the process runs.               *)

CanLoad(m) == loads[m] < MaxLoads

(* New ChatEntry objects for the messages of M whose row exists; what was  *)
(* listed for the others of M is dropped.                                  *)
LoadView(M) ==
  LET L == {m \in M : Present(m)} IN
  /\ \A m \in L : CanLoad(m)
  /\ loads' = [m \in Messages |-> IF m \in L THEN loads[m] + 1 ELSE loads[m]]
  /\ shown' = [m \in Messages |-> IF m \in L THEN loads[m] + 1
                                  ELSE IF m \in M THEN 0 ELSE shown[m]]
  /\ entry' = [o \in Objects |->
                 IF o[1] \in L /\ o[2] = loads[o[1]] + 1
                 THEN stored_chat_entry(row[o[1]]) ELSE entry[o]]

ChannelMessages == Messages \ DirectMessages

(* The interface is gone: CONNECTING with no identity.  What the old       *)
(* interface still publishes fails the staleness test of                   *)
(* _on_routing_response; its one-shot handlers die with it.                *)
LoseLink ==
  /\ up /\ online
  /\ MidSessionReload
  /\ \A m \in ChannelMessages : Present(m) => CanLoad(m)
  /\ online' = FALSE /\ unresolved' = TRUE
  /\ oneShot' = {} /\ pubq' = <<>>
  /\ UNCHANGED <<up, memory, row, worker, pending, uiq, evidence, faults>>

(* ONLINE again with the same profile: after an unresolved window          *)
(* _activate_local_profile reloads the channel view, keeping direct        *)
(* messages; on the first connect of the process it does not.              *)
Reconnect ==
  /\ up /\ ~online
  /\ online' = TRUE /\ unresolved' = FALSE
  /\ IF unresolved THEN LoadView(ChannelMessages) ELSE UNCHANGED memory
  /\ UNCHANGED <<up, row, radio, uiq, faults>>

(* _trim_mounted_chat_window: enough newer messages push a stored one out. *)
TrimFromWindow(m) ==
  /\ up /\ MidSessionReload /\ m \in ChannelMessages
  /\ shown[m] # 0 /\ entry[<<m, shown[m]>>].stored /\ CanLoad(m)
  /\ shown' = [shown EXCEPT ![m] = 0]
  /\ UNCHANGED <<link, loads, entry, row, radio, uiq, faults>>

(* load_older_chat_history brings it back from the store.                  *)
LoadOlder(m) ==
  /\ up /\ m \in ChannelMessages /\ shown[m] = 0 /\ Present(m)
  /\ LoadView({m})
  /\ UNCHANGED <<link, row, radio, uiq, faults>>

-----------------------------------------------------------------------------
(* The process.                                                            *)

Die ==
  /\ up' = FALSE /\ online' = FALSE /\ unresolved' = FALSE
  /\ shown' = [m \in Messages |-> 0]
  /\ entry' = [o \in Objects |-> Blank]
  /\ worker' = [s \in Sends |-> "none"]
  /\ oneShot' = {} /\ pending' = {} /\ pubq' = <<>> /\ uiq' = <<>>
  /\ UNCHANGED <<loads, evidence, faults>>

CanRestart == \A m \in Messages : Present(m) => CanLoad(m)

Crash == up /\ CanRestart /\ Die /\ UNCHANGED row

(* A crash between the two transactions of _persist_outgoing.              *)
CrashInCompose(m) ==
  /\ up /\ online /\ loads[m] = 0 /\ CanRestart
  /\ row' = [row EXCEPT ![m] = [NoRow EXCEPT !.state = "SENDING",
                                             !.placed = <<<<m, 1>>, 1>>]]
  /\ Die

(* A crash between the two transactions of _persist_new_attempt.           *)
CrashInRebroadcast(o) ==
  LET m == MessageOf(o) IN
  /\ Listed(o) /\ can_manual_resend(o) /\ entry[o].gen < MaxGen
  /\ entry[o].stored /\ Present(m) /\ CanRestart
  /\ row' = [row EXCEPT ![m].attempts = Append(@, "SENDING")]
  /\ Die

(* A crash between the two transactions of a confirmed resend: the message *)
(* has moved, its state has not been written.                              *)
CrashInConfirmation ==
  LET e == Head(uiq)
      o == e.send[1]
  IN
  /\ up /\ uiq # <<>> /\ CanRestart
  /\ e.type = "status" /\ ~Stale(e) /\ ~Superseded(e)
  /\ Moves(entry[o], e.state)
  /\ row' = [row EXCEPT ![o[1]] = MovedRow(o, entry[o], e.state)]
  /\ Die

(* on_unmount: every listed SENDING entry is persisted as INTERRUPTED      *)
(* before the store closes.                                                *)
Shutdown ==
  LET Given(m)  == shown[m] # 0 /\ entry[<<m, shown[m]>>].state = "SENDING"
      Final(m)  == [entry[<<m, shown[m]>>] EXCEPT !.state = "INTERRUPTED",
                                                   !.packet = NoSend]
  IN
  /\ up /\ CanRestart
  /\ row' = [m \in Messages |->
               IF Given(m) THEN update_delivery_state(row[m], Final(m)) ELSE row[m]]
  /\ Die

(* A new process: ChatStore.open() reconciles, then the history is loaded. *)
Start ==
  LET reconciled == [m \in Messages |-> reconcile_abandoned_sending(row[m])] IN
  /\ ~up
  /\ up' = TRUE
  /\ row' = reconciled
  /\ loads' = [m \in Messages |-> IF Present(m) THEN loads[m] + 1 ELSE loads[m]]
  /\ shown' = [m \in Messages |-> IF Present(m) THEN loads[m] + 1 ELSE 0]
  /\ entry' = [o \in Objects |->
                 IF Present(o[1]) /\ o[2] = loads[o[1]] + 1
                 THEN stored_chat_entry(reconciled[o[1]]) ELSE entry[o]]
  /\ UNCHANGED <<online, unresolved, radio, uiq, faults>>

-----------------------------------------------------------------------------
Init ==
  /\ up = TRUE /\ online = TRUE /\ unresolved = FALSE
  /\ shown = [m \in Messages |-> 0]
  /\ loads = [m \in Messages |-> 0]
  /\ entry = [o \in Objects |-> Blank]
  /\ row = [m \in Messages |-> NoRow]
  /\ worker = [s \in Sends |-> "none"]
  /\ oneShot = {} /\ pending = {}
  /\ pubq = <<>> /\ uiq = <<>>
  /\ evidence = [s \in Sends |-> {}]
  /\ faults = 0

UserStep ==
  \/ \E m \in Messages : Compose(m)
  \/ \E o \in Objects : Rebroadcast(o) \/ DeleteEntry(o)

UiStep ==
  \/ SendWasSubmitted \/ SendFailed \/ DeliveryStatusReceived \/ IgnoreEvent

WorkerStep(s) ==
  \/ SubmitToSdk(s) \/ RefuseSend(s)
  \/ RegisterPendingSend(s) \/ PostSubmitted(s)

ViewStep ==
  \/ LoseLink \/ Reconnect
  \/ \E m \in Messages : TrimFromWindow(m) \/ LoadOlder(m)

ProcessStep ==
  \/ Crash \/ CrashInConfirmation \/ Shutdown \/ Start
  \/ \E m \in Messages : CrashInCompose(m)
  \/ \E o \in Objects : CrashInRebroadcast(o)

Next ==
  \/ UserStep \/ UiStep \/ AdvanceDeliveryStates
  \/ \E s \in Sends : WorkerStep(s)
  \/ \E s \in Sends, kind \in Responses : RoutingResponse(s, kind)
  \/ OnRoutingResponse
  \/ ViewStep \/ ProcessStep

Spec == Init /\ [][Next]_vars

(* The UI loop, the timer and a worker that is back from the SDK keep      *)
(* running while the process does; nothing is assumed of the user, the     *)
(* mesh, the link or the SDK, whose sendText may never return.             *)
Fairness ==
  /\ WF_vars(UiStep)
  /\ WF_vars(AdvanceDeliveryStates)
  /\ \A s \in Sends : WF_vars(PostSubmitted(s))

FairSpec == Spec /\ Fairness

-----------------------------------------------------------------------------
(* Properties.                                                             *)

UiEvents ==
  [type : {"submitted", "failed", "status"}, send : Sends, state : DeliveryStates]

Publications == [send : Sends, kind : Responses]

(* Every variable has its type.                                            *)
TypeOK ==
  /\ up \in BOOLEAN /\ online \in BOOLEAN /\ unresolved \in BOOLEAN
  /\ shown \in [Messages -> 0..MaxLoads]
  /\ loads \in [Messages -> 0..MaxLoads]
  /\ entry \in [Objects -> Entries]
  /\ row \in [Messages -> Rows]
  /\ worker \in [Sends -> {"none", "calling", "accepted", "registered",
                           "submitted", "done"}]
  /\ oneShot \subseteq Sends /\ pending \subseteq Sends
  /\ pubq \in Seq(Publications)
  /\ uiq \in Seq(UiEvents)
  /\ evidence \in [Sends -> SUBSET Outcomes]
  /\ faults \in Nat

(* What a delivery state claims about a send, checked against what really  *)
(* happened to it.                                                         *)
Backed(state, known) ==
  /\ state = "HEARD"  => "remote" \in known
  /\ state = "SENT"   => "implicit" \in known
  /\ state = "FAILED" => known \cap {"nak", "refused"} # {}

SendsOf(m) == {s \in Sends : s[1][1] = m}

(* The user is never shown more than is known: an entry that says HEARD,   *)
(* SENT or FAILED does so on evidence of its CURRENT generation, whatever  *)
(* acknowledgements of earlier sends are still on their way through the    *)
(* two callback paths and the UI queue.                                    *)
EntryTruthful ==
  \A o \in Objects : entry[o].gen > 0 => Backed(entry[o].state, evidence[Current(o)])

(* The same of the database, across crashes, reloads and store faults: a   *)
(* persisted HEARD, SENT or FAILED is backed by some send of that message. *)
RowTruthful ==
  \A m \in Messages : \A st \in {"HEARD", "SENT", "FAILED"} :
    row[m].state = st => \E s \in SendsOf(m) : Backed(st, evidence[s])

(* HEARD and FAILED are final until the user resends or the process ends:  *)
(* neither a late SendSubmitted, a duplicate routing response nor the      *)
(* timer changes them.                                                     *)
FinalWithinGeneration ==
  [][\A o \in Objects :
       (/\ up' /\ entry[o].state \in {"HEARD", "FAILED"}
        /\ entry[o].gen > 0 /\ entry[o].gen = entry'[o].gen)
       => entry'[o].state = entry[o].state]_vars

(* No SENDING is left behind by a process that no longer exists, in either *)
(* table: while the process runs, a SENDING row or attempt is one a live   *)
(* entry is still waiting for.  (With a store fault the row may lag.)      *)
NoAbandonedSending ==
  up => \A m \in Messages :
    LET waiting == {k \in 1..loads[m] : entry[<<m, k>>].state = "SENDING"} IN
    /\ row[m].state = "SENDING" => waiting # {}
    /\ \A i \in DOMAIN row[m].attempts :
         row[m].attempts[i] = "SENDING" =>
           \E k \in waiting : entry[<<m, k>>].attempt = i

(* send_attempts keeps one row per transmission: once a newer attempt      *)
(* exists, nothing but deleting the message changes an older one.          *)
AttemptsAreHistory ==
  [][\A m \in Messages :
       row'[m].state = "absent" \/
       \A i \in DOMAIN row[m].attempts :
         i < Len(row[m].attempts) =>
           /\ i \in DOMAIN row'[m].attempts
           /\ row'[m].attempts[i] = row[m].attempts[i]]_vars

(* The worker of a send has not come back from the SDK.                    *)
InsideSdk(s) == worker[s] \in {"calling", "accepted"}

Waiting(o) == Listed(o) /\ entry[o].state = "SENDING"

(* A send the user can see is eventually answered, given up or cut short   *)
(* once its sendText has returned, whatever its answers and the order of   *)
(* its events: the one message that may animate as SENDING for ever is one *)
(* whose SDK call never ends, for the deadline is armed by its             *)
(* SendSubmitted and by nothing earlier.                                   *)
EverySendResolves ==
  \A o \in Objects :
    Waiting(o) /\ ~InsideSdk(Current(o)) ~> ~Waiting(o)

(* What the comment in send_was_submitted says: SENT is a genuine positive *)
(* routing confirmation, so an entry that reached it is not scheduled for  *)
(* a later downgrade to UNCONFIRMED by the same send.                      *)
SentIsNeverScheduled ==
  [][\A o \in Objects :
       (up' /\ entry[o].state = "SENT" /\ entry[o].gen = entry'[o].gen)
       => ~entry'[o].deadline]_vars

-----------------------------------------------------------------------------
(* Refinement of DeliveryPromise.                                          *)

(* The mark of a delivery state; a SENDING row of a dead process will read *)
(* INTERRUPTED.                                                            *)
Mark(state, live) ==
  CASE state = "SENDING" -> IF live THEN "open" ELSE "unknown"
    [] state = "SENT"    -> "sent"
    [] state = "HEARD"   -> "heard"
    [] state = "FAILED"  -> "failed"
    [] OTHER             -> "unknown"

MarkOf(m) ==
  IF up /\ shown[m] # 0 THEN Mark(entry[<<m, shown[m]>>].state, TRUE)
  ELSE IF Present(m)    THEN Mark(row[m].state, FALSE)
  ELSE IF loads[m] = 0  THEN "none" ELSE "gone"

(* The UI thread has yet to learn that this send left.                     *)
Unopened(s) ==
  \/ worker[s] \in {"calling", "accepted", "registered"}
  \/ \E i \in DOMAIN uiq : uiq[i].type = "submitted" /\ uiq[i].send = s

UnopenedMessage(m) ==
  /\ up /\ shown[m] # 0 /\ entry[<<m, shown[m]>>].gen > 0
  /\ Unopened(Current(<<m, shown[m]>>))

Promise == INSTANCE DeliveryPromise WITH
  status <- [m \in Messages |-> MarkOf(m)],
  known  <- [m \in Messages |-> UNION {evidence[s] : s \in SendsOf(m)}],
  fresh  <- [m \in Messages |-> UnopenedMessage(m)]

(* Every step of the threads, the queues and the database is a step of the *)
(* promise, or invisible to it.                                            *)
KeepsPromise == Promise!Spec
=============================================================================

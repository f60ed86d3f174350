--------------------------- MODULE DeliveryProofs ---------------------------
(***************************************************************************)
(* Theorems about Delivery, for any number of messages, reloads, resends,  *)
(* responses and store faults: type correctness, and that neither an entry *)
(* on the screen nor a row of the database ever claims more than is known; *)
(* and, where the store does not fail, that nothing is left SENDING, that  *)
(* a row is the history of its message, and the promise of DeliveryPromise.*)
(***************************************************************************)
EXTENDS Delivery, TLAPS

-----------------------------------------------------------------------------
(* The shape of object and send names.                                     *)

LEMMA ObjectNames ==
  /\ \A o \in Objects : o[1] \in Messages /\ o[2] \in 1..MaxLoads /\ o = <<o[1], o[2]>>
  /\ \A m \in Messages, k \in 1..MaxLoads : <<m, k>> \in Objects
BY DEF Objects

LEMMA SendNames ==
  /\ \A s \in Sends : s[1] \in Objects /\ s[2] \in 1..MaxGen /\ s = <<s[1], s[2]>>
  /\ \A o \in Objects, g \in 1..MaxGen : <<o, g>> \in Sends
BY DEF Sends

(* Queues.                                                                 *)
LEMMA SendQueueTail ==
  ASSUME NEW S, NEW q \in Seq(S), q # <<>>
  PROVE  /\ Head(q) \in S
         /\ Tail(q) \in Seq(S)
         /\ Head(q) = q[1]
         /\ \A i \in DOMAIN Tail(q) : i + 1 \in DOMAIN q /\ Tail(q)[i] = q[i + 1]
OBVIOUS

LEMMA SendQueueAppend ==
  ASSUME NEW S, NEW q \in Seq(S), NEW e \in S
  PROVE  /\ Append(q, e) \in Seq(S)
         /\ \A i \in DOMAIN Append(q, e) :
              \/ i \in DOMAIN q /\ Append(q, e)[i] = q[i]
              \/ Append(q, e)[i] = e
OBVIOUS

(* A sequence with one element replaced.                                   *)
LEMMA SeqReplace ==
  ASSUME NEW S, NEW q \in Seq(S), NEW i \in DOMAIN q, NEW e \in S
  PROVE  [q EXCEPT ![i] = e] \in Seq(S)
OBVIOUS

-----------------------------------------------------------------------------
(* What the operators on rows and entries return.                          *)

LEMMA BlankType ==
  /\ Blank \in Entries /\ Blank.gen = 0 /\ Blank.state = "INTERRUPTED"
  /\ outgoing_chat_entry \in Entries
  /\ outgoing_chat_entry.gen = 1 /\ outgoing_chat_entry.state = "SENDING"
<1>1. 0 \in 0..MaxGen /\ 1 \in 0..MaxGen
  BY DeliveryAssumption
<1>2. NoSend \in Sends \cup {NoSend}
  OBVIOUS
<1>3. Blank \in Entries
  BY <1>1, <1>2 DEF Blank, Entries, DeliveryStates
<1>4. Blank.gen = 0 /\ Blank.state = "INTERRUPTED"
  BY DEF Blank
<1>5. outgoing_chat_entry \in Entries
  BY <1>1, <1>3 DEF outgoing_chat_entry, Entries, DeliveryStates
<1>6. outgoing_chat_entry.gen = 1 /\ outgoing_chat_entry.state = "SENDING"
  BY <1>3 DEF outgoing_chat_entry, Entries
<1>7. QED
  BY <1>3, <1>4, <1>5, <1>6

LEMMA NoRowType == NoRow \in Rows
BY DEF NoRow, Rows

LEMMA UpdateType ==
  ASSUME NEW r \in Rows, NEW e \in Entries
  PROVE  /\ update_delivery_state(r, e) \in Rows
         /\ update_delivery_state(r, e).state \in {r.state, e.state}
<1>1. CASE r.state = "absent" \/ ~e.stored
  BY <1>1 DEF update_delivery_state
<1>2. CASE ~(r.state = "absent" \/ ~e.stored)
  <2> DEFINE a == IF e.attempt \in DOMAIN r.attempts
                  THEN [r.attempts EXCEPT ![e.attempt] = e.state] ELSE r.attempts
             p == IF e.packet = NoSend THEN r.packet ELSE e.packet
  <2>1. a \in Seq(DeliveryStates)
    BY SeqReplace DEF Rows, Entries
  <2>2. p \in Sends \cup {NoSend}
    BY DEF Rows, Entries
  <2>3. update_delivery_state(r, e) =
          [state |-> e.state, attempts |-> a, packet |-> p, placed |-> r.placed]
    BY <1>2 DEF update_delivery_state, Rows
  <2>4. QED
    BY <2>1, <2>2, <2>3 DEF Rows, Entries
<1>3. QED
  BY <1>1, <1>2

LEMMA ChronologyType ==
  ASSUME NEW r \in Rows, NEW s \in Sends
  PROVE  /\ update_message_chronology(r, s) \in Rows
         /\ update_message_chronology(r, s).state = r.state
BY DEF update_message_chronology, Rows

LEMMA ReconcileType ==
  ASSUME NEW r \in Rows
  PROVE  /\ reconcile_abandoned_sending(r) \in Rows
         /\ reconcile_abandoned_sending(r).state \in {r.state, "INTERRUPTED"}
         /\ reconcile_abandoned_sending(r).state # "absent" <=> r.state # "absent"
<1> DEFINE a == [i \in DOMAIN r.attempts |->
                   IF r.attempts[i] = "SENDING" THEN "INTERRUPTED" ELSE r.attempts[i]]
           t == IF r.state = "SENDING" THEN "INTERRUPTED" ELSE r.state
<1>1. a \in Seq(DeliveryStates)
  BY DEF Rows, DeliveryStates
<1>2. t \in DeliveryStates \cup {"absent"} /\ t \in {r.state, "INTERRUPTED"}
  BY DEF Rows, DeliveryStates
<1>3. reconcile_abandoned_sending(r) = [r EXCEPT !.state = t, !.attempts = a]
  BY DEF reconcile_abandoned_sending
<1>4. QED
  BY <1>1, <1>2, <1>3 DEF Rows

LEMMA LoadedType ==
  ASSUME NEW r \in Rows, r.state # "absent"
  PROVE  stored_chat_entry(r) \in Entries /\ stored_chat_entry(r).gen = 0
<1> DEFINE t == IF r.state = "SENDING" THEN "INTERRUPTED" ELSE r.state
<1>1. t \in DeliveryStates /\ r.packet \in Sends \cup {NoSend}
  BY DEF Rows, DeliveryStates
<1>2. QED
  BY <1>1, BlankType DEF stored_chat_entry, Entries

LEMMA WithStateType ==
  ASSUME NEW e \in Entries, NEW st \in DeliveryStates, NEW p \in Sends \cup {NoSend}
  PROVE  /\ WithState(e, st, p) \in Entries
         /\ WithState(e, st, p).state = st
         /\ WithState(e, st, p).gen = e.gen
BY DEF WithState, Entries

-----------------------------------------------------------------------------
(* The inductive invariant.  What an entry or a row says comes from events *)
(* that wait in two queues, so the queues must be truthful as well; and a  *)
(* dead process has no queues, but room for the objects of its successor.  *)

EventTruthful(e) ==
  /\ Backed(e.state, evidence[e.send])
  /\ e.type = "failed" => e.state = "FAILED"

QueueTruthful == \A i \in DOMAIN uiq : EventTruthful(uiq[i])

PubTruthful == \A i \in DOMAIN pubq : pubq[i].kind \in evidence[pubq[i].send]

DeadProcess ==
  ~up => uiq = <<>> /\ pubq = <<>> /\ \A m \in Messages : Present(m) => CanLoad(m)

Truthful == QueueTruthful /\ PubTruthful /\ EntryTruthful /\ RowTruthful

IInv == TypeOK /\ Truthful /\ DeadProcess

(* What is known of a send is never forgotten.                             *)
Grows == \A s \in Sends : evidence[s] \subseteq evidence'[s]

LEMMA BackedMonotone ==
  ASSUME NEW st, NEW A, NEW B, A \subseteq B, Backed(st, A)
  PROVE  Backed(st, B)
BY DEF Backed

(* States that claim nothing.                                              *)
LEMMA NoClaim ==
  ASSUME NEW st, NEW A, st \notin {"HEARD", "SENT", "FAILED"}
  PROVE  Backed(st, A)
BY DEF Backed

(* An action that posts no event keeps the UI queue truthful.              *)
LEMMA UiQueueKept ==
  ASSUME TypeOK, QueueTruthful, Grows,
         uiq' = uiq \/ uiq' = <<>> \/ (uiq # <<>> /\ uiq' = Tail(uiq))
  PROVE  uiq' \in Seq(UiEvents) /\ QueueTruthful'
<1>1. uiq \in Seq(UiEvents)
  BY DEF TypeOK
<1>2. /\ uiq' \in Seq(UiEvents)
      /\ \A i \in DOMAIN uiq' : \E j \in DOMAIN uiq : uiq'[i] = uiq[j]
  <2>1. CASE uiq' = uiq
    BY <1>1, <2>1
  <2>2. CASE uiq' = <<>>
    BY <2>2
  <2>3. CASE uiq # <<>> /\ uiq' = Tail(uiq)
    BY <1>1, <2>3, SendQueueTail
  <2>4. QED
    BY <2>1, <2>2, <2>3
<1>3. SUFFICES ASSUME NEW i \in DOMAIN uiq' PROVE EventTruthful(uiq[i])'
  BY <1>2 DEF QueueTruthful
<1>4. PICK j \in DOMAIN uiq : uiq'[i] = uiq[j]
  BY <1>2
<1>5. uiq[j] \in UiEvents
  BY <1>1
<1>6. evidence[uiq[j].send] \subseteq evidence'[uiq[j].send]
  BY <1>5 DEF Grows, UiEvents
<1>7. EventTruthful(uiq[j])
  BY DEF QueueTruthful
<1>8. Backed(uiq'[i].state, evidence'[uiq'[i].send])
  BY <1>4, <1>6, <1>7, BackedMonotone DEF EventTruthful
<1>9. QED
  BY <1>4, <1>7, <1>8 DEF EventTruthful, Backed

(* The same of the publishing thread's queue.                              *)
LEMMA PubQueueKept ==
  ASSUME TypeOK, PubTruthful, Grows,
         pubq' = pubq \/ pubq' = <<>> \/ (pubq # <<>> /\ pubq' = Tail(pubq))
  PROVE  pubq' \in Seq(Publications) /\ PubTruthful'
<1>1. pubq \in Seq(Publications)
  BY DEF TypeOK
<1>2. /\ pubq' \in Seq(Publications)
      /\ \A i \in DOMAIN pubq' : \E j \in DOMAIN pubq : pubq'[i] = pubq[j]
  <2>1. CASE pubq' = pubq
    BY <1>1, <2>1
  <2>2. CASE pubq' = <<>>
    BY <2>2
  <2>3. CASE pubq # <<>> /\ pubq' = Tail(pubq)
    BY <1>1, <2>3, SendQueueTail
  <2>4. QED
    BY <2>1, <2>2, <2>3
<1>3. SUFFICES ASSUME NEW i \in DOMAIN pubq'
               PROVE  pubq'[i].kind \in evidence'[pubq'[i].send]
  BY <1>2 DEF PubTruthful
<1>4. PICK j \in DOMAIN pubq : pubq'[i] = pubq[j]
  BY <1>2
<1>5. pubq[j] \in Publications
  BY <1>1
<1>6. QED
  BY <1>4, <1>5 DEF Grows, Publications, PubTruthful

LEMMA QueuesKept ==
  ASSUME TypeOK, QueueTruthful, PubTruthful, Grows,
         uiq' = uiq \/ uiq' = <<>> \/ (uiq # <<>> /\ uiq' = Tail(uiq)),
         pubq' = pubq \/ pubq' = <<>> \/ (pubq # <<>> /\ pubq' = Tail(pubq))
  PROVE  /\ uiq' \in Seq(UiEvents) /\ pubq' \in Seq(Publications)
         /\ QueueTruthful' /\ PubTruthful'
BY UiQueueKept, PubQueueKept

(* An action that posts one truthful event keeps the queue truthful.       *)
LEMMA EventPosted ==
  ASSUME TypeOK, QueueTruthful, Grows, NEW e \in UiEvents,
         uiq' = Append(uiq, e),
         Backed(e.state, evidence'[e.send]),
         e.type = "failed" => e.state = "FAILED"
  PROVE  uiq' \in Seq(UiEvents) /\ QueueTruthful'
<1>1. uiq \in Seq(UiEvents)
  BY DEF TypeOK
<1>2. /\ uiq' \in Seq(UiEvents)
      /\ \A i \in DOMAIN uiq' : (i \in DOMAIN uiq /\ uiq'[i] = uiq[i]) \/ uiq'[i] = e
  BY <1>1, SendQueueAppend
<1>3. SUFFICES ASSUME NEW i \in DOMAIN uiq' PROVE EventTruthful(uiq[i])'
  BY <1>2 DEF QueueTruthful
<1>4. CASE i \in DOMAIN uiq /\ uiq'[i] = uiq[i]
  <2>1. uiq[i] \in UiEvents /\ EventTruthful(uiq[i])
    BY <1>1, <1>4 DEF QueueTruthful
  <2>2. evidence[uiq[i].send] \subseteq evidence'[uiq[i].send]
    BY <2>1 DEF Grows, UiEvents
  <2>3. Backed(uiq'[i].state, evidence'[uiq'[i].send])
    BY <1>4, <2>1, <2>2, BackedMonotone DEF EventTruthful
  <2>4. QED
    BY <1>4, <2>1, <2>3 DEF EventTruthful, Backed
<1>5. CASE uiq'[i] = e
  BY <1>5 DEF EventTruthful, Backed
<1>6. QED
  BY <1>2, <1>4, <1>5

(* An entry that keeps its state and generation, claims nothing, or has    *)
(* sent nothing, stays truthful.                                           *)
LEMMA EntriesKept ==
  ASSUME TypeOK, EntryTruthful, Grows,
         entry' \in [Objects -> Entries],
         \A o \in Objects :
           \/ entry'[o].gen = 0
           \/ entry'[o].state \notin {"HEARD", "SENT", "FAILED"}
           \/ entry'[o].gen = entry[o].gen /\ entry'[o].state = entry[o].state
  PROVE  EntryTruthful'
<1> SUFFICES ASSUME NEW o \in Objects, entry'[o].gen > 0
             PROVE  Backed(entry'[o].state, evidence'[<<o, entry'[o].gen>>])
  BY DEF EntryTruthful, Current, Backed
<1>1. entry'[o].gen \in 1..MaxGen
  BY DeliveryAssumption DEF Entries
<1>2. CASE entry'[o].state \notin {"HEARD", "SENT", "FAILED"}
  BY <1>2, NoClaim
<1>3. CASE entry'[o].gen = entry[o].gen /\ entry'[o].state = entry[o].state
  <2>1. Backed(entry[o].state, evidence[<<o, entry[o].gen>>])
    BY <1>3 DEF EntryTruthful, Current
  <2>2. evidence[<<o, entry[o].gen>>] \subseteq evidence'[<<o, entry[o].gen>>]
    BY <1>1, <1>3, SendNames DEF Grows
  <2>3. QED
    BY <1>3, <2>1, <2>2, BackedMonotone
<1>4. QED
  BY <1>1, <1>2, <1>3

(* A row that keeps its state, or claims nothing, stays truthful.          *)
LEMMA RowsKept ==
  ASSUME TypeOK, RowTruthful, Grows,
         \A m \in Messages :
           \/ row'[m].state \notin {"HEARD", "SENT", "FAILED"}
           \/ row'[m].state = row[m].state
  PROVE  RowTruthful'
<1> SUFFICES ASSUME NEW m \in Messages, NEW st \in {"HEARD", "SENT", "FAILED"},
                    row'[m].state = st
             PROVE  \E s \in SendsOf(m) : Backed(st, evidence'[s])
  BY DEF RowTruthful, Backed, SendsOf
<1>1. PICK s \in SendsOf(m) : Backed(st, evidence[s])
  BY DEF RowTruthful
<1>2. evidence[s] \subseteq evidence'[s]
  BY DEF Grows, SendsOf
<1>3. QED
  BY <1>1, <1>2, BackedMonotone

-----------------------------------------------------------------------------
(* _set_delivery_state, called for the current generation of an entry with *)
(* a state that is backed, keeps the entries and the rows truthful.        *)
LEMMA SetDeliveryStateTruthful ==
  ASSUME TypeOK, EntryTruthful, RowTruthful,
         evidence' = evidence,
         NEW o \in Objects, NEW e \in Entries, NEW st \in DeliveryStates,
         NEW p \in Sends \cup {NoSend},
         e.gen \in 1..MaxGen,
         Backed(st, evidence[<<o, e.gen>>]),
         SetDeliveryState(o, e, st, p)
  PROVE  /\ entry' \in [Objects -> Entries]
         /\ row' \in [Messages -> Rows]
         /\ faults' \in Nat
         /\ EntryTruthful' /\ RowTruthful'
<1> DEFINE m     == o[1]
           e1    == WithState(e, st, p)
           moved == MovedRow(o, e, st)
<1>1. m \in Messages /\ <<o, e.gen>> \in Sends
  BY ObjectNames, SendNames
<1>2. e1 \in Entries /\ e1.state = st /\ e1.gen = e.gen
  BY WithStateType
<1>3. entry' = [entry EXCEPT ![o] = e1]
  BY DEF SetDeliveryState
<1>4. row \in [Messages -> Rows] /\ entry \in [Objects -> Entries] /\ faults \in Nat
  BY DEF TypeOK
<1>5. moved \in Rows /\ moved.state = row[m].state
  BY <1>1, <1>4, ChronologyType DEF MovedRow
<1>6. /\ update_delivery_state(moved, e1) \in Rows
      /\ update_delivery_state(moved, e1).state \in {row[m].state, st}
      /\ update_delivery_state(row[m], e1) \in Rows
      /\ update_delivery_state(row[m], e1).state \in {row[m].state, st}
  BY <1>1, <1>2, <1>4, <1>5, UpdateType
<1>7. /\ faults' \in Nat
      /\ \E r \in Rows : r.state \in {row[m].state, st} /\ row' = [row EXCEPT ![m] = r]
  <2>1. row = [row EXCEPT ![m] = row[m]] /\ row[m] \in Rows
    BY <1>1, <1>4
  <2>2. CASE Commit(m, update_delivery_state(moved, e1))
    BY <1>4, <1>6, <2>2 DEF Commit
  <2>3. CASE Fail(1) /\ row' = [row EXCEPT ![m] = moved]
    <3>1. faults' \in Nat
      BY <1>4, <2>3 DEF Fail
    <3>2. QED
      BY <1>5, <2>3, <3>1
  <2>4. CASE Fail(IF moved = row[m] THEN 1 ELSE 2) /\ UNCHANGED row
    <3>1. faults' \in Nat
      BY <1>4, <2>4 DEF Fail
    <3>2. row' = row
      BY <2>4
    <3>3. QED
      BY <2>1, <3>1, <3>2
  <2>5. CASE Fail(1) /\ row' = [row EXCEPT ![m] = update_delivery_state(@, e1)]
    <3>1. faults' \in Nat
      BY <1>4, <2>5 DEF Fail
    <3>2. row' = [row EXCEPT ![m] = update_delivery_state(row[m], e1)]
      BY <2>5
    <3>3. QED
      BY <1>6, <3>1, <3>2
  <2>6. QED
    BY <2>2, <2>3, <2>4, <2>5 DEF SetDeliveryState, MessageOf
<1>8. PICK r \in Rows : r.state \in {row[m].state, st} /\ row' = [row EXCEPT ![m] = r]
  BY <1>7
<1>9. EntryTruthful'
  <2> SUFFICES ASSUME NEW q \in Objects, entry'[q].gen > 0
               PROVE  Backed(entry'[q].state, evidence[<<q, entry'[q].gen>>])
    BY DEF EntryTruthful, Current, Backed
  <2>1. CASE q = o
    BY <1>2, <1>3, <1>4, <2>1
  <2>2. CASE q # o
    BY <1>3, <1>4, <2>2 DEF EntryTruthful, Current
  <2>3. QED
    BY <2>1, <2>2
<1>10. RowTruthful'
  <2> SUFFICES ASSUME NEW n \in Messages, NEW t \in {"HEARD", "SENT", "FAILED"},
                      row'[n].state = t
               PROVE  \E s \in SendsOf(n) : Backed(t, evidence[s])
    BY DEF RowTruthful, Backed, SendsOf
  <2>1. CASE row[n].state = t
    BY <2>1 DEF RowTruthful
  <2>2. CASE row[n].state # t
    <3>1. n = m /\ t = st
      BY <1>1, <1>4, <1>8, <2>2
    <3>2. <<o, e.gen>> \in SendsOf(m)
      BY <1>1 DEF SendsOf
    <3>3. QED
      BY <3>1, <3>2
  <2>3. QED
    BY <2>1, <2>2
<1>11. QED
  BY <1>1, <1>2, <1>3, <1>4, <1>7, <1>8, <1>9, <1>10

(* The dequeued event of a handler that is not stale: the current send of  *)
(* an entry, with a state that is backed.                                  *)
LEMMA FreshEvent ==
  ASSUME TypeOK, QueueTruthful, uiq # <<>>, ~Stale(Head(uiq))
  PROVE  LET e == Head(uiq) IN
         /\ e \in UiEvents /\ e.send \in Sends /\ e.state \in DeliveryStates
         /\ e.send[1] \in Objects
         /\ entry[e.send[1]] \in Entries
         /\ entry[e.send[1]].gen \in 1..MaxGen
         /\ e.send = <<e.send[1], entry[e.send[1]].gen>>
         /\ EventTruthful(e)
<1> DEFINE e == Head(uiq)
<1>1. e \in UiEvents /\ EventTruthful(e)
  BY SendQueueTail DEF TypeOK, QueueTruthful
<1>2. e.send \in Sends /\ e.state \in DeliveryStates
  BY <1>1 DEF UiEvents
<1>3. e.send[1] \in Objects /\ e.send[2] \in 1..MaxGen /\ e.send = <<e.send[1], e.send[2]>>
  BY <1>2, SendNames
<1>4. e.send[2] = entry[e.send[1]].gen
  BY DEF Stale
<1>5. entry[e.send[1]] \in Entries
  BY <1>3 DEF TypeOK
<1>6. QED
  BY <1>1, <1>2, <1>3, <1>4, <1>5

-----------------------------------------------------------------------------
(* Init, and one lemma per action.                                         *)

LEMMA InitInv == Init => IInv
<1> SUFFICES ASSUME Init PROVE IInv
  OBVIOUS
<1>1. TypeOK
  <2>1. entry \in [Objects -> Entries] /\ row \in [Messages -> Rows]
    BY BlankType, NoRowType DEF Init
  <2>2. shown \in [Messages -> 0..MaxLoads] /\ loads \in [Messages -> 0..MaxLoads]
    BY DeliveryAssumption DEF Init
  <2>3. pubq \in Seq(Publications) /\ uiq \in Seq(UiEvents)
    BY DEF Init
  <2>4. QED
    BY <2>1, <2>2, <2>3 DEF Init, TypeOK
<1>2. QueueTruthful /\ PubTruthful /\ DeadProcess
  BY DEF Init, QueueTruthful, PubTruthful, DeadProcess
<1>3. EntryTruthful
  BY BlankType DEF Init, EntryTruthful
<1>4. RowTruthful
  BY DEF Init, RowTruthful, NoRow
<1>5. QED
  BY <1>1, <1>2, <1>3, <1>4 DEF IInv, Truthful

LEMMA ComposeInv ==
  ASSUME IInv, NEW m \in Messages, Compose(m)
  PROVE  IInv'
<1> DEFINE o  == <<m, 1>>
           e  == outgoing_chat_entry
           e2 == [e EXCEPT !.stored = TRUE]
           e3 == [e EXCEPT !.attempt = 1, !.stored = TRUE]
           r2 == [NoRow EXCEPT !.state = "SENDING", !.placed = <<o, 1>>]
           r3 == [NoRow EXCEPT !.state = "SENDING", !.attempts = <<"SENDING">>,
                               !.placed = <<o, 1>>]
<1> USE DEF IInv, Truthful
<1>1. 1 \in 1..MaxLoads /\ 1 \in 1..MaxGen /\ 1 \in 0..MaxLoads
  BY DeliveryAssumption
<1>2. o \in Objects /\ <<o, 1>> \in Sends
  BY <1>1, ObjectNames, SendNames
<1>3. /\ e \in Entries /\ e2 \in Entries /\ e3 \in Entries
      /\ e.state = "SENDING" /\ e2.state = "SENDING" /\ e3.state = "SENDING"
  BY BlankType DEF Entries
<1>4. /\ r2 \in Rows /\ r3 \in Rows /\ r2.state = "SENDING" /\ r3.state = "SENDING"
  <2>1. "SENDING" \in DeliveryStates /\ <<"SENDING">> \in Seq(DeliveryStates)
    BY DEF DeliveryStates
  <2>2. QED
    BY <1>2, <2>1, NoRowType DEF Rows
<1>5. \E x \in Entries : x.state = "SENDING" /\ entry' = [entry EXCEPT ![o] = x]
  BY <1>3 DEF Compose
<1>6. \/ row' = row
      \/ \E r \in Rows : r.state = "SENDING" /\ row' = [row EXCEPT ![m] = r]
  BY <1>4 DEF Compose
<1>7. faults' \in Nat
  BY DEF Compose, Fail, TypeOK
<1>8. /\ UNCHANGED <<up, online, unresolved, oneShot, pending, pubq, uiq, evidence>>
      /\ up
      /\ loads' = [loads EXCEPT ![m] = 1] /\ shown' = [shown EXCEPT ![m] = 1]
      /\ worker' = [worker EXCEPT ![<<o, 1>>] = "calling"]
  BY DEF Compose, StartWorker, link
<1>9. entry' \in [Objects -> Entries] /\ row' \in [Messages -> Rows]
  BY <1>2, <1>5, <1>6 DEF TypeOK
<1>10. TypeOK'
  BY <1>1, <1>2, <1>7, <1>8, <1>9 DEF TypeOK
<1>11. Grows
  BY <1>8 DEF Grows
<1>12. QueueTruthful' /\ PubTruthful'
  BY <1>8, <1>11, QueuesKept
<1>13. EntryTruthful'
  BY <1>2, <1>5, <1>9, <1>11, EntriesKept DEF TypeOK
<1>14. RowTruthful'
  BY <1>6, <1>11, RowsKept DEF TypeOK
<1>15. DeadProcess'
  BY <1>8 DEF DeadProcess
<1>16. QED
  BY <1>10, <1>12, <1>13, <1>14, <1>15

LEMMA RebroadcastInv ==
  ASSUME IInv, NEW o \in Objects, Rebroadcast(o)
  PROVE  IInv'
<1> DEFINE m  == o[1]
           e  == [entry[o] EXCEPT !.state = "SENDING", !.gen = @ + 1,
                                  !.packet = NoSend, !.deadline = FALSE]
           r1 == [row[m] EXCEPT !.attempts = Append(@, "SENDING")]
           e1 == [e EXCEPT !.attempt = Len(r1.attempts)]
           e2 == [e EXCEPT !.attempt = 0]
<1> USE DEF IInv, Truthful
<1>1. m \in Messages /\ row[m] \in Rows /\ entry[o] \in Entries
  BY ObjectNames DEF TypeOK
<1>2. entry[o].gen \in Nat /\ entry[o].gen < MaxGen /\ entry[o].gen + 1 \in 1..MaxGen
  BY <1>1, DeliveryAssumption DEF Rebroadcast, Entries
<1>3. e \in Entries /\ e.state = "SENDING" /\ e.gen = entry[o].gen + 1
  <2>1. "SENDING" \in DeliveryStates /\ NoSend \in Sends \cup {NoSend}
    BY DEF DeliveryStates
  <2>2. entry[o].gen + 1 \in 0..MaxGen
    BY <1>2
  <2>3. QED
    BY <1>1, <2>1, <2>2 DEF Entries
<1>4. r1 \in Rows /\ r1.state = row[m].state /\ Len(r1.attempts) \in Nat
  <2> DEFINE a == Append(row[m].attempts, "SENDING")
  <2>1. a \in Seq(DeliveryStates) /\ Len(a) \in Nat
    BY <1>1 DEF Rows, DeliveryStates
  <2>2. r1 = [row[m] EXCEPT !.attempts = a]
    OBVIOUS
  <2> HIDE DEF a
  <2>3. QED
    BY <1>1, <2>1, <2>2 DEF Rows
<1>5. e1 \in Entries /\ e2 \in Entries /\ e1.state = "SENDING" /\ e2.state = "SENDING"
  BY <1>3, <1>4 DEF Entries
<1>6. /\ update_delivery_state(r1, e1) \in Rows
      /\ update_delivery_state(r1, e1).state \in {row[m].state, "SENDING"}
      /\ update_delivery_state(row[m], e) \in Rows
      /\ update_delivery_state(row[m], e).state \in {row[m].state, "SENDING"}
  BY <1>1, <1>3, <1>4, <1>5, UpdateType
<1>7. \E x \in Entries : x.state = "SENDING" /\ entry' = [entry EXCEPT ![o] = x]
  BY <1>3, <1>5 DEF Rebroadcast, MessageOf
<1>8. \/ row' = row
      \/ \E r \in Rows : r.state \in {row[m].state, "SENDING"} /\ row' = [row EXCEPT ![m] = r]
  <2>1. \/ row' = row
        \/ row' = [row EXCEPT ![m] = update_delivery_state(r1, e1)]
        \/ row' = [row EXCEPT ![m] = r1]
        \/ row' = [row EXCEPT ![m] = update_delivery_state(row[m], e)]
    BY DEF Rebroadcast, MessageOf, Commit
  <2>2. QED
    BY <1>4, <1>6, <2>1
<1>9. faults' \in Nat
  BY DEF Rebroadcast, Commit, Fail, TypeOK
<1>10. /\ UNCHANGED <<up, online, unresolved, shown, loads, oneShot, pending, pubq,
                       uiq, evidence>>
       /\ up
       /\ worker' = [worker EXCEPT ![<<o, e.gen>>] = "calling"]
  BY DEF Rebroadcast, Listed, StartWorker, link
<1>11. entry' \in [Objects -> Entries] /\ row' \in [Messages -> Rows]
  BY <1>1, <1>7, <1>8 DEF TypeOK
<1>12. worker' \in [Sends -> {"none", "calling", "accepted", "registered",
                               "submitted", "done"}]
  BY <1>10 DEF TypeOK
<1>13. TypeOK'
  BY <1>9, <1>10, <1>11, <1>12 DEF TypeOK
<1>14. Grows
  BY <1>10 DEF Grows
<1>15. QueueTruthful' /\ PubTruthful'
  BY <1>10, <1>14, QueuesKept
<1>16. EntryTruthful'
  BY <1>7, <1>11, <1>14, EntriesKept DEF TypeOK
<1>17. RowTruthful'
  BY <1>1, <1>8, <1>14, RowsKept DEF TypeOK
<1>18. DeadProcess'
  BY <1>10 DEF DeadProcess
<1>19. QED
  BY <1>13, <1>15, <1>16, <1>17, <1>18

LEMMA DeleteEntryInv ==
  ASSUME IInv, NEW o \in Objects, DeleteEntry(o)
  PROVE  IInv'
<1> DEFINE m == o[1]
           x == [entry[o] EXCEPT !.deleted = TRUE]
<1> USE DEF IInv, Truthful
<1>1. m \in Messages /\ row[m] \in Rows /\ entry[o] \in Entries
  BY ObjectNames DEF TypeOK
<1>2. x \in Entries /\ x.state = entry[o].state /\ x.gen = entry[o].gen
  BY <1>1 DEF Entries
<1>3. entry' = [entry EXCEPT ![o] = x]
  BY DEF DeleteEntry
<1>4. \/ row' = row
      \/ \E r \in Rows : r.state \in {row[m].state, "absent"} /\ row' = [row EXCEPT ![m] = r]
  <2>1. NoRow \in Rows /\ NoRow.state = "absent"
    BY NoRowType DEF NoRow
  <2>2. \/ row' = row
        \/ row' = [row EXCEPT ![m] = IF entry[o].stored THEN NoRow ELSE row[m]]
    BY DEF DeleteEntry, CommitOrFail, Commit, MessageOf
  <2>3. QED
    BY <1>1, <2>1, <2>2
<1>5. faults' \in Nat
  BY DEF DeleteEntry, CommitOrFail, Commit, Fail, TypeOK
<1>6. /\ UNCHANGED <<up, online, unresolved, loads, worker, oneShot, pubq, uiq, evidence>>
      /\ up
      /\ shown' = [shown EXCEPT ![m] = 0]
      /\ pending' \subseteq pending
  BY DEF DeleteEntry, Listed, link, MessageOf
<1>7. entry' \in [Objects -> Entries] /\ row' \in [Messages -> Rows]
  BY <1>1, <1>2, <1>3, <1>4 DEF TypeOK
<1>8. shown' \in [Messages -> 0..MaxLoads]
  <2>1. 0 \in 0..MaxLoads
    BY DeliveryAssumption
  <2>2. QED
    BY <1>6, <2>1 DEF TypeOK
<1>9. TypeOK'
  BY <1>5, <1>6, <1>7, <1>8 DEF TypeOK
<1>10. Grows
  BY <1>6 DEF Grows
<1>11. QueueTruthful' /\ PubTruthful'
  BY <1>6, <1>10, QueuesKept
<1>12. EntryTruthful'
  BY <1>2, <1>3, <1>7, <1>10, EntriesKept DEF TypeOK
<1>13. RowTruthful'
  BY <1>1, <1>4, <1>10, RowsKept DEF TypeOK
<1>14. DeadProcess'
  BY <1>6 DEF DeadProcess
<1>15. QED
  BY <1>9, <1>11, <1>12, <1>13, <1>14

-----------------------------------------------------------------------------
(* The delivery events and the timer.                                      *)

(* What a handler that ends in _set_delivery_state owes.                   *)
LEMMA HandlerInv ==
  ASSUME IInv, uiq # <<>>, uiq' = Tail(uiq),
         UNCHANGED <<link, shown, loads, radio>>,
         entry' \in [Objects -> Entries], row' \in [Messages -> Rows],
         faults' \in Nat, EntryTruthful', RowTruthful'
  PROVE  IInv'
<1> USE DEF IInv, Truthful, link, radio
<1>1. Grows
  BY DEF Grows
<1>2. uiq' \in Seq(UiEvents) /\ QueueTruthful' /\ PubTruthful'
  BY <1>1, QueuesKept
<1>3. TypeOK'
  BY <1>2 DEF TypeOK
<1>4. DeadProcess'
  BY DEF DeadProcess
<1>5. QED
  BY <1>2, <1>3, <1>4

LEMMA SendWasSubmittedInv ==
  ASSUME IInv, SendWasSubmitted
  PROVE  IInv'
<1> DEFINE v    == Head(uiq)
           o    == v.send[1]
           next == SubmittedState(entry[o].state)
           e    == [entry[o] EXCEPT !.packet = v.send, !.deadline = next = "SENDING"]
<1> USE DEF IInv, Truthful
<1>1. /\ uiq # <<>> /\ uiq' = Tail(uiq) /\ ~Stale(v)
      /\ SetDeliveryState(o, e, next, v.send)
      /\ UNCHANGED <<link, shown, loads, radio>>
  BY DEF SendWasSubmitted, Dequeue
<1>2. /\ v.send \in Sends /\ o \in Objects /\ entry[o] \in Entries
      /\ entry[o].gen \in 1..MaxGen /\ v.send = <<o, entry[o].gen>>
  BY <1>1, FreshEvent
<1>3. next \in DeliveryStates /\ next \in {entry[o].state, "SENDING"}
  BY <1>2 DEF SubmittedState, Entries, DeliveryStates
<1>4. e \in Entries /\ e.gen = entry[o].gen
  BY <1>2 DEF Entries
<1>5. Backed(next, evidence[<<o, e.gen>>])
  <2>1. entry[o].gen > 0
    BY <1>2, DeliveryAssumption
  <2>2. Backed(entry[o].state, evidence[<<o, entry[o].gen>>])
    BY <1>2, <2>1 DEF EntryTruthful, Current
  <2>3. QED
    BY <1>3, <1>4, <2>2, NoClaim
<1>6. evidence' = evidence
  BY <1>1 DEF radio
<1>7. /\ entry' \in [Objects -> Entries] /\ row' \in [Messages -> Rows]
      /\ faults' \in Nat /\ EntryTruthful' /\ RowTruthful'
  <2>1. v.send \in Sends \cup {NoSend} /\ e.gen \in 1..MaxGen
    BY <1>2, <1>4
  <2>2. QED
    BY <1>1, <1>2, <1>3, <1>4, <1>5, <1>6, <2>1, SetDeliveryStateTruthful
<1>8. QED
  BY <1>1, <1>7, HandlerInv

LEMMA SendFailedInv ==
  ASSUME IInv, SendFailed
  PROVE  IInv'
<1> DEFINE v == Head(uiq)
           o == v.send[1]
<1> USE DEF IInv, Truthful
<1>1. /\ uiq # <<>> /\ uiq' = Tail(uiq) /\ ~Stale(v) /\ v.type = "failed"
      /\ SetDeliveryState(o, entry[o], "FAILED", NoSend)
      /\ UNCHANGED <<link, shown, loads, radio>>
  BY DEF SendFailed, Dequeue
<1>2. /\ o \in Objects /\ entry[o] \in Entries /\ entry[o].gen \in 1..MaxGen
      /\ v.send = <<o, entry[o].gen>> /\ EventTruthful(v)
  BY <1>1, FreshEvent
<1>3. Backed("FAILED", evidence[<<o, entry[o].gen>>])
  BY <1>1, <1>2 DEF EventTruthful
<1>4. evidence' = evidence /\ "FAILED" \in DeliveryStates /\ NoSend \in Sends \cup {NoSend}
  BY <1>1 DEF radio, DeliveryStates
<1>5. /\ entry' \in [Objects -> Entries] /\ row' \in [Messages -> Rows]
      /\ faults' \in Nat /\ EntryTruthful' /\ RowTruthful'
  BY <1>1, <1>2, <1>3, <1>4, SetDeliveryStateTruthful
<1>6. QED
  BY <1>1, <1>5, HandlerInv

LEMMA DeliveryStatusReceivedInv ==
  ASSUME IInv, DeliveryStatusReceived
  PROVE  IInv'
<1> DEFINE v == Head(uiq)
           o == v.send[1]
<1> USE DEF IInv, Truthful
<1>1. /\ uiq # <<>> /\ uiq' = Tail(uiq) /\ ~Stale(v)
      /\ SetDeliveryState(o, entry[o], v.state, v.send)
      /\ UNCHANGED <<link, shown, loads, radio>>
  BY DEF DeliveryStatusReceived, Dequeue
<1>2. /\ o \in Objects /\ entry[o] \in Entries /\ entry[o].gen \in 1..MaxGen
      /\ v.send \in Sends /\ v.state \in DeliveryStates
      /\ v.send = <<o, entry[o].gen>> /\ EventTruthful(v)
  BY <1>1, FreshEvent
<1>3. Backed(v.state, evidence[<<o, entry[o].gen>>])
  BY <1>2 DEF EventTruthful
<1>4. evidence' = evidence
  BY <1>1 DEF radio
<1>5. /\ entry' \in [Objects -> Entries] /\ row' \in [Messages -> Rows]
      /\ faults' \in Nat /\ EntryTruthful' /\ RowTruthful'
  <2>1. v.send \in Sends \cup {NoSend}
    BY <1>2
  <2>2. QED
    BY <1>1, <1>2, <1>3, <1>4, <2>1, SetDeliveryStateTruthful
<1>6. QED
  BY <1>1, <1>5, HandlerInv

LEMMA IgnoreEventInv ==
  ASSUME IInv, IgnoreEvent
  PROVE  IInv'
<1> USE DEF IInv, Truthful
<1>1. /\ uiq # <<>> /\ uiq' = Tail(uiq)
      /\ UNCHANGED <<link, shown, loads, radio>>
      /\ UNCHANGED <<entry, row, faults, evidence>>
  BY DEF IgnoreEvent, memory, radio
<1>2. EntryTruthful' /\ RowTruthful'
  BY <1>1 DEF EntryTruthful, RowTruthful, Current, SendsOf, Backed
<1>3. QED
  BY <1>1, <1>2, HandlerInv DEF TypeOK

LEMMA AdvanceDeliveryStatesInv ==
  ASSUME IInv, AdvanceDeliveryStates
  PROVE  IInv'
<1> USE DEF IInv, Truthful
<1> DEFINE new(o) == WithState(entry[o], "UNCONFIRMED", NoSend)
           objectOf(m) == <<m, shown[m]>>
<1>1. PICK expired \in SUBSET Overdue :
        /\ expired # {}
        /\ entry' = [o \in Objects |-> IF o \in expired THEN new(o) ELSE entry[o]]
        /\ \/ /\ row' = [m \in Messages |->
                          IF shown[m] # 0 /\ objectOf(m) \in expired
                          THEN update_delivery_state(row[m], new(objectOf(m)))
                          ELSE row[m]]
              /\ UNCHANGED faults
           \/ Fail(1) /\ UNCHANGED row
        /\ UNCHANGED <<link, shown, loads, radio, uiq>>
  BY DEF AdvanceDeliveryStates
<1>2. expired \subseteq Objects /\ up
  BY <1>1 DEF Overdue, ListedObjects, Listed
<1>3. \A o \in Objects : /\ new(o) \in Entries /\ new(o).state = "UNCONFIRMED"
  <2>1. "UNCONFIRMED" \in DeliveryStates /\ NoSend \in Sends \cup {NoSend}
    BY DEF DeliveryStates
  <2>2. QED
    BY <2>1, WithStateType DEF TypeOK
<1>4. entry' \in [Objects -> Entries]
  BY <1>1, <1>3 DEF TypeOK
<1>5. \A m \in Messages :
        row'[m] \in Rows /\ row'[m].state \in {row[m].state, "UNCONFIRMED"}
  <2> SUFFICES ASSUME NEW m \in Messages
               PROVE  row'[m] \in Rows /\ row'[m].state \in {row[m].state, "UNCONFIRMED"}
    OBVIOUS
  <2>1. row[m] \in Rows
    BY DEF TypeOK
  <2>2. CASE row'[m] = row[m]
    BY <2>1, <2>2
  <2>3. CASE row'[m] # row[m]
    <3>1. /\ objectOf(m) \in Objects
          /\ row'[m] = update_delivery_state(row[m], new(objectOf(m)))
      BY <1>1, <1>2, <2>3
    <3>2. QED
      BY <1>3, <2>1, <3>1, UpdateType
  <2>4. QED
    BY <2>2, <2>3
<1>6. row' \in [Messages -> Rows]
  <2>1. row' = [m \in Messages |-> row'[m]]
    BY <1>1 DEF TypeOK
  <2>2. QED
    BY <1>5, <2>1
<1>7. faults' \in Nat
  BY <1>1 DEF Fail, TypeOK
<1>8. /\ UNCHANGED <<up, online, unresolved, shown, loads, worker, oneShot, pending,
                      pubq, uiq, evidence>>
  BY <1>1 DEF link, radio
<1>9. TypeOK'
  BY <1>4, <1>6, <1>7, <1>8 DEF TypeOK
<1>10. Grows
  BY <1>8 DEF Grows
<1>11. QueueTruthful' /\ PubTruthful'
  BY <1>8, <1>10, QueuesKept
<1>12. EntryTruthful'
  BY <1>1, <1>3, <1>4, <1>10, EntriesKept
<1>13. RowTruthful'
  BY <1>5, <1>10, RowsKept
<1>14. DeadProcess'
  BY <1>2, <1>8 DEF DeadProcess
<1>15. QED
  BY <1>9, <1>11, <1>12, <1>13, <1>14

-----------------------------------------------------------------------------
(* The worker and the callbacks: entries and rows are left alone.          *)

LEMMA ParseTruthful ==
  ASSUME NEW kind \in Responses, NEW A, kind \in A, IsStatus(parse_send_response(kind))
  PROVE  /\ parse_send_response(kind) \in DeliveryStates
         /\ Backed(parse_send_response(kind), A)
BY DEF Responses, IsStatus, parse_send_response, DeliveryStates, Backed

LEMMA RadioStepInv ==
  ASSUME IInv, up, UNCHANGED <<link, memory, row, faults>>, Grows,
         worker' \in [Sends -> {"none", "calling", "accepted", "registered",
                                "submitted", "done"}],
         oneShot' \subseteq Sends, pending' \subseteq Sends,
         pubq' \in Seq(Publications), PubTruthful',
         uiq' \in Seq(UiEvents), QueueTruthful',
         evidence' \in [Sends -> SUBSET Outcomes]
  PROVE  IInv'
<1> USE DEF IInv, Truthful, link, memory
<1>1. TypeOK'
  BY DEF TypeOK
<1>2. EntryTruthful'
  BY EntriesKept DEF TypeOK
<1>3. RowTruthful'
  BY RowsKept
<1>4. DeadProcess'
  BY DEF DeadProcess
<1>5. QED
  BY <1>1, <1>2, <1>3, <1>4

LEMMA WorkerStepInv ==
  ASSUME IInv, NEW s \in Sends, WorkerStep(s)
  PROVE  IInv'
<1> USE DEF IInv, Truthful, TypeOK
<1>1. CASE SubmitToSdk(s)
  <2>1. Grows /\ up
    BY <1>1 DEF SubmitToSdk, Grows
  <2>2. uiq' = uiq /\ pubq' = pubq
    BY <1>1 DEF SubmitToSdk
  <2>3. QED
    BY <1>1, <2>1, <2>2, QueuesKept, RadioStepInv DEF SubmitToSdk
<1>2. CASE RefuseSend(s)
  <2> DEFINE v == [type |-> "failed", send |-> s, state |-> "FAILED"]
  <2>1. v \in UiEvents
    BY DEF UiEvents, DeliveryStates
  <2>2. /\ evidence' \in [Sends -> SUBSET Outcomes] /\ Grows
        /\ "refused" \in evidence'[s]
    BY <1>2 DEF RefuseSend, Outcomes, Grows
  <2>3. Backed(v.state, evidence'[v.send])
    BY <2>2 DEF Backed
  <2>4. uiq' \in Seq(UiEvents) /\ QueueTruthful'
    BY <1>2, <2>1, <2>2, <2>3, EventPosted DEF RefuseSend, Post
  <2>5. pubq' \in Seq(Publications) /\ PubTruthful'
    BY <1>2, <2>2, PubQueueKept DEF RefuseSend
  <2>6. QED
    BY <1>2, <2>2, <2>4, <2>5, RadioStepInv DEF RefuseSend
<1>3. CASE RegisterPendingSend(s)
  <2>1. Grows /\ up
    BY <1>3 DEF RegisterPendingSend, Grows
  <2>2. uiq' = uiq /\ pubq' = pubq
    BY <1>3 DEF RegisterPendingSend
  <2>3. QED
    BY <1>3, <2>1, <2>2, QueuesKept, RadioStepInv DEF RegisterPendingSend
<1>4. CASE PostSubmitted(s)
  <2> DEFINE v == [type |-> "submitted", send |-> s, state |-> "SENDING"]
  <2>1. v \in UiEvents /\ v.type # "failed"
    BY DEF UiEvents, DeliveryStates
  <2>2. Grows /\ Backed(v.state, evidence'[v.send])
    BY <1>4 DEF PostSubmitted, Grows, Backed
  <2>3. uiq' \in Seq(UiEvents) /\ QueueTruthful'
    BY <1>4, <2>1, <2>2, EventPosted DEF PostSubmitted, Post
  <2>4. pubq' \in Seq(Publications) /\ PubTruthful'
    BY <1>4, <2>2, PubQueueKept DEF PostSubmitted
  <2>5. QED
    BY <1>4, <2>2, <2>3, <2>4, RadioStepInv DEF PostSubmitted
<1>5. QED
  BY <1>1, <1>2, <1>3, <1>4 DEF WorkerStep

LEMMA RoutingResponseInv ==
  ASSUME IInv, NEW s \in Sends, NEW kind \in Responses, RoutingResponse(s, kind)
  PROVE  IInv'
<1> USE DEF IInv, Truthful
<1> DEFINE status == parse_send_response(kind)
           v == [type |-> "status", send |-> s, state |-> status]
           b == [send |-> s, kind |-> kind]
<1>1. /\ up /\ UNCHANGED <<link, memory, row, worker, pending, faults>>
      /\ evidence' = [evidence EXCEPT ![s] = @ \cup {kind}]
      /\ oneShot' = oneShot \ {s}
      /\ IF s \in oneShot /\ IsStatus(status) THEN uiq' = Append(uiq, v) ELSE uiq' = uiq
      /\ pubq' = Append(pubq, b)
  BY DEF RoutingResponse, Post
<1>2. /\ evidence' \in [Sends -> SUBSET Outcomes] /\ Grows /\ kind \in evidence'[s]
  BY <1>1 DEF TypeOK, Outcomes, Grows
<1>3. uiq' \in Seq(UiEvents) /\ QueueTruthful'
  <2>1. CASE s \in oneShot /\ IsStatus(status)
    <3>1. v \in UiEvents /\ Backed(v.state, evidence'[v.send]) /\ v.type # "failed"
      BY <1>2, <2>1, ParseTruthful DEF UiEvents
    <3>2. uiq' = Append(uiq, v)
      BY <1>1, <2>1
    <3>3. QED
      BY <1>2, <3>1, <3>2, EventPosted
  <2>2. CASE ~(s \in oneShot /\ IsStatus(status))
    BY <1>1, <1>2, <2>2, UiQueueKept
  <2>3. QED
    BY <2>1, <2>2
<1>4. pubq' \in Seq(Publications) /\ PubTruthful'
  <2>1. b \in Publications /\ pubq \in Seq(Publications)
    BY DEF Publications, TypeOK
  <2>2. /\ pubq' \in Seq(Publications)
        /\ \A i \in DOMAIN pubq' : (i \in DOMAIN pubq /\ pubq'[i] = pubq[i]) \/ pubq'[i] = b
    BY <1>1, <2>1, SendQueueAppend
  <2>3. SUFFICES ASSUME NEW i \in DOMAIN pubq'
                 PROVE  pubq'[i].kind \in evidence'[pubq'[i].send]
    BY <2>2 DEF PubTruthful
  <2>4. CASE i \in DOMAIN pubq /\ pubq'[i] = pubq[i]
    <3>1. pubq[i] \in Publications
      BY <2>1, <2>4
    <3>2. pubq[i].send \in Sends /\ pubq[i].kind \in evidence[pubq[i].send]
      BY <2>4, <3>1 DEF Publications, PubTruthful
    <3>3. QED
      BY <1>2, <2>4, <3>2 DEF Grows
  <2>5. CASE pubq'[i] = b
    BY <1>2, <2>5
  <2>6. QED
    BY <2>2, <2>4, <2>5
<1>5. oneShot' \subseteq Sends /\ pending' \subseteq Sends
  BY <1>1 DEF TypeOK
<1>6. worker' \in [Sends -> {"none", "calling", "accepted", "registered",
                              "submitted", "done"}]
  BY <1>1 DEF TypeOK
<1>7. QED
  BY <1>1, <1>2, <1>3, <1>4, <1>5, <1>6, RadioStepInv

LEMMA OnRoutingResponseInv ==
  ASSUME IInv, OnRoutingResponse
  PROVE  IInv'
<1> USE DEF IInv, Truthful
<1> DEFINE b == Head(pubq)
           status == parse_send_response(b.kind)
           v == [type |-> "status", send |-> b.send, state |-> status]
<1>1. /\ pubq # <<>> /\ pubq' = Tail(pubq)
      /\ \/ uiq' = uiq
         \/ IsStatus(status) /\ uiq' = Append(uiq, v)
      /\ pending' \subseteq pending
      /\ UNCHANGED <<link, memory, row, worker, oneShot, evidence, faults>>
  BY DEF OnRoutingResponse, Post
<1>2. up
  BY <1>1 DEF DeadProcess
<1>3. Grows
  BY <1>1 DEF Grows
<1>4. b \in Publications /\ b.kind \in evidence[b.send]
  BY <1>1, SendQueueTail DEF TypeOK, PubTruthful
<1>5. b.send \in Sends /\ b.kind \in Responses
  BY <1>4 DEF Publications
<1>6. uiq' \in Seq(UiEvents) /\ QueueTruthful'
  <2>1. CASE uiq' = uiq
    BY <1>3, <2>1, UiQueueKept
  <2>2. CASE IsStatus(status) /\ uiq' = Append(uiq, v)
    <3>1. v \in UiEvents /\ Backed(v.state, evidence'[v.send]) /\ v.type # "failed"
      BY <1>1, <1>4, <1>5, <2>2, ParseTruthful DEF UiEvents
    <3>2. QED
      BY <1>3, <2>2, <3>1, EventPosted
  <2>3. QED
    BY <1>1, <2>1, <2>2
<1>7. pubq' \in Seq(Publications) /\ PubTruthful'
  BY <1>1, <1>3, PubQueueKept
<1>8. QED
  BY <1>1, <1>2, <1>3, <1>6, <1>7, RadioStepInv DEF TypeOK

-----------------------------------------------------------------------------
(* The view: a reloaded entry has no generation, hence claims nothing of   *)
(* its own, and the rows are only read.                                    *)

LEMMA LoadViewTruthful ==
  ASSUME IInv, NEW M \in SUBSET Messages, LoadView(M), Grows
  PROVE  /\ loads' \in [Messages -> 0..MaxLoads]
         /\ shown' \in [Messages -> 0..MaxLoads]
         /\ entry' \in [Objects -> Entries]
         /\ EntryTruthful'
<1> USE DEF IInv, Truthful
<1> DEFINE L == {m \in M : Present(m)}
<1>1. /\ \A m \in L : CanLoad(m)
      /\ loads' = [m \in Messages |-> IF m \in L THEN loads[m] + 1 ELSE loads[m]]
      /\ shown' = [m \in Messages |-> IF m \in L THEN loads[m] + 1
                                      ELSE IF m \in M THEN 0 ELSE shown[m]]
      /\ entry' = [o \in Objects |->
                     IF o[1] \in L /\ o[2] = loads[o[1]] + 1
                     THEN stored_chat_entry(row[o[1]]) ELSE entry[o]]
  BY DEF LoadView
<1>2. \A m \in L : loads[m] + 1 \in 0..MaxLoads
  BY <1>1, DeliveryAssumption DEF CanLoad, TypeOK
<1>3. 0 \in 0..MaxLoads
  BY DeliveryAssumption
<1>4. loads' \in [Messages -> 0..MaxLoads] /\ shown' \in [Messages -> 0..MaxLoads]
  BY <1>1, <1>2, <1>3 DEF TypeOK
<1>5. \A m \in L : stored_chat_entry(row[m]) \in Entries /\ stored_chat_entry(row[m]).gen = 0
  BY LoadedType DEF TypeOK, Present
<1>6. entry' \in [Objects -> Entries]
  BY <1>1, <1>5 DEF TypeOK
<1>7. EntryTruthful'
  BY <1>1, <1>5, <1>6, EntriesKept
<1>8. QED
  BY <1>4, <1>6, <1>7

LEMMA ViewStepInv ==
  ASSUME IInv, ViewStep
  PROVE  IInv'
<1> USE DEF IInv, Truthful, link, memory, radio
<1>1. CASE LoseLink
  <2>1. /\ up /\ UNCHANGED <<up, shown, loads, entry, row, worker, pending, uiq,
                             evidence, faults>>
        /\ online' = FALSE /\ unresolved' = TRUE /\ oneShot' = {} /\ pubq' = <<>>
    BY <1>1 DEF LoseLink
  <2>2. Grows
    BY <2>1 DEF Grows
  <2>3. TypeOK'
    BY <2>1, <2>2, QueuesKept DEF TypeOK
  <2>4. QED
    BY <2>1, <2>2, <2>3, QueuesKept, EntriesKept, RowsKept DEF TypeOK, DeadProcess
<1>2. CASE Reconnect
  <2>1. /\ up /\ UNCHANGED <<up, row, worker, oneShot, pending, pubq, evidence, uiq, faults>>
        /\ online' = TRUE /\ unresolved' = FALSE
        /\ LoadView(ChannelMessages) \/ UNCHANGED <<shown, loads, entry>>
    BY <1>2 DEF Reconnect
  <2>2. Grows
    BY <2>1 DEF Grows
  <2>3. /\ loads' \in [Messages -> 0..MaxLoads] /\ shown' \in [Messages -> 0..MaxLoads]
        /\ entry' \in [Objects -> Entries] /\ EntryTruthful'
    <3>1. CASE LoadView(ChannelMessages)
      BY <2>2, <3>1, LoadViewTruthful DEF ChannelMessages
    <3>2. CASE UNCHANGED <<shown, loads, entry>>
      BY <2>2, <3>2, EntriesKept DEF TypeOK
    <3>3. QED
      BY <2>1, <3>1, <3>2
  <2>4. TypeOK'
    BY <2>1, <2>3 DEF TypeOK
  <2>5. QED
    BY <2>1, <2>2, <2>3, <2>4, QueuesKept, RowsKept DEF DeadProcess
<1>3. ASSUME NEW m \in Messages, TrimFromWindow(m) PROVE IInv'
  <2>1. /\ up /\ UNCHANGED <<up, online, unresolved, loads, entry, row, worker, oneShot,
                             pending, pubq, uiq, evidence, faults>>
        /\ shown' = [shown EXCEPT ![m] = 0]
    BY <1>3 DEF TrimFromWindow
  <2>2. Grows
    BY <2>1 DEF Grows
  <2>3. 0 \in 0..MaxLoads
    BY DeliveryAssumption
  <2>4. shown' \in [Messages -> 0..MaxLoads]
    BY <2>1, <2>3 DEF TypeOK
  <2>5. TypeOK'
    BY <2>1, <2>4 DEF TypeOK
  <2>6. QED
    BY <2>1, <2>2, <2>5, QueuesKept, EntriesKept, RowsKept DEF TypeOK, DeadProcess
<1>4. ASSUME NEW m \in Messages, LoadOlder(m) PROVE IInv'
  <2>1. /\ up /\ UNCHANGED <<up, online, unresolved, row, worker, oneShot, pending, pubq,
                             evidence, uiq, faults>>
        /\ LoadView({m})
    BY <1>4 DEF LoadOlder
  <2>2. Grows
    BY <2>1 DEF Grows
  <2>3. /\ loads' \in [Messages -> 0..MaxLoads] /\ shown' \in [Messages -> 0..MaxLoads]
        /\ entry' \in [Objects -> Entries] /\ EntryTruthful'
    BY <2>1, <2>2, LoadViewTruthful
  <2>4. TypeOK'
    BY <2>1, <2>3 DEF TypeOK
  <2>5. QED
    BY <2>1, <2>2, <2>3, <2>4, QueuesKept, RowsKept DEF DeadProcess
<1>5. QED
  BY <1>1, <1>2, <1>3, <1>4 DEF ViewStep

-----------------------------------------------------------------------------
(* The process: what dies with it can claim nothing.                       *)

LEMMA DieInv ==
  ASSUME IInv, Die,
         row' \in [Messages -> Rows], RowTruthful',
         \A m \in Messages : row'[m].state # "absent" => CanLoad(m)
  PROVE  IInv'
<1> USE DEF IInv, Truthful
<1>1. /\ up' = FALSE /\ online' = FALSE /\ unresolved' = FALSE
      /\ shown' = [m \in Messages |-> 0]
      /\ entry' = [o \in Objects |-> Blank]
      /\ worker' = [s \in Sends |-> "none"]
      /\ oneShot' = {} /\ pending' = {} /\ pubq' = <<>> /\ uiq' = <<>>
      /\ UNCHANGED <<loads, evidence, faults>>
  BY DEF Die
<1>2. Grows
  BY <1>1 DEF Grows
<1>3. /\ uiq' \in Seq(UiEvents) /\ pubq' \in Seq(Publications)
      /\ QueueTruthful' /\ PubTruthful'
  BY <1>1, <1>2, QueuesKept
<1>4. entry' \in [Objects -> Entries]
  BY <1>1, BlankType
<1>5. shown' \in [Messages -> 0..MaxLoads]
  BY <1>1, DeliveryAssumption
<1>6. TypeOK'
  BY <1>1, <1>3, <1>4, <1>5 DEF TypeOK
<1>7. EntryTruthful'
  BY <1>1, <1>2, <1>4, BlankType, EntriesKept
<1>8. DeadProcess'
  BY <1>1 DEF DeadProcess, Present, CanLoad
<1>9. QED
  BY <1>3, <1>6, <1>7, <1>8

(* A death that rewrites one row, or none.                                 *)
LEMMA DieWithRow ==
  ASSUME IInv, Die, CanRestart, Grows,
         NEW m \in Messages, NEW r \in Rows,
         r.state \notin {"HEARD", "SENT", "FAILED"} \/ r.state = row[m].state,
         r.state = "absent" \/ Present(m) \/ CanLoad(m),
         row' = [row EXCEPT ![m] = r]
  PROVE  IInv'
<1> USE DEF IInv, Truthful
<1>1. row' \in [Messages -> Rows]
  BY DEF TypeOK
<1>2. \A n \in Messages : row'[n] = IF n = m THEN r ELSE row[n]
  BY DEF TypeOK
<1>3. RowTruthful'
  BY <1>2, RowsKept
<1>4. \A n \in Messages : row'[n].state # "absent" => CanLoad(n)
  BY <1>2 DEF CanRestart, Present
<1>5. QED
  BY <1>1, <1>3, <1>4, DieInv

LEMMA CrashInv ==
  ASSUME IInv, Crash
  PROVE  IInv'
<1> USE DEF IInv, Truthful
<1>1. Die /\ CanRestart /\ row' = row
  BY DEF Crash
<1>2. Grows
  BY <1>1 DEF Grows, Die
<1>3. RowTruthful' /\ row' \in [Messages -> Rows]
  BY <1>1, <1>2, RowsKept DEF TypeOK
<1>4. \A m \in Messages : row'[m].state # "absent" => CanLoad(m)
  BY <1>1 DEF CanRestart, Present
<1>5. QED
  BY <1>1, <1>3, <1>4, DieInv

LEMMA CrashInComposeInv ==
  ASSUME IInv, NEW m \in Messages, CrashInCompose(m)
  PROVE  IInv'
<1> USE DEF IInv, Truthful
<1> DEFINE r == [NoRow EXCEPT !.state = "SENDING", !.placed = <<<<m, 1>>, 1>>]
<1>1. Die /\ CanRestart /\ row' = [row EXCEPT ![m] = r] /\ loads[m] = 0
  BY DEF CrashInCompose
<1>2. Grows
  BY <1>1 DEF Grows, Die
<1>3. 1 \in 1..MaxLoads /\ 1 \in 1..MaxGen
  BY DeliveryAssumption
<1>4. <<<<m, 1>>, 1>> \in Sends
  BY <1>3, ObjectNames, SendNames
<1>5. r \in Rows /\ r.state = "SENDING"
  BY <1>4, NoRowType DEF Rows, DeliveryStates
<1>6. CanLoad(m)
  BY <1>1, DeliveryAssumption DEF CanLoad
<1>7. QED
  BY <1>1, <1>2, <1>5, <1>6, DieWithRow

LEMMA CrashInRebroadcastInv ==
  ASSUME IInv, NEW o \in Objects, CrashInRebroadcast(o)
  PROVE  IInv'
<1> USE DEF IInv, Truthful
<1> DEFINE m == o[1]
           a == Append(row[m].attempts, "SENDING")
           r == [row[m] EXCEPT !.attempts = a]
<1>1. Die /\ CanRestart /\ row' = [row EXCEPT ![m].attempts = a] /\ Present(m)
  BY DEF CrashInRebroadcast, MessageOf
<1>2. Grows
  BY <1>1 DEF Grows, Die
<1>3. m \in Messages /\ row[m] \in Rows
  BY ObjectNames DEF TypeOK
<1>4. a \in Seq(DeliveryStates)
  BY <1>3 DEF Rows, DeliveryStates
<1>5. row' = [row EXCEPT ![m] = r]
  BY <1>1
<1> HIDE DEF a
<1>6. r \in Rows /\ r.state = row[m].state
  BY <1>3, <1>4 DEF Rows
<1>7. QED
  BY <1>1, <1>2, <1>3, <1>5, <1>6, DieWithRow

LEMMA CrashInConfirmationInv ==
  ASSUME IInv, CrashInConfirmation
  PROVE  IInv'
<1> USE DEF IInv, Truthful
<1> DEFINE e == Head(uiq)
           o == e.send[1]
           m == o[1]
           r == MovedRow(o, entry[o], e.state)
<1>1. /\ Die /\ CanRestart /\ uiq # <<>> /\ ~Stale(e)
      /\ row' = [row EXCEPT ![m] = r]
  BY DEF CrashInConfirmation
<1>2. Grows
  BY <1>1 DEF Grows, Die
<1>3. /\ o \in Objects /\ entry[o].gen \in 1..MaxGen
  BY <1>1, FreshEvent
<1>4. m \in Messages /\ row[m] \in Rows /\ <<o, entry[o].gen>> \in Sends
  BY <1>3, ObjectNames, SendNames DEF TypeOK
<1>5. r \in Rows /\ r.state = row[m].state
  BY <1>4, ChronologyType DEF MovedRow
<1>6. r.state = "absent" \/ Present(m)
  BY <1>5 DEF Present
<1>7. QED
  BY <1>1, <1>2, <1>4, <1>5, <1>6, DieWithRow

LEMMA ShutdownInv ==
  ASSUME IInv, Shutdown
  PROVE  IInv'
<1> USE DEF IInv, Truthful
<1> DEFINE o(m)     == <<m, shown[m]>>
           Given(m) == shown[m] # 0 /\ entry[o(m)].state = "SENDING"
           Final(m) == [entry[o(m)] EXCEPT !.state = "INTERRUPTED", !.packet = NoSend]
<1>1. /\ Die /\ CanRestart
      /\ row' = [m \in Messages |->
                   IF Given(m) THEN update_delivery_state(row[m], Final(m)) ELSE row[m]]
  BY DEF Shutdown
<1>2. Grows
  BY <1>1 DEF Grows, Die
<1>3. ASSUME NEW m \in Messages
      PROVE  /\ row'[m] \in Rows
             /\ row'[m].state \in {row[m].state, "INTERRUPTED"}
             /\ row'[m].state # "absent" => Present(m)
  <2>1. row[m] \in Rows
    BY DEF TypeOK
  <2>2. CASE Given(m)
    <3>1. shown[m] \in 1..MaxLoads
      BY <2>2, DeliveryAssumption DEF TypeOK
    <3>2. entry[o(m)] \in Entries
      BY <3>1, ObjectNames DEF TypeOK
    <3>3. Final(m) \in Entries /\ Final(m).state = "INTERRUPTED"
      BY <3>2 DEF Entries, DeliveryStates
    <3>4. row'[m] = update_delivery_state(row[m], Final(m))
      BY <1>1, <2>2
    <3>5. row[m].state = "absent" => update_delivery_state(row[m], Final(m)) = row[m]
      BY DEF update_delivery_state
    <3> HIDE DEF Final
    <3>6. QED
      BY <2>1, <3>3, <3>4, <3>5, UpdateType DEF Present
  <2>3. CASE ~Given(m)
    BY <1>1, <2>1, <2>3 DEF Present
  <2>4. QED
    BY <2>2, <2>3
<1>4. row' \in [Messages -> Rows]
  <2>1. row' = [m \in Messages |-> row'[m]]
    BY <1>1
  <2>2. QED
    BY <1>3, <2>1
<1>5. RowTruthful'
  BY <1>2, <1>3, RowsKept
<1>6. \A m \in Messages : row'[m].state # "absent" => CanLoad(m)
  BY <1>1, <1>3 DEF CanRestart
<1>7. QED
  BY <1>1, <1>4, <1>5, <1>6, DieInv

LEMMA StartInv ==
  ASSUME IInv, Start
  PROVE  IInv'
<1> USE DEF IInv, Truthful
<1> DEFINE fresh(m) == reconcile_abandoned_sending(row[m])
<1>1. /\ ~up /\ up' = TRUE
      /\ row' = [m \in Messages |-> fresh(m)]
      /\ loads' = [m \in Messages |-> IF Present(m) THEN loads[m] + 1 ELSE loads[m]]
      /\ shown' = [m \in Messages |-> IF Present(m) THEN loads[m] + 1 ELSE 0]
      /\ entry' = [o \in Objects |->
                     IF Present(o[1]) /\ o[2] = loads[o[1]] + 1
                     THEN stored_chat_entry(row'[o[1]]) ELSE entry[o]]
      /\ UNCHANGED <<online, unresolved, worker, oneShot, pending, pubq, evidence,
                     uiq, faults>>
  <2>1. \A o \in Objects : o[1] \in Messages
    BY ObjectNames
  <2>2. QED
    BY <2>1 DEF Start, radio
<1>2. Grows
  BY <1>1 DEF Grows
<1>3. \A m \in Messages : /\ fresh(m) \in Rows
                          /\ fresh(m).state \in {row[m].state, "INTERRUPTED"}
                          /\ Present(m) => fresh(m).state # "absent"
  BY ReconcileType DEF TypeOK, Present
<1>4. row' \in [Messages -> Rows] /\ RowTruthful'
  BY <1>1, <1>2, <1>3, RowsKept
<1>5. \A m \in Messages : Present(m) => loads[m] + 1 \in 0..MaxLoads
  BY <1>1, DeliveryAssumption DEF DeadProcess, CanLoad, TypeOK
<1>6. loads' \in [Messages -> 0..MaxLoads] /\ shown' \in [Messages -> 0..MaxLoads]
  <2>1. 0 \in 0..MaxLoads
    BY DeliveryAssumption
  <2>2. QED
    BY <1>1, <1>5, <2>1 DEF TypeOK
<1>7. \A m \in Messages : Present(m) =>
        stored_chat_entry(row'[m]) \in Entries /\ stored_chat_entry(row'[m]).gen = 0
  BY <1>1, <1>3, LoadedType
<1>8. /\ entry' \in [Objects -> Entries]
      /\ \A o \in Objects : entry'[o].gen = 0 \/ entry'[o] = entry[o]
  <2>1. \A o \in Objects : o[1] \in Messages
    BY ObjectNames
  <2>2. QED
    BY <1>1, <1>7, <2>1 DEF TypeOK
<1>9. EntryTruthful'
  BY <1>2, <1>8, EntriesKept
<1>10. TypeOK'
  BY <1>1, <1>4, <1>6, <1>8 DEF TypeOK
<1>11. QueueTruthful' /\ PubTruthful'
  BY <1>1, <1>2, QueuesKept
<1>12. DeadProcess'
  BY <1>1 DEF DeadProcess
<1>13. QED
  BY <1>4, <1>9, <1>10, <1>11, <1>12

LEMMA StutterInv ==
  ASSUME IInv, UNCHANGED vars
  PROVE  IInv'
<1> USE DEF IInv, Truthful, vars
<1>1. Grows
  BY DEF Grows
<1>2. TypeOK' /\ DeadProcess'
  BY DEF TypeOK, DeadProcess, Present, CanLoad
<1>3. QED
  BY <1>1, <1>2, QueuesKept, EntriesKept, RowsKept DEF TypeOK

-----------------------------------------------------------------------------
(* The theorems.                                                           *)

LEMMA NextInv == IInv /\ [Next]_vars => IInv'
<1> SUFFICES ASSUME IInv, [Next]_vars PROVE IInv'
  OBVIOUS
<1>1. CASE UserStep
  BY <1>1, ComposeInv, RebroadcastInv, DeleteEntryInv DEF UserStep
<1>2. CASE UiStep
  BY <1>2, SendWasSubmittedInv, SendFailedInv, DeliveryStatusReceivedInv,
     IgnoreEventInv DEF UiStep
<1>3. CASE AdvanceDeliveryStates
  BY <1>3, AdvanceDeliveryStatesInv
<1>4. CASE \E s \in Sends : WorkerStep(s)
  BY <1>4, WorkerStepInv
<1>5. CASE \E s \in Sends, kind \in Responses : RoutingResponse(s, kind)
  BY <1>5, RoutingResponseInv
<1>6. CASE OnRoutingResponse
  BY <1>6, OnRoutingResponseInv
<1>7. CASE ViewStep
  BY <1>7, ViewStepInv
<1>8. CASE ProcessStep
  BY <1>8, CrashInv, CrashInConfirmationInv, ShutdownInv, StartInv,
     CrashInComposeInv, CrashInRebroadcastInv DEF ProcessStep
<1>9. CASE UNCHANGED vars
  BY <1>9, StutterInv
<1>10. QED
  BY <1>1, <1>2, <1>3, <1>4, <1>5, <1>6, <1>7, <1>8, <1>9 DEF Next

(* The strengthening holds in every reachable state of the delivery system.*)
THEOREM Inductive == Spec => []IInv
<1>1. Init => IInv
  BY InitInv
<1>2. IInv /\ [Next]_vars => IInv'
  BY NextInv
<1>3. QED
  BY <1>1, <1>2, PTL DEF Spec

(* Every variable of the delivery system keeps its type, whatever the      *)
(* number of messages, sends, reloads and faults.                          *)
THEOREM TypeCorrect == Spec => []TypeOK
<1>1. IInv => TypeOK
  BY DEF IInv
<1>2. QED
  BY <1>1, Inductive, PTL

(* The screen never claims more of a send than is known: whatever thread   *)
(* interleavings, stale acknowledgements, resends and store faults precede.*)
THEOREM ScreenIsTruthful == Spec => []EntryTruthful
<1>1. IInv => EntryTruthful
  BY DEF IInv, Truthful
<1>2. QED
  BY <1>1, Inductive, PTL

(* Nor does the database, across crashes, reloads and failed transactions. *)
THEOREM DatabaseIsTruthful == Spec => []RowTruthful
<1>1. IInv => RowTruthful
  BY DEF IInv, Truthful
<1>2. QED
  BY <1>1, Inductive, PTL

-----------------------------------------------------------------------------
(* A send that was refused is answered by nobody, because a generation is  *)
(* sent once: what is sent next was never used, in this process or before. *)

Used(s) == evidence[s] # {} \/ worker[s] # "none"

Fresh ==
  \A o \in Objects :
    /\ o[2] > loads[o[1]] => entry[o].gen = 0
    /\ Listed(o) => o[2] <= loads[o[1]]
    /\ \A g \in 1..MaxGen :
         Used(<<o, g>>) => o[2] <= loads[o[1]] /\ (Listed(o) => g <= entry[o].gen)

Refusals ==
  /\ \A s \in Sends : worker[s] = "calling" => evidence[s] = {}
  /\ \A s \in Sends : "refused" \in evidence[s] =>
       evidence[s] = {"refused"} /\ worker[s] \in {"none", "done"}
  /\ \A i \in DOMAIN uiq : uiq[i].type = "failed" => "refused" \in evidence[uiq[i].send]

SentOnce == Fresh /\ Refusals

(* Objects are built with a new number and no generation, lists hold the   *)
(* newest one or none, and no send is used for the first time.             *)
LEMMA FreshKept ==
  ASSUME TypeOK, TypeOK', Fresh,
         \A s \in Sends : Used(s)' => Used(s),
         \A m \in Messages :
           \/ /\ loads'[m] = loads[m]
              /\ shown'[m] = 0 \/ ~up' \/ (shown'[m] = shown[m] /\ up)
           \/ loads'[m] = loads[m] + 1 /\ shown'[m] = loads'[m],
         \A o \in Objects :
           \/ entry'[o].gen = entry[o].gen
           \/ entry'[o].gen = 0 /\ (~up' \/ o[2] = loads[o[1]] + 1)
  PROVE  Fresh'
<1> SUFFICES ASSUME NEW o \in Objects
             PROVE  /\ o[2] > loads'[o[1]] => entry'[o].gen = 0
                    /\ Listed(o)' => o[2] <= loads'[o[1]]
                    /\ \A g \in 1..MaxGen :
                         Used(<<o, g>>)' => /\ o[2] <= loads'[o[1]]
                                            /\ Listed(o)' => g <= entry'[o].gen
  BY DEF Fresh
<1>1. /\ o[1] \in Messages /\ o[2] \in 1..MaxLoads /\ o[2] \in Nat /\ o[2] # 0
      /\ \A g \in 1..MaxGen : <<o, g>> \in Sends
  BY ObjectNames, SendNames, DeliveryAssumption
<1>2. loads[o[1]] \in Nat /\ loads'[o[1]] \in Nat /\ loads[o[1]] <= loads'[o[1]]
      /\ shown'[o[1]] \in Nat
  <2>1. /\ loads \in [Messages -> 0..MaxLoads] /\ loads' \in [Messages -> 0..MaxLoads]
        /\ shown' \in [Messages -> 0..MaxLoads]
    BY DEF TypeOK
  <2>2. loads[o[1]] \in Nat /\ loads'[o[1]] \in Nat /\ shown'[o[1]] \in Nat
    BY <1>1, <2>1, DeliveryAssumption
  <2>3. loads'[o[1]] = loads[o[1]] \/ loads'[o[1]] = loads[o[1]] + 1
    BY <1>1
  <2> QED
    BY <2>2, <2>3
<1>3. o[2] > loads'[o[1]] => entry'[o].gen = 0
  BY <1>1, <1>2 DEF Fresh
<1>4. Listed(o)' =>
        /\ o[2] <= loads'[o[1]]
        /\ Listed(o) \/ o[2] = loads[o[1]] + 1
  BY <1>1, <1>2 DEF Fresh, Listed
<1>5. ASSUME NEW g \in 1..MaxGen, Used(<<o, g>>)'
      PROVE  /\ o[2] <= loads'[o[1]]
             /\ Listed(o)' => g <= entry'[o].gen
  <2>1. Used(<<o, g>>) /\ o[2] <= loads[o[1]]
    BY <1>1, <1>5 DEF Fresh
  <2>2. ASSUME Listed(o)' PROVE g <= entry'[o].gen
    <3>1. Listed(o) /\ up' /\ g <= entry[o].gen
      BY <1>1, <1>2, <1>4, <2>1, <2>2 DEF Fresh, Listed
    <3>2. entry'[o].gen = entry[o].gen
      BY <1>1, <1>2, <2>1, <3>1
    <3> QED
      BY <3>1, <3>2
  <2> QED
    BY <1>1, <1>2, <2>1, <2>2
<1> QED
  BY <1>3, <1>4, <1>5

(* A generation is sent that was not: the one after the entry's.           *)
LEMMA FreshSent ==
  ASSUME TypeOK, TypeOK', Fresh, NEW o \in Objects, NEW g \in 1..MaxGen,
         StartWorker(<<o, g>>), evidence' = evidence,
         up' = up, up, o[2] <= loads'[o[1]],
         entry'[o].gen = g, entry[o].gen <= g,
         \A p \in Objects \ {o} : entry'[p] = entry[p],
         \A m \in Messages : loads[m] <= loads'[m],
         \A m \in Messages : shown'[m] = shown[m] \/ (m = o[1] /\ shown'[m] = o[2]),
         o[2] <= loads[o[1]] => Listed(o)
  PROVE  Fresh'
<1> SUFFICES ASSUME NEW p \in Objects
             PROVE  /\ p[2] > loads'[p[1]] => entry'[p].gen = 0
                    /\ Listed(p)' => p[2] <= loads'[p[1]]
                    /\ \A h \in 1..MaxGen :
                         Used(<<p, h>>)' => /\ p[2] <= loads'[p[1]]
                                            /\ Listed(p)' => h <= entry'[p].gen
  BY DEF Fresh
<1>1. /\ p[1] \in Messages /\ p[2] \in Nat /\ p = <<p[1], p[2]>> /\ o = <<o[1], o[2]>>
      /\ \A h \in 1..MaxGen : <<p, h>> \in Sends
      /\ <<o, g>> \in Sends
  BY ObjectNames, SendNames, DeliveryAssumption
<1>2. loads[p[1]] \in Nat /\ loads'[p[1]] \in Nat /\ loads[p[1]] <= loads'[p[1]]
  BY <1>1, DeliveryAssumption DEF TypeOK
<1>3. Listed(p)' => Listed(p) \/ p = o
  BY <1>1 DEF Listed
<1>4. \A h \in 1..MaxGen : Used(<<p, h>>)' => Used(<<p, h>>) \/ (p = o /\ h = g)
  BY <1>1 DEF Used, StartWorker, TypeOK
<1>5. CASE p = o
  <2>1. ASSUME NEW h \in 1..MaxGen, Used(<<p, h>>)' PROVE h <= g
    <3>1. CASE h = g
      BY <3>1
    <3>2. CASE h # g
      <4>1. Used(<<p, h>>)
        BY <1>4, <2>1, <3>2
      <4>2. Listed(o) /\ h <= entry[o].gen
        BY <1>5, <4>1 DEF Fresh
      <4>3. entry[o].gen \in Nat
        BY DeliveryAssumption DEF TypeOK, Entries
      <4> QED
        BY <4>2, <4>3
    <3> QED
      BY <3>1, <3>2
  <2> QED
    BY <1>1, <1>2, <1>5, <2>1
<1>6. CASE p # o
  <2>1. entry'[p] = entry[p]
    BY <1>6
  <2>2. Listed(p)' => Listed(p) /\ p[2] <= loads[p[1]]
    BY <1>3, <1>6 DEF Fresh
  <2>3. \A h \in 1..MaxGen :
          Used(<<p, h>>)' => /\ p[2] <= loads[p[1]]
                             /\ Listed(p) => h <= entry[p].gen
    BY <1>4, <1>6 DEF Fresh
  <2>4. p[2] > loads[p[1]] => entry[p].gen = 0
    BY DEF Fresh
  <2> QED
    BY <1>1, <1>2, <2>1, <2>2, <2>3, <2>4
<1> QED
  BY <1>5, <1>6

(* What is queued is of a send; one object is changed at a time.           *)
LEMMA QueuedSends ==
  ASSUME TypeOK
  PROVE  \A i \in DOMAIN uiq : uiq[i] \in UiEvents /\ uiq[i].send \in Sends
<1>1. uiq \in Seq(UiEvents)
  BY DEF TypeOK
<1>2. \A i \in DOMAIN uiq : uiq[i] \in UiEvents
  BY <1>1
<1>3. \A e \in UiEvents : e.send \in Sends
  BY DEF UiEvents
<1> QED
  BY <1>2, <1>3

LEMMA OneEntry ==
  ASSUME TypeOK, NEW o \in Objects, NEW e, entry' = [entry EXCEPT ![o] = e]
  PROVE  entry'[o] = e /\ \A p \in Objects \ {o} : entry'[p] = entry[p]
BY DEF TypeOK

(* What waits in the UI queue of a refusal was refused.                    *)
LEMMA RefusalsKept ==
  ASSUME TypeOK, Refusals, evidence' = evidence,
         worker' = worker \/ worker' = [s \in Sends |-> "none"],
         uiq' = uiq \/ uiq' = <<>> \/ (uiq # <<>> /\ uiq' = Tail(uiq))
  PROVE  Refusals'
<1>1. uiq \in Seq(UiEvents)
  BY DEF TypeOK
<1>2. \A i \in DOMAIN uiq' : \E j \in DOMAIN uiq : uiq'[i] = uiq[j]
  <2>1. CASE uiq' = uiq
    BY <1>1, <2>1
  <2>2. CASE uiq' = <<>>
    BY <2>2
  <2>3. CASE uiq # <<>> /\ uiq' = Tail(uiq)
    BY <1>1, <2>3, SendQueueTail
  <2> QED
    BY <2>1, <2>2, <2>3
<1>3. \A i \in DOMAIN uiq' : uiq'[i].type = "failed" => "refused" \in evidence'[uiq'[i].send]
  BY <1>2 DEF Refusals
<1>4. \A s \in Sends : worker'[s] = worker[s] \/ worker'[s] = "none"
  OBVIOUS
<1> QED
  BY <1>3, <1>4 DEF Refusals

(* An event that is posted is no refusal, or it is of a refused send.      *)
LEMMA RefusalsPosted ==
  ASSUME TypeOK, NEW e \in UiEvents, uiq' = uiq \/ uiq' = Append(uiq, e), Grows, Refusals,
         e.type = "failed" => "refused" \in evidence'[e.send]
  PROVE  \A i \in DOMAIN uiq' : uiq'[i].type = "failed" => "refused" \in evidence'[uiq'[i].send]
<1>1. uiq \in Seq(UiEvents)
  BY DEF TypeOK
<1>2. \A i \in DOMAIN uiq : uiq[i].send \in Sends
  BY QueuedSends
<1>3. \A i \in DOMAIN uiq' : (i \in DOMAIN uiq /\ uiq'[i] = uiq[i]) \/ uiq'[i] = e
  BY <1>1, SendQueueAppend
<1> QED
  BY <1>2, <1>3 DEF Refusals, Grows

LEMMA RebroadcastGen ==
  ASSUME TypeOK, NEW o \in Objects, Rebroadcast(o)
  PROVE  \E e : entry' = [entry EXCEPT ![o] = e] /\ e.gen = entry[o].gen + 1
<1>1. entry[o] \in Entries
  BY DEF TypeOK
<1> DEFINE f == [entry[o] EXCEPT !.state = "SENDING", !.gen = @ + 1,
                                 !.packet = NoSend, !.deadline = FALSE]
<1>2. \E a : \/ entry' = [entry EXCEPT ![o] = [f EXCEPT !.attempt = a]]
             \/ entry' = [entry EXCEPT ![o] = f]
  BY DEF Rebroadcast
<1>3. f.gen = entry[o].gen + 1 /\ \A a : [f EXCEPT !.attempt = a].gen = f.gen
  BY <1>1 DEF Entries
<1> HIDE DEF f
<1> QED
  BY <1>2, <1>3

LEMMA UserStepOnce ==
  ASSUME IInv, SentOnce, TypeOK', UserStep
  PROVE  SentOnce'
<1>0. TypeOK /\ Fresh /\ Refusals
  BY DEF IInv, SentOnce
<1>1. ASSUME NEW o \in Objects, NEW g \in 1..MaxGen, StartWorker(<<o, g>>),
             UNCHANGED <<evidence, uiq>>, ~Used(<<o, g>>)
      PROVE  Refusals'
  <2>1. <<o, g>> \in Sends /\ evidence[<<o, g>>] = {}
    BY <1>1, SendNames DEF Used
  <2> QED
    BY <1>0, <1>1, <2>1 DEF Refusals, StartWorker, TypeOK
<1>2. ASSUME NEW m \in Messages, Compose(m) PROVE SentOnce'
  <2> DEFINE o == <<m, 1>>
  <2>1. /\ o \in Objects /\ 1 \in 1..MaxGen /\ 1 \in 1..MaxLoads
    BY ObjectNames, DeliveryAssumption
  <2>2. /\ up /\ up' = up /\ loads[m] = 0 /\ loads' = [loads EXCEPT ![m] = 1]
        /\ shown' = [shown EXCEPT ![m] = 1]
        /\ StartWorker(<<o, 1>>) /\ UNCHANGED <<evidence, uiq>>
    BY <1>2 DEF Compose, link
  <2>3. entry'[o].gen = 1 /\ \A p \in Objects \ {o} : entry'[p] = entry[p]
    <3>1. /\ outgoing_chat_entry.gen = 1
          /\ [outgoing_chat_entry EXCEPT !.stored = TRUE].gen = 1
          /\ [outgoing_chat_entry EXCEPT !.attempt = 1, !.stored = TRUE].gen = 1
      BY DEF outgoing_chat_entry, Blank
    <3>2. \E e : entry' = [entry EXCEPT ![o] = e] /\ e.gen = 1
      <4>1. \/ entry' = [entry EXCEPT ![o] = outgoing_chat_entry]
            \/ entry' = [entry EXCEPT ![o] = [outgoing_chat_entry EXCEPT !.stored = TRUE]]
            \/ entry' = [entry EXCEPT ![o] = [outgoing_chat_entry EXCEPT !.attempt = 1,
                                                                        !.stored = TRUE]]
        BY <1>2 DEF Compose
      <4> QED
        BY <3>1, <4>1
    <3> QED
      BY <1>0, <2>1, <3>2, OneEntry
  <2>4. entry[o].gen = 0 /\ ~(o[2] <= loads[o[1]])
    BY <1>0, <2>1, <2>2 DEF Fresh
  <2>5. o[2] <= loads'[o[1]] /\ \A n \in Messages : loads[n] <= loads'[n]
    BY <1>0, <2>1, <2>2, DeliveryAssumption DEF TypeOK
  <2>6. \A n \in Messages : shown'[n] = shown[n] \/ (n = o[1] /\ shown'[n] = o[2])
    BY <1>0, <2>2 DEF TypeOK
  <2>7. Fresh'
    <3> HIDE DEF o
    <3> QED
      BY <1>0, <2>1, <2>2, <2>3, <2>4, <2>5, <2>6, FreshSent
  <2>8. ~Used(<<o, 1>>)
    BY <1>0, <2>1, <2>4 DEF Fresh
  <2> QED
    BY <1>1, <2>1, <2>2, <2>7, <2>8 DEF SentOnce
<1>3. ASSUME NEW o \in Objects, Rebroadcast(o) PROVE SentOnce'
  <2>1. /\ Listed(o) /\ up /\ up' = up /\ UNCHANGED <<loads, shown, evidence, uiq>>
        /\ entry[o].gen < MaxGen
    BY <1>3 DEF Rebroadcast, link, Listed
  <2>2. entry[o] \in Entries /\ entry[o].gen \in Nat
    BY <1>0, DeliveryAssumption DEF TypeOK, Entries
  <2>3. PICK g \in 1..MaxGen : g = entry[o].gen + 1
    BY <2>1, <2>2, DeliveryAssumption
  <2>4. StartWorker(<<o, g>>)
    BY <1>3, <2>2, <2>3 DEF Rebroadcast, Entries
  <2>5. entry'[o].gen = g /\ \A p \in Objects \ {o} : entry'[p] = entry[p]
    <3>1. PICK e : entry' = [entry EXCEPT ![o] = e] /\ e.gen = g
      BY <1>0, <1>3, <2>3, RebroadcastGen
    <3> QED
      BY <1>0, <3>1, OneEntry
  <2>6. o[2] <= loads[o[1]] /\ \A n \in Messages : loads[n] \in Nat
    BY <1>0, <2>1, DeliveryAssumption DEF Fresh, TypeOK
  <2>7. Fresh'
    <3>1. entry[o].gen <= g /\ o[2] <= loads'[o[1]] /\ \A n \in Messages : loads[n] <= loads'[n]
      BY <2>1, <2>2, <2>3, <2>6
    <3>2. \A n \in Messages : shown'[n] = shown[n] \/ (n = o[1] /\ shown'[n] = o[2])
      BY <2>1
    <3> QED
      BY <1>0, <2>1, <2>4, <2>5, <3>1, <3>2, FreshSent
  <2>8. ~Used(<<o, g>>)
    <3>1. ~(g <= entry[o].gen)
      BY <2>2, <2>3
    <3> QED
      BY <1>0, <2>1, <3>1 DEF Fresh
  <2> QED
    BY <1>1, <2>1, <2>4, <2>7, <2>8 DEF SentOnce
<1>4. ASSUME NEW o \in Objects, DeleteEntry(o) PROVE SentOnce'
  <2>1. /\ up /\ up' = up /\ UNCHANGED <<loads, worker, uiq, evidence>>
        /\ shown' = [shown EXCEPT ![o[1]] = 0]
        /\ entry' = [entry EXCEPT ![o].deleted = TRUE]
    BY <1>4 DEF DeleteEntry, link, Listed, MessageOf
  <2>2. \A p \in Objects : entry'[p].gen = entry[p].gen
    BY <1>0, <2>1 DEF TypeOK, Entries
  <2>3. \A m \in Messages : loads'[m] = loads[m] /\ (shown'[m] = 0 \/ shown'[m] = shown[m])
    BY <1>0, <2>1 DEF TypeOK
  <2>4. \A s \in Sends : Used(s)' => Used(s)
    BY <2>1 DEF Used
  <2> QED
    BY <1>0, <2>1, <2>2, <2>3, <2>4, FreshKept, RefusalsKept DEF SentOnce
<1> QED
  BY <1>2, <1>3, <1>4 DEF UserStep

(* The UI's events and its timer change states, never generations.         *)
LEMMA UiStepGens ==
  ASSUME IInv, UiStep \/ AdvanceDeliveryStates
  PROVE  /\ UNCHANGED <<up, shown, loads, worker, evidence>>
         /\ uiq' = uiq \/ (uiq # <<>> /\ uiq' = Tail(uiq))
         /\ \A o \in Objects : entry'[o].gen = entry[o].gen
<1>1. /\ UNCHANGED <<up, shown, loads, worker, evidence>>
      /\ uiq' = uiq \/ (uiq # <<>> /\ uiq' = Tail(uiq))
  BY DEF UiStep, SendWasSubmitted, SendFailed, DeliveryStatusReceived, IgnoreEvent,
         AdvanceDeliveryStates, Dequeue, link, radio, memory
<1>0. TypeOK /\ QueueTruthful
  BY DEF IInv, Truthful
<1>2. ASSUME NEW p \in Objects, NEW e \in Entries, e.gen = entry[p].gen,
             NEW st \in DeliveryStates, NEW pk \in Sends \cup {NoSend},
             SetDeliveryState(p, e, st, pk)
      PROVE  \A o \in Objects : entry'[o].gen = entry[o].gen
  <2>1. WithState(e, st, pk).gen = entry[p].gen
    BY <1>2, WithStateType
  <2>2. entry' = [entry EXCEPT ![p] = WithState(e, st, pk)]
    BY <1>2 DEF SetDeliveryState
  <2> QED
    BY <1>0, <2>1, <2>2, OneEntry
<1>3. ASSUME uiq # <<>>, ~Stale(Head(uiq))
      PROVE  /\ Head(uiq).send[1] \in Objects /\ entry[Head(uiq).send[1]] \in Entries
             /\ Head(uiq).send \in Sends /\ Head(uiq).state \in DeliveryStates
  BY <1>0, <1>3, FreshEvent
<1>4. CASE SendWasSubmitted
  <2> DEFINE o == Head(uiq).send[1]
             next == SubmittedState(entry[o].state)
             e == [entry[o] EXCEPT !.packet = Head(uiq).send, !.deadline = next = "SENDING"]
  <2>1. o \in Objects /\ entry[o] \in Entries /\ Head(uiq).send \in Sends
    BY <1>3, <1>4 DEF SendWasSubmitted, Dequeue
  <2>2. e \in Entries /\ e.gen = entry[o].gen
    BY <2>1 DEF Entries
  <2>3. SetDeliveryState(o, e, next, Head(uiq).send)
    BY <1>4 DEF SendWasSubmitted
  <2>4. next \in DeliveryStates /\ Head(uiq).send \in Sends \cup {NoSend}
    BY <2>1 DEF SubmittedState, DeliveryStates, Entries
  <2>5. PICK x, pk : x = o /\ pk = Head(uiq).send
    OBVIOUS
  <2>6. PICK f, st : f = e /\ st = next
    OBVIOUS
  <2>7. /\ x \in Objects /\ f \in Entries /\ f.gen = entry[x].gen /\ st \in DeliveryStates
        /\ pk \in Sends \cup {NoSend} /\ SetDeliveryState(x, f, st, pk)
    BY <2>1, <2>2, <2>3, <2>4, <2>5, <2>6
  <2> HIDE DEF o, next, e
  <2> QED
    BY <1>1, <1>2, <2>7
<1>5. CASE SendFailed
  <2>1. PICK o : o = Head(uiq).send[1]
    OBVIOUS
  <2>2. /\ SetDeliveryState(o, entry[o], "FAILED", NoSend) /\ o \in Objects
        /\ entry[o] \in Entries /\ "FAILED" \in DeliveryStates
    BY <1>3, <1>5, <2>1 DEF SendFailed, Dequeue, DeliveryStates
  <2> QED
    BY <1>1, <1>2, <2>2
<1>6. CASE DeliveryStatusReceived
  <2>1. PICK o : o = Head(uiq).send[1]
    OBVIOUS
  <2>2. /\ SetDeliveryState(o, entry[o], Head(uiq).state, Head(uiq).send)
        /\ o \in Objects /\ entry[o] \in Entries
        /\ Head(uiq).state \in DeliveryStates /\ Head(uiq).send \in Sends
    BY <1>3, <1>6, <2>1 DEF DeliveryStatusReceived, Dequeue
  <2> QED
    BY <1>1, <1>2, <2>2
<1>7. CASE IgnoreEvent
  BY <1>1, <1>7 DEF IgnoreEvent, memory
<1>8. CASE AdvanceDeliveryStates
  <2>1. PICK expired \in SUBSET Overdue :
          entry' = [o \in Objects |-> IF o \in expired
                                      THEN WithState(entry[o], "UNCONFIRMED", NoSend) ELSE entry[o]]
    BY <1>8 DEF AdvanceDeliveryStates
  <2>2. ASSUME NEW o \in Objects
        PROVE  WithState(entry[o], "UNCONFIRMED", NoSend).gen = entry[o].gen
    <3>1. entry[o] \in Entries /\ "UNCONFIRMED" \in DeliveryStates
      BY <1>0 DEF TypeOK, DeliveryStates
    <3> QED
      BY <3>1, WithStateType
  <2> QED
    BY <1>1, <2>1, <2>2
<1> QED
  BY <1>1, <1>4, <1>5, <1>6, <1>7, <1>8 DEF UiStep

LEMMA RadioStepOnce ==
  ASSUME IInv, SentOnce, TypeOK',
         \/ \E s \in Sends : WorkerStep(s)
         \/ \E s \in Sends, kind \in Responses : RoutingResponse(s, kind)
         \/ OnRoutingResponse
  PROVE  SentOnce'
<1>0. TypeOK /\ Fresh /\ Refusals /\ PubTruthful
  BY DEF IInv, SentOnce, Truthful
<1>1. UNCHANGED <<up, shown, loads, entry>>
  BY DEF WorkerStep, SubmitToSdk, RefuseSend, RegisterPendingSend, PostSubmitted,
         RoutingResponse, OnRoutingResponse, link, memory
<1>2. up
  <2>1. CASE OnRoutingResponse
    BY <2>1 DEF OnRoutingResponse, IInv, DeadProcess
  <2> QED
    BY <2>1 DEF WorkerStep, SubmitToSdk, RefuseSend, RegisterPendingSend, PostSubmitted,
                RoutingResponse
<1>3. ASSUME \A s \in Sends : Used(s)' => Used(s) PROVE Fresh'
  BY <1>0, <1>1, <1>2, <1>3, FreshKept
<1>4. ASSUME NEW s \in Sends, WorkerStep(s) PROVE SentOnce'
  <2>1. CASE SubmitToSdk(s) \/ RegisterPendingSend(s)
    <3>1. PICK pc \in {"accepted", "registered"} : worker' = [worker EXCEPT ![s] = pc]
      BY <2>1 DEF SubmitToSdk, RegisterPendingSend
    <3>2. UNCHANGED <<uiq, evidence>> /\ worker[s] \in {"calling", "accepted"}
      BY <2>1 DEF SubmitToSdk, RegisterPendingSend
    <3>3. Fresh'
      BY <1>0, <1>3, <3>1, <3>2 DEF Used, TypeOK
    <3>4. Refusals'
      BY <1>0, <3>1, <3>2 DEF Refusals, TypeOK
    <3> QED
      BY <3>3, <3>4 DEF SentOnce
  <2>2. CASE RefuseSend(s)
    <3> DEFINE v == [type |-> "failed", send |-> s, state |-> "FAILED"]
    <3>1. /\ worker[s] = "calling" /\ evidence[s] = {} /\ worker' = [worker EXCEPT ![s] = "done"]
          /\ evidence' = [evidence EXCEPT ![s] = evidence[s] \cup {"refused"}]
          /\ uiq' = Append(uiq, v)
      BY <1>0, <2>2 DEF RefuseSend, Post, Refusals
    <3>2. v \in UiEvents /\ Grows /\ "refused" \in evidence'[s]
      BY <1>0, <3>1 DEF UiEvents, DeliveryStates, Grows, TypeOK
    <3>3. \A i \in DOMAIN uiq' : uiq'[i].type = "failed" => "refused" \in evidence'[uiq'[i].send]
      BY <1>0, <3>1, <3>2, RefusalsPosted
    <3>4. Refusals'
      BY <1>0, <3>1, <3>3 DEF Refusals, TypeOK
    <3>5. Fresh'
      BY <1>0, <1>3, <3>1 DEF Used, TypeOK
    <3> QED
      BY <3>4, <3>5 DEF SentOnce
  <2>3. CASE PostSubmitted(s)
    <3> DEFINE v == [type |-> "submitted", send |-> s, state |-> "SENDING"]
    <3>1. /\ worker[s] = "registered" /\ worker' = [worker EXCEPT ![s] = "submitted"]
          /\ evidence' = evidence /\ uiq' = Append(uiq, v)
      BY <2>3 DEF PostSubmitted, Post
    <3>2. v \in UiEvents /\ Grows /\ v.type # "failed"
      BY <3>1 DEF UiEvents, DeliveryStates, Grows
    <3>3. \A i \in DOMAIN uiq' : uiq'[i].type = "failed" => "refused" \in evidence'[uiq'[i].send]
      BY <1>0, <3>1, <3>2, RefusalsPosted
    <3>4. Refusals'
      BY <1>0, <3>1, <3>3 DEF Refusals, TypeOK
    <3>5. Fresh'
      BY <1>0, <1>3, <3>1 DEF Used, TypeOK
    <3> QED
      BY <3>4, <3>5 DEF SentOnce
  <2> QED
    BY <1>4, <2>1, <2>2, <2>3 DEF WorkerStep
<1>5. ASSUME NEW s \in Sends, NEW kind \in Responses, RoutingResponse(s, kind) PROVE SentOnce'
  <2> DEFINE v == [type |-> "status", send |-> s, state |-> parse_send_response(kind)]
  <2>1. /\ evidence' = [evidence EXCEPT ![s] = evidence[s] \cup {kind}] /\ worker' = worker
        /\ worker[s] \in {"submitted", "accepted", "registered"}
        /\ uiq' = uiq \/ (IsStatus(parse_send_response(kind)) /\ uiq' = Append(uiq, v))
    BY <1>5 DEF RoutingResponse, OnAir, Post
  <2>2. Grows /\ "refused" \notin evidence[s] /\ kind # "refused"
    BY <1>0, <2>1 DEF Grows, TypeOK, Refusals, Responses
  <2>3. \A i \in DOMAIN uiq' : uiq'[i].type = "failed" => "refused" \in evidence'[uiq'[i].send]
    <3>1. CASE uiq' = uiq
      <4>1. \A i \in DOMAIN uiq : uiq[i].send \in Sends
        BY <1>0, QueuedSends
      <4> QED
        BY <1>0, <2>2, <3>1, <4>1 DEF Refusals, Grows
    <3>2. CASE IsStatus(parse_send_response(kind)) /\ uiq' = Append(uiq, v)
      <4>1. v \in UiEvents /\ v.type # "failed"
        BY <3>2 DEF UiEvents, parse_send_response, IsStatus, Responses, DeliveryStates
      <4> QED
        BY <1>0, <2>2, <3>2, <4>1, RefusalsPosted
    <3> QED
      BY <2>1, <3>1, <3>2
  <2>4. Refusals'
    BY <1>0, <2>1, <2>2, <2>3 DEF Refusals, TypeOK
  <2>5. Fresh'
    BY <1>0, <1>3, <2>1 DEF Used, TypeOK
  <2> QED
    BY <2>4, <2>5 DEF SentOnce
<1>6. CASE OnRoutingResponse
  <2>1. PICK s, kind : s = Head(pubq).send /\ kind = Head(pubq).kind
    OBVIOUS
  <2> DEFINE v == [type |-> "status", send |-> s, state |-> parse_send_response(kind)]
  <2>2. /\ UNCHANGED <<worker, evidence>> /\ pubq # <<>>
        /\ uiq' = uiq \/ (IsStatus(parse_send_response(kind)) /\ uiq' = Append(uiq, v))
    BY <1>6, <2>1 DEF OnRoutingResponse, Post
  <2>3. s \in Sends /\ kind \in Responses
    <3>1. pubq \in Seq(Publications)
      BY <1>0 DEF TypeOK
    <3>2. Head(pubq) \in Publications
      BY <2>2, <3>1, SendQueueTail
    <3> QED
      BY <2>1, <3>2 DEF Publications
  <2>4. \A i \in DOMAIN uiq' : uiq'[i].type = "failed" => "refused" \in evidence'[uiq'[i].send]
    <3>1. CASE uiq' = uiq
      BY <1>0, <2>2, <3>1 DEF Refusals
    <3>2. CASE IsStatus(parse_send_response(kind)) /\ uiq' = Append(uiq, v)
      <4>1. v \in UiEvents /\ v.type # "failed" /\ Grows
        BY <2>2, <2>3, <3>2 DEF UiEvents, parse_send_response, IsStatus, Responses,
                                DeliveryStates, Grows
      <4> QED
        BY <1>0, <3>2, <4>1, RefusalsPosted
    <3> QED
      BY <2>2, <3>1, <3>2
  <2>5. Refusals'
    BY <1>0, <2>2, <2>4 DEF Refusals
  <2>6. Fresh'
    BY <1>3, <2>2 DEF Used
  <2> QED
    BY <2>5, <2>6 DEF SentOnce
<1> QED
  BY <1>4, <1>5, <1>6

LEMMA LoadViewOnce ==
  ASSUME IInv, SentOnce, TypeOK', NEW M \in SUBSET Messages, LoadView(M),
         up, up' = up, UNCHANGED <<worker, evidence, uiq>>
  PROVE  SentOnce' /\ \A o \in Objects : entry'[o] = entry[o] \/ entry'[o].gen = 0
<1>0. TypeOK /\ Fresh /\ Refusals
  BY DEF IInv, SentOnce
<1>1. \A r : stored_chat_entry(r).gen = 0
  BY DEF stored_chat_entry, Blank
<1>2. \A o \in Objects : \/ entry'[o] = entry[o]
                         \/ entry'[o].gen = 0 /\ o[2] = loads[o[1]] + 1
  BY <1>1 DEF LoadView
<1>3. \A m \in Messages :
        \/ loads'[m] = loads[m] /\ (shown'[m] = 0 \/ shown'[m] = shown[m])
        \/ loads'[m] = loads[m] + 1 /\ shown'[m] = loads'[m]
  BY DEF LoadView
<1>4. \A s \in Sends : Used(s)' => Used(s)
  BY DEF Used
<1> QED
  BY <1>0, <1>2, <1>3, <1>4, FreshKept, RefusalsKept DEF SentOnce

LEMMA ViewStepOnce ==
  ASSUME IInv, SentOnce, TypeOK', ViewStep
  PROVE  SentOnce' /\ \A o \in Objects : entry'[o] = entry[o] \/ entry'[o].gen = 0
<1>0. TypeOK /\ Fresh /\ Refusals
  BY DEF IInv, SentOnce
<1>1. ASSUME up, UNCHANGED <<up, loads, entry, worker, evidence, uiq>>,
             \A m \in Messages : shown'[m] = 0 \/ shown'[m] = shown[m]
      PROVE  SentOnce'
  <2>1. \A s \in Sends : Used(s)' => Used(s)
    BY <1>1 DEF Used
  <2> QED
    BY <1>0, <1>1, <2>1, FreshKept, RefusalsKept DEF SentOnce
<1>2. CASE LoseLink
  BY <1>1, <1>2 DEF LoseLink, memory
<1>3. CASE Reconnect
  <2>1. CASE unresolved
    <3>1. LoadView(ChannelMessages) /\ ChannelMessages \in SUBSET Messages
      BY <1>3, <2>1 DEF Reconnect, ChannelMessages
    <3> QED
      BY <1>3, <3>1, LoadViewOnce DEF Reconnect, radio
  <2>2. CASE ~unresolved
    BY <1>1, <1>3, <2>2 DEF Reconnect, memory, radio
  <2> QED
    BY <2>1, <2>2
<1>4. ASSUME NEW m \in Messages, TrimFromWindow(m)
      PROVE  SentOnce' /\ \A o \in Objects : entry'[o] = entry[o] \/ entry'[o].gen = 0
  BY <1>0, <1>1, <1>4 DEF TrimFromWindow, link, radio, TypeOK
<1>5. ASSUME NEW m \in Messages, LoadOlder(m)
      PROVE  SentOnce' /\ \A o \in Objects : entry'[o] = entry[o] \/ entry'[o].gen = 0
  BY <1>5, LoadViewOnce DEF LoadOlder, link, radio
<1> QED
  BY <1>2, <1>3, <1>4, <1>5 DEF ViewStep, LoseLink, memory

LEMMA ProcessStepOnce ==
  ASSUME IInv, SentOnce, TypeOK', ProcessStep
  PROVE  SentOnce' /\ (up' => \A o \in Objects : entry'[o] = entry[o] \/ entry'[o].gen = 0)
<1>0. TypeOK /\ Fresh /\ Refusals /\ DeadProcess
  BY DEF IInv, SentOnce
<1>1. CASE Die
  <2>1. /\ ~up' /\ UNCHANGED <<loads, evidence>> /\ uiq' = <<>>
        /\ worker' = [s \in Sends |-> "none"] /\ entry' = [o \in Objects |-> Blank]
    BY <1>1 DEF Die
  <2>2. \A o \in Objects : entry'[o].gen = 0
    BY <2>1 DEF Blank
  <2>3. \A s \in Sends : Used(s)' => Used(s)
    BY <2>1 DEF Used
  <2> QED
    BY <1>0, <2>1, <2>2, <2>3, FreshKept, RefusalsKept DEF SentOnce
<1>2. CASE Start
  <2>1. /\ ~up /\ UNCHANGED <<worker, evidence, uiq>>
        /\ loads' = [m \in Messages |-> IF Present(m) THEN loads[m] + 1 ELSE loads[m]]
        /\ shown' = [m \in Messages |-> IF Present(m) THEN loads[m] + 1 ELSE 0]
    BY <1>2 DEF Start, radio
  <2>2. \A r : stored_chat_entry(r).gen = 0
    BY DEF stored_chat_entry, Blank
  <2>3. \A o \in Objects : \/ entry'[o] = entry[o]
                           \/ entry'[o].gen = 0 /\ o[2] = loads[o[1]] + 1
    BY <1>2, <2>2 DEF Start
  <2>4. \A m \in Messages : \/ loads'[m] = loads[m] /\ shown'[m] = 0
                            \/ loads'[m] = loads[m] + 1 /\ shown'[m] = loads'[m]
    BY <2>1
  <2>5. \A s \in Sends : Used(s)' => Used(s)
    BY <2>1 DEF Used
  <2> QED
    BY <1>0, <2>1, <2>3, <2>4, <2>5, FreshKept, RefusalsKept DEF SentOnce
<1> QED
  BY <1>1, <1>2 DEF ProcessStep, Crash, CrashInConfirmation, Shutdown, CrashInCompose,
                    CrashInRebroadcast, Die

LEMMA SentOnceKept ==
  ASSUME IInv, SentOnce, [Next]_vars
  PROVE  SentOnce'
<1>1. TypeOK /\ TypeOK' /\ Fresh /\ Refusals
  BY NextInv DEF IInv, SentOnce
<1>2. CASE UiStep \/ AdvanceDeliveryStates
  <2>1. /\ UNCHANGED <<up, shown, loads, worker, evidence>>
        /\ uiq' = uiq \/ (uiq # <<>> /\ uiq' = Tail(uiq))
        /\ \A o \in Objects : entry'[o].gen = entry[o].gen
    BY <1>2, UiStepGens
  <2>2. \A m \in Messages : shown'[m] = shown[m] /\ loads'[m] = loads[m]
    BY <2>1
  <2>3. ASSUME ~up PROVE Fresh'
    BY <1>1, <2>1, <2>3 DEF Fresh, Listed, Used
  <2>4. ASSUME up PROVE Fresh'
    <3>1. \A s \in Sends : Used(s)' => Used(s)
      BY <2>1 DEF Used
    <3> QED
      BY <1>1, <2>1, <2>2, <2>4, <3>1, FreshKept
  <2> QED
    BY <1>1, <2>1, <2>3, <2>4, RefusalsKept DEF SentOnce
<1>3. CASE UNCHANGED vars
  BY <1>1, <1>3 DEF vars, SentOnce, Fresh, Refusals, Listed, Used
<1> QED
  BY <1>1, <1>2, <1>3, UserStepOnce, RadioStepOnce, ViewStepOnce, ProcessStepOnce DEF Next

(* What is HEARD or FAILED stays so: a refusal can only meet a send that   *)
(* no node has answered.                                                   *)
LEMMA FinalStep ==
  ASSUME IInv, SentOnce, [Next]_vars, NEW o \in Objects, up',
         entry[o].state \in {"HEARD", "FAILED"}, entry[o].gen > 0,
         entry[o].gen = entry'[o].gen
  PROVE  entry'[o].state = entry[o].state
<1>0. TypeOK /\ TypeOK' /\ EntryTruthful /\ QueueTruthful /\ Fresh /\ Refusals
      /\ entry[o] \in Entries /\ entry[o].gen \in Nat
  <2>1. TypeOK /\ TypeOK' /\ EntryTruthful /\ QueueTruthful /\ Fresh /\ Refusals
    BY NextInv DEF IInv, Truthful, SentOnce
  <2>2. entry[o] \in Entries
    BY <2>1 DEF TypeOK
  <2>3. entry[o].gen \in 0..MaxGen
    BY <2>2 DEF Entries
  <2> QED
    BY <2>1, <2>2, <2>3, DeliveryAssumption
<1>1. ASSUME NEW p \in Objects, NEW e \in Entries, NEW st \in DeliveryStates,
             NEW pk \in Sends \cup {NoSend}, SetDeliveryState(p, e, st, pk),
             p = o => st = entry[o].state
      PROVE  entry'[o].state = entry[o].state
  <2>1. WithState(e, st, pk).state = st
    BY <1>1, WithStateType
  <2> QED
    BY <1>0, <1>1, <2>1 DEF SetDeliveryState, TypeOK
<1>2. CASE UiStep
  <2>1. PICK v, p : v = Head(uiq) /\ p = v.send[1]
    OBVIOUS
  <2>2. ASSUME uiq # <<>>, ~Stale(v)
        PROVE  /\ v \in UiEvents /\ p \in Objects /\ entry[p] \in Entries /\ v.send \in Sends
               /\ v.state \in DeliveryStates /\ v.send = <<p, entry[p].gen>>
    BY <1>0, <2>1, <2>2, FreshEvent
  <2>3. CASE SendWasSubmitted
    <3> DEFINE next == SubmittedState(entry[p].state)
               e == [entry[p] EXCEPT !.packet = v.send, !.deadline = next = "SENDING"]
    <3>1. p \in Objects /\ entry[p] \in Entries /\ v.send \in Sends \cup {NoSend}
      BY <2>1, <2>2, <2>3 DEF SendWasSubmitted, Dequeue
    <3>2. e \in Entries /\ next \in DeliveryStates
      <4>1. v.send \in Sends
        BY <2>1, <2>2, <2>3 DEF SendWasSubmitted, Dequeue
      <4> QED
        BY <3>1, <4>1 DEF Entries, SubmittedState, DeliveryStates
    <3>3. p = o => next = entry[o].state
      BY DEF SubmittedState
    <3>4. SetDeliveryState(p, e, next, v.send)
      BY <2>1, <2>3 DEF SendWasSubmitted
    <3> HIDE DEF next, e
    <3> QED
      BY <1>1, <3>1, <3>2, <3>3, <3>4
  <2>4. CASE SendFailed
    <3>1. /\ uiq # <<>> /\ ~Stale(v) /\ v.type = "failed"
          /\ SetDeliveryState(p, entry[p], "FAILED", NoSend)
      BY <2>1, <2>4 DEF SendFailed, Dequeue
    <3>2. p \in Objects /\ entry[p] \in Entries /\ v.send = <<p, entry[p].gen>> /\ v.send \in Sends
      BY <2>2, <3>1
    <3>3. evidence[v.send] = {"refused"}
      <4>1. 1 \in DOMAIN uiq /\ v = uiq[1]
        BY <1>0, <2>1, <3>1 DEF TypeOK
      <4> QED
        BY <1>0, <3>1, <3>2, <4>1 DEF Refusals
    <3>4. p = o => entry[o].state = "FAILED"
      <4>1. Backed(entry[o].state, evidence[<<o, entry[o].gen>>])
        BY <1>0 DEF EntryTruthful, Current
      <4> QED
        BY <3>2, <3>3, <4>1 DEF Backed
    <3>5. "FAILED" \in DeliveryStates /\ NoSend \in Sends \cup {NoSend}
      BY DEF DeliveryStates
    <3> QED
      BY <1>1, <3>1, <3>2, <3>4, <3>5
  <2>5. CASE DeliveryStatusReceived
    <3>1. /\ uiq # <<>> /\ ~Stale(v) /\ ~Superseded(v)
          /\ SetDeliveryState(p, entry[p], v.state, v.send)
      BY <2>1, <2>5 DEF DeliveryStatusReceived, Dequeue
    <3>2. p # o
      BY <2>1, <3>1 DEF Superseded
    <3> QED
      BY <1>1, <2>2, <3>1, <3>2
  <2>6. CASE IgnoreEvent
    BY <2>6 DEF IgnoreEvent, memory
  <2> QED
    BY <1>2, <2>3, <2>4, <2>5, <2>6 DEF UiStep
<1>3. CASE AdvanceDeliveryStates
  BY <1>3 DEF AdvanceDeliveryStates, Overdue
<1>4. CASE UserStep
  <2>1. ASSUME NEW m \in Messages, Compose(m) PROVE o # <<m, 1>>
    <3>1. loads[m] = 0
      BY <2>1 DEF Compose
    <3> QED
      BY <1>0, <3>1 DEF Fresh
  <2>2. ASSUME NEW m \in Messages, Compose(m) PROVE entry'[o] = entry[o]
    <3>1. PICK e : entry' = [entry EXCEPT ![<<m, 1>>] = e]
      BY <2>2 DEF Compose
    <3> QED
      BY <1>0, <2>1, <2>2, <3>1 DEF TypeOK
  <2>3. ASSUME NEW p \in Objects, Rebroadcast(p) PROVE entry'[o] = entry[o]
    <3>1. PICK e : entry' = [entry EXCEPT ![p] = e] /\ e.gen = entry[p].gen + 1
      BY <1>0, <2>3, RebroadcastGen
    <3>2. /\ entry'[p] = e
          /\ \A q \in Objects \ {p} : entry'[q] = entry[q]
      BY <1>0, <3>1, OneEntry
    <3>3. p # o
      BY <1>0, <3>1, <3>2
    <3> QED
      BY <3>2, <3>3
  <2>4. ASSUME NEW p \in Objects, DeleteEntry(p) PROVE entry'[o].state = entry[o].state
    BY <1>0, <2>4 DEF DeleteEntry, TypeOK, Entries
  <2> QED
    BY <1>4, <2>2, <2>3, <2>4 DEF UserStep
<1>5. CASE ViewStep \/ ProcessStep
  BY <1>0, <1>5, ViewStepOnce, ProcessStepOnce DEF SentOnce
<1>6. CASE \/ \E s \in Sends : WorkerStep(s)
           \/ \E s \in Sends, kind \in Responses : RoutingResponse(s, kind)
           \/ OnRoutingResponse
           \/ UNCHANGED vars
  BY <1>6 DEF WorkerStep, SubmitToSdk, RefuseSend, RegisterPendingSend, PostSubmitted,
              RoutingResponse, OnRoutingResponse, memory, vars
<1> QED
  BY <1>2, <1>3, <1>4, <1>5, <1>6 DEF Next

(* HEARD and FAILED are final for their generation, whatever late events,  *)
(* duplicates, refusals, reloads and crashes there are.                    *)
THEOREM FinalStates == Spec => FinalWithinGeneration
<1>1. Init => SentOnce
  <2> SUFFICES ASSUME Init PROVE SentOnce
    OBVIOUS
  <2>1. \A o \in Objects : /\ entry[o].gen = 0 /\ ~Listed(o)
                           /\ \A g \in 1..MaxGen : ~Used(<<o, g>>)
    BY ObjectNames, SendNames, DeliveryAssumption DEF Init, Blank, Listed, Used
  <2>2. Fresh
    BY <2>1 DEF Fresh
  <2>3. Refusals
    BY DEF Init, Refusals
  <2> QED
    BY <2>2, <2>3 DEF SentOnce
<1>2. IInv /\ SentOnce /\ [Next]_vars => SentOnce'
  BY SentOnceKept
<1>3. IInv /\ SentOnce /\ [Next]_vars =>
        [\A o \in Objects :
           (/\ up' /\ entry[o].state \in {"HEARD", "FAILED"}
            /\ entry[o].gen > 0 /\ entry[o].gen = entry'[o].gen)
           => entry'[o].state = entry[o].state]_vars
  BY FinalStep
<1> QED
  BY <1>1, <1>2, <1>3, Inductive, PTL DEF Spec, FinalWithinGeneration

-----------------------------------------------------------------------------
(* A store that does not fail.  No SENDING is left behind, the attempts    *)
(* are a history, and the threads, queues and rows together keep the       *)
(* promise of DeliveryPromise.                                             *)

ReliableStore == MaxFaults = 0

LEMMA NoFault ==
  ASSUME ReliableStore, TypeOK, NEW n \in Nat \ {0}
  PROVE  ~Fail(n)
BY DEF ReliableStore, TypeOK, Fail

-----------------------------------------------------------------------------
(* What the steps do to entries and rows when no transaction fails.        *)

(* The row of m after an entry has been written to it.                     *)
Written(m, e) ==
  /\ ~Present(m) => row'[m] = row[m]
  /\ Present(m) /\ e.stored =>
       /\ row'[m].state = e.state
       /\ row'[m].attempts \in Seq(DeliveryStates)
       /\ Len(row'[m].attempts) = Len(row[m].attempts)
       /\ \A i \in DOMAIN row[m].attempts :
            row'[m].attempts[i] = IF i = e.attempt THEN e.state ELSE row[m].attempts[i]

OthersKept(o) ==
  /\ \A p \in Objects \ {o} : entry'[p] = entry[p]
  /\ \A n \in Messages \ {o[1]} : row'[n] = row[n]

SameEntry(e, f) ==
  e.gen = f.gen /\ e.attempt = f.attempt /\ e.stored = f.stored /\ e.deleted = f.deleted

LEMMA UpdateWrites ==
  ASSUME NEW r \in Rows, NEW e \in Entries
  PROVE  /\ r.state = "absent" => update_delivery_state(r, e) = r
         /\ r.state # "absent" /\ e.stored =>
              /\ update_delivery_state(r, e).state = e.state
              /\ Len(update_delivery_state(r, e).attempts) = Len(r.attempts)
              /\ \A i \in DOMAIN r.attempts :
                   update_delivery_state(r, e).attempts[i]
                     = IF i = e.attempt THEN e.state ELSE r.attempts[i]
<1>1. r.attempts \in Seq(DeliveryStates) /\ e.state \in DeliveryStates
  BY DEF Rows, Entries
<1>2. CASE r.state = "absent" \/ ~e.stored
  BY <1>2 DEF update_delivery_state
<1>3. CASE ~(r.state = "absent" \/ ~e.stored)
  <2> DEFINE a == IF e.attempt \in DOMAIN r.attempts
                  THEN [r.attempts EXCEPT ![e.attempt] = e.state] ELSE r.attempts
             p == IF e.packet = NoSend THEN r.packet ELSE e.packet
  <2>1. update_delivery_state(r, e) =
          [state |-> e.state, attempts |-> a, packet |-> p, placed |-> r.placed]
    BY <1>3 DEF update_delivery_state, Rows
  <2>2. /\ Len(a) = Len(r.attempts)
        /\ \A i \in DOMAIN r.attempts : a[i] = IF i = e.attempt THEN e.state ELSE r.attempts[i]
    BY <1>1
  <2> HIDE DEF a, p
  <2> QED
    BY <1>3, <2>1, <2>2
<1> QED
  BY <1>2, <1>3

LEMMA MovedKeeps ==
  ASSUME TypeOK, NEW o \in Objects, NEW e \in Entries, NEW st, e.gen \in 1..MaxGen
  PROVE  /\ MovedRow(o, e, st) \in Rows
         /\ MovedRow(o, e, st).state = row[o[1]].state
         /\ MovedRow(o, e, st).attempts = row[o[1]].attempts
<1>1. o[1] \in Messages /\ <<o, e.gen>> \in Sends
  BY ObjectNames, SendNames
<1>2. row[o[1]] \in Rows
  BY <1>1 DEF TypeOK
<1>3. \A r \in Rows, s \in Sends : /\ update_message_chronology(r, s) \in Rows
                                   /\ update_message_chronology(r, s).state = r.state
                                   /\ update_message_chronology(r, s).attempts = r.attempts
  BY DEF update_message_chronology, Rows
<1> QED
  BY <1>1, <1>2, <1>3 DEF MovedRow

LEMMA SetWrites ==
  ASSUME ReliableStore, TypeOK, NEW o \in Objects, NEW e \in Entries, NEW st \in DeliveryStates,
         NEW p \in Sends \cup {NoSend}, e.gen \in 1..MaxGen, SetDeliveryState(o, e, st, p)
  PROVE  /\ entry'[o] = WithState(e, st, p)
         /\ OthersKept(o)
         /\ Written(o[1], WithState(e, st, p))
<1> DEFINE e1 == WithState(e, st, p)
           r  == MovedRow(o, e, st)
<1>1. entry' = [entry EXCEPT ![o] = e1]
      /\ row' = [row EXCEPT ![o[1]] = update_delivery_state(r, e1)]
  BY NoFault DEF SetDeliveryState, Commit, MessageOf
<1>2. o[1] \in Messages /\ row \in [Messages -> Rows] /\ entry \in [Objects -> Entries]
  BY ObjectNames DEF TypeOK
<1>3. r \in Rows /\ r.state = row[o[1]].state /\ r.attempts = row[o[1]].attempts
  BY MovedKeeps
<1>4. e1 \in Entries
  BY WithStateType
<1>5. r.state = "absent" => r = row[o[1]]
  BY <1>3 DEF MovedRow, update_message_chronology
<1>6. /\ r.state = "absent" => update_delivery_state(r, e1) = r
      /\ r.state # "absent" /\ e1.stored =>
           /\ update_delivery_state(r, e1).state = e1.state
           /\ Len(update_delivery_state(r, e1).attempts) = Len(r.attempts)
           /\ \A i \in DOMAIN r.attempts :
                update_delivery_state(r, e1).attempts[i]
                  = IF i = e1.attempt THEN e1.state ELSE r.attempts[i]
  BY <1>3, <1>4, UpdateWrites
<1>7. update_delivery_state(r, e1) \in Rows
  BY <1>3, <1>4, UpdateType
<1>8. update_delivery_state(r, e1).attempts \in Seq(DeliveryStates)
  BY <1>7 DEF Rows
<1> HIDE DEF e1, r
<1>9. entry'[o] = e1 /\ OthersKept(o)
  BY <1>1, <1>2 DEF OthersKept
<1>10. Written(o[1], e1)
  BY <1>1, <1>2, <1>3, <1>5, <1>6, <1>8 DEF Written, Present
<1> QED
  BY <1>9, <1>10 DEF e1

(* The three handlers.                                                     *)
Handled(o) ==
  LET v == Head(uiq) IN
  /\ uiq # <<>> /\ uiq' = Tail(uiq) /\ v.send = Current(o) /\ v \in UiEvents
  /\ UNCHANGED <<link, shown, loads, radio>>
  /\ entry[o] \in Entries /\ entry[o].gen \in 1..MaxGen /\ ~entry[o].deleted
  /\ OthersKept(o)
  /\ entry'[o] \in Entries /\ SameEntry(entry'[o], entry[o])
  /\ Written(o[1], entry'[o])
  /\ \/ /\ v.type = "submitted"
        /\ entry'[o].state = SubmittedState(entry[o].state)
     \/ /\ v.type = "failed" /\ entry'[o].state = "FAILED"
        /\ entry'[o].deadline => entry[o].deadline
     \/ /\ v.type = "status" /\ entry'[o].state = v.state
        /\ entry[o].state \notin {"HEARD", "FAILED"}
        /\ entry'[o].deadline => entry[o].deadline

LEMMA HandlerWrites ==
  ASSUME ReliableStore, IInv, SendWasSubmitted \/ SendFailed \/ DeliveryStatusReceived
  PROVE  \E o \in Objects : Handled(o)
<1> USE DEF IInv, Truthful
<1>1. PICK v, o : v = Head(uiq) /\ o = v.send[1]
  OBVIOUS
<1>2. /\ uiq # <<>> /\ uiq' = Tail(uiq) /\ ~Stale(v) /\ UNCHANGED <<link, shown, loads, radio>>
  BY <1>1 DEF SendWasSubmitted, SendFailed, DeliveryStatusReceived, Dequeue
<1>3. /\ v \in UiEvents /\ v.send \in Sends /\ v.state \in DeliveryStates /\ o \in Objects
      /\ entry[o] \in Entries /\ entry[o].gen \in 1..MaxGen /\ v.send = Current(o)
  BY <1>1, <1>2, FreshEvent DEF Current
<1>4. ~entry[o].deleted
  BY <1>1, <1>2 DEF Stale
<1>5. ASSUME NEW e \in Entries, SameEntry(e, entry[o]), NEW st \in DeliveryStates,
             NEW p \in Sends \cup {NoSend}, SetDeliveryState(o, e, st, p)
      PROVE  /\ OthersKept(o) /\ Written(o[1], entry'[o])
             /\ entry'[o] \in Entries /\ SameEntry(entry'[o], entry[o])
             /\ entry'[o].state = st /\ (entry'[o].deadline => e.deadline)
  <2>1. /\ entry'[o] = WithState(e, st, p) /\ OthersKept(o)
        /\ Written(o[1], WithState(e, st, p))
    BY <1>3, <1>5, SetWrites DEF SameEntry
  <2>2. /\ WithState(e, st, p) \in Entries /\ SameEntry(WithState(e, st, p), e)
        /\ WithState(e, st, p).state = st /\ (WithState(e, st, p).deadline => e.deadline)
    BY <1>5 DEF WithState, Entries, SameEntry
  <2> QED
    BY <1>5, <2>1, <2>2 DEF SameEntry
<1>6. CASE SendWasSubmitted
  <2> DEFINE next == SubmittedState(entry[o].state)
             e == [entry[o] EXCEPT !.packet = v.send, !.deadline = next = "SENDING"]
  <2>1. v.type = "submitted" /\ SetDeliveryState(o, e, next, v.send)
    BY <1>1, <1>6 DEF SendWasSubmitted, Dequeue
  <2>2. e \in Entries /\ SameEntry(e, entry[o]) /\ next \in DeliveryStates
    BY <1>3 DEF Entries, SameEntry, SubmittedState, DeliveryStates
  <2>3. PICK f, st : f = e /\ st = next
    OBVIOUS
  <2>4. /\ f \in Entries /\ SameEntry(f, entry[o]) /\ st \in DeliveryStates
        /\ SetDeliveryState(o, f, st, v.send) /\ v.send \in Sends \cup {NoSend}
    BY <1>3, <2>1, <2>2, <2>3
  <2>5. /\ OthersKept(o) /\ Written(o[1], entry'[o])
        /\ entry'[o] \in Entries /\ SameEntry(entry'[o], entry[o])
        /\ entry'[o].state = st
    BY <1>5, <2>4
  <2> QED
    BY <1>1, <1>2, <1>3, <1>4, <2>1, <2>3, <2>5 DEF Handled
<1>7. CASE SendFailed
  <2>1. /\ v.type = "failed" /\ SetDeliveryState(o, entry[o], "FAILED", NoSend)
        /\ "FAILED" \in DeliveryStates /\ SameEntry(entry[o], entry[o])
    BY <1>1, <1>7 DEF SendFailed, Dequeue, DeliveryStates, SameEntry
  <2>2. /\ OthersKept(o) /\ Written(o[1], entry'[o])
        /\ entry'[o] \in Entries /\ SameEntry(entry'[o], entry[o])
        /\ entry'[o].state = "FAILED" /\ (entry'[o].deadline => entry[o].deadline)
    BY <1>3, <1>5, <2>1
  <2> QED
    BY <1>1, <1>2, <1>3, <1>4, <2>1, <2>2 DEF Handled
<1>8. CASE DeliveryStatusReceived
  <2>1. /\ v.type = "status" /\ SetDeliveryState(o, entry[o], v.state, v.send)
        /\ entry[o].state \notin {"HEARD", "FAILED"} /\ SameEntry(entry[o], entry[o])
    BY <1>1, <1>8 DEF DeliveryStatusReceived, Dequeue, Superseded, SameEntry
  <2>2. /\ OthersKept(o) /\ Written(o[1], entry'[o])
        /\ entry'[o] \in Entries /\ SameEntry(entry'[o], entry[o])
        /\ entry'[o].state = v.state /\ (entry'[o].deadline => entry[o].deadline)
    BY <1>3, <1>5, <2>1
  <2> QED
    BY <1>1, <1>2, <1>3, <1>4, <2>1, <2>2 DEF Handled
<1> QED
  BY <1>6, <1>7, <1>8

-----------------------------------------------------------------------------
(* What a step does to one message while the process runs: its rows, its   *)
(* objects and its place in the view.                                      *)

InPlace(m) == shown'[m] = shown[m] /\ loads'[m] = loads[m]

OthersSame(m, k) == \A j \in (1..MaxLoads) \ {k} : entry'[<<m, j>>] = entry[<<m, j>>]

Quiet(m) == InPlace(m) /\ row'[m] = row[m] /\ OthersSame(m, 0)

(* A state written to one object and to its row.                           *)
Wrote(m, k) ==
  /\ InPlace(m) /\ OthersSame(m, k)
  /\ k = shown[m] \/ (entry[<<m, k>>].gen > 0 /\ ~entry[<<m, k>>].deleted)
  /\ entry'[<<m, k>>] \in Entries /\ SameEntry(entry'[<<m, k>>], entry[<<m, k>>])
  /\ Written(m, entry'[<<m, k>>])

(* An object that has just been sent.                                      *)
Sending(e, g) == e.state = "SENDING" /\ e.gen = g /\ ~e.deadline /\ e.stored

Composed(m) ==
  /\ loads[m] = 0 /\ loads'[m] = 1 /\ shown'[m] = 1 /\ OthersSame(m, 1)
  /\ ~Present(m) /\ row'[m].state = "SENDING" /\ row'[m].attempts = <<"SENDING">>
  /\ Sending(entry'[<<m, 1>>], 1)
  /\ entry'[<<m, 1>>].attempt = 1 /\ ~entry'[<<m, 1>>].deleted

Resent(m, k) ==
  LET e == entry[<<m, k>>]
      f == entry'[<<m, k>>]
  IN
  /\ InPlace(m) /\ OthersSame(m, k) /\ k = shown[m] /\ can_manual_resend(<<m, k>>)
  /\ Sending(f, e.gen + 1) /\ f.deleted = e.deleted
  /\ \/ /\ Present(m) /\ f.attempt = Len(row[m].attempts) + 1
        /\ row'[m].state = "SENDING"
        /\ row'[m].attempts = Append(row[m].attempts, "SENDING")
     \/ ~Present(m) /\ row'[m] = row[m] /\ f.attempt = 0

Removed(m, k) ==
  LET e == entry[<<m, k>>]
      f == entry'[<<m, k>>]
  IN
  /\ k = shown[m] /\ shown'[m] = 0 /\ loads'[m] = loads[m] /\ OthersSame(m, k)
  /\ can_manual_resend(<<m, k>>) /\ row'[m] = NoRow
  /\ f.deleted /\ f.state = e.state /\ f.gen = e.gen /\ f.stored = e.stored

Loaded(m) ==
  /\ m \in ChannelMessages /\ Present(m) /\ (shown[m] = 0 \/ unresolved)
  /\ loads'[m] = loads[m] + 1 /\ shown'[m] = loads[m] + 1 /\ row'[m] = row[m]
  /\ OthersSame(m, loads[m] + 1)
  /\ entry'[<<m, loads[m] + 1>>] = stored_chat_entry(row[m])

Dropped(m) ==
  /\ m \in ChannelMessages /\ (MidSessionReload \/ unresolved)
  /\ shown'[m] = 0 /\ loads'[m] = loads[m] /\ row'[m] = row[m] /\ OthersSame(m, 0)

MessageStep(m) ==
  \/ Quiet(m) \/ Composed(m) \/ Loaded(m) \/ Dropped(m)
  \/ \E k \in 1..MaxLoads : <<m, k>> \in Objects /\ (Wrote(m, k) \/ Resent(m, k) \/ Removed(m, k))

(* Every object in a list, or sent by this process, has its row: no insert *)
(* has failed.                                                             *)
StoredEntries == \A o \in Objects : Listed(o) \/ entry[o].gen > 0 => entry[o].stored

(* Nothing is left of a row that was deleted.                              *)
AbsentIsEmpty == \A m \in Messages : ~Present(m) => row[m].attempts = <<>>

LEMMA SlotNames ==
  ASSUME NEW m \in Messages, NEW k \in 1..MaxLoads
  PROVE  <<m, k>> \in Objects /\ k \in Nat /\ k # 0
BY ObjectNames, DeliveryAssumption

LEMMA NoChange ==
  ASSUME UNCHANGED <<shown, loads, entry, row>>, NEW m \in Messages
  PROVE  MessageStep(m)
BY DEF MessageStep, Quiet, InPlace, OthersSame

LEMMA HandledMessage ==
  ASSUME TypeOK, NEW o \in Objects, Handled(o), NEW m \in Messages
  PROVE  Quiet(m) \/ (m = o[1] /\ Wrote(m, o[2]))
<1>1. o[1] \in Messages /\ o[2] \in 1..MaxLoads /\ o = <<o[1], o[2]>>
  BY ObjectNames
<1>2. /\ UNCHANGED <<shown, loads>> /\ OthersKept(o)
      /\ entry'[o] \in Entries /\ SameEntry(entry'[o], entry[o]) /\ Written(o[1], entry'[o])
      /\ entry[o].gen \in 1..MaxGen /\ ~entry[o].deleted
  BY DEF Handled
<1>3. entry[o].gen > 0
  BY <1>2, DeliveryAssumption
<1>4. CASE m = o[1]
  <2>1. OthersSame(m, o[2])
    BY <1>1, <1>2, <1>4, SlotNames DEF OthersSame, OthersKept
  <2> QED
    BY <1>1, <1>2, <1>3, <1>4, <2>1 DEF Wrote, InPlace
<1>5. CASE m # o[1]
  <2>1. OthersSame(m, 0) /\ row'[m] = row[m]
    BY <1>1, <1>2, <1>5, SlotNames DEF OthersSame, OthersKept
  <2> QED
    BY <1>2, <2>1 DEF Quiet, InPlace
<1> QED
  BY <1>4, <1>5

(* One tick gives up some of the listed SENDING entries.                   *)
LEMMA TickMessage ==
  ASSUME ReliableStore, TypeOK, AdvanceDeliveryStates, NEW m \in Messages
  PROVE  \/ Quiet(m)
         \/ /\ shown[m] \in 1..MaxLoads /\ Wrote(m, shown[m]) /\ up
            /\ entry[<<m, shown[m]>>].state = "SENDING"
            /\ entry[<<m, shown[m]>>].deadline
            /\ entry'[<<m, shown[m]>>].state = "UNCONFIRMED"
            /\ ~entry'[<<m, shown[m]>>].deadline
<1> DEFINE o == <<m, shown[m]>>
           e == WithState(entry[o], "UNCONFIRMED", NoSend)
<1>1. PICK expired \in SUBSET Overdue :
        /\ entry' = [p \in Objects |-> IF p \in expired
                                       THEN WithState(entry[p], "UNCONFIRMED", NoSend)
                                       ELSE entry[p]]
        /\ row' = [n \in Messages |->
                     IF shown[n] # 0 /\ <<n, shown[n]>> \in expired
                     THEN update_delivery_state(row[n],
                            WithState(entry[<<n, shown[n]>>], "UNCONFIRMED", NoSend))
                     ELSE row[n]]
        /\ UNCHANGED <<shown, loads>>
  BY NoFault DEF AdvanceDeliveryStates
<1>2. InPlace(m)
  BY <1>1 DEF InPlace
<1>3. ASSUME NEW k \in 1..MaxLoads, <<m, k>> \in expired
      PROVE  k = shown[m] /\ shown[m] # 0 /\ up /\ <<m, k>> \in Objects
  BY <1>3, SlotNames DEF Overdue, ListedObjects, Listed
<1>4. ASSUME NEW k \in 1..MaxLoads, <<m, k>> \notin expired
      PROVE  entry'[<<m, k>>] = entry[<<m, k>>]
  BY <1>1, <1>4, SlotNames
<1>5. CASE shown[m] # 0 /\ o \in expired
  <2>1. o \in Objects /\ shown[m] \in 1..MaxLoads /\ up
        /\ entry[o].state = "SENDING" /\ entry[o].deadline
    <3>1. o \in Objects /\ Listed(o) /\ entry[o].state = "SENDING" /\ entry[o].deadline
      BY <1>5 DEF Overdue, ListedObjects
    <3>2. \A p \in Objects : p[2] \in 1..MaxLoads
      BY ObjectNames
    <3> QED
      BY <3>1, <3>2 DEF Listed
  <2>2. row[m] \in Rows /\ entry[o] \in Entries
    BY <2>1 DEF TypeOK
  <2>3. /\ e \in Entries /\ SameEntry(e, entry[o]) /\ e.state = "UNCONFIRMED" /\ ~e.deadline
    BY <2>2 DEF WithState, Entries, SameEntry, DeliveryStates
  <2>4. entry'[o] = e /\ row'[m] = update_delivery_state(row[m], e)
    BY <1>1, <1>5, <2>1
  <2>5. update_delivery_state(row[m], e).attempts \in Seq(DeliveryStates)
    BY <2>2, <2>3, UpdateType DEF Rows
  <2> HIDE DEF e
  <2>6. Written(m, e)
    BY <2>2, <2>3, <2>4, <2>5, UpdateWrites DEF Written, Present
  <2>7. OthersSame(m, shown[m])
    BY <1>3, <1>4 DEF OthersSame
  <2> QED
    BY <1>2, <2>1, <2>3, <2>4, <2>6, <2>7 DEF Wrote
<1>6. CASE ~(shown[m] # 0 /\ o \in expired)
  <2>1. row'[m] = row[m]
    BY <1>1, <1>6
  <2>2. OthersSame(m, 0)
    BY <1>3, <1>4, <1>6 DEF OthersSame
  <2> QED
    BY <1>2, <2>1, <2>2 DEF Quiet
<1> QED
  BY <1>5, <1>6

(* An action that touches one object leaves the other messages alone.      *)
LEMMA OtherMessage ==
  ASSUME TypeOK, NEW o \in Objects, \A p \in Objects \ {o} : entry'[p] = entry[p]
  PROVE  /\ OthersSame(o[1], o[2])
         /\ \A m \in Messages \ {o[1]} : OthersSame(m, 0)
<1>1. o[1] \in Messages /\ o[2] \in 1..MaxLoads /\ o = <<o[1], o[2]>>
  BY ObjectNames
<1>2. ASSUME NEW m \in Messages, NEW k \in 1..MaxLoads, m # o[1] \/ k # o[2]
      PROVE  entry'[<<m, k>>] = entry[<<m, k>>]
  BY <1>1, <1>2, SlotNames
<1> QED
  BY <1>1, <1>2 DEF OthersSame

LEMMA ComposeMessage ==
  ASSUME ReliableStore, TypeOK, NEW m \in Messages, Compose(m)
  PROVE  /\ Composed(m)
         /\ \A n \in Messages \ {m} : Quiet(n)
<1> DEFINE e == [outgoing_chat_entry EXCEPT !.attempt = 1, !.stored = TRUE]
<1>1. /\ up /\ loads[m] = 0 /\ ~Present(m)
      /\ loads' = [loads EXCEPT ![m] = 1] /\ shown' = [shown EXCEPT ![m] = 1]
      /\ row' = [row EXCEPT ![m] = [NoRow EXCEPT !.state = "SENDING",
                                                 !.attempts = <<"SENDING">>,
                                                 !.placed = <<<<m, 1>>, 1>>]]
      /\ entry' = [entry EXCEPT ![<<m, 1>>] = e]
  BY NoFault DEF Compose
<1>2. <<m, 1>> \in Objects /\ 1 \in 1..MaxLoads
  BY SlotNames, DeliveryAssumption
<1>3. entry'[<<m, 1>>] = e /\ \A p \in Objects \ {<<m, 1>>} : entry'[p] = entry[p]
  BY <1>1, <1>2, OneEntry
<1>4. Sending(e, 1) /\ e.attempt = 1 /\ ~e.deleted
  BY DEF outgoing_chat_entry, Blank, Sending
<1>5. /\ loads'[m] = 1 /\ shown'[m] = 1
      /\ row'[m].state = "SENDING" /\ row'[m].attempts = <<"SENDING">>
  BY <1>1 DEF TypeOK, NoRow
<1>6. OthersSame(m, 1) /\ \A n \in Messages \ {m} : OthersSame(n, 0)
  BY <1>2, <1>3, OtherMessage
<1>7. ASSUME NEW n \in Messages \ {m}
      PROVE  loads'[n] = loads[n] /\ shown'[n] = shown[n] /\ row'[n] = row[n]
  BY <1>1 DEF TypeOK
<1> HIDE DEF e
<1> QED
  BY <1>1, <1>3, <1>4, <1>5, <1>6, <1>7 DEF Composed, Quiet, InPlace

LEMMA RebroadcastMessage ==
  ASSUME ReliableStore, TypeOK, StoredEntries, NEW o \in Objects, Rebroadcast(o)
  PROVE  /\ Resent(o[1], o[2])
         /\ \A n \in Messages \ {o[1]} : Quiet(n)
<1>1. PICK m, a, r1 : /\ m = o[1] /\ a = Append(row[m].attempts, "SENDING")
                      /\ r1 = [row[m] EXCEPT !.attempts = Append(@, "SENDING")]
  OBVIOUS
<1>2. PICK e, e1, e0 :
        /\ e = [entry[o] EXCEPT !.state = "SENDING", !.gen = @ + 1,
                                !.packet = NoSend, !.deadline = FALSE]
        /\ e1 = [e EXCEPT !.attempt = Len(r1.attempts)]
        /\ e0 = [e EXCEPT !.attempt = 0]
  OBVIOUS
<1>3. m \in Messages /\ o[2] \in 1..MaxLoads /\ o = <<m, o[2]>> /\ row[m] \in Rows
      /\ entry[o] \in Entries
  BY <1>1, ObjectNames DEF TypeOK
<1>4. r1.attempts = a /\ Len(a) = Len(row[m].attempts) + 1 /\ a \in Seq(DeliveryStates)
      /\ Len(a) \in DOMAIN a /\ a[Len(a)] = "SENDING"
  BY <1>1, <1>3 DEF Rows, DeliveryStates
<1>5. /\ Listed(o) /\ can_manual_resend(o) /\ UNCHANGED <<shown, loads>>
      /\ \/ /\ e.stored /\ Present(m)
            /\ entry' = [entry EXCEPT ![o] = e1]
            /\ row' = [row EXCEPT ![m] = update_delivery_state(r1, e1)]
         \/ /\ ~(e.stored /\ Present(m))
            /\ entry' = [entry EXCEPT ![o] = e0] /\ row' = row
  <2>1. ~Fail(1) /\ ~Fail(2)
    BY NoFault
  <2>2. UNCHANGED <<shown, loads>> /\ Listed(o) /\ can_manual_resend(o)
    BY DEF Rebroadcast
  <2>3. \/ /\ e.stored /\ Present(m)
           /\ entry' = [entry EXCEPT ![o] = e1]
           /\ Commit(m, update_delivery_state(r1, e1))
        \/ /\ ~(e.stored /\ Present(m))
           /\ entry' = [entry EXCEPT ![o] = e0] /\ row' = row
    BY <1>1, <1>2, <2>1, Zenon DEF Rebroadcast, MessageOf
  <2> QED
    BY <2>2, <2>3 DEF Commit
<1>6. o[2] = shown[m] /\ entry[o].stored
  BY <1>1, <1>5 DEF Listed, StoredEntries
<1>7. /\ Sending(e1, entry[o].gen + 1) /\ e1.deleted = entry[o].deleted /\ e1.attempt = Len(a)
      /\ Sending(e0, entry[o].gen + 1) /\ e0.deleted = entry[o].deleted /\ e0.attempt = 0
      /\ e.stored
  BY <1>2, <1>3, <1>4, <1>6 DEF Sending, Entries
<1>8. \E f : entry' = [entry EXCEPT ![o] = f]
  BY <1>5
<1>9. OthersSame(m, o[2]) /\ \A n \in Messages \ {m} : OthersSame(n, 0)
  BY <1>1, <1>8, OneEntry, OtherMessage
<1>10. ASSUME NEW n \in Messages \ {m}
       PROVE  loads'[n] = loads[n] /\ shown'[n] = shown[n] /\ row'[n] = row[n]
  BY <1>5 DEF TypeOK
<1>11. CASE Present(m)
  <2>1. entry'[o] = e1 /\ row'[m] = update_delivery_state(r1, e1)
    BY <1>3, <1>5, <1>7, <1>11, OneEntry DEF TypeOK
  <2>2. r1.state # "absent" /\ e1.state = "SENDING" /\ e1.stored
    BY <1>1, <1>3, <1>7, <1>11 DEF Present, Rows, Sending
  <2>3. update_delivery_state(r1, e1).state = "SENDING"
        /\ update_delivery_state(r1, e1).attempts = a
    <3>1. r1 \in Rows
      BY <1>1, <1>3, <1>4 DEF Rows
    <3>2. [a EXCEPT ![Len(a)] = "SENDING"] = a
      BY <1>4
    <3> QED
      BY <1>4, <1>7, <2>2, <3>1, <3>2 DEF update_delivery_state, Rows
  <2>5. Resent(m, o[2])
    <3>1. <<m, o[2]>> = o /\ loads'[m] = loads[m] /\ shown'[m] = shown[m]
      BY <1>3, <1>5
    <3>2. /\ row'[m].state = "SENDING"
          /\ row'[m].attempts = Append(row[m].attempts, "SENDING")
          /\ entry'[o].attempt = Len(row[m].attempts) + 1
      BY <1>1, <1>4, <1>7, <2>1, <2>3
    <3>3. Sending(entry'[o], entry[o].gen + 1) /\ entry'[o].deleted = entry[o].deleted
      BY <1>7, <2>1
    <3> QED
      BY <1>5, <1>6, <1>9, <1>11, <3>1, <3>2, <3>3 DEF Resent, InPlace
  <2> QED
    BY <1>1, <1>9, <1>10, <2>5 DEF Quiet, InPlace
<1>12. CASE ~Present(m)
  <2>1. entry'[o] = e0 /\ row' = row
    BY <1>3, <1>5, <1>12, OneEntry
  <2> QED
    BY <1>1, <1>3, <1>5, <1>6, <1>7, <1>9, <1>10, <1>12, <2>1 DEF Resent, Quiet, InPlace
<1> QED
  BY <1>11, <1>12

LEMMA DeleteMessage ==
  ASSUME ReliableStore, TypeOK, StoredEntries, NEW o \in Objects, DeleteEntry(o)
  PROVE  /\ Removed(o[1], o[2])
         /\ \A n \in Messages \ {o[1]} : Quiet(n)
<1>1. o[1] \in Messages /\ o[2] \in 1..MaxLoads /\ o = <<o[1], o[2]>> /\ entry[o] \in Entries
  BY ObjectNames DEF TypeOK
<1>2. /\ Listed(o) /\ can_manual_resend(o) /\ loads' = loads
      /\ shown' = [shown EXCEPT ![o[1]] = 0]
      /\ entry' = [entry EXCEPT ![o].deleted = TRUE]
      /\ entry[o].stored => row' = [row EXCEPT ![o[1]] = NoRow]
  BY NoFault DEF DeleteEntry, CommitOrFail, Commit, MessageOf
<1>3. o[2] = shown[o[1]] /\ entry[o].stored
  BY <1>2 DEF Listed, StoredEntries
<1>4. /\ entry'[o].deleted /\ entry'[o].state = entry[o].state
      /\ entry'[o].gen = entry[o].gen /\ entry'[o].stored = entry[o].stored
      /\ \A p \in Objects \ {o} : entry'[p] = entry[p]
  BY <1>1, <1>2 DEF TypeOK, Entries
<1>5. shown'[o[1]] = 0 /\ row'[o[1]] = NoRow
      /\ \A n \in Messages \ {o[1]} :
           loads'[n] = loads[n] /\ shown'[n] = shown[n] /\ row'[n] = row[n]
  BY <1>1, <1>2, <1>3 DEF TypeOK
<1>6. OthersSame(o[1], o[2]) /\ \A n \in Messages \ {o[1]} : OthersSame(n, 0)
  BY <1>4, OtherMessage
<1> QED
  BY <1>1, <1>2, <1>3, <1>4, <1>5, <1>6 DEF Removed, Quiet, InPlace

(* The view: what is loaded has a row, what is dropped is of a channel.    *)
LEMMA LoadMessage ==
  ASSUME TypeOK, NEW M \in SUBSET ChannelMessages, LoadView(M), row' = row,
         NEW m \in Messages, m \in M => unresolved \/ (shown[m] = 0 /\ Present(m))
  PROVE  Quiet(m) \/ Loaded(m) \/ Dropped(m)
<1> DEFINE L == {n \in M : Present(n)}
<1>1. /\ loads' = [n \in Messages |-> IF n \in L THEN loads[n] + 1 ELSE loads[n]]
      /\ shown' = [n \in Messages |-> IF n \in L THEN loads[n] + 1
                                      ELSE IF n \in M THEN 0 ELSE shown[n]]
      /\ entry' = [o \in Objects |->
                     IF o[1] \in L /\ o[2] = loads[o[1]] + 1
                     THEN stored_chat_entry(row[o[1]]) ELSE entry[o]]
      /\ \A n \in L : CanLoad(n)
  BY DEF LoadView
<1>2. CASE m \in L
  <2>1. loads[m] + 1 \in 1..MaxLoads
    <3>1. loads[m] \in 0..MaxLoads /\ loads[m] < MaxLoads
      BY <1>1, <1>2 DEF TypeOK, CanLoad
    <3> QED
      BY <3>1, DeliveryAssumption
  <2>2. entry'[<<m, loads[m] + 1>>] = stored_chat_entry(row[m])
    BY <1>1, <1>2, <2>1, SlotNames
  <2>3. OthersSame(m, loads[m] + 1)
    BY <1>1, SlotNames DEF OthersSame
  <2> QED
    BY <1>1, <1>2, <2>2, <2>3 DEF Loaded
<1>3. CASE m \notin L
  <2>1. OthersSame(m, 0)
    BY <1>1, <1>3, SlotNames DEF OthersSame
  <2>2. loads'[m] = loads[m] /\ shown'[m] = IF m \in M THEN 0 ELSE shown[m]
    BY <1>1, <1>3
  <2>3. m \in M => m \in ChannelMessages /\ unresolved
    BY <1>3
  <2> QED
    BY <2>1, <2>2, <2>3 DEF Quiet, Dropped, InPlace
<1> QED
  BY <1>2, <1>3

LEMMA ViewMessage ==
  ASSUME TypeOK, ViewStep, NEW m \in Messages
  PROVE  Quiet(m) \/ Loaded(m) \/ Dropped(m)
<1>1. CASE LoseLink
  BY <1>1, NoChange DEF LoseLink, memory, Quiet, InPlace, OthersSame
<1>2. CASE Reconnect
  <2>1. row' = row /\ IF unresolved THEN LoadView(ChannelMessages) ELSE UNCHANGED memory
    BY <1>2 DEF Reconnect
  <2>2. CASE unresolved
    BY <2>1, <2>2, LoadMessage
  <2>3. CASE ~unresolved
    BY <2>1, <2>3 DEF memory, Quiet, InPlace, OthersSame
  <2> QED
    BY <2>2, <2>3
<1>3. ASSUME NEW n \in Messages, TrimFromWindow(n) PROVE Quiet(m) \/ Dropped(m)
  <2>1. /\ UNCHANGED <<loads, entry, row>> /\ shown' = [shown EXCEPT ![n] = 0]
        /\ n \in ChannelMessages /\ MidSessionReload
    BY <1>3 DEF TrimFromWindow
  <2>2. shown'[m] = IF m = n THEN 0 ELSE shown[m]
    BY <2>1 DEF TypeOK
  <2> QED
    BY <2>1, <2>2 DEF Quiet, Dropped, InPlace, OthersSame
<1>4. ASSUME NEW n \in Messages, LoadOlder(n) PROVE Quiet(m) \/ Loaded(m) \/ Dropped(m)
  <2>1. row' = row /\ LoadView({n}) /\ n \in ChannelMessages /\ shown[n] = 0 /\ Present(n)
    BY <1>4 DEF LoadOlder
  <2> QED
    BY <2>1, LoadMessage
<1> QED
  BY <1>1, <1>2, <1>3, <1>4 DEF ViewStep

(* A process that goes on.                                                 *)
LEMMA RunningStep ==
  ASSUME ReliableStore, IInv, StoredEntries, [Next]_vars, up, up', NEW m \in Messages
  PROVE  MessageStep(m)
<1>0. TypeOK
  BY DEF IInv
<1>1. CASE UNCHANGED vars
  BY <1>1, NoChange DEF vars
<1>2. ASSUME NEW o \in Objects, \A n \in Messages \ {o[1]} : Quiet(n),
             Wrote(o[1], o[2]) \/ Resent(o[1], o[2]) \/ Removed(o[1], o[2])
      PROVE  MessageStep(m)
  <2>1. o[1] \in Messages /\ o[2] \in 1..MaxLoads /\ o = <<o[1], o[2]>>
    BY ObjectNames
  <2>2. CASE m = o[1]
    BY <1>2, <2>1, <2>2 DEF MessageStep
  <2>3. CASE m # o[1]
    BY <1>2, <2>3 DEF MessageStep
  <2> QED
    BY <2>2, <2>3
<1>3. CASE UserStep
  <2>1. ASSUME NEW n \in Messages, Compose(n) PROVE MessageStep(m)
    BY <1>0, <2>1, ComposeMessage DEF MessageStep
  <2>2. ASSUME NEW o \in Objects, Rebroadcast(o) PROVE MessageStep(m)
    BY <1>0, <1>2, <2>2, RebroadcastMessage
  <2>3. ASSUME NEW o \in Objects, DeleteEntry(o) PROVE MessageStep(m)
    BY <1>0, <1>2, <2>3, DeleteMessage
  <2> QED
    BY <1>3, <2>1, <2>2, <2>3 DEF UserStep
<1>4. CASE SendWasSubmitted \/ SendFailed \/ DeliveryStatusReceived
  <2>1. PICK o \in Objects : Handled(o)
    BY <1>4, HandlerWrites
  <2>2. o[1] \in Messages /\ o[2] \in 1..MaxLoads /\ o = <<o[1], o[2]>>
    BY ObjectNames
  <2> QED
    BY <1>0, <2>1, <2>2, HandledMessage DEF MessageStep
<1>5. CASE IgnoreEvent
  BY <1>5, NoChange DEF IgnoreEvent, memory
<1>6. CASE AdvanceDeliveryStates
  <2>1. Quiet(m) \/ (shown[m] \in 1..MaxLoads /\ Wrote(m, shown[m]))
    BY <1>0, <1>6, TickMessage
  <2> QED
    BY <2>1, SlotNames DEF MessageStep
<1>7. CASE \/ \E s \in Sends : WorkerStep(s)
           \/ \E s \in Sends, kind \in Responses : RoutingResponse(s, kind)
           \/ OnRoutingResponse
  <2>1. UNCHANGED <<shown, loads, entry, row>>
    BY <1>7 DEF WorkerStep, SubmitToSdk, RefuseSend, RegisterPendingSend, PostSubmitted,
                RoutingResponse, OnRoutingResponse, memory
  <2> QED
    BY <2>1, NoChange
<1>8. CASE ViewStep
  BY <1>0, <1>8, ViewMessage DEF MessageStep
<1>9. CASE ProcessStep
  BY <1>9 DEF ProcessStep, Crash, CrashInConfirmation, Shutdown, Start, CrashInCompose,
              CrashInRebroadcast, Die
<1> QED
  BY <1>1, <1>3, <1>4, <1>5, <1>6, <1>7, <1>8, <1>9 DEF Next, UiStep

(* What the end of the process leaves of a message.                        *)
SameRow(m) == row'[m].state = row[m].state /\ row'[m].attempts = row[m].attempts

Begun(m) ==
  /\ loads[m] = 0 /\ online /\ row'[m].state = "SENDING" /\ row'[m].attempts = <<>>

Extended(m) ==
  /\ shown[m] \in 1..MaxLoads /\ can_manual_resend(<<m, shown[m]>>) /\ Present(m)
  /\ row'[m].state = row[m].state
  /\ row'[m].attempts = Append(row[m].attempts, "SENDING")

Closed(m) ==
  \E e \in Entries :
    /\ shown[m] \in 1..MaxLoads /\ entry[<<m, shown[m]>>].state = "SENDING"
    /\ SameEntry(e, entry[<<m, shown[m]>>]) /\ e.state = "INTERRUPTED" /\ Written(m, e)

LastWords(m) == SameRow(m) \/ Begun(m) \/ Extended(m) \/ Closed(m)

LEMMA DyingStep ==
  ASSUME IInv, [Next]_vars, up, ~up'
  PROVE  Die /\ \A m \in Messages : LastWords(m)
<1>0. TypeOK /\ QueueTruthful
  BY DEF IInv, Truthful
<1>1. \/ Crash \/ CrashInConfirmation \/ Shutdown
      \/ \E m \in Messages : CrashInCompose(m)
      \/ \E o \in Objects : CrashInRebroadcast(o)
  <2>1. ASSUME ViewStep PROVE up' = up
    BY <2>1 DEF ViewStep, LoseLink, Reconnect, TrimFromWindow, LoadOlder, link
  <2>2. ASSUME UserStep \/ UiStep \/ AdvanceDeliveryStates PROVE up' = up
    BY <2>2 DEF UserStep, Compose, Rebroadcast, DeleteEntry, UiStep, SendWasSubmitted,
                SendFailed, DeliveryStatusReceived, IgnoreEvent, AdvanceDeliveryStates, link
  <2>3. ASSUME \/ \E s \in Sends : WorkerStep(s)
               \/ \E s \in Sends, kind \in Responses : RoutingResponse(s, kind)
               \/ OnRoutingResponse
        PROVE  up' = up
    BY <2>3 DEF WorkerStep, SubmitToSdk, RefuseSend, RegisterPendingSend, PostSubmitted,
                RoutingResponse, OnRoutingResponse, link
  <2>4. ~UNCHANGED vars
    BY DEF vars
  <2> QED
    BY <2>1, <2>2, <2>3, <2>4 DEF Next, ProcessStep, Start
<1>2. Die
  BY <1>1 DEF Crash, CrashInConfirmation, Shutdown, CrashInCompose, CrashInRebroadcast
<1>3. ASSUME NEW m \in Messages PROVE LastWords(m)
  <2>1. CASE Crash
    BY <2>1 DEF Crash, LastWords, SameRow
  <2>2. CASE CrashInConfirmation
    <3>1. PICK v, o : v = Head(uiq) /\ o = v.send[1]
      OBVIOUS
    <3>2. /\ uiq # <<>> /\ ~Stale(v) /\ row' = [row EXCEPT ![o[1]] = MovedRow(o, entry[o], v.state)]
      BY <2>2, <3>1 DEF CrashInConfirmation
    <3>3. o \in Objects /\ entry[o] \in Entries /\ entry[o].gen \in 1..MaxGen
      BY <1>0, <3>1, <3>2, FreshEvent
    <3>4. /\ MovedRow(o, entry[o], v.state).state = row[o[1]].state
          /\ MovedRow(o, entry[o], v.state).attempts = row[o[1]].attempts
      BY <1>0, <3>3, MovedKeeps
    <3>5. row'[m] = IF m = o[1] THEN MovedRow(o, entry[o], v.state) ELSE row[m]
      BY <1>0, <3>2 DEF TypeOK
    <3> QED
      BY <3>4, <3>5 DEF LastWords, SameRow
  <2>3. CASE Shutdown
    <3>1. PICK o, f : /\ o = <<m, shown[m]>>
                      /\ f = [entry[o] EXCEPT !.state = "INTERRUPTED", !.packet = NoSend]
      OBVIOUS
    <3>2. row'[m] = IF shown[m] # 0 /\ entry[o].state = "SENDING"
                    THEN update_delivery_state(row[m], f) ELSE row[m]
      BY <2>3, <3>1 DEF Shutdown
    <3>3. CASE shown[m] # 0 /\ entry[o].state = "SENDING"
      <4>1. shown[m] \in 1..MaxLoads
        BY <1>0, <3>3, DeliveryAssumption DEF TypeOK
      <4>2. entry[o] \in Entries /\ row[m] \in Rows
        BY <1>0, <3>1, <4>1, SlotNames DEF TypeOK
      <4>3. f \in Entries /\ f.state = "INTERRUPTED" /\ SameEntry(f, entry[o])
        BY <3>1, <4>2 DEF Entries, DeliveryStates, SameEntry
      <4>4. row'[m] = update_delivery_state(row[m], f)
        BY <3>2, <3>3
      <4>5. update_delivery_state(row[m], f).attempts \in Seq(DeliveryStates)
        BY <4>2, <4>3, UpdateType DEF Rows
      <4>6. Written(m, f)
        BY <4>2, <4>3, <4>4, <4>5, UpdateWrites DEF Written, Present
      <4>7. Closed(m)
        BY <3>1, <3>3, <4>1, <4>3, <4>6 DEF Closed
      <4> QED
        BY <4>7 DEF LastWords
    <3>4. CASE ~(shown[m] # 0 /\ entry[o].state = "SENDING")
      BY <3>2, <3>4 DEF LastWords, SameRow
    <3> QED
      BY <3>3, <3>4
  <2>4. ASSUME NEW n \in Messages, CrashInCompose(n) PROVE LastWords(m)
    <3>1. loads[n] = 0 /\ online
          /\ row' = [row EXCEPT ![n] = [NoRow EXCEPT !.state = "SENDING",
                                                     !.placed = <<<<n, 1>>, 1>>]]
      BY <2>4 DEF CrashInCompose
    <3>2. CASE m = n
      BY <1>0, <3>1, <3>2 DEF TypeOK, LastWords, Begun, NoRow
    <3>3. CASE m # n
      BY <1>0, <3>1, <3>3 DEF TypeOK, LastWords, SameRow
    <3> QED
      BY <3>2, <3>3
  <2>5. ASSUME NEW o \in Objects, CrashInRebroadcast(o) PROVE LastWords(m)
    <3>1. o[1] \in Messages /\ o[2] \in 1..MaxLoads /\ o = <<o[1], o[2]>> /\ row[o[1]] \in Rows
      BY <1>0, ObjectNames DEF TypeOK
    <3>2. /\ shown[o[1]] = o[2] /\ can_manual_resend(o) /\ Present(o[1])
          /\ row' = [row EXCEPT ![o[1]].attempts = Append(@, "SENDING")]
      BY <2>5 DEF CrashInRebroadcast, Listed, MessageOf
    <3>3. PICK a : a = Append(row[o[1]].attempts, "SENDING")
      OBVIOUS
    <3>4. row' = [row EXCEPT ![o[1]].attempts = a]
      BY <3>2, <3>3
    <3>5. CASE m = o[1]
      <4>1. row'[m].state = row[m].state /\ row'[m].attempts = a
        BY <1>0, <3>1, <3>4, <3>5 DEF TypeOK, Rows
      <4>2. <<m, shown[m]>> = o /\ shown[m] \in 1..MaxLoads
        BY <3>1, <3>2, <3>5
      <4>3. Extended(m)
        BY <3>2, <3>3, <3>5, <4>1, <4>2 DEF Extended
      <4> QED
        BY <4>3 DEF LastWords
    <3>6. CASE m # o[1]
      BY <1>0, <3>4, <3>6 DEF TypeOK, LastWords, SameRow
    <3> QED
      BY <3>5, <3>6
  <2> QED
    BY <1>1, <2>1, <2>2, <2>3, <2>4, <2>5
<1> QED
  BY <1>2, <1>3

(* A dead process does nothing but start again.                            *)
LEMMA DeadStep ==
  ASSUME IInv, [Next]_vars, ~up
  PROVE  UNCHANGED vars \/ Start
<1>1. uiq = <<>> /\ pubq = <<>>
  BY DEF IInv, DeadProcess
<1>2. ~UserStep /\ ~UiStep /\ ~OnRoutingResponse
  BY <1>1 DEF UserStep, Compose, Rebroadcast, DeleteEntry, Listed, UiStep, SendWasSubmitted,
              SendFailed, DeliveryStatusReceived, IgnoreEvent, Dequeue, OnRoutingResponse
<1>3. ~AdvanceDeliveryStates
  BY DEF AdvanceDeliveryStates, Overdue, ListedObjects, Listed
<1>4. ~(\/ \E s \in Sends : WorkerStep(s)
        \/ \E s \in Sends, kind \in Responses : RoutingResponse(s, kind))
  BY DEF WorkerStep, SubmitToSdk, RefuseSend, RegisterPendingSend, PostSubmitted, RoutingResponse
<1>5. ~ViewStep
  BY DEF ViewStep, LoseLink, Reconnect, TrimFromWindow, LoadOlder
<1>6. ProcessStep => Start
  BY <1>1 DEF ProcessStep, Crash, CrashInConfirmation, Shutdown, CrashInCompose,
              CrashInRebroadcast, Listed
<1> QED
  BY <1>2, <1>3, <1>4, <1>5, <1>6 DEF Next

(* The rows and objects a new process starts with.                         *)
Settled(m) ==
  /\ row'[m].state = IF row[m].state = "SENDING" THEN "INTERRUPTED" ELSE row[m].state
  /\ Len(row'[m].attempts) = Len(row[m].attempts)
  /\ DOMAIN row'[m].attempts = DOMAIN row[m].attempts
  /\ \A i \in DOMAIN row[m].attempts :
       row'[m].attempts[i] = IF row[m].attempts[i] = "SENDING" THEN "INTERRUPTED"
                             ELSE row[m].attempts[i]

LEMMA StartMessage ==
  ASSUME IInv, Start, NEW m \in Messages
  PROVE  /\ Settled(m)
         /\ Present(m) => /\ loads'[m] = loads[m] + 1 /\ shown'[m] = loads[m] + 1
                          /\ loads[m] + 1 \in 1..MaxLoads
                          /\ OthersSame(m, loads[m] + 1)
                          /\ entry'[<<m, loads[m] + 1>>] = stored_chat_entry(row'[m])
         /\ ~Present(m) => loads'[m] = loads[m] /\ shown'[m] = 0 /\ OthersSame(m, 0)
<1>0. TypeOK /\ \A n \in Messages : Present(n) => CanLoad(n)
  BY DEF IInv, DeadProcess, Start
<1>1. /\ row' = [n \in Messages |-> reconcile_abandoned_sending(row[n])]
      /\ loads' = [n \in Messages |-> IF Present(n) THEN loads[n] + 1 ELSE loads[n]]
      /\ shown' = [n \in Messages |-> IF Present(n) THEN loads[n] + 1 ELSE 0]
      /\ entry' = [o \in Objects |->
                     IF Present(o[1]) /\ o[2] = loads[o[1]] + 1
                     THEN stored_chat_entry(row'[o[1]]) ELSE entry[o]]
  <2>1. \A o \in Objects : o[1] \in Messages
    BY ObjectNames
  <2> QED
    BY <2>1 DEF Start
<1>2. Settled(m)
  <2>1. row[m] \in Rows /\ row'[m] = reconcile_abandoned_sending(row[m])
    BY <1>0, <1>1 DEF TypeOK
  <2>2. ASSUME NEW r \in Rows
        PROVE  /\ reconcile_abandoned_sending(r).state
                    = IF r.state = "SENDING" THEN "INTERRUPTED" ELSE r.state
               /\ reconcile_abandoned_sending(r).attempts
                    = [i \in DOMAIN r.attempts |->
                         IF r.attempts[i] = "SENDING" THEN "INTERRUPTED" ELSE r.attempts[i]]
    BY DEF reconcile_abandoned_sending, Rows
  <2>3. ASSUME NEW q \in Seq(DeliveryStates), NEW a,
               a = [i \in DOMAIN q |-> IF q[i] = "SENDING" THEN "INTERRUPTED" ELSE q[i]]
        PROVE  /\ Len(a) = Len(q) /\ DOMAIN a = DOMAIN q
               /\ \A i \in DOMAIN q : a[i] = IF q[i] = "SENDING" THEN "INTERRUPTED" ELSE q[i]
    BY <2>3
  <2>4. PICK q, a : q = row[m].attempts /\ a = row'[m].attempts
    OBVIOUS
  <2>5. /\ q \in Seq(DeliveryStates)
        /\ a = [i \in DOMAIN q |-> IF q[i] = "SENDING" THEN "INTERRUPTED" ELSE q[i]]
        /\ row'[m].state = IF row[m].state = "SENDING" THEN "INTERRUPTED" ELSE row[m].state
    BY <2>1, <2>2, <2>4 DEF Rows
  <2>6. /\ Len(a) = Len(q) /\ DOMAIN a = DOMAIN q
        /\ \A i \in DOMAIN q : a[i] = IF q[i] = "SENDING" THEN "INTERRUPTED" ELSE q[i]
    BY <2>3, <2>5
  <2> QED
    BY <2>4, <2>5, <2>6 DEF Settled
<1>3. CASE Present(m)
  <2>1. loads[m] + 1 \in 1..MaxLoads
    <3>1. loads[m] \in 0..MaxLoads /\ loads[m] < MaxLoads
      BY <1>0, <1>3 DEF TypeOK, CanLoad
    <3> QED
      BY <3>1, DeliveryAssumption
  <2>2. entry'[<<m, loads[m] + 1>>] = stored_chat_entry(row'[m])
    BY <1>1, <1>3, <2>1, SlotNames
  <2>3. OthersSame(m, loads[m] + 1)
    BY <1>1, SlotNames DEF OthersSame
  <2> QED
    BY <1>1, <1>2, <1>3, <2>1, <2>2, <2>3
<1>4. CASE ~Present(m)
  <2>1. OthersSame(m, 0)
    BY <1>1, <1>4, SlotNames DEF OthersSame
  <2> QED
    BY <1>1, <1>2, <1>4, <2>1
<1> QED
  BY <1>3, <1>4

-----------------------------------------------------------------------------
(* No SENDING is left behind.                                              *)

Waits(m, k) == k \in 1..loads[m] /\ entry[<<m, k>>].state = "SENDING"

(* NoAbandonedSending of one message, with what it rests on: the entries   *)
(* that wait can be written to the row they wait for.                      *)
Accounted(m) ==
  /\ \A k \in 1..MaxLoads :
       (up /\ shown[m] = k) \/ entry[<<m, k>>].gen > 0 => entry[<<m, k>>].stored
  /\ ~Present(m) => row[m].attempts = <<>>
  /\ up /\ row[m].state = "SENDING" => \E k \in 1..MaxLoads : Waits(m, k)
  /\ up => \A i \in DOMAIN row[m].attempts : row[m].attempts[i] = "SENDING" =>
             \E k \in 1..MaxLoads : Waits(m, k) /\ entry[<<m, k>>].attempt = i

Accounting == \A m \in Messages : Accounted(m)

LEMMA AccountingGives ==
  ASSUME TypeOK, Accounting
  PROVE  StoredEntries /\ AbsentIsEmpty /\ NoAbandonedSending
<1>1. StoredEntries
  <2> SUFFICES ASSUME NEW o \in Objects, Listed(o) \/ entry[o].gen > 0
               PROVE  entry[o].stored
    BY DEF StoredEntries
  <2>1. o[1] \in Messages /\ o[2] \in 1..MaxLoads /\ o = <<o[1], o[2]>>
    BY ObjectNames
  <2>2. Accounted(o[1]) /\ entry[<<o[1], o[2]>>] = entry[o]
    BY <2>1 DEF Accounting
  <2> QED
    BY <2>1, <2>2 DEF Accounted, Listed
<1>2. AbsentIsEmpty
  BY DEF Accounting, Accounted, AbsentIsEmpty
<1>3. NoAbandonedSending
  BY DEF Accounting, Accounted, NoAbandonedSending, Waits
<1> QED
  BY <1>1, <1>2, <1>3

(* The bounds of a message's slots.                                        *)
LEMMA SlotBounds ==
  ASSUME TypeOK, NEW m \in Messages
  PROVE  /\ loads[m] \in Nat /\ 1..loads[m] \subseteq 1..MaxLoads
         /\ row[m] \in Rows /\ row[m].attempts \in Seq(DeliveryStates)
         /\ \A k \in 1..MaxLoads : entry[<<m, k>>] \in Entries /\ entry[<<m, k>>].gen \in Nat
<1>1. loads[m] \in 0..MaxLoads /\ row[m] \in Rows
  BY DEF TypeOK
<1>2. \A k \in 1..MaxLoads : entry[<<m, k>>] \in Entries
  BY SlotNames DEF TypeOK
<1>3. \A e \in Entries : e.gen \in Nat
  BY DeliveryAssumption DEF Entries
<1> QED
  BY <1>1, <1>2, <1>3, DeliveryAssumption DEF Rows

LEMMA LoadedFields ==
  ASSUME NEW r
  PROVE  /\ stored_chat_entry(r).stored /\ stored_chat_entry(r).attempt = 0
         /\ stored_chat_entry(r).gen = 0 /\ ~stored_chat_entry(r).deleted
         /\ stored_chat_entry(r).state # "SENDING"
         /\ r.state # "SENDING" => stored_chat_entry(r).state = r.state
BY DEF stored_chat_entry, Blank

LEMMA RunningAccounted ==
  ASSUME TypeOK, TypeOK', Fresh, up, up', NEW m \in Messages, Accounted(m), MessageStep(m)
  PROVE  Accounted(m)'
<1>0. /\ loads[m] \in Nat /\ 1..loads[m] \subseteq 1..MaxLoads
      /\ loads'[m] \in Nat /\ 1..loads'[m] \subseteq 1..MaxLoads
      /\ row[m].attempts \in Seq(DeliveryStates)
  <2>1. loads'[m] \in 0..MaxLoads
    BY DEF TypeOK
  <2> QED
    BY <2>1, SlotBounds, DeliveryAssumption
<1>1. ASSUME loads'[m] >= loads[m], row'[m] = row[m],
             \A k \in 1..loads[m] : entry'[<<m, k>>] = entry[<<m, k>>],
             \A k \in 1..MaxLoads :
               shown'[m] = k \/ entry'[<<m, k>>].gen > 0 => entry'[<<m, k>>].stored
      PROVE  Accounted(m)'
  <2>1. \A k \in 1..MaxLoads : Waits(m, k) => Waits(m, k)' /\ entry'[<<m, k>>] = entry[<<m, k>>]
    BY <1>0, <1>1 DEF Waits
  <2> QED
    BY <1>1, <2>1 DEF Accounted, Present
<1>2. CASE Quiet(m) \/ Dropped(m)
  <2>1. \A k \in 1..MaxLoads : entry'[<<m, k>>] = entry[<<m, k>>]
    BY <1>2, DeliveryAssumption DEF Quiet, Dropped, OthersSame
  <2>2. row'[m] = row[m] /\ loads'[m] = loads[m] /\ (shown'[m] = shown[m] \/ shown'[m] = 0)
    BY <1>2 DEF Quiet, Dropped, InPlace
  <2>3. \A k \in 1..MaxLoads :
               shown'[m] = k \/ entry'[<<m, k>>].gen > 0 => entry'[<<m, k>>].stored
    BY <2>1, <2>2, DeliveryAssumption DEF Accounted
  <2> QED
    BY <1>0, <1>1, <2>1, <2>2, <2>3
<1>3. CASE Loaded(m)
  <2>1. /\ row'[m] = row[m] /\ loads'[m] = loads[m] + 1 /\ shown'[m] = loads[m] + 1
        /\ \A k \in 1..MaxLoads : k # loads[m] + 1 => entry'[<<m, k>>] = entry[<<m, k>>]
        /\ entry'[<<m, loads[m] + 1>>] = stored_chat_entry(row[m])
    BY <1>3 DEF Loaded, OthersSame
  <2>2. \A k \in 1..MaxLoads :
               shown'[m] = k \/ entry'[<<m, k>>].gen > 0 => entry'[<<m, k>>].stored
    BY <2>1, LoadedFields DEF Accounted
  <2> QED
    BY <1>0, <1>1, <2>1, <2>2
<1>4. CASE Composed(m)
  <2>1. 1 \in 1..MaxLoads /\ 1 \in 1..loads'[m]
    BY <1>0, <1>4, DeliveryAssumption DEF Composed
  <2>2. Waits(m, 1)'
    BY <1>4, <2>1 DEF Composed, Sending, Waits
  <2>3. \A k \in 1..MaxLoads :
               shown'[m] = k \/ entry'[<<m, k>>].gen > 0 => entry'[<<m, k>>].stored
    BY <1>4 DEF Composed, OthersSame, Sending, Accounted
  <2>4. \A i \in DOMAIN row'[m].attempts : i = entry'[<<m, 1>>].attempt
    BY <1>4 DEF Composed
  <2> QED
    BY <1>4, <2>1, <2>2, <2>3, <2>4 DEF Accounted, Composed, Present
<1>5. ASSUME NEW k \in 1..MaxLoads, <<m, k>> \in Objects, Wrote(m, k) PROVE Accounted(m)'
  <2>1. k \in 1..loads[m] /\ entry[<<m, k>>].stored
    <3>1. entry[<<m, k>>].gen > 0 \/ Listed(<<m, k>>)
      BY <1>5 DEF Wrote, Listed
    <3>2. k <= loads[m]
      <4>1. entry[<<m, k>>].gen \in Nat /\ k \in Nat
        BY SlotBounds, SlotNames
      <4> QED
        BY <1>0, <1>5, <3>1, <4>1 DEF Fresh
    <3> QED
      BY <1>0, <3>1, <3>2, DeliveryAssumption DEF Accounted, Listed
  <2>2. PICK e, f : e = entry[<<m, k>>] /\ f = entry'[<<m, k>>]
    OBVIOUS
  <2>3. /\ shown'[m] = shown[m] /\ loads'[m] = loads[m] /\ f \in Entries
        /\ f.gen = e.gen /\ f.attempt = e.attempt /\ f.stored /\ e.stored
        /\ \A j \in 1..MaxLoads : j # k => entry'[<<m, j>>] = entry[<<m, j>>]
        /\ Written(m, f)
    BY <1>5, <2>1, <2>2 DEF Wrote, InPlace, OthersSame, SameEntry
  <2>4. \A j \in 1..MaxLoads :
          shown'[m] = j \/ entry'[<<m, j>>].gen > 0 => entry'[<<m, j>>].stored
    BY <2>2, <2>3 DEF Accounted
  <2>5. \A j \in 1..MaxLoads : j # k /\ Waits(m, j) => Waits(m, j)'
    BY <2>3 DEF Waits
  <2>6. f.state = "SENDING" => Waits(m, k)'
    BY <2>1, <2>2, <2>3 DEF Waits
  <2>7. CASE ~Present(m)
    <3>1. row'[m] = row[m] /\ row[m].attempts = <<>> /\ row[m].state = "absent"
      BY <2>3, <2>7 DEF Written, Accounted, Present
    <3> QED
      BY <2>4, <3>1 DEF Accounted, Present
  <2>8. CASE Present(m)
    <3>1. /\ row'[m].state = f.state /\ Len(row'[m].attempts) = Len(row[m].attempts)
          /\ \A i \in DOMAIN row[m].attempts :
               row'[m].attempts[i] = IF i = f.attempt THEN f.state ELSE row[m].attempts[i]
          /\ row'[m].attempts \in Seq(DeliveryStates)
      BY <2>3, <2>8 DEF Written
    <3>2. DOMAIN row'[m].attempts = DOMAIN row[m].attempts
      BY <1>0, <3>1
    <3>3. f.state # "absent"
      BY <2>3 DEF Entries, DeliveryStates
    <3>4. ASSUME NEW i \in DOMAIN row'[m].attempts, row'[m].attempts[i] = "SENDING"
          PROVE  \E j \in 1..MaxLoads : Waits(m, j)' /\ entry'[<<m, j>>].attempt = i
      <4>1. CASE i = f.attempt
        BY <2>2, <2>6, <3>1, <3>2, <3>4, <4>1
      <4>2. CASE i # f.attempt
        <5>1. row[m].attempts[i] = "SENDING"
          BY <3>1, <3>2, <3>4, <4>2
        <5>2. PICK j \in 1..MaxLoads : Waits(m, j) /\ entry[<<m, j>>].attempt = i
          BY <3>2, <5>1 DEF Accounted
        <5>3. j # k
          BY <2>2, <2>3, <4>2, <5>2
        <5> QED
          BY <2>3, <2>5, <5>2, <5>3
      <4> QED
        BY <4>1, <4>2
    <3> QED
      BY <2>4, <2>6, <3>1, <3>3, <3>4 DEF Accounted, Present
  <2> QED
    BY <2>7, <2>8
<1>6. ASSUME NEW k \in 1..MaxLoads, <<m, k>> \in Objects, Resent(m, k) PROVE Accounted(m)'
  <2>1. k \in 1..loads[m]
    <3>1. Listed(<<m, k>>) /\ k \in Nat
      BY <1>6, SlotNames DEF Resent, Listed
    <3>2. k <= loads[m]
      BY <1>6, <3>1 DEF Fresh
    <3> QED
      BY <1>0, <3>2, DeliveryAssumption
  <2>2. /\ shown'[m] = shown[m] /\ loads'[m] = loads[m]
        /\ Sending(entry'[<<m, k>>], entry[<<m, k>>].gen + 1)
        /\ \A j \in 1..MaxLoads : j # k => entry'[<<m, j>>] = entry[<<m, j>>]
        /\ ~Waits(m, k)
    BY <1>6 DEF Resent, InPlace, OthersSame, can_manual_resend, ManualResendStates, Waits
  <2>3. \A j \in 1..MaxLoads :
          shown'[m] = j \/ entry'[<<m, j>>].gen > 0 => entry'[<<m, j>>].stored
    BY <2>2 DEF Accounted, Sending
  <2>4. \A j \in 1..MaxLoads : Waits(m, j) => Waits(m, j)' /\ entry'[<<m, j>>] = entry[<<m, j>>]
    BY <2>2 DEF Waits
  <2>5. Waits(m, k)'
    BY <2>1, <2>2 DEF Waits, Sending
  <2>6. CASE ~Present(m)
    <3>1. row'[m] = row[m]
      BY <1>6, <2>6 DEF Resent
    <3> QED
      BY <2>3, <2>6, <3>1 DEF Accounted, Present
  <2>7. CASE Present(m)
    <3>1. /\ entry'[<<m, k>>].attempt = Len(row[m].attempts) + 1
          /\ row'[m].state = "SENDING"
          /\ row'[m].attempts = Append(row[m].attempts, "SENDING")
      BY <1>6, <2>7 DEF Resent
    <3>2. ASSUME NEW i \in DOMAIN row'[m].attempts, row'[m].attempts[i] = "SENDING"
          PROVE  \E j \in 1..MaxLoads : Waits(m, j)' /\ entry'[<<m, j>>].attempt = i
      <4>1. \/ i = Len(row[m].attempts) + 1
            \/ i \in DOMAIN row[m].attempts /\ row[m].attempts[i] = "SENDING"
        BY <1>0, <3>1, <3>2
      <4> QED
        BY <2>4, <2>5, <3>1, <4>1 DEF Accounted
    <3> QED
      BY <2>3, <2>5, <3>1, <3>2 DEF Accounted, Present
  <2> QED
    BY <2>6, <2>7
<1>7. ASSUME NEW k \in 1..MaxLoads, <<m, k>> \in Objects, Removed(m, k) PROVE Accounted(m)'
  <2>1. row'[m].state = "absent" /\ row'[m].attempts = <<>>
    BY <1>7 DEF Removed, NoRow
  <2>2. \A j \in 1..MaxLoads :
          shown'[m] = j \/ entry'[<<m, j>>].gen > 0 => entry'[<<m, j>>].stored
    BY <1>7, SlotNames DEF Removed, OthersSame, Accounted
  <2> QED
    BY <2>1, <2>2 DEF Accounted, Present
<1> QED
  BY <1>2, <1>3, <1>4, <1>5, <1>6, <1>7 DEF MessageStep

LEMMA WrittenAbsent ==
  ASSUME NEW m \in Messages, NEW e \in Entries, Written(m, e), e.stored,
         row[m].state # "absent" \/ row[m].attempts = <<>>
  PROVE  /\ row'[m].state = "absent" <=> row[m].state = "absent"
         /\ row'[m].state = "absent" => row'[m].attempts = <<>>
<1>1. e.state # "absent"
  BY DEF Entries, DeliveryStates
<1> QED
  BY <1>1 DEF Written, Present

LEMMA DyingAccounted ==
  ASSUME TypeOK, Die, up, NEW m \in Messages, Accounted(m), LastWords(m)
  PROVE  Accounted(m)'
<1>1. ~up' /\ \A k \in 1..MaxLoads : entry'[<<m, k>>].gen = 0
  BY SlotNames, BlankType DEF Die
<1>2. ~Present(m)' => row'[m].attempts = <<>>
  <2>1. CASE SameRow(m)
    BY <2>1 DEF SameRow, Accounted, Present
  <2>2. CASE Begun(m)
    BY <2>2 DEF Begun
  <2>3. CASE Extended(m)
    BY <2>3 DEF Extended, Present
  <2>4. CASE Closed(m)
    <3>1. PICK e \in Entries : /\ shown[m] \in 1..MaxLoads
                               /\ SameEntry(e, entry[<<m, shown[m]>>]) /\ Written(m, e)
      BY <2>4 DEF Closed
    <3>2. e.stored
      BY <3>1 DEF Accounted, SameEntry
    <3> QED
      BY <3>1, <3>2, WrittenAbsent DEF Accounted, Present
  <2> QED
    BY <2>1, <2>2, <2>3, <2>4 DEF LastWords
<1> QED
  BY <1>1, <1>2 DEF Accounted

LEMMA StartAccounted ==
  ASSUME IInv, Start, NEW m \in Messages, Accounted(m)
  PROVE  Accounted(m)'
<1>0. TypeOK
  BY DEF IInv
<1>1. Settled(m)
  BY StartMessage
<1>2. /\ row'[m].state # "SENDING" /\ (row'[m].state = "absent" => row[m].state = "absent")
      /\ DOMAIN row'[m].attempts = DOMAIN row[m].attempts
      /\ \A i \in DOMAIN row'[m].attempts : row'[m].attempts[i] # "SENDING"
  BY <1>1 DEF Settled
<1>3. row'[m].state = "absent" => row'[m].attempts = <<>>
  <2>1. ASSUME row'[m].state = "absent" PROVE row'[m].attempts = <<>>
    <3>1. row[m].attempts = <<>>
      BY <1>2, <2>1 DEF Accounted, Present
    <3>2. row'[m].attempts \in Seq(DeliveryStates)
      <4>1. row' = [n \in Messages |-> reconcile_abandoned_sending(row[n])] /\ row[m] \in Rows
        BY <1>0 DEF Start, TypeOK
      <4> QED
        BY <4>1, ReconcileType DEF Rows
    <3>3. Len(row'[m].attempts) = 0
      BY <1>1, <3>1 DEF Settled
    <3> QED
      BY <3>2, <3>3
  <2> QED
    BY <2>1
<1>4. \A k \in 1..MaxLoads :
        shown'[m] = k \/ entry'[<<m, k>>].gen > 0 => entry'[<<m, k>>].stored
  <2>1. CASE Present(m)
    <3>1. /\ shown'[m] = loads[m] + 1 /\ OthersSame(m, loads[m] + 1)
          /\ entry'[<<m, loads[m] + 1>>] = stored_chat_entry(row'[m])
      BY <2>1, StartMessage
    <3> QED
      BY <3>1, LoadedFields DEF Accounted, OthersSame
  <2>2. CASE ~Present(m)
    <3>1. shown'[m] = 0 /\ OthersSame(m, 0)
      BY <2>2, StartMessage
    <3> QED
      BY <3>1, DeliveryAssumption DEF Accounted, OthersSame
  <2> QED
    BY <2>1, <2>2
<1> QED
  BY <1>2, <1>3, <1>4 DEF Accounted, Present

LEMMA AccountingKept ==
  ASSUME ReliableStore, IInv, SentOnce, Accounting, [Next]_vars
  PROVE  Accounting'
<1>0. TypeOK /\ TypeOK' /\ Fresh
  BY NextInv DEF IInv, SentOnce
<1>1. SUFFICES ASSUME NEW m \in Messages PROVE Accounted(m)'
  BY DEF Accounting
<1>2. Accounted(m)
  BY DEF Accounting
<1>3. CASE up /\ up'
  <2>1. MessageStep(m)
    BY <1>0, <1>3, AccountingGives, RunningStep
  <2> QED
    BY <1>0, <1>2, <1>3, <2>1, RunningAccounted
<1>4. CASE up /\ ~up'
  <2>1. Die /\ LastWords(m)
    BY <1>4, DyingStep
  <2> QED
    BY <1>0, <1>2, <1>4, <2>1, DyingAccounted
<1>5. CASE ~up
  <2>1. CASE UNCHANGED vars
    BY <1>2, <2>1 DEF vars, Accounted, Present, Waits
  <2>2. CASE Start
    BY <1>2, <2>2, StartAccounted
  <2> QED
    BY <1>5, <2>1, <2>2, DeadStep
<1> QED
  BY <1>3, <1>4, <1>5

LEMMA InitAccounting ==
  ASSUME Init
  PROVE  Accounting
<1>1. \A m \in Messages : /\ row[m].state = "absent" /\ row[m].attempts = <<>> /\ shown[m] = 0
                          /\ \A k \in 1..MaxLoads : entry[<<m, k>>].gen = 0
  BY SlotNames DEF Init, NoRow, Blank
<1> QED
  BY <1>1, DeliveryAssumption DEF Accounting, Accounted, Present

LEMMA InitSentOnce == Init => SentOnce
<1> SUFFICES ASSUME Init PROVE SentOnce
  OBVIOUS
<1>1. \A o \in Objects : /\ entry[o].gen = 0 /\ ~Listed(o)
                         /\ \A g \in 1..MaxGen : ~Used(<<o, g>>)
  BY ObjectNames, SendNames, DeliveryAssumption DEF Init, Blank, Listed, Used
<1>2. Fresh
  BY <1>1 DEF Fresh
<1>3. Refusals
  BY DEF Init, Refusals
<1> QED
  BY <1>2, <1>3 DEF SentOnce

(* While the store works, no SENDING row or attempt outlives the entry     *)
(* that waits for its answer: not through a lost link, a rebuilt view, a   *)
(* crash in the middle of a transaction pair or a restart.                 *)
THEOREM NothingIsAbandoned ==
  ASSUME ReliableStore
  PROVE  Spec => []NoAbandonedSending
<1>1. Init => SentOnce /\ Accounting
  BY InitSentOnce, InitAccounting
<1>2. IInv /\ SentOnce /\ Accounting /\ [Next]_vars => SentOnce' /\ Accounting'
  BY SentOnceKept, AccountingKept
<1>3. IInv /\ Accounting => NoAbandonedSending
  BY AccountingGives DEF IInv
<1> QED
  BY <1>1, <1>2, <1>3, Inductive, PTL DEF Spec

-----------------------------------------------------------------------------
(* Attempts are a history.  That holds as long as the view is not rebuilt  *)
(* under a send: a second object for a message would find a row that the   *)
(* first one still writes to.                                              *)

NoRebuild == ~MidSessionReload \/ DirectMessages = Messages

NoneUnresolved == unresolved => ChannelMessages = {}

(* A message's row and the one object that is in its list say the same,    *)
(* and only its last attempt can be under way.                             *)
Mirrored(m) ==
  /\ \A k \in 1..MaxLoads :
       entry[<<m, k>>].gen > 0 /\ ~entry[<<m, k>>].deleted => up /\ shown[m] = k
  /\ up /\ shown[m] = 0 => ~Present(m)
  /\ up /\ shown[m] # 0 => /\ Present(m) /\ row[m].state = entry[<<m, shown[m]>>].state
                           /\ entry[<<m, shown[m]>>].attempt \in {0, Len(row[m].attempts)}
  /\ \A i \in DOMAIN row[m].attempts : row[m].attempts[i] = "SENDING" =>
       /\ i = Len(row[m].attempts)
       /\ up => /\ shown[m] # 0 /\ entry[<<m, shown[m]>>].state = "SENDING"
                /\ entry[<<m, shown[m]>>].attempt = i

Mirroring == NoneUnresolved /\ \A m \in Messages : Mirrored(m)

OlderKept(m) ==
  \/ row'[m].state = "absent"
  \/ \A i \in DOMAIN row[m].attempts : i < Len(row[m].attempts) =>
       i \in DOMAIN row'[m].attempts /\ row'[m].attempts[i] = row[m].attempts[i]

LEMMA NoneUnresolvedKept ==
  ASSUME NoRebuild, NoneUnresolved, [Next]_vars
  PROVE  NoneUnresolved'
<1>1. unresolved' = unresolved \/ unresolved' = FALSE \/ MidSessionReload
  <2>1. ASSUME ViewStep PROVE unresolved' = unresolved \/ unresolved' = FALSE \/ MidSessionReload
    BY <2>1 DEF ViewStep, LoseLink, Reconnect, TrimFromWindow, LoadOlder, link
  <2>2. ASSUME UserStep \/ UiStep \/ AdvanceDeliveryStates PROVE unresolved' = unresolved
    BY <2>2 DEF UserStep, Compose, Rebroadcast, DeleteEntry, UiStep, SendWasSubmitted,
                SendFailed, DeliveryStatusReceived, IgnoreEvent, AdvanceDeliveryStates, link
  <2>3. ASSUME \/ \E s \in Sends : WorkerStep(s)
               \/ \E s \in Sends, kind \in Responses : RoutingResponse(s, kind)
               \/ OnRoutingResponse
        PROVE  unresolved' = unresolved
    BY <2>3 DEF WorkerStep, SubmitToSdk, RefuseSend, RegisterPendingSend, PostSubmitted,
                RoutingResponse, OnRoutingResponse, link
  <2>4. ASSUME ProcessStep PROVE unresolved' = unresolved \/ unresolved' = FALSE
    BY <2>4 DEF ProcessStep, Crash, CrashInConfirmation, Shutdown, Start, CrashInCompose,
                CrashInRebroadcast, Die
  <2>5. ASSUME UNCHANGED vars PROVE unresolved' = unresolved
    BY <2>5 DEF vars
  <2> QED
    BY <2>1, <2>2, <2>3, <2>4, <2>5 DEF Next
<1> QED
  BY <1>1 DEF NoneUnresolved, NoRebuild, ChannelMessages

(* In such a run nothing is loaded or dropped under way.                   *)
LEMMA NoReload ==
  ASSUME NoRebuild, NoneUnresolved, up, NEW m \in Messages, Mirrored(m)
  PROVE  ~Loaded(m) /\ ~Dropped(m)
BY DEF NoRebuild, NoneUnresolved, Mirrored, Loaded, Dropped, ChannelMessages

(* What is written to the row of a mirrored message.                       *)
LEMMA MirroredWrite ==
  ASSUME TypeOK, up, NEW m \in Messages, Accounted(m), Mirrored(m),
         NEW k \in 1..MaxLoads, NEW f \in Entries, k = shown[m],
         SameEntry(f, entry[<<m, k>>]), Written(m, f)
  PROVE  /\ Present(m) /\ f.stored /\ row'[m].state = f.state
         /\ row'[m].attempts \in Seq(DeliveryStates)
         /\ Len(row'[m].attempts) = Len(row[m].attempts)
         /\ DOMAIN row'[m].attempts = DOMAIN row[m].attempts
         /\ \A i \in DOMAIN row[m].attempts :
              row'[m].attempts[i] = IF i = f.attempt THEN f.state ELSE row[m].attempts[i]
         /\ f.attempt \in {0, Len(row[m].attempts)}
         /\ OlderKept(m)
         /\ \A i \in DOMAIN row'[m].attempts : row'[m].attempts[i] = "SENDING" =>
              i = f.attempt /\ f.state = "SENDING" /\ i = Len(row[m].attempts)
<1>1. row[m].attempts \in Seq(DeliveryStates) /\ k # 0 /\ k \in Nat
  BY SlotBounds, DeliveryAssumption
<1>2. Present(m) /\ f.stored /\ f.attempt \in {0, Len(row[m].attempts)}
      /\ f.attempt = entry[<<m, k>>].attempt
  BY <1>1 DEF Mirrored, Accounted, SameEntry
<1>3. /\ row'[m].state = f.state
      /\ row'[m].attempts \in Seq(DeliveryStates)
      /\ Len(row'[m].attempts) = Len(row[m].attempts)
      /\ \A i \in DOMAIN row[m].attempts :
           row'[m].attempts[i] = IF i = f.attempt THEN f.state ELSE row[m].attempts[i]
  BY <1>2 DEF Written
<1>4. DOMAIN row'[m].attempts = DOMAIN row[m].attempts
  BY <1>1, <1>3
<1>5. ASSUME NEW i \in DOMAIN row[m].attempts, i < Len(row[m].attempts)
      PROVE  row'[m].attempts[i] = row[m].attempts[i]
  BY <1>1, <1>2, <1>3, <1>5
<1>6. ASSUME NEW i \in DOMAIN row'[m].attempts, row'[m].attempts[i] = "SENDING"
      PROVE  i = f.attempt /\ f.state = "SENDING" /\ i = Len(row[m].attempts)
  <2>1. i \in DOMAIN row[m].attempts /\ i \in Nat /\ i # 0
    BY <1>1, <1>4, <1>6
  <2>2. CASE i = f.attempt
    BY <1>2, <1>3, <1>6, <2>1, <2>2
  <2>3. CASE i # f.attempt
    BY <1>1, <1>2, <1>3, <1>6, <2>1, <2>3 DEF Mirrored
  <2> QED
    BY <2>2, <2>3
<1> QED
  BY <1>2, <1>3, <1>4, <1>5, <1>6 DEF OlderKept

LEMMA RunningMirrored ==
  ASSUME NoRebuild, NoneUnresolved, TypeOK, TypeOK', Fresh, up, up', NEW m \in Messages,
         Accounted(m), Mirrored(m), MessageStep(m)
  PROVE  Mirrored(m)' /\ OlderKept(m)
<1>0. /\ row[m].attempts \in Seq(DeliveryStates)
      /\ \A k \in 1..MaxLoads : k \in Nat /\ k # 0 /\ <<m, k>> \in Objects
  BY SlotBounds, SlotNames
<1>1. CASE Quiet(m)
  <2>1. /\ \A k \in 1..MaxLoads : entry'[<<m, k>>] = entry[<<m, k>>]
        /\ row'[m] = row[m] /\ shown'[m] = shown[m]
    BY <1>0, <1>1 DEF Quiet, OthersSame, InPlace
  <2>2. shown[m] # 0 => shown[m] \in 1..MaxLoads
    <3>1. shown[m] \in 0..MaxLoads
      BY DEF TypeOK
    <3> QED
      BY <3>1, DeliveryAssumption
  <2> QED
    BY <2>1, <2>2 DEF Mirrored, OlderKept, Present
<1>2. CASE Composed(m)
  <2>1. shown[m] = 0
    <3>1. shown[m] \in 0..MaxLoads
      BY DEF TypeOK
    <3>2. ASSUME NEW k \in 1..MaxLoads, shown[m] = k PROVE FALSE
      <4>1. PICK o \in Objects : o = <<m, k>>
        BY <1>0
      <4>2. Listed(o) /\ o[2] = k /\ o[1] = m
        BY <3>2, <4>1 DEF Listed
      <4>3. k <= loads[m] /\ loads[m] = 0
        BY <1>2, <4>2 DEF Fresh, Composed
      <4> QED
        BY <1>0, <4>3
    <3> QED
      BY <3>1, <3>2, DeliveryAssumption
  <2>2. /\ shown'[m] = 1 /\ row'[m].state = "SENDING" /\ row'[m].attempts = <<"SENDING">>
        /\ entry'[<<m, 1>>].state = "SENDING" /\ entry'[<<m, 1>>].attempt = 1
        /\ \A k \in 1..MaxLoads : k # 1 => entry'[<<m, k>>] = entry[<<m, k>>]
        /\ row[m].attempts = <<>>
    BY <1>2 DEF Composed, Sending, OthersSame, Accounted
  <2>3. Len(row'[m].attempts) = 1 /\ \A i \in DOMAIN row'[m].attempts : i = 1
    BY <2>2
  <2>4. OlderKept(m)
    BY <2>2 DEF OlderKept
  <2> QED
    BY <1>0, <2>1, <2>2, <2>3, <2>4 DEF Mirrored, Present
<1>3. ASSUME NEW k \in 1..MaxLoads, Wrote(m, k) PROVE Mirrored(m)' /\ OlderKept(m)
  <2>1. PICK f : f = entry'[<<m, k>>]
    OBVIOUS
  <2>2. k = shown[m] /\ shown'[m] = k /\ f \in Entries /\ SameEntry(f, entry[<<m, k>>])
        /\ Written(m, f)
        /\ \A j \in 1..MaxLoads : j # k => entry'[<<m, j>>] = entry[<<m, j>>]
    BY <1>3, <2>1 DEF Wrote, InPlace, Mirrored, OthersSame
  <2>3. /\ Present(m) /\ f.stored /\ row'[m].state = f.state
        /\ Len(row'[m].attempts) = Len(row[m].attempts)
        /\ f.attempt \in {0, Len(row[m].attempts)}
        /\ OlderKept(m)
        /\ \A i \in DOMAIN row'[m].attempts : row'[m].attempts[i] = "SENDING" =>
             i = f.attempt /\ f.state = "SENDING" /\ i = Len(row[m].attempts)
    BY <2>2, MirroredWrite
  <2>4. f.state # "absent"
    BY <2>2 DEF Entries, DeliveryStates
  <2> QED
    BY <1>0, <2>1, <2>2, <2>3, <2>4 DEF Mirrored, Present, SameEntry
<1>4. ASSUME NEW k \in 1..MaxLoads, Resent(m, k) PROVE Mirrored(m)' /\ OlderKept(m)
  <2>1. /\ shown[m] = k /\ shown'[m] = k /\ Present(m)
        /\ entry[<<m, k>>].state # "SENDING"
        /\ entry'[<<m, k>>].state = "SENDING" /\ entry'[<<m, k>>].deleted = entry[<<m, k>>].deleted
        /\ entry'[<<m, k>>].attempt = Len(row[m].attempts) + 1
        /\ row'[m].state = "SENDING" /\ row'[m].attempts = Append(row[m].attempts, "SENDING")
        /\ \A j \in 1..MaxLoads : j # k => entry'[<<m, j>>] = entry[<<m, j>>]
    BY <1>0, <1>4 DEF Resent, InPlace, OthersSame, Sending, Mirrored, can_manual_resend,
                      ManualResendStates
  <2>2. /\ Len(row'[m].attempts) = Len(row[m].attempts) + 1
        /\ \A i \in DOMAIN row[m].attempts :
             i \in DOMAIN row'[m].attempts /\ row'[m].attempts[i] = row[m].attempts[i]
        /\ \A i \in DOMAIN row'[m].attempts : i # Len(row'[m].attempts) =>
             i \in DOMAIN row[m].attempts /\ row'[m].attempts[i] = row[m].attempts[i]
    BY <1>0, <2>1
  <2>3. \A i \in DOMAIN row'[m].attempts : row'[m].attempts[i] = "SENDING" =>
          i = Len(row'[m].attempts)
    BY <2>1, <2>2 DEF Mirrored
  <2> QED
    BY <1>0, <2>1, <2>2, <2>3 DEF Mirrored, OlderKept, Present
<1>5. ASSUME NEW k \in 1..MaxLoads, Removed(m, k) PROVE Mirrored(m)' /\ OlderKept(m)
  <2>1. /\ shown[m] = k /\ shown'[m] = 0 /\ entry'[<<m, k>>].deleted
        /\ row'[m].state = "absent" /\ row'[m].attempts = <<>>
        /\ \A j \in 1..MaxLoads : j # k => entry'[<<m, j>>] = entry[<<m, j>>]
    BY <1>5 DEF Removed, NoRow, OthersSame
  <2> QED
    BY <1>0, <2>1 DEF Mirrored, OlderKept, Present
<1> QED
  BY <1>1, <1>2, <1>3, <1>4, <1>5, NoReload DEF MessageStep

LEMMA DyingMirrored ==
  ASSUME TypeOK, Die, up, NEW m \in Messages, Accounted(m), Mirrored(m), LastWords(m),
         Begun(m) => ~Present(m)
  PROVE  Mirrored(m)' /\ OlderKept(m)
<1>0. row[m].attempts \in Seq(DeliveryStates)
  BY SlotBounds
<1>1. ~up' /\ \A k \in 1..MaxLoads : entry'[<<m, k>>].gen = 0
  BY SlotNames, BlankType DEF Die
<1>2. \A i \in DOMAIN row[m].attempts : i \in Nat /\ i # 0
  BY <1>0
<1>3. SUFFICES /\ OlderKept(m)
               /\ \A i \in DOMAIN row'[m].attempts :
                    row'[m].attempts[i] = "SENDING" => i = Len(row'[m].attempts)
  BY <1>1 DEF Mirrored
<1>4. CASE SameRow(m)
  BY <1>4 DEF SameRow, Mirrored, OlderKept
<1>5. CASE Begun(m)
  <2>1. row'[m].attempts = <<>> /\ row[m].attempts = <<>>
    BY <1>5 DEF Begun, Accounted
  <2> QED
    BY <2>1 DEF OlderKept
<1>6. CASE Extended(m)
  <2>1. /\ row'[m].attempts = Append(row[m].attempts, "SENDING") /\ shown[m] # 0
        /\ entry[<<m, shown[m]>>].state # "SENDING"
    BY <1>6, DeliveryAssumption DEF Extended, can_manual_resend, ManualResendStates
  <2>2. /\ \A i \in DOMAIN row[m].attempts :
             i \in DOMAIN row'[m].attempts /\ row'[m].attempts[i] = row[m].attempts[i]
        /\ \A i \in DOMAIN row'[m].attempts : i # Len(row'[m].attempts) =>
             i \in DOMAIN row[m].attempts /\ row'[m].attempts[i] = row[m].attempts[i]
    BY <1>0, <2>1
  <2> QED
    BY <2>1, <2>2 DEF Mirrored, OlderKept
<1>7. CASE Closed(m)
  <2>1. PICK e \in Entries : /\ shown[m] \in 1..MaxLoads
                             /\ SameEntry(e, entry[<<m, shown[m]>>]) /\ Written(m, e)
    BY <1>7 DEF Closed
  <2> QED
    BY <2>1, MirroredWrite
<1> QED
  BY <1>4, <1>5, <1>6, <1>7 DEF LastWords

LEMMA StartMirrored ==
  ASSUME IInv, Start, NEW m \in Messages, Accounted(m), Mirrored(m)
  PROVE  Mirrored(m)' /\ OlderKept(m)
<1>0. /\ TypeOK /\ row[m].attempts \in Seq(DeliveryStates) /\ ~up /\ up'
      /\ \A k \in 1..MaxLoads : k \in Nat /\ k # 0
      /\ loads[m] \in Nat /\ loads[m] + 1 # 0
  <2>1. TypeOK
    BY DEF IInv
  <2> QED
    BY <2>1, SlotBounds, SlotNames DEF Start
<1>1. /\ row'[m].state = IF row[m].state = "SENDING" THEN "INTERRUPTED" ELSE row[m].state
      /\ DOMAIN row'[m].attempts = DOMAIN row[m].attempts
      /\ \A i \in DOMAIN row[m].attempts :
           row'[m].attempts[i] = IF row[m].attempts[i] = "SENDING" THEN "INTERRUPTED"
                                 ELSE row[m].attempts[i]
  BY StartMessage DEF Settled
<1>2. OlderKept(m)
  BY <1>0, <1>1 DEF OlderKept, Mirrored
<1>3. \A i \in DOMAIN row'[m].attempts : row'[m].attempts[i] # "SENDING"
  BY <1>1
<1>4. CASE Present(m)
  <2>1. /\ shown'[m] = loads[m] + 1 /\ OthersSame(m, loads[m] + 1)
        /\ entry'[<<m, loads[m] + 1>>] = stored_chat_entry(row'[m])
    BY <1>4, StartMessage
  <2>2. row'[m].state # "SENDING" /\ row'[m].state # "absent"
    BY <1>1, <1>4 DEF Present
  <2>3. PICK e : e = entry'[<<m, loads[m] + 1>>]
    OBVIOUS
  <2>4. e.gen = 0 /\ e.attempt = 0 /\ e.state = row'[m].state
    BY <2>1, <2>2, <2>3, LoadedFields
  <2>5. \A k \in 1..MaxLoads : entry'[<<m, k>>].gen > 0 => entry'[<<m, k>>].deleted
    <3> SUFFICES ASSUME NEW k \in 1..MaxLoads, entry'[<<m, k>>].gen > 0
                 PROVE  entry'[<<m, k>>].deleted
      OBVIOUS
    <3>1. k # loads[m] + 1
      BY <2>3, <2>4
    <3> QED
      BY <1>0, <2>1, <3>1 DEF Mirrored, OthersSame
  <2>6. PICK l : l = loads[m] + 1 /\ l # 0
    <3>1. loads[m] + 1 # 0
      BY <1>0
    <3> QED
      BY <3>1, Zenon
  <2>7. /\ l = shown'[m] /\ row'[m].state = entry'[<<m, l>>].state
        /\ entry'[<<m, l>>].attempt = 0
    BY <2>1, <2>3, <2>4, <2>6
  <2> QED
    BY <1>0, <1>2, <1>3, <2>2, <2>5, <2>6, <2>7 DEF Mirrored, Present
<1>5. CASE ~Present(m)
  <2>1. shown'[m] = 0 /\ OthersSame(m, 0) /\ row'[m].state = "absent"
    BY <1>1, <1>5, StartMessage DEF Present
  <2> QED
    BY <1>0, <1>2, <1>3, <2>1 DEF Mirrored, OthersSame, Present
<1> QED
  BY <1>4, <1>5

(* A message that was never composed has no row.                           *)
LEMMA UncomposedIsAbsent ==
  ASSUME TypeOK, Fresh, up, NEW m \in Messages, Mirrored(m), loads[m] = 0
  PROVE  shown[m] = 0 /\ ~Present(m)
<1>1. shown[m] \in 0..MaxLoads
  BY DEF TypeOK
<1>2. ASSUME shown[m] # 0 PROVE FALSE
  <2>1. shown[m] \in 1..MaxLoads
    BY <1>1, <1>2, DeliveryAssumption
  <2>2. PICK o \in Objects : o = <<m, shown[m]>>
    BY <2>1, SlotNames
  <2>3. Listed(o) /\ o[2] = shown[m] /\ o[1] = m
    BY <2>2 DEF Listed
  <2>4. shown[m] <= 0
    BY <2>3 DEF Fresh
  <2> QED
    BY <2>1, <2>4, DeliveryAssumption
<1> QED
  BY <1>2 DEF Mirrored

LEMMA MirroringKept ==
  ASSUME ReliableStore, NoRebuild, IInv, SentOnce, Accounting, Mirroring, [Next]_vars
  PROVE  Mirroring' /\ \A m \in Messages : OlderKept(m)
<1>0. TypeOK /\ TypeOK' /\ Fresh /\ NoneUnresolved
  BY NextInv DEF IInv, SentOnce, Mirroring
<1>1. NoneUnresolved'
  BY <1>0, NoneUnresolvedKept
<1>2. ASSUME NEW m \in Messages PROVE Mirrored(m)' /\ OlderKept(m)
  <2>0. Accounted(m) /\ Mirrored(m)
    BY DEF Accounting, Mirroring
  <2>1. CASE up /\ up'
    <3>1. MessageStep(m)
      BY <1>0, <2>1, AccountingGives, RunningStep
    <3> QED
      BY <1>0, <2>0, <2>1, <3>1, RunningMirrored
  <2>2. CASE up /\ ~up'
    <3>1. Die /\ LastWords(m)
      BY <2>2, DyingStep
    <3>2. Begun(m) => ~Present(m)
      BY <1>0, <2>0, <2>2, UncomposedIsAbsent DEF Begun
    <3> QED
      BY <1>0, <2>0, <2>2, <3>1, <3>2, DyingMirrored
  <2>3. CASE ~up
    <3>1. CASE UNCHANGED vars
      BY <2>0, <3>1 DEF vars, Mirrored, Present, OlderKept
    <3>2. CASE Start
      BY <2>0, <3>2, StartMirrored
    <3> QED
      BY <2>3, <3>1, <3>2, DeadStep
  <2> QED
    BY <2>1, <2>2, <2>3
<1> QED
  BY <1>1, <1>2 DEF Mirroring

LEMMA InitMirroring ==
  ASSUME Init
  PROVE  Mirroring
<1>1. \A m \in Messages : /\ row[m].state = "absent" /\ row[m].attempts = <<>> /\ shown[m] = 0
                          /\ \A k \in 1..MaxLoads : entry[<<m, k>>].gen = 0
  BY SlotNames DEF Init, NoRow, Blank
<1>2. NoneUnresolved
  BY DEF Init, NoneUnresolved
<1> QED
  BY <1>1, <1>2, DeliveryAssumption DEF Mirroring, Mirrored, Present

(* While the store works and nothing rebuilds the view under a send, the   *)
(* rows of send_attempts are a history: no handler, timer, resend, crash   *)
(* or restart changes an attempt that is not the last one.                 *)
THEOREM HistoryIsKept ==
  ASSUME ReliableStore, NoRebuild
  PROVE  Spec => AttemptsAreHistory
<1>1. Init => SentOnce /\ Accounting /\ Mirroring
  BY InitSentOnce, InitAccounting, InitMirroring
<1>2. IInv /\ SentOnce /\ Accounting /\ Mirroring /\ [Next]_vars
        => SentOnce' /\ Accounting' /\ Mirroring'
  BY SentOnceKept, AccountingKept, MirroringKept
<1>3. IInv /\ SentOnce /\ Accounting /\ Mirroring /\ [Next]_vars =>
        [\A m \in Messages :
           row'[m].state = "absent" \/
           \A i \in DOMAIN row[m].attempts :
             i < Len(row[m].attempts) =>
               /\ i \in DOMAIN row'[m].attempts
               /\ row'[m].attempts[i] = row[m].attempts[i]]_vars
  BY MirroringKept DEF OlderKept
<1> QED
  BY <1>1, <1>2, <1>3, Inductive, PTL DEF Spec, AttemptsAreHistory

-----------------------------------------------------------------------------
(* The opening of a send.  Its SendSubmitted is posted once, by a worker   *)
(* that is back from the SDK; until the UI thread has handled it, the      *)
(* entry has no deadline and holds what the send, or the answers that      *)
(* overtook the event, left there.                                         *)

Unsubmitted == {"none", "calling", "accepted", "registered"}

Announced ==
  /\ \A i \in DOMAIN uiq :
       uiq[i].type = "submitted" => worker[uiq[i].send] \notin Unsubmitted
  /\ \A i, j \in DOMAIN uiq :
       /\ uiq[i].type = "submitted" /\ uiq[j].type = "submitted"
       /\ uiq[i].send = uiq[j].send
       => i = j

OutcomeEvents ==
  \A i \in DOMAIN uiq : uiq[i].type = "status" => uiq[i].state \in {"SENT", "HEARD", "FAILED"}

QueueOrder == Announced /\ OutcomeEvents

Overtaken == {"SENDING", "SENT", "HEARD", "FAILED"}

UnopenedEntries ==
  \A o \in Objects : entry[o].gen > 0 /\ Unopened(Current(o)) =>
    entry[o].state \in Overtaken /\ ~entry[o].deadline

Ordered == QueueOrder /\ UnopenedEntries

(* A send that is opened stays so.                                         *)
StayOpen ==
  \A o \in Objects :
    entry[o].gen > 0 /\ entry'[o].gen = entry[o].gen /\ Unopened(Current(o))'
      => Unopened(Current(o))

(* Queues that only lose events keep their order.                          *)
LEMMA OrderDropped ==
  ASSUME TypeOK, QueueOrder,
         uiq' = uiq \/ uiq' = <<>> \/ (uiq # <<>> /\ uiq' = Tail(uiq)),
         \/ uiq' = <<>>
         \/ \A s \in Sends : worker'[s] \in Unsubmitted => worker[s] \in Unsubmitted
  PROVE  QueueOrder'
<1>1. uiq \in Seq(UiEvents) /\ \A i \in DOMAIN uiq : uiq[i].send \in Sends
  BY QueuedSends DEF TypeOK
<1>3. \E d \in Nat : \A i \in DOMAIN uiq' : i \in Nat /\ i + d \in DOMAIN uiq /\ uiq'[i] = uiq[i + d]
  <2>1. CASE uiq' = uiq
    <3>1. \A i \in DOMAIN uiq : i \in Nat /\ i + 0 = i
      BY <1>1
    <3> QED
      BY <2>1, <3>1
  <2>2. CASE uiq' = <<>>
    BY <2>2
  <2>3. CASE uiq # <<>> /\ uiq' = Tail(uiq)
    <3>1. \A i \in DOMAIN Tail(uiq) :
            i \in Nat /\ i + 1 \in DOMAIN uiq /\ Tail(uiq)[i] = uiq[i + 1]
      BY <1>1, <2>3
    <3> QED
      BY <2>3, <3>1
  <2> QED
    BY <2>1, <2>2, <2>3
<1>4. PICK d \in Nat :
        \A i \in DOMAIN uiq' : i \in Nat /\ i + d \in DOMAIN uiq /\ uiq'[i] = uiq[i + d]
  BY <1>3
<1>5. OutcomeEvents'
  BY <1>4 DEF QueueOrder, OutcomeEvents
<1>6. ASSUME NEW i \in DOMAIN uiq', uiq'[i].type = "submitted"
      PROVE  worker'[uiq'[i].send] \notin Unsubmitted
  <2>1. uiq' # <<>>
    BY <1>6
  <2>2. uiq'[i].send \in Sends /\ worker[uiq'[i].send] \notin Unsubmitted
    BY <1>1, <1>4, <1>6 DEF QueueOrder, Announced
  <2> QED
    BY <2>1, <2>2
<1>7. ASSUME NEW i \in DOMAIN uiq', NEW j \in DOMAIN uiq',
             uiq'[i].type = "submitted", uiq'[j].type = "submitted",
             uiq'[i].send = uiq'[j].send
      PROVE  i = j
  <2>1. i + d = j + d /\ i \in Nat /\ j \in Nat
    BY <1>4, <1>7 DEF QueueOrder, Announced
  <2> QED
    BY <2>1
<1> QED
  BY <1>5, <1>6, <1>7 DEF QueueOrder, Announced

(* So does an event that is posted, if a SendSubmitted is the first of its *)
(* send.                                                                   *)
LEMMA OrderPosted ==
  ASSUME TypeOK, QueueOrder, NEW s \in Sends, NEW e \in UiEvents, e.send = s,
         uiq' = uiq \/ uiq' = Append(uiq, e),
         \A t \in Sends : worker'[t] \in Unsubmitted => worker[t] \in Unsubmitted,
         e.type = "submitted" => worker[s] \in Unsubmitted /\ worker'[s] \notin Unsubmitted,
         e.type = "status" => e.state \in {"SENT", "HEARD", "FAILED"}
  PROVE  QueueOrder'
<1>1. uiq \in Seq(UiEvents) /\ \A i \in DOMAIN uiq : uiq[i].send \in Sends
  BY QueuedSends DEF TypeOK
<1>2. \A i \in DOMAIN uiq' : \/ i \in DOMAIN uiq /\ uiq'[i] = uiq[i]
                             \/ i = Len(uiq) + 1 /\ uiq'[i] = e
  BY <1>1
<1>3. ASSUME NEW i \in DOMAIN uiq', uiq'[i].type = "submitted"
      PROVE  worker'[uiq'[i].send] \notin Unsubmitted
  <2>1. CASE i \in DOMAIN uiq /\ uiq'[i] = uiq[i]
    BY <1>1, <1>3, <2>1 DEF QueueOrder, Announced
  <2>2. CASE uiq'[i] = e
    BY <1>3, <2>2
  <2> QED
    BY <1>2, <2>1, <2>2
<1>4. ASSUME NEW i \in DOMAIN uiq', NEW j \in DOMAIN uiq',
             uiq'[i].type = "submitted", uiq'[j].type = "submitted",
             uiq'[i].send = uiq'[j].send
      PROVE  i = j
  <2>1. ASSUME e.type = "submitted", NEW k \in DOMAIN uiq, uiq[k].send = s,
               uiq[k].type = "submitted"
        PROVE  FALSE
    BY <2>1 DEF QueueOrder, Announced
  <2>2. CASE i \in DOMAIN uiq /\ uiq'[i] = uiq[i] /\ j \in DOMAIN uiq /\ uiq'[j] = uiq[j]
    BY <1>4, <2>2 DEF QueueOrder, Announced
  <2> QED
    BY <1>2, <1>4, <2>1, <2>2
<1>5. OutcomeEvents'
  BY <1>2 DEF QueueOrder, OutcomeEvents
<1> QED
  BY <1>3, <1>4, <1>5 DEF QueueOrder, Announced

(* A SendSubmitted that is dequeued opens its send.                        *)
LEMMA HeadOpens ==
  ASSUME TypeOK, QueueOrder, uiq # <<>>, uiq' = Tail(uiq), worker' = worker,
         Head(uiq).type = "submitted", NEW s, s = Head(uiq).send
  PROVE  ~Unopened(s)'
<1>1. uiq \in Seq(UiEvents) /\ 1 \in DOMAIN uiq /\ Head(uiq) = uiq[1]
  BY DEF TypeOK
<1>3. worker[uiq[1].send] \notin Unsubmitted
  BY <1>1 DEF QueueOrder, Announced
<1>4. \A i \in DOMAIN uiq' : i \in Nat /\ i # 0 /\ i + 1 \in DOMAIN uiq /\ uiq'[i] = uiq[i + 1]
  BY <1>1
<1>5. ASSUME NEW i \in DOMAIN uiq', uiq'[i].type = "submitted", uiq'[i].send = uiq[1].send
      PROVE  FALSE
  <2>1. i + 1 = 1 /\ i \in Nat /\ i # 0
    BY <1>1, <1>4, <1>5 DEF QueueOrder, Announced
  <2> QED
    BY <2>1
<1> QED
  BY <1>1, <1>3, <1>5 DEF Unopened, Unsubmitted

(* Nothing is opened anew by a queue that loses events.                    *)
LEMMA UnopenedKept ==
  ASSUME TypeOK, NEW s, worker'[s] = worker[s],
         uiq' = uiq \/ (uiq # <<>> /\ uiq' = Tail(uiq)), Unopened(s)'
  PROVE  Unopened(s)
<1>1. CASE uiq' = uiq
  BY <1>1 DEF Unopened
<1>2. CASE uiq # <<>> /\ uiq' = Tail(uiq)
  <2>1. uiq \in Seq(UiEvents)
    BY DEF TypeOK
  <2>2. \A i \in DOMAIN uiq' : i + 1 \in DOMAIN uiq /\ uiq'[i] = uiq[i + 1]
    BY <1>2, <2>1, SendQueueTail
  <2> QED
    BY <2>2 DEF Unopened
<1> QED
  BY <1>1, <1>2

(* UnopenedEntries holds after a step that leaves each unopened entry      *)
(* alone, has just sent it or gives it an answer.                          *)
LEMMA OpensKept ==
  ASSUME UnopenedEntries,
         \A o \in Objects :
           \/ entry'[o].gen = 0
           \/ entry'[o].state \in Overtaken /\ ~entry'[o].deadline
           \/ ~Unopened(Current(o))'
           \/ /\ entry'[o].gen = entry[o].gen /\ entry'[o].state = entry[o].state
              /\ entry'[o].deadline = entry[o].deadline
              /\ Unopened(Current(o))' => Unopened(Current(o))
  PROVE  UnopenedEntries'
<1> SUFFICES ASSUME NEW o \in Objects, entry'[o].gen > 0, Unopened(Current(o))'
             PROVE  entry'[o].state \in Overtaken /\ ~entry'[o].deadline
  BY DEF UnopenedEntries
<1>1. CASE entry'[o].state \in Overtaken /\ ~entry'[o].deadline
  BY <1>1
<1>2. CASE /\ entry'[o].gen = entry[o].gen /\ entry'[o].state = entry[o].state
           /\ entry'[o].deadline = entry[o].deadline
           /\ Unopened(Current(o))' => Unopened(Current(o))
  BY <1>2 DEF UnopenedEntries
<1> QED
  BY <1>1, <1>2

LEMMA RadioOrdered ==
  ASSUME IInv, Ordered,
         \/ \E s \in Sends : WorkerStep(s)
         \/ \E s \in Sends, kind \in Responses : RoutingResponse(s, kind)
         \/ OnRoutingResponse
  PROVE  Ordered' /\ StayOpen
<1>0. TypeOK /\ QueueOrder /\ UnopenedEntries
  BY DEF IInv, Ordered
<1>1. entry' = entry
  BY DEF WorkerStep, SubmitToSdk, RefuseSend, RegisterPendingSend, PostSubmitted,
         RoutingResponse, OnRoutingResponse, memory
<1>2. ASSUME \A s \in Sends : Unopened(s)' => Unopened(s) PROVE UnopenedEntries' /\ StayOpen
  <2>1. \A o \in Objects : entry[o].gen > 0 => <<o, entry[o].gen>> \in Sends
    <3>1. \A e \in Entries : e.gen > 0 => e.gen \in 1..MaxGen
      BY DeliveryAssumption DEF Entries
    <3> QED
      BY <1>0, <3>1, SendNames DEF TypeOK
  <2>2. \A o \in Objects : entry[o].gen > 0 /\ Unopened(Current(o))' => Unopened(Current(o))
    BY <1>1, <1>2, <2>1 DEF Current
  <2> QED
    BY <1>0, <1>1, <2>2 DEF UnopenedEntries, StayOpen
<1>3. ASSUME NEW s \in Sends, NEW e \in UiEvents, e.type # "submitted",
             uiq' = uiq \/ uiq' = Append(uiq, e),
             \A t \in Sends : worker'[t] = worker[t] \/ worker'[t] \notin {"calling", "accepted", "registered"}
      PROVE  \A t \in Sends : Unopened(t)' => Unopened(t)
  <2>1. \A i \in DOMAIN uiq' : (i \in DOMAIN uiq /\ uiq'[i] = uiq[i]) \/ uiq'[i] = e
    <3>1. uiq \in Seq(UiEvents)
      BY <1>0 DEF TypeOK
    <3>2. CASE uiq' = uiq
      BY <3>2
    <3>3. CASE uiq' = Append(uiq, e)
      BY <3>1, <3>3, SendQueueAppend
    <3> QED
      BY <1>3, <3>2, <3>3
  <2>2. ASSUME NEW t \in Sends, Unopened(t)' PROVE Unopened(t)
    <3>1. CASE worker'[t] \in {"calling", "accepted", "registered"}
      BY <1>3, <3>1 DEF Unopened
    <3>2. ASSUME NEW i \in DOMAIN uiq', uiq'[i].type = "submitted", uiq'[i].send = t
          PROVE  Unopened(t)
      BY <1>3, <2>1, <3>2 DEF Unopened
    <3> QED
      BY <2>2, <3>1, <3>2 DEF Unopened
  <2> QED
    BY <2>2
<1>4. ASSUME NEW s \in Sends, NEW w \in Unsubmitted \ {"none"},
             worker[s] \in Unsubmitted \ {"none"}, UNCHANGED <<uiq, pubq>>,
             worker' = [worker EXCEPT ![s] = w]
      PROVE  Ordered' /\ StayOpen
  <2>1. \A t \in Sends : worker'[t] = IF t = s THEN w ELSE worker[t]
    BY <1>0, <1>4 DEF TypeOK
  <2>2. QueueOrder'
    BY <1>0, <1>4, <2>1, OrderDropped
  <2>3. \A t \in Sends : Unopened(t)' => Unopened(t)
    BY <1>4, <2>1 DEF Unopened, Unsubmitted
  <2> QED
    BY <1>2, <2>2, <2>3 DEF Ordered
<1>5. ASSUME NEW s \in Sends, SubmitToSdk(s) \/ RegisterPendingSend(s) PROVE Ordered' /\ StayOpen
  <2>1. \E w \in Unsubmitted \ {"none"} : /\ worker' = [worker EXCEPT ![s] = w]
                                          /\ UNCHANGED <<uiq, pubq>>
                                          /\ worker[s] \in Unsubmitted \ {"none"}
    BY <1>5 DEF SubmitToSdk, RegisterPendingSend, Unsubmitted
  <2> QED
    BY <1>4, <2>1
<1>6. ASSUME NEW s \in Sends, RefuseSend(s) PROVE Ordered' /\ StayOpen
  <2>1. PICK e : e = [type |-> "failed", send |-> s, state |-> "FAILED"]
    OBVIOUS
  <2>2. /\ worker' = [worker EXCEPT ![s] = "done"] /\ pubq' = pubq /\ uiq' = Append(uiq, e)
    BY <1>6, <2>1 DEF RefuseSend, Post
  <2>3. e \in UiEvents /\ e.send = s /\ e.type = "failed"
    BY <2>1 DEF UiEvents, DeliveryStates
  <2>4. \A t \in Sends : worker'[t] = IF t = s THEN "done" ELSE worker[t]
    BY <1>0, <2>2 DEF TypeOK
  <2>5. QueueOrder'
    BY <1>0, <2>2, <2>3, <2>4, OrderPosted DEF Unsubmitted
  <2> QED
    BY <1>2, <1>3, <2>2, <2>3, <2>4, <2>5 DEF Ordered
<1>7. ASSUME NEW s \in Sends, PostSubmitted(s) PROVE Ordered' /\ StayOpen
  <2>1. PICK e : e = [type |-> "submitted", send |-> s, state |-> "SENDING"]
    OBVIOUS
  <2>2. /\ worker[s] = "registered" /\ worker' = [worker EXCEPT ![s] = "submitted"]
        /\ pubq' = pubq /\ uiq' = Append(uiq, e)
    BY <1>7, <2>1 DEF PostSubmitted, Post
  <2>3. e \in UiEvents /\ e.send = s /\ e.type = "submitted"
    BY <2>1 DEF UiEvents, DeliveryStates
  <2>4. \A t \in Sends : worker'[t] = IF t = s THEN "submitted" ELSE worker[t]
    BY <1>0, <2>2 DEF TypeOK
  <2>5. QueueOrder'
    BY <1>0, <2>2, <2>3, <2>4, OrderPosted DEF Unsubmitted
  <2>6. \A i \in DOMAIN uiq' : (i \in DOMAIN uiq /\ uiq'[i] = uiq[i]) \/ uiq'[i] = e
    BY <1>0, <2>2, <2>3, SendQueueAppend DEF TypeOK
  <2>7. \A t \in Sends : Unopened(t)' => Unopened(t)
    BY <2>2, <2>3, <2>4, <2>6 DEF Unopened
  <2> QED
    BY <1>2, <2>5, <2>7 DEF Ordered
<1>8. ASSUME NEW s \in Sends, NEW kind \in Responses, worker' = worker,
             \/ uiq' = uiq
             \/ IsStatus(parse_send_response(kind)) /\
                  Post([type |-> "status", send |-> s, state |-> parse_send_response(kind)])
      PROVE  Ordered' /\ StayOpen
  <2>1. PICK st \in {"SENT", "HEARD", "FAILED"} :
          \/ uiq' = uiq
          \/ st = parse_send_response(kind) /\
               Post([type |-> "status", send |-> s, state |-> parse_send_response(kind)])
    BY <1>8 DEF IsStatus, parse_send_response, Responses
  <2>2. PICK e : e = [type |-> "status", send |-> s, state |-> st]
    OBVIOUS
  <2>3. e \in UiEvents /\ e.send = s /\ e.type = "status" /\ e.state = st
    BY <2>2 DEF UiEvents, DeliveryStates
  <2>4. uiq' = uiq \/ uiq' = Append(uiq, e)
    BY <2>1, <2>2 DEF Post
  <2>5. QueueOrder'
    BY <1>0, <1>8, <2>3, <2>4, OrderPosted
  <2>6. \A t \in Sends : Unopened(t)' => Unopened(t)
    BY <1>3, <1>8, <2>3, <2>4
  <2> QED
    BY <1>2, <2>5, <2>6 DEF Ordered
<1>9. ASSUME NEW s \in Sends, NEW kind \in Responses, RoutingResponse(s, kind)
      PROVE  Ordered' /\ StayOpen
  <2>1. worker' = worker
    BY <1>9 DEF RoutingResponse
  <2>2. \/ uiq' = uiq
        \/ IsStatus(parse_send_response(kind)) /\
             Post([type |-> "status", send |-> s, state |-> parse_send_response(kind)])
    BY <1>9 DEF RoutingResponse
  <2> QED
    BY <1>8, <2>1, <2>2
<1>10. CASE OnRoutingResponse
  <2>1. PICK v, s, kind : v = Head(pubq) /\ s = v.send /\ kind = v.kind
    OBVIOUS
  <2>2. pubq \in Seq(Publications) /\ pubq # <<>> /\ worker' = worker
    BY <1>0, <1>10 DEF OnRoutingResponse, TypeOK
  <2>3. v \in Publications
    BY <2>1, <2>2
  <2>4. s \in Sends /\ kind \in Responses
    BY <2>1, <2>3 DEF Publications
  <2>5. \/ uiq' = uiq
        \/ IsStatus(parse_send_response(kind)) /\
             Post([type |-> "status", send |-> s, state |-> parse_send_response(kind)])
    BY <1>10, <2>1 DEF OnRoutingResponse
  <2> QED
    BY <1>8, <2>2, <2>4, <2>5
<1> QED
  BY <1>5, <1>6, <1>7, <1>9, <1>10 DEF WorkerStep

(* A new generation is sent: nothing of it is queued yet.                  *)
LEMMA SentOrdered ==
  ASSUME TypeOK, Ordered, NEW o \in Objects, NEW g \in 1..MaxGen, ~Used(<<o, g>>),
         StartWorker(<<o, g>>), UNCHANGED <<uiq, pubq>>, Sending(entry'[o], g),
         entry[o].gen # g, \A p \in Objects \ {o} : entry'[p] = entry[p]
  PROVE  Ordered' /\ StayOpen
<1>1. <<o, g>> \in Sends /\ worker[<<o, g>>] = "none"
  BY SendNames DEF Used
<1>2. \A t \in Sends : worker'[t] = IF t = <<o, g>> THEN "calling" ELSE worker[t]
  BY <1>1 DEF StartWorker, TypeOK
<1>3. QueueOrder'
  BY <1>1, <1>2, OrderDropped DEF Ordered, Unsubmitted
<1>4. ASSUME NEW p \in Objects, p # o, entry[p].gen # 0
      PROVE  Unopened(Current(p))' => Unopened(Current(p))
  <2>1. entry'[p] = entry[p] /\ entry[p].gen \in 1..MaxGen
    <3>1. \A e \in Entries : e.gen # 0 => e.gen \in 1..MaxGen
      BY DeliveryAssumption DEF Entries
    <3> QED
      BY <1>4, <3>1 DEF TypeOK
  <2>2. PICK s \in Sends : s = <<p, entry[p].gen>> /\ s # <<o, g>>
    BY <1>4, <2>1, SendNames
  <2>3. worker'[s] = worker[s]
    BY <1>2, <2>2
  <2>4. Unopened(s)' => Unopened(s)
    BY <2>3 DEF Unopened
  <2>5. Current(p) = s /\ Current(p)' = s
    BY <2>1, <2>2 DEF Current
  <2> QED
    BY <2>4, <2>5 DEF Unopened
<1>5. UnopenedEntries'
  <2>1. ASSUME NEW p \in Objects
        PROVE  \/ entry'[p].gen = 0
               \/ entry'[p].state \in Overtaken /\ ~entry'[p].deadline
               \/ /\ entry'[p].gen = entry[p].gen /\ entry'[p].state = entry[p].state
                  /\ entry'[p].deadline = entry[p].deadline
                  /\ Unopened(Current(p))' => Unopened(Current(p))
    BY <1>4 DEF Sending, Overtaken
  <2> QED
    BY <2>1, OpensKept DEF Ordered
<1>6. StayOpen
  <2>1. \A e \in Entries : e.gen > 0 => e.gen # 0
    BY DEF Entries
  <2>2. \A p \in Objects : entry[p] \in Entries
    BY DEF TypeOK
  <2> QED
    BY <1>4, <2>1, <2>2 DEF StayOpen, Sending
<1> QED
  BY <1>3, <1>5, <1>6 DEF Ordered

(* Objects, from what is said of the message.                              *)
LEMMA ObjectOf ==
  ASSUME NEW p \in Objects, NEW k, OthersSame(p[1], k), p[2] # k
  PROVE  entry'[p] = entry[p]
BY ObjectNames DEF OthersSame

LEMMA QuietObject ==
  ASSUME NEW p \in Objects, Quiet(p[1])
  PROVE  entry'[p] = entry[p]
<1>1. p[2] # 0
  BY ObjectNames, DeliveryAssumption
<1> QED
  BY <1>1, ObjectOf DEF Quiet

LEMMA UserOrdered ==
  ASSUME ReliableStore, IInv, SentOnce, StoredEntries, Ordered, UserStep
  PROVE  Ordered' /\ StayOpen
<1>0. TypeOK /\ Fresh
  BY DEF IInv, SentOnce
<1>1. ASSUME NEW m \in Messages, Compose(m) PROVE Ordered' /\ StayOpen
  <2>1. PICK o \in Objects : o = <<m, 1>> /\ o[1] = m /\ o[2] = 1
    <3>1. 1 \in 1..MaxLoads
      BY DeliveryAssumption
    <3> QED
      BY <3>1, SlotNames
  <2>2. Composed(m) /\ \A n \in Messages \ {m} : Quiet(n)
    BY <1>0, <1>1, ComposeMessage
  <2>3. Sending(entry'[o], 1) /\ 1 \in 1..MaxGen
    BY <2>1, <2>2, DeliveryAssumption DEF Composed
  <2>4. ~Used(<<o, 1>>) /\ entry[o].gen # 1
    <3>1. loads[m] = 0 /\ o[2] > loads[o[1]]
      BY <2>1, <2>2 DEF Composed
    <3>2. entry[o].gen = 0
      BY <1>0, <3>1 DEF Fresh
    <3> QED
      BY <1>0, <2>1, <2>3, <3>1, <3>2 DEF Fresh
  <2>5. ASSUME NEW p \in Objects \ {o} PROVE entry'[p] = entry[p]
    <3>1. p[1] \in Messages /\ p = <<p[1], p[2]>>
      BY ObjectNames
    <3>2. CASE p[1] = m
      BY <2>1, <2>2, <3>1, <3>2, ObjectOf DEF Composed
    <3>3. CASE p[1] # m
      BY <2>2, <3>1, <3>3, QuietObject
    <3> QED
      BY <3>2, <3>3
  <2>6. StartWorker(<<o, 1>>) /\ UNCHANGED <<uiq, pubq>>
    BY <1>1, <2>1 DEF Compose
  <2> QED
    BY <1>0, <2>3, <2>4, <2>5, <2>6, SentOrdered
<1>2. ASSUME NEW o \in Objects, Rebroadcast(o) PROVE Ordered' /\ StayOpen
  <2>1. o[1] \in Messages /\ o[2] \in 1..MaxLoads /\ o = <<o[1], o[2]>> /\ entry[o] \in Entries
    BY <1>0, ObjectNames DEF TypeOK
  <2>2. /\ Resent(o[1], o[2]) /\ \A n \in Messages \ {o[1]} : Quiet(n)
    BY <1>0, <1>2, RebroadcastMessage
  <2>3. entry[o].gen \in 0..MaxGen /\ entry[o].gen < MaxGen /\ Listed(o)
        /\ UNCHANGED <<uiq, pubq>>
    BY <1>2, <2>1 DEF Rebroadcast, Entries
  <2>4. PICK g \in 1..MaxGen : g = entry[o].gen + 1 /\ ~(g <= entry[o].gen)
    BY <2>3, DeliveryAssumption
  <2>5. Sending(entry'[o], g)
    BY <2>1, <2>2, <2>4 DEF Resent
  <2>6. ~Used(<<o, g>>) /\ entry[o].gen # g
    BY <1>0, <2>3, <2>4 DEF Fresh
  <2>7. StartWorker(<<o, g>>)
    BY <1>2, <2>1, <2>4 DEF Rebroadcast, Entries
  <2>8. ASSUME NEW p \in Objects \ {o} PROVE entry'[p] = entry[p]
    <3>1. p[1] \in Messages /\ p = <<p[1], p[2]>>
      BY ObjectNames
    <3>2. CASE p[1] = o[1]
      BY <2>1, <2>2, <3>1, <3>2, ObjectOf DEF Resent
    <3>3. CASE p[1] # o[1]
      BY <2>2, <3>1, <3>3, QuietObject
    <3> QED
      BY <3>2, <3>3
  <2> QED
    BY <1>0, <2>3, <2>5, <2>6, <2>7, <2>8, SentOrdered
<1>3. ASSUME NEW o \in Objects, DeleteEntry(o) PROVE Ordered' /\ StayOpen
  <2>1. UNCHANGED <<worker, uiq, pubq>> /\ entry' = [entry EXCEPT ![o].deleted = TRUE]
    BY <1>3 DEF DeleteEntry
  <2>2. \A p \in Objects : /\ entry'[p].gen = entry[p].gen /\ entry'[p].state = entry[p].state
                           /\ entry'[p].deadline = entry[p].deadline
    BY <1>0, <2>1 DEF TypeOK, Entries
  <2>3. \A p \in Objects : Unopened(Current(p))' => Unopened(Current(p))
    BY <2>1, <2>2 DEF Unopened, Current
  <2>4. QueueOrder'
    BY <1>0, <2>1, OrderDropped DEF Ordered
  <2>5. UnopenedEntries'
    BY <2>2, <2>3, OpensKept DEF Ordered
  <2> QED
    BY <2>3, <2>4, <2>5 DEF Ordered, StayOpen
<1> QED
  BY <1>1, <1>2, <1>3 DEF UserStep

LEMMA UiOrdered ==
  ASSUME ReliableStore, IInv, Ordered, UiStep \/ AdvanceDeliveryStates
  PROVE  Ordered' /\ StayOpen
<1>0. TypeOK /\ QueueOrder /\ UnopenedEntries
  BY DEF IInv, Ordered
<1>1. /\ UNCHANGED <<worker, pubq>>
      /\ uiq' = uiq \/ (uiq # <<>> /\ uiq' = Tail(uiq))
      /\ \A o \in Objects : entry'[o].gen = entry[o].gen
  <2>1. UNCHANGED <<worker, pubq>>
    BY DEF UiStep, SendWasSubmitted, SendFailed, DeliveryStatusReceived, IgnoreEvent,
           AdvanceDeliveryStates, radio
  <2> QED
    BY <2>1, UiStepGens
<1>2. QueueOrder'
  BY <1>0, <1>1, OrderDropped
<1>3. ASSUME NEW p \in Objects PROVE Unopened(Current(p))' => Unopened(Current(p))
  <2>1. PICK s : s = Current(p) /\ s = Current(p)'
    BY <1>1 DEF Current
  <2>2. worker'[s] = worker[s]
    BY <1>1
  <2>3. Unopened(s)' => Unopened(s)
    BY <1>0, <1>1, <2>2, UnopenedKept
  <2> QED
    BY <2>1, <2>3 DEF Unopened
<1>7. StayOpen
  BY <1>3 DEF StayOpen
<1>4. CASE SendWasSubmitted \/ SendFailed \/ DeliveryStatusReceived
  <2>1. PICK o \in Objects : Handled(o)
    BY <1>4, HandlerWrites
  <2>2. PICK v, s : v = Head(uiq) /\ s = Current(o)
    OBVIOUS
  <2>3. uiq # <<>> /\ uiq' = Tail(uiq) /\ v.send = s /\ s = Current(o)'
    BY <1>1, <2>1, <2>2 DEF Handled, Current
  <2>4. ASSUME Unopened(Current(o))'
        PROVE  entry'[o].state \in Overtaken /\ ~entry'[o].deadline
    <3>1. CASE v.type = "submitted"
      <4>1. ~Unopened(s)'
        BY <1>0, <1>1, <2>2, <2>3, <3>1, HeadOpens
      <4>2. ~Unopened(Current(o))'
        BY <2>3, <4>1 DEF Unopened, Current
      <4> QED
        BY <2>4, <4>2 DEF Unopened, Current
    <3>2. CASE v.type # "submitted"
      <4>1. entry[o].gen > 0 /\ Unopened(Current(o))
        BY <1>3, <2>1, <2>4, DeliveryAssumption DEF Handled
      <4>2. ~entry[o].deadline
        BY <1>0, <4>1 DEF UnopenedEntries
      <4>3. ~entry'[o].deadline
        BY <2>1, <2>2, <3>2, <4>2 DEF Handled
      <4>4. v.type = "status" => v.state \in {"SENT", "HEARD", "FAILED"}
        <5>1. uiq \in Seq(UiEvents) /\ 1 \in DOMAIN uiq /\ v = uiq[1]
          BY <1>0, <2>2, <2>3 DEF TypeOK
        <5> QED
          BY <1>0, <5>1 DEF QueueOrder, OutcomeEvents
      <4> QED
        BY <2>1, <2>2, <3>2, <4>3, <4>4 DEF Handled, Overtaken
    <3> QED
      BY <3>1, <3>2
  <2>6. \A p \in Objects \ {o} : entry'[p] = entry[p]
    BY <2>1 DEF Handled, OthersKept
  <2>7. UnopenedEntries'
    BY <1>0, <1>3, <2>4, <2>6, OpensKept
  <2> QED
    BY <1>2, <1>7, <2>7 DEF Ordered
<1>5. CASE IgnoreEvent
  <2>1. entry' = entry
    BY <1>5 DEF IgnoreEvent, memory
  <2> QED
    BY <1>0, <1>2, <1>3, <1>7, <2>1, OpensKept DEF Ordered
<1>6. CASE AdvanceDeliveryStates
  <2>1. ASSUME NEW p \in Objects
        PROVE  \/ entry'[p].gen = 0
               \/ ~Unopened(Current(p))'
               \/ entry'[p] = entry[p]
    <3>1. p[1] \in Messages /\ p[2] \in 1..MaxLoads /\ p = <<p[1], p[2]>>
      BY ObjectNames
    <3>2. CASE Quiet(p[1])
      BY <3>2, QuietObject
    <3>3. CASE Wrote(p[1], shown[p[1]]) /\ p[2] # shown[p[1]]
      BY <3>3, ObjectOf DEF Wrote
    <3>4. CASE entry[p].deadline
      <4>1. entry[p].gen \in Nat
        BY <1>0, <3>1, SlotBounds
      <4>2. entry[p].gen > 0 => ~Unopened(Current(p))
        BY <1>0, <3>4 DEF UnopenedEntries
      <4> QED
        BY <1>1, <1>3, <4>1, <4>2
    <3> QED
      BY <1>0, <1>6, <3>1, <3>2, <3>3, <3>4, TickMessage
  <2> QED
    BY <1>0, <1>2, <1>3, <1>7, <2>1, OpensKept DEF Ordered
<1> QED
  BY <1>4, <1>5, <1>6 DEF UiStep

LEMMA ViewIsQuiet ==
  ASSUME NoRebuild, TypeOK, Mirroring, ViewStep, NEW m \in Messages
  PROVE  Quiet(m)
<1>1. up
  BY DEF ViewStep, LoseLink, Reconnect, TrimFromWindow, LoadOlder
<1> QED
  BY <1>1, ViewMessage, NoReload DEF Mirroring

LEMMA ViewOrdered ==
  ASSUME NoRebuild, TypeOK, Mirroring, Ordered, ViewStep
  PROVE  Ordered' /\ StayOpen
<1>1. \A p \in Objects : entry'[p] = entry[p]
  <2> SUFFICES ASSUME NEW p \in Objects PROVE entry'[p] = entry[p]
    OBVIOUS
  <2>1. Quiet(p[1])
    BY ObjectNames, ViewIsQuiet
  <2> QED
    BY <2>1, QuietObject
<1>2. worker' = worker /\ uiq' = uiq
  BY DEF ViewStep, LoseLink, Reconnect, TrimFromWindow, LoadOlder, radio
<1>3. \A p \in Objects : Unopened(Current(p))' => Unopened(Current(p))
  BY <1>1, <1>2 DEF Unopened, Current
<1> QED
  BY <1>1, <1>2, <1>3, OrderDropped, OpensKept DEF Ordered, StayOpen

LEMMA ProcessOrdered ==
  ASSUME IInv, Ordered, ProcessStep
  PROVE  Ordered' /\ StayOpen
<1>0. TypeOK
  BY DEF IInv
<1>1. CASE Die
  <2>1. uiq' = <<>> /\ \A p \in Objects : entry'[p].gen = 0
    BY <1>1, BlankType DEF Die
  <2>2. StayOpen
    BY <2>1 DEF StayOpen
  <2> QED
    BY <1>0, <2>1, <2>2, OrderDropped, OpensKept DEF Ordered
<1>2. CASE Start
  <2>1. UNCHANGED <<worker, uiq, pubq>>
    BY <1>2 DEF Start, radio
  <2>2. ASSUME NEW p \in Objects PROVE entry'[p] = entry[p] \/ entry'[p].gen = 0
    <3>1. p[1] \in Messages /\ p = <<p[1], p[2]>> /\ p[2] # 0
      BY ObjectNames, DeliveryAssumption
    <3>2. CASE Present(p[1])
      <4>1. /\ OthersSame(p[1], loads[p[1]] + 1)
            /\ entry'[<<p[1], loads[p[1]] + 1>>].gen = 0
        BY <1>2, <3>1, <3>2, StartMessage, LoadedFields
      <4> QED
        BY <3>1, <4>1, ObjectOf
    <3>3. CASE ~Present(p[1])
      BY <1>2, <3>1, <3>3, StartMessage, ObjectOf
    <3> QED
      BY <3>2, <3>3
  <2>3. \A p \in Objects : entry'[p] = entry[p] => (Unopened(Current(p))' => Unopened(Current(p)))
    BY <2>1 DEF Unopened, Current
  <2>4. StayOpen
    BY <2>2, <2>3 DEF StayOpen
  <2> QED
    BY <1>0, <2>1, <2>2, <2>3, <2>4, OrderDropped, OpensKept DEF Ordered
<1> QED
  BY <1>1, <1>2 DEF ProcessStep, Crash, CrashInConfirmation, Shutdown, CrashInCompose,
                    CrashInRebroadcast

LEMMA OrderedKept ==
  ASSUME ReliableStore, NoRebuild, IInv, SentOnce, Accounting, Mirroring, Ordered,
         [Next]_vars
  PROVE  Ordered' /\ StayOpen
<1>0. TypeOK
  BY DEF IInv
<1>1. CASE UNCHANGED vars
  BY <1>1 DEF vars, Ordered, QueueOrder, Announced, OutcomeEvents, UnopenedEntries,
              StayOpen, Unopened, Current
<1> QED
  BY <1>0, <1>1, AccountingGives, UserOrdered, UiOrdered, RadioOrdered, ViewOrdered,
     ProcessOrdered DEF Next

LEMMA InitOrdered ==
  ASSUME Init
  PROVE  Ordered
BY DeliveryAssumption DEF Init, Ordered, QueueOrder, Announced, OutcomeEvents,
   UnopenedEntries, Blank

-----------------------------------------------------------------------------
(* The promise.                                                            *)

Known(m) == UNION {evidence[s] : s \in SendsOf(m)}

(* How a state may follow another one in the same generation.              *)
Moved(m, old, new) ==
  \/ new = old
  \/ old = "SENDING" /\ new = "UNCONFIRMED"
  \/ old \notin {"HEARD", "FAILED"} /\ new = "SENT" /\ old # "SENT" /\ "implicit" \in Known(m)
  \/ old \notin {"HEARD", "FAILED"} /\ new = "HEARD" /\ "remote" \in Known(m)
  \/ old \notin {"HEARD", "FAILED"} /\ new = "FAILED" /\ Known(m) \cap {"nak", "refused"} # {}

LEMMA KnownOf ==
  ASSUME NEW s \in Sends, NEW x \in evidence[s]
  PROVE  x \in Known(s[1][1])
BY DEF Known, SendsOf

(* The late SendSubmitted of an entry that is SENT already.                *)
TakenBack(o) ==
  /\ entry[o].gen > 0 /\ entry'[o].gen = entry[o].gen
  /\ entry[o].state = "SENT" /\ entry'[o].state = "SENDING"
  /\ Unopened(Current(o)) /\ ~Unopened(Current(o))'

LEMMA HandledMoves ==
  ASSUME IInv, SentOnce, Ordered, [Next]_vars, up', NEW o \in Objects, Handled(o)
  PROVE  Moved(o[1], entry[o].state, entry'[o].state) \/ TakenBack(o)
<1>0. /\ TypeOK /\ QueueTruthful /\ QueueOrder /\ UnopenedEntries
      /\ entry[o] \in Entries /\ entry[o].gen \in 1..MaxGen /\ entry[o].gen > 0
      /\ entry'[o].gen = entry[o].gen
  BY DeliveryAssumption DEF IInv, Truthful, Ordered, Handled, SameEntry
<1>1. entry[o].state \in {"HEARD", "FAILED"} => entry'[o].state = entry[o].state
  BY <1>0, FinalStep
<1>2. PICK v, s : v = Head(uiq) /\ s = Current(o)
  OBVIOUS
<1>3. /\ s \in Sends /\ s[1] = o /\ v.send = s /\ 1 \in DOMAIN uiq /\ v = uiq[1]
      /\ v \in UiEvents
  BY <1>0, <1>2, SendNames DEF Handled, Current, TypeOK
<1>4. EventTruthful(v)
  BY <1>0, <1>3 DEF QueueTruthful
<1>5. CASE v.type = "submitted" /\ entry'[o].state = SubmittedState(entry[o].state)
  <2>1. Unopened(s)
    BY <1>3, <1>5 DEF Unopened
  <2>2. Unopened(Current(o)) /\ entry[o].state \in Overtaken
    BY <1>0, <1>2, <2>1 DEF UnopenedEntries, Unopened, Current
  <2>3. ~Unopened(s)'
    BY <1>0, <1>2, <1>3, <1>5, HeadOpens DEF Handled, radio
  <2>4. ~Unopened(Current(o))'
    BY <1>0, <1>2, <2>3 DEF Unopened, Current
  <2>5. CASE entry[o].state = "SENT"
    BY <1>0, <1>5, <2>2, <2>4, <2>5 DEF SubmittedState, TakenBack
  <2>6. CASE entry[o].state # "SENT"
    BY <1>5, <2>2, <2>6 DEF SubmittedState, Moved, Overtaken
  <2> QED
    BY <2>5, <2>6
<1>6. CASE v.type = "failed" /\ entry'[o].state = "FAILED"
  <2>1. "refused" \in evidence[s]
    BY <1>3, <1>6 DEF SentOnce, Refusals
  <2>2. "refused" \in Known(o[1])
    BY <1>3, <2>1, KnownOf
  <2> QED
    BY <1>1, <1>6, <2>2 DEF Moved
<1>7. CASE v.type = "status" /\ entry'[o].state = v.state /\ entry[o].state \notin {"HEARD", "FAILED"}
  <2>1. Backed(v.state, evidence[s]) /\ v.state \in {"SENT", "HEARD", "FAILED"}
    BY <1>0, <1>3, <1>4, <1>7 DEF EventTruthful, QueueOrder, OutcomeEvents
  <2>2. \A x \in evidence[s] : x \in Known(o[1])
    BY <1>3, KnownOf
  <2>3. \/ v.state = "SENT" /\ "implicit" \in Known(o[1])
        \/ v.state = "HEARD" /\ "remote" \in Known(o[1])
        \/ v.state = "FAILED" /\ Known(o[1]) \cap {"nak", "refused"} # {}
    BY <2>1, <2>2 DEF Backed
  <2> QED
    BY <1>7, <2>3 DEF Moved
<1> QED
  BY <1>2, <1>5, <1>6, <1>7 DEF Handled

(* A running process: what happens to a message, with the moves of states. *)
LEMMA RunningMoves ==
  ASSUME ReliableStore, NoRebuild, IInv, SentOnce, Accounting, Mirroring, Ordered, [Next]_vars,
         up, up', NEW m \in Messages
  PROVE  \/ Quiet(m) \/ Composed(m)
         \/ \E k \in 1..MaxLoads :
              \/ Resent(m, k) \/ Removed(m, k)
              \/ /\ Wrote(m, k)
                 /\ \/ Moved(m, entry[<<m, k>>].state, entry'[<<m, k>>].state)
                    \/ TakenBack(<<m, k>>)
<1>0. TypeOK /\ StoredEntries
  BY AccountingGives DEF IInv
<1>1. CASE \/ UNCHANGED vars \/ IgnoreEvent \/ OnRoutingResponse
           \/ \E s \in Sends : WorkerStep(s)
           \/ \E s \in Sends, kind \in Responses : RoutingResponse(s, kind)
  <2>1. UNCHANGED <<shown, loads, entry, row>>
    BY <1>1 DEF WorkerStep, SubmitToSdk, RefuseSend, RegisterPendingSend, PostSubmitted,
                RoutingResponse, OnRoutingResponse, IgnoreEvent, memory, vars
  <2> QED
    BY <2>1 DEF Quiet, InPlace, OthersSame
<1>2. CASE UserStep
  <2>1. ASSUME NEW o \in Objects, \A n \in Messages \ {o[1]} : Quiet(n),
               Resent(o[1], o[2]) \/ Removed(o[1], o[2])
        PROVE  Quiet(m) \/ \E k \in 1..MaxLoads : Resent(m, k) \/ Removed(m, k)
    BY <2>1, ObjectNames
  <2>2. ASSUME NEW n \in Messages, Compose(n) PROVE Quiet(m) \/ Composed(m)
    BY <1>0, <2>2, ComposeMessage
  <2>3. ASSUME NEW o \in Objects, Rebroadcast(o) \/ DeleteEntry(o)
        PROVE  Quiet(m) \/ \E k \in 1..MaxLoads : Resent(m, k) \/ Removed(m, k)
    BY <1>0, <2>1, <2>3, RebroadcastMessage, DeleteMessage
  <2> QED
    BY <1>2, <2>2, <2>3 DEF UserStep
<1>3. CASE SendWasSubmitted \/ SendFailed \/ DeliveryStatusReceived
  <2>1. PICK o \in Objects : Handled(o)
    BY <1>3, HandlerWrites
  <2>2. o[1] \in Messages /\ o[2] \in 1..MaxLoads /\ o = <<o[1], o[2]>>
    BY ObjectNames
  <2>3. Moved(o[1], entry[o].state, entry'[o].state) \/ TakenBack(o)
    BY <2>1, HandledMoves
  <2> QED
    BY <1>0, <2>1, <2>2, <2>3, HandledMessage
<1>4. CASE AdvanceDeliveryStates
  BY <1>0, <1>4, TickMessage DEF Moved
<1>5. CASE ViewStep
  BY <1>0, <1>5, ViewIsQuiet
<1>6. CASE ProcessStep
  BY <1>6 DEF ProcessStep, Crash, CrashInConfirmation, Shutdown, Start, CrashInCompose,
              CrashInRebroadcast, Die
<1> QED
  BY <1>1, <1>2, <1>3, <1>4, <1>5, <1>6 DEF Next, UiStep

(* A step of DeliveryPromise, from mark a to mark b with K known.          *)
MarkStep(a, b, K) ==
  \/ a = "none" /\ b \in {"open", "unknown"}
  \/ a \in {"open", "unknown"} /\ "implicit" \in K /\ b = "sent"
  \/ a \in {"open", "unknown", "sent"} /\ "remote" \in K /\ b = "heard"
  \/ a \in {"open", "unknown", "sent"} /\ K \cap {"nak", "refused"} # {} /\ b = "failed"
  \/ a = "open" /\ b = "unknown"
  \/ a \in {"unknown", "failed"} /\ b = "open"
  \/ a \in {"unknown", "failed"} /\ b = "gone"

(* Its other part: a send is new only by Compose and Resend.               *)
Begins(a, b) ==
  \/ a = "none" /\ b \in {"open", "unknown"}
  \/ a \in {"unknown", "failed"} /\ b = "open"

Reopened(m) ==
  /\ UnopenedMessage(m) /\ MarkOf(m) = "sent"
  /\ MarkOf(m)' = "open" /\ ~UnopenedMessage(m)'

(* What the promise allows of one message.                                 *)
Promised(m) ==
  /\ \/ MarkOf(m)' = MarkOf(m)
     \/ MarkStep(MarkOf(m), MarkOf(m)', Known(m))
     \/ Reopened(m)
  /\ UnopenedMessage(m)' => UnopenedMessage(m) \/ Begins(MarkOf(m), MarkOf(m)')

LEMMA Marks ==
  \A b \in BOOLEAN, st \in DeliveryStates :
    /\ Mark(st, TRUE) = CASE st = "SENDING" -> "open" [] st = "SENT" -> "sent"
                          [] st = "HEARD" -> "heard" [] st = "FAILED" -> "failed"
                          [] OTHER -> "unknown"
    /\ st # "SENDING" => Mark(st, FALSE) = Mark(st, TRUE)
    /\ Mark("SENDING", FALSE) = "unknown"
    /\ Mark(st, b) \in {"open", "sent", "heard", "failed", "unknown"}
BY DEF Mark, DeliveryStates

LEMMA MovedMarks ==
  ASSUME NEW m, NEW old \in DeliveryStates, NEW new \in DeliveryStates, Moved(m, old, new)
  PROVE  Mark(new, TRUE) = Mark(old, TRUE) \/ MarkStep(Mark(old, TRUE), Mark(new, TRUE), Known(m))
BY DEF Moved, Mark, MarkStep, DeliveryStates

(* The mark of a message that is in a list, in the database or nowhere.    *)
LEMMA MarkCases ==
  ASSUME TypeOK, NEW m \in Messages, Mirrored(m)
  PROVE  /\ up /\ shown[m] # 0 => /\ shown[m] \in 1..MaxLoads
                                  /\ MarkOf(m) = Mark(entry[<<m, shown[m]>>].state, TRUE)
                                  /\ entry[<<m, shown[m]>>].state \in DeliveryStates
         /\ ~up /\ Present(m) => MarkOf(m) = Mark(row[m].state, FALSE)
         /\ row[m].state \in DeliveryStates \cup {"absent"}
         /\ ~(up /\ shown[m] # 0) /\ ~Present(m) =>
              MarkOf(m) = IF loads[m] = 0 THEN "none" ELSE "gone"
         /\ MarkOf(m) \in {"none", "open", "sent", "heard", "failed", "unknown", "gone"}
<1>1. shown[m] # 0 => shown[m] \in 1..MaxLoads
  <2>1. shown[m] \in 0..MaxLoads
    BY DEF TypeOK
  <2> QED
    BY <2>1, DeliveryAssumption
<1>2. shown[m] # 0 => entry[<<m, shown[m]>>].state \in DeliveryStates
  <2>1. ASSUME NEW k \in 1..MaxLoads PROVE entry[<<m, k>>].state \in DeliveryStates
    BY SlotBounds DEF Entries
  <2> QED
    BY <1>1, <2>1
<1>3. row[m].state \in DeliveryStates \cup {"absent"}
  BY DEF TypeOK, Rows
<1>4. MarkOf(m) \in {"none", "open", "sent", "heard", "failed", "unknown", "gone"}
  BY DEF MarkOf, Mark
<1> QED
  BY <1>1, <1>2, <1>3, <1>4 DEF MarkOf

LEMMA RunningMarks ==
  ASSUME ReliableStore, NoRebuild, IInv, SentOnce, Accounting, Mirroring, Ordered, [Next]_vars,
         up, up', TypeOK', Mirroring', NEW m \in Messages
  PROVE  Promised(m)
<1>0. TypeOK /\ Fresh /\ Mirrored(m) /\ Mirrored(m)'
  BY DEF IInv, SentOnce, Mirroring
<1>1. shown[m] = 0 => MarkOf(m) = IF loads[m] = 0 THEN "none" ELSE "gone"
  BY <1>0, MarkCases DEF Mirrored
<1>2. shown[m] # 0 => /\ shown[m] \in 1..MaxLoads
                      /\ MarkOf(m) = Mark(entry[<<m, shown[m]>>].state, TRUE)
                      /\ entry[<<m, shown[m]>>].state \in DeliveryStates
  BY <1>0, MarkCases
<1>3. shown'[m] # 0 => MarkOf(m)' = Mark(entry'[<<m, shown'[m]>>].state, TRUE)
  BY DEF MarkOf
<1>4. shown'[m] = 0 => MarkOf(m)' = IF loads'[m] = 0 THEN "none" ELSE "gone"
  BY <1>0 DEF MarkOf, Mirrored, Present
<1>9. ASSUME NEW k \in 1..MaxLoads, shown[m] = k, shown'[m] = k,
             entry'[<<m, k>>].gen = entry[<<m, k>>].gen, UnopenedMessage(m)'
      PROVE  UnopenedMessage(m)
  <2>1. PICK o \in Objects : o = <<m, k>>
    BY SlotNames
  <2>2. entry[o].gen > 0 /\ Unopened(Current(o))' /\ k # 0
    BY <1>9, <2>1 DEF UnopenedMessage
  <2>3. Unopened(Current(o))
    BY <1>9, <2>1, <2>2, OrderedKept DEF StayOpen
  <2> QED
    BY <1>9, <2>1, <2>2, <2>3 DEF UnopenedMessage
<1>5. CASE Quiet(m)
  <2>1. shown'[m] = shown[m] /\ loads'[m] = loads[m]
        /\ (shown[m] # 0 => entry'[<<m, shown[m]>>] = entry[<<m, shown[m]>>])
    BY <1>2, <1>5 DEF Quiet, InPlace, OthersSame
  <2>2. MarkOf(m)' = MarkOf(m)
    BY <1>1, <1>2, <1>3, <1>4, <2>1
  <2>3. UnopenedMessage(m)' => UnopenedMessage(m)
    <3>1. UnopenedMessage(m)' => shown'[m] # 0
      BY DEF UnopenedMessage
    <3> QED
      BY <1>2, <1>9, <2>1, <3>1
  <2> QED
    BY <2>2, <2>3 DEF Promised
<1>6. CASE Composed(m)
  <2>1. MarkOf(m) = "none"
    BY <1>0, <1>1, <1>6, UncomposedIsAbsent DEF Composed
  <2>2. shown'[m] = 1 /\ entry'[<<m, 1>>].state = "SENDING"
    BY <1>6 DEF Composed, Sending
  <2>3. MarkOf(m)' = "open"
    BY <1>3, <2>2 DEF Mark
  <2> QED
    BY <2>1, <2>3 DEF MarkStep, Begins, Promised
<1>7. ASSUME NEW k \in 1..MaxLoads, Resent(m, k) \/ Removed(m, k)
      PROVE  Promised(m)
  <2>1. k = shown[m] /\ k # 0 /\ k \in Nat /\ can_manual_resend(<<m, k>>)
    BY <1>7, SlotNames DEF Resent, Removed
  <2>2. MarkOf(m) \in {"unknown", "failed"}
    BY <1>2, <2>1 DEF can_manual_resend, ManualResendStates, Mark
  <2>3. CASE Resent(m, k)
    <3>1. shown'[m] = k /\ entry'[<<m, k>>].state = "SENDING"
      BY <2>1, <2>3 DEF Resent, InPlace, Sending
    <3>2. MarkOf(m)' = "open"
      BY <1>3, <2>1, <3>1 DEF Mark
    <3> QED
      BY <2>2, <3>2 DEF MarkStep, Begins, Promised
  <2>4. CASE Removed(m, k)
    <3>1. shown'[m] = 0 /\ loads'[m] = loads[m]
      BY <2>4 DEF Removed
    <3>2. loads[m] # 0
      BY <1>0, <2>1, UncomposedIsAbsent
    <3>3. MarkOf(m)' = "gone"
      BY <1>4, <3>1, <3>2
    <3>4. ~UnopenedMessage(m)'
      BY <3>1 DEF UnopenedMessage
    <3> QED
      BY <2>2, <3>3, <3>4 DEF MarkStep, Promised
  <2> QED
    BY <1>7, <2>3, <2>4
<1>8. ASSUME NEW k \in 1..MaxLoads, Wrote(m, k),
             \/ Moved(m, entry[<<m, k>>].state, entry'[<<m, k>>].state)
             \/ TakenBack(<<m, k>>)
      PROVE  Promised(m)
  <2>1. k = shown[m] /\ k # 0 /\ shown'[m] = k /\ entry'[<<m, k>>] \in Entries
    BY <1>0, <1>8, SlotNames DEF Wrote, InPlace, Mirrored
  <2>2. PICK old, new : old = entry[<<m, k>>].state /\ new = entry'[<<m, k>>].state
    OBVIOUS
  <2>3. /\ old \in DeliveryStates /\ new \in DeliveryStates
        /\ MarkOf(m) = Mark(old, TRUE) /\ MarkOf(m)' = Mark(new, TRUE)
    BY <1>2, <1>3, <2>1, <2>2 DEF Entries
  <2>4. UnopenedMessage(m)' => UnopenedMessage(m)
    BY <1>8, <1>9, <2>1 DEF Wrote, SameEntry
  <2>5. CASE Moved(m, old, new)
    BY <2>3, <2>4, <2>5, MovedMarks DEF Promised
  <2>6. CASE TakenBack(<<m, k>>)
    <3>1. MarkOf(m) = "sent" /\ MarkOf(m)' = "open"
      BY <2>2, <2>3, <2>6 DEF TakenBack, Mark
    <3>2. UnopenedMessage(m)
      BY <2>1, <2>6 DEF TakenBack, UnopenedMessage
    <3>3. ~UnopenedMessage(m)'
      BY <2>1, <2>6 DEF TakenBack, UnopenedMessage
    <3> QED
      BY <2>4, <3>1, <3>2, <3>3 DEF Promised, Reopened
  <2> QED
    BY <1>8, <2>2, <2>5, <2>6
<1> QED
  BY <1>5, <1>6, <1>7, <1>8, RunningMoves

LEMMA DyingMarks ==
  ASSUME IInv, SentOnce, Accounting, Mirroring, Die, up, NEW m \in Messages, LastWords(m)
  PROVE  MarkOf(m)' = MarkOf(m) \/ MarkStep(MarkOf(m), MarkOf(m)', Known(m))
<1>0. TypeOK /\ Fresh /\ Mirrored(m) /\ Accounted(m)
  BY DEF IInv, SentOnce, Mirroring, Accounting
<1>1. ~up' /\ loads'[m] = loads[m]
  BY DEF Die
<1>2. MarkOf(m)' = IF row'[m].state # "absent" THEN Mark(row'[m].state, FALSE)
                   ELSE IF loads[m] = 0 THEN "none" ELSE "gone"
  BY <1>1 DEF MarkOf, Present
<1>3. shown[m] # 0 => /\ shown[m] \in 1..MaxLoads /\ Present(m)
                      /\ row[m].state = entry[<<m, shown[m]>>].state
                      /\ MarkOf(m) = Mark(row[m].state, TRUE)
                      /\ row[m].state \in DeliveryStates
  BY <1>0, MarkCases DEF Mirrored
<1>4. shown[m] = 0 => /\ row[m].state = "absent"
                      /\ MarkOf(m) = IF loads[m] = 0 THEN "none" ELSE "gone"
  BY <1>0, MarkCases DEF Mirrored, Present
<1>5. CASE row'[m].state = row[m].state
  <2>1. CASE shown[m] = 0
    BY <1>2, <1>4, <1>5, <2>1
  <2>2. CASE shown[m] # 0
    <3>1. MarkOf(m)' = Mark(row[m].state, FALSE) /\ MarkOf(m) = Mark(row[m].state, TRUE)
      BY <1>2, <1>3, <1>5, <2>2 DEF Present
    <3>2. CASE row[m].state = "SENDING"
      BY <3>1, <3>2 DEF Mark, MarkStep
    <3>3. CASE row[m].state # "SENDING"
      BY <1>3, <2>2, <3>1, <3>3, Marks
    <3> QED
      BY <3>2, <3>3
  <2> QED
    BY <2>1, <2>2
<1>6. CASE Begun(m)
  <2>1. row'[m].state = "SENDING" /\ MarkOf(m) = "none"
    BY <1>0, <1>4, <1>6, UncomposedIsAbsent DEF Begun
  <2>2. MarkOf(m)' = "unknown"
    BY <1>2, <2>1 DEF Mark
  <2> QED
    BY <2>1, <2>2 DEF MarkStep
<1>7. CASE Closed(m)
  <2>1. PICK e \in Entries : /\ shown[m] \in 1..MaxLoads
                             /\ entry[<<m, shown[m]>>].state = "SENDING"
                             /\ SameEntry(e, entry[<<m, shown[m]>>])
                             /\ e.state = "INTERRUPTED" /\ Written(m, e)
    BY <1>7 DEF Closed
  <2>2. row'[m].state = "INTERRUPTED"
    BY <1>0, <2>1, MirroredWrite
  <2>3. shown[m] # 0
    BY <2>1, SlotNames
  <2>4. MarkOf(m) = "open" /\ MarkOf(m)' = "unknown"
    BY <1>2, <1>3, <2>1, <2>2, <2>3 DEF Mark
  <2> QED
    BY <2>4 DEF MarkStep
<1> QED
  BY <1>5, <1>6, <1>7 DEF LastWords, SameRow, Extended

LEMMA StartMarks ==
  ASSUME IInv, Mirroring, Start, NEW m \in Messages
  PROVE  MarkOf(m)' = MarkOf(m)
<1>0. TypeOK /\ Mirrored(m) /\ ~up /\ up'
  BY DEF IInv, Mirroring, Start
<1>1. /\ row'[m].state = IF row[m].state = "SENDING" THEN "INTERRUPTED" ELSE row[m].state
  BY StartMessage DEF Settled
<1>2. CASE Present(m)
  <2>1. PICK l : l = loads[m] + 1 /\ l # 0
    <3>1. loads[m] \in Nat
      BY <1>0, SlotBounds
    <3>2. loads[m] + 1 # 0
      BY <3>1
    <3> QED
      BY <3>2, Zenon
  <2>2. shown'[m] = l /\ entry'[<<m, l>>] = stored_chat_entry(row'[m])
    BY <1>2, <2>1, StartMessage
  <2>3. entry'[<<m, l>>].state = row'[m].state
    BY <1>1, <2>2, LoadedFields
  <2>4. MarkOf(m)' = Mark(row'[m].state, TRUE) /\ MarkOf(m) = Mark(row[m].state, FALSE)
    BY <1>0, <1>2, <2>1, <2>2, <2>3 DEF MarkOf
  <2>5. row[m].state \in DeliveryStates
    BY <1>0, <1>2, MarkCases DEF Present
  <2> QED
    BY <1>1, <2>4, <2>5 DEF Mark, DeliveryStates
<1>3. CASE ~Present(m)
  <2>1. shown'[m] = 0 /\ loads'[m] = loads[m] /\ row'[m].state = "absent"
    BY <1>1, <1>3, StartMessage DEF Present
  <2> QED
    BY <1>0, <1>3, <2>1 DEF MarkOf, Present
<1> QED
  BY <1>2, <1>3

(* An entry read back from the store waits for nothing.                    *)
LEMMA StartUnopened ==
  ASSUME IInv, Start, NEW m \in Messages
  PROVE  ~UnopenedMessage(m)'
<1>1. CASE Present(m)
  <2>1. shown'[m] = loads[m] + 1 /\ entry'[<<m, loads[m] + 1>>] = stored_chat_entry(row'[m])
    BY <1>1, StartMessage
  <2>2. entry'[<<m, shown'[m]>>].gen = 0
    BY <2>1, LoadedFields
  <2> QED
    BY <2>2 DEF UnopenedMessage
<1>2. CASE ~Present(m)
  BY <1>2, StartMessage DEF UnopenedMessage
<1> QED
  BY <1>1, <1>2

LEMMA NothingForgotten ==
  ASSUME TypeOK, [Next]_vars
  PROVE  Grows
<1>1. CASE evidence' = evidence
  BY <1>1 DEF Grows
<1>2. ASSUME NEW s \in Sends, NEW x, evidence' = [evidence EXCEPT ![s] = @ \cup {x}]
      PROVE  Grows
  BY <1>2 DEF Grows, TypeOK
<1>3. ASSUME NEW s \in Sends, WorkerStep(s) PROVE Grows
  <2>1. \/ evidence' = evidence
        \/ evidence' = [evidence EXCEPT ![s] = @ \cup {"refused"}]
    BY <1>3 DEF WorkerStep, SubmitToSdk, RefuseSend, RegisterPendingSend, PostSubmitted
  <2> QED
    BY <1>1, <1>2, <2>1
<1>4. ASSUME NEW s \in Sends, NEW kind \in Responses, RoutingResponse(s, kind) PROVE Grows
  BY <1>2, <1>4 DEF RoutingResponse
<1>5. ASSUME \/ UserStep \/ UiStep \/ AdvanceDeliveryStates \/ OnRoutingResponse
             \/ ViewStep \/ ProcessStep \/ UNCHANGED vars
      PROVE  evidence' = evidence
  BY <1>5 DEF UserStep, Compose, Rebroadcast, DeleteEntry, UiStep, SendWasSubmitted, SendFailed,
              DeliveryStatusReceived, IgnoreEvent, AdvanceDeliveryStates, OnRoutingResponse,
              ViewStep, LoseLink, Reconnect, TrimFromWindow, LoadOlder, ProcessStep, Crash,
              CrashInConfirmation, Shutdown, Start, CrashInCompose, CrashInRebroadcast, Die,
              radio, vars
<1> QED
  BY <1>1, <1>3, <1>4, <1>5 DEF Next

LEMMA KnownGrows ==
  ASSUME TypeOK, TypeOK', Grows, NEW m \in Messages
  PROVE  /\ Known(m) \subseteq Known(m)'
         /\ Known(m) \in SUBSET Outcomes /\ Known(m)' \in SUBSET Outcomes
<1>1. \A s \in SendsOf(m) : /\ s \in Sends /\ evidence[s] \subseteq evidence'[s]
                            /\ evidence[s] \subseteq Outcomes /\ evidence'[s] \subseteq Outcomes
  BY DEF Grows, SendsOf, TypeOK
<1> QED
  BY <1>1 DEF Known

Refining == SentOnce /\ Accounting /\ Mirroring /\ Ordered

LEMMA PromiseInit ==
  ASSUME Init
  PROVE  Promise!Init
<1>1. \A m \in Messages : MarkOf(m) = "none"
  BY DEF Init, MarkOf, Present, NoRow
<1>2. \A m \in Messages : Known(m) = {}
  BY DEF Init, Known, SendsOf
<1>3. \A m \in Messages : UnopenedMessage(m) = FALSE
  BY DEF Init, UnopenedMessage
<1> QED
  BY <1>1, <1>2, <1>3 DEF Promise!Init, Known

LEMMA PromiseStep ==
  ASSUME ReliableStore, NoRebuild, IInv, Refining, IInv', Refining', [Next]_vars
  PROVE  Promise!Next
<1>0. /\ TypeOK /\ TypeOK' /\ SentOnce /\ Accounting /\ Mirroring /\ Ordered /\ Mirroring'
      /\ Grows
  BY NothingForgotten DEF IInv, Refining
<1>1. ASSUME NEW m \in Messages
      PROVE  Promised(m)
  <2>1. CASE up /\ up'
    BY <1>0, <2>1, RunningMarks
  <2>2. CASE up /\ ~up'
    <3>1. ~UnopenedMessage(m)'
      BY <2>2 DEF UnopenedMessage
    <3> QED
      BY <1>0, <2>2, <3>1, DyingStep, DyingMarks DEF Promised
  <2>3. CASE ~up
    <3>1. CASE UNCHANGED vars
      <4>1. MarkOf(m)' = MarkOf(m)
        BY <3>1 DEF vars, MarkOf, Present
      <4>2. ~UnopenedMessage(m)'
        BY <2>3, <3>1 DEF vars, UnopenedMessage
      <4> QED
        BY <4>1, <4>2 DEF Promised
    <3>2. CASE Start
      <4>1. ~UnopenedMessage(m)'
        BY <3>2, StartUnopened
      <4> QED
        BY <1>0, <3>2, <4>1, StartMarks DEF Promised
    <3> QED
      BY <2>3, <3>1, <3>2, DeadStep
  <2> QED
    BY <2>1, <2>2, <2>3
<1>2. ASSUME NEW m \in Messages
      PROVE  /\ MarkOf(m)' \in {"none", "open", "sent", "heard", "failed", "unknown", "gone"}
             /\ Known(m) \subseteq Known(m)' /\ Known(m)' \in SUBSET Outcomes
  BY <1>0, KnownGrows DEF MarkOf, Mark
<1>3. PICK st, st1, kn, kn1, fr, fr1 :
        /\ st = [m \in Messages |-> MarkOf(m)] /\ st1 = [m \in Messages |-> MarkOf(m)']
        /\ kn = [m \in Messages |-> Known(m)] /\ kn1 = [m \in Messages |-> Known(m)']
        /\ fr = [m \in Messages |-> UnopenedMessage(m)]
        /\ fr1 = [m \in Messages |-> UnopenedMessage(m)']
  OBVIOUS
<1>4. /\ st1 \in [Messages -> {"none", "open", "sent", "heard", "failed", "unknown", "gone"}]
      /\ kn1 \in [Messages -> SUBSET Outcomes]
      /\ \A m \in Messages : /\ kn[m] \subseteq kn1[m]
                             /\ \/ st1[m] = st[m] \/ MarkStep(st[m], st1[m], kn[m])
                                \/ fr[m] /\ st[m] = "sent" /\ st1[m] = "open" /\ ~fr1[m]
                             /\ fr1[m] => fr[m] \/ Begins(st[m], st1[m])
  BY <1>1, <1>2, <1>3 DEF Promised, Reopened
<1>5. fr1 \in [Messages -> BOOLEAN]
  <2>1. \A m \in Messages : UnopenedMessage(m)' \in BOOLEAN
    BY DEF UnopenedMessage
  <2> QED
    BY <1>3, <2>1
<1>6. /\ st = [m \in Messages |-> MarkOf(m)]
      /\ st1 = [m \in Messages |-> MarkOf(m)]'
      /\ kn = [m \in Messages |-> UNION {evidence[s] : s \in SendsOf(m)}]
      /\ kn1 = [m \in Messages |-> UNION {evidence[s] : s \in SendsOf(m)}]'
      /\ fr = [m \in Messages |-> UnopenedMessage(m)]
      /\ fr1 = [m \in Messages |-> UnopenedMessage(m)]'
  BY <1>3 DEF Known
<1> QED
  BY <1>4, <1>5, <1>6 DEF Promise!Next, Promise!Statuses, Promise!Step, Promise!Compose,
     Promise!Confirm, Promise!Reopen, Promise!GiveUp, Promise!Resend, Promise!Delete,
     MarkStep, Begins

(* While the store works and the view is not rebuilt under a send, every   *)
(* step of the threads, the two callback paths (in any order with the      *)
(* worker's own event), the queues, the rows and the process is a step of  *)
(* DeliveryPromise or invisible to it.                                     *)
THEOREM PromiseIsKept ==
  ASSUME ReliableStore, NoRebuild
  PROVE  Spec => KeepsPromise
<1>1. Init => Refining /\ Promise!Init
  BY InitSentOnce, InitAccounting, InitMirroring, InitOrdered, PromiseInit DEF Refining
<1>2. IInv /\ Refining /\ [Next]_vars => Refining'
  BY SentOnceKept, AccountingKept, MirroringKept, OrderedKept DEF Refining
<1>3. IInv /\ Refining /\ IInv' /\ Refining' /\ [Next]_vars =>
        [Promise!Next]_<<[m \in Messages |-> MarkOf(m)],
                         [m \in Messages |-> UNION {evidence[s] : s \in SendsOf(m)}],
                         [m \in Messages |-> UnopenedMessage(m)]>>
  BY PromiseStep
<1> QED
  BY <1>1, <1>2, <1>3, Inductive, PTL DEF Spec, KeepsPromise, Promise!Spec
=============================================================================

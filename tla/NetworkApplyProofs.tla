------------------------- MODULE NetworkApplyProofs -------------------------
(***************************************************************************)
(* Theorems about NetworkApply, for any presets and any number of applies  *)
(* and connections: types, that one apply is outstanding with its timer    *)
(* running, that only a real disconnect is waited out, and that APPLIED is *)
(* said only of what the radio has reported since.                         *)
(***************************************************************************)
EXTENDS NetworkApply, TLAPS

(* What the monitor is about to do tells what the UI and the service have. *)
Link ==
  /\ online <=> monitor \in {"watching", "down"}
  /\ iface = 0 <=> monitor \in {"down", "connect"}
  /\ local \in IF iface = 0 THEN {NoCopy} ELSE Configs
  /\ alive => iface # 0

(* Tokens are given out in order; one that is writing holds an interface.  *)
Tokened ==
  /\ \A t \in Tokens : t > begun => Pc(t) = "none" /\ outcome[t] = "none"
  /\ \A t \in Tokens : Pc(t) \in Fields \cup {"commit"} => workers[t].iface # 0
  /\ \A i \in DOMAIN uiq : uiq[i].token <= begun

(* An outstanding apply has its timer, and waits or is ONLINE.             *)
TimerRuns == armed = {apply} \ {0}

Outstanding ==
  /\ OneOutstanding /\ TimerRuns
  /\ awaiting => apply # 0
  /\ apply # 0 /\ ~awaiting => online

(* The link is down, and the UI is about to be told, if a write of the     *)
(* outstanding apply has been or will be refused.                          *)
Down == lost \/ monitor = "down"

Waits ==
  /\ WaitsForReconnect
  /\ apply # 0 /\ ~awaiting =>
       /\ workers[apply].iface \in {0, iface} \/ Down
       /\ \A i \in DOMAIN uiq :
            uiq[i].token = apply /\ uiq[i].result = "disconnected" => Down

(* What the outstanding apply takes for granted was reported since, or was *)
(* written by a worker that outlived its apply.                            *)
Told == since \cup late

Wanted(f) == <<f, workers[apply].name>>

Backed ==
  apply # 0 =>
    /\ Pc(apply) = "reread" /\ iface # 0 =>
         \A f \in workers[apply].got : local[f] = workers[apply].name
                                       => Wanted(f) \in Told
    /\ monitor = "online" =>
         \A f \in Fields : local[f] = workers[apply].name => Wanted(f) \in Told
    /\ \A i \in DOMAIN uiq :
         ~awaiting /\ uiq[i].token = apply /\ uiq[i].result = "verified"
         => \A f \in Fields : Wanted(f) \in Told

IInv == TypeOK /\ Link /\ Tokened /\ Outstanding /\ Waits

-----------------------------------------------------------------------------
(* Queues and records.                                                     *)

LEMMA QueueAppend ==
  ASSUME NEW S, NEW q \in Seq(S), NEW e \in S
  PROVE  /\ Append(q, e) \in Seq(S)
         /\ \A i \in DOMAIN Append(q, e) :
              (i \in DOMAIN q /\ Append(q, e)[i] = q[i]) \/ Append(q, e)[i] = e
OBVIOUS

LEMMA QueueTail ==
  ASSUME NEW S, NEW q \in Seq(S), q # <<>>
  PROVE  /\ Head(q) \in S /\ 1 \in DOMAIN q /\ Head(q) = q[1]
         /\ Tail(q) \in Seq(S)
         /\ \A i \in DOMAIN Tail(q) : i + 1 \in DOMAIN q /\ Tail(q)[i] = q[i + 1]
OBVIOUS

(* Steps of a worker leave it well typed.                                  *)
LEMMA GotoTyped ==
  ASSUME TypeOK, NEW t \in Tokens, NEW pc \in {"lora", "key", "commit", "check"},
         Goto(t, pc)
  PROVE  /\ workers' \in [Tokens -> WorkerStates]
         /\ workers' = [workers EXCEPT ![t] = workers'[t]]
         /\ workers'[t] = [workers[t] EXCEPT !.pc = pc]
<1>1. workers \in [Tokens -> WorkerStates] /\ workers[t] \in WorkerStates
  BY DEF TypeOK
<1>2. [workers[t] EXCEPT !.pc = pc] \in WorkerStates
  BY <1>1 DEF WorkerStates
<1> QED
  BY <1>1, <1>2 DEF Goto

LEMMA PostTyped ==
  ASSUME TypeOK, NEW t \in Tokens,
         NEW result \in {"verified", "unverified", "disconnected", "failed"},
         Post(t, result)
  PROVE  /\ workers' \in [Tokens -> WorkerStates]
         /\ workers' = [workers EXCEPT ![t] = workers'[t]]
         /\ workers'[t] = Worker("done", workers[t].name, workers[t].saved)
         /\ uiq' \in Seq(Messages)
         /\ \A i \in DOMAIN uiq' : \/ i \in DOMAIN uiq /\ uiq'[i] = uiq[i]
                                   \/ uiq'[i] = [token |-> t, result |-> result]
<1>1. workers \in [Tokens -> WorkerStates] /\ workers[t] \in WorkerStates
  BY DEF TypeOK
<1>2. Worker("done", workers[t].name, workers[t].saved) \in WorkerStates
  BY <1>1, NetworkAssumption DEF WorkerStates, Worker
<1>3. /\ workers' \in [Tokens -> WorkerStates]
      /\ workers' = [workers EXCEPT ![t] = workers'[t]]
      /\ workers'[t] = Worker("done", workers[t].name, workers[t].saved)
  BY <1>1, <1>2 DEF Post
<1>4. [token |-> t, result |-> result] \in Messages /\ uiq \in Seq(Messages)
  BY DEF Messages, TypeOK
<1>5. /\ uiq' \in Seq(Messages)
      /\ \A i \in DOMAIN uiq' : \/ i \in DOMAIN uiq /\ uiq'[i] = uiq[i]
                                \/ uiq'[i] = [token |-> t, result |-> result]
  <2> DEFINE e == [token |-> t, result |-> result]
  <2>1. e \in Messages /\ uiq' = Append(uiq, e)
    BY <1>4 DEF Post
  <2> HIDE DEF e
  <2>2. /\ Append(uiq, e) \in Seq(Messages)
        /\ \A i \in DOMAIN Append(uiq, e) :
             (i \in DOMAIN uiq /\ Append(uiq, e)[i] = uiq[i]) \/ Append(uiq, e)[i] = e
    BY <1>4, <2>1, QueueAppend
  <2> QED
    BY <2>1, <2>2 DEF e
<1> QED
  BY <1>3, <1>5

-----------------------------------------------------------------------------
(* Types.                                                                  *)

Inv0 == TypeOK /\ Link /\ Tokened

LEMMA PresetTyped == \A n \in Networks : Preset(n) \in Configs
BY DEF Preset, Configs

LEMMA InitTyped == Init => TypeOK
<1> SUFFICES ASSUME Init PROVE TypeOK
  OBVIOUS
<1>1. config \in Configs /\ local \in Configs
  BY PresetTyped, NetworkAssumption DEF Init
<1>2. shown \subseteq Fields \X Networks /\ late = {}
  BY <1>1 DEF Init, Pairs, Configs
<1>3. Worker("none", LongFast, FALSE) \in WorkerStates
  BY NetworkAssumption DEF Worker, WorkerStates
<1>4. workers \in [Tokens -> WorkerStates]
  BY <1>3 DEF Init
<1>5. /\ connects \in 1..MaxConnects /\ iface \in {0, connects}
      /\ begun \in 0..MaxApplies /\ apply \in {0, begun}
  BY NetworkAssumption DEF Init
<1>6. /\ edits \in Seq(Fields \X Networks) /\ uiq \in Seq(Messages)
      /\ outcome \in [Tokens -> {"none", "pending", "success", "failure"}]
  BY DEF Init
<1> QED
  BY <1>1, <1>2, <1>4, <1>5, <1>6, NetworkAssumption DEF Init, TypeOK

LEMMA BeginTyped ==
  ASSUME TypeOK, NEW n \in Networks, NEW saved \in BOOLEAN, Begin(n, saved)
  PROVE  /\ begun + 1 \in Tokens /\ begun' = begun + 1 /\ apply' = begun'
         /\ begun' \in 0..MaxApplies
         /\ awaiting' = FALSE /\ armed' = {apply'} /\ since' = {}
         /\ apply' # 0 /\ armed' \subseteq {apply'} \ {0}
         /\ workers' \in [Tokens -> WorkerStates]
         /\ workers' = [workers EXCEPT ![begun'] = Worker("start", n, saved)]
         /\ outcome' \in [Tokens -> {"none", "pending", "success", "failure"}]
         /\ outcome' = [outcome EXCEPT ![begun'] = "pending"]
<1>1. begun \in 0..MaxApplies /\ workers \in [Tokens -> WorkerStates]
  BY DEF TypeOK
<1>2. Worker("start", n, saved) \in WorkerStates
  BY NetworkAssumption DEF Worker, WorkerStates
<1>3. begun + 1 \in Tokens /\ begun' = begun + 1 /\ begun' \in 0..MaxApplies
  BY <1>1, NetworkAssumption DEF Begin, Tokens
<1>4. begun + 1 # 0
  BY <1>1
<1> QED
  BY <1>1, <1>2, <1>3, <1>4 DEF Begin, timer, TypeOK

LEMMA FinishTyped ==
  ASSUME TypeOK, apply # 0, NEW success \in BOOLEAN, Finish(success)
  PROVE  /\ apply \in Tokens /\ apply' = 0 /\ awaiting' = FALSE /\ armed' = {}
         /\ since' = {}
         /\ outcome' \in [Tokens -> {"none", "pending", "success", "failure"}]
         /\ outcome' = [outcome EXCEPT ![apply] = IF success THEN "success"
                                                  ELSE "failure"]
<1>1. apply \in Tokens
  BY NetworkAssumption DEF TypeOK, Tokens
<1> QED
  BY <1>1 DEF TypeOK, Finish, disarmed

LEMMA TypeKept ==
  ASSUME Inv0, [Next]_vars
  PROVE  TypeOK'
<1> TypeOK /\ Link /\ Tokened
  BY DEF Inv0
<1> USE DEF radio, service, app, ui, known, outstanding
<1>1. ASSUME NEW n \in Networks, SelectNetwork(n) PROVE TypeOK'
  <2>1. Begin(n, FALSE)
    BY <1>1 DEF SelectNetwork
  <2> QED
    BY <1>1, <2>1, BeginTyped DEF SelectNetwork, TypeOK
<1>2. ASSUME NEW n \in Networks, SaveNetwork(n) PROVE TypeOK'
  <2>1. CASE online
    <3>1. Begin(n, TRUE)
      BY <1>2, <2>1 DEF SaveNetwork
    <3> QED
      BY <1>2, <3>1, BeginTyped DEF SaveNetwork, TypeOK
  <2>2. CASE ~online
    BY <1>2, <2>2 DEF SaveNetwork, TypeOK
  <2> QED
    BY <2>1, <2>2
<1>3. ASSUME NEW t \in Tokens, StartWriting(t) PROVE TypeOK'
  <2>1. CASE iface = 0
    <3>1. Post(t, "failed")
      BY <1>3, <2>1 DEF StartWriting
    <3> QED
      BY <1>3, <3>1, PostTyped DEF StartWriting, TypeOK
  <2>2. CASE iface # 0
    <3>1. workers[t] \in WorkerStates /\ iface \in 0..MaxConnects
      BY NetworkAssumption DEF TypeOK
    <3>2. [workers[t] EXCEPT !.pc = "lora", !.iface = iface] \in WorkerStates
      BY <3>1 DEF WorkerStates
    <3>3. workers' = [workers EXCEPT ![t] = [workers[t] EXCEPT !.pc = "lora",
                                                               !.iface = iface]]
      BY <1>3, <2>2 DEF StartWriting, TypeOK
    <3> QED
      BY <1>3, <2>2, <3>2, <3>3 DEF StartWriting, TypeOK
  <2> QED
    BY <2>1, <2>2
<1>4. ASSUME NEW t \in Tokens, NEW f \in Fields, NEW next \in {"key", "commit"},
             Write(t, f, next)
      PROVE  TypeOK'
  <2>1. workers[t].name \in Networks /\ f \in Fields
    BY DEF TypeOK, WorkerStates
  <2>2. CASE Disconnected(t) /\ Post(t, "disconnected") /\ UNCHANGED <<edits, local, late>>
    BY <1>4, <2>2, PostTyped DEF Write, TypeOK
  <2>3. CASE ~Disconnected(t) /\ Stage(t, f)
             /\ (\/ Post(t, "failed") /\ UNCHANGED edits
                 \/ /\ Goto(t, next) /\ UNCHANGED uiq
                    /\ edits' = IF alive THEN Append(edits, <<f, workers[t].name>>)
                                ELSE edits)
    <3>1. Pc(t) = f /\ iface = workers[t].iface /\ workers[t].iface # 0
      BY <1>4, <2>3 DEF Write, Disconnected, Tokened
    <3>2. /\ local \in Configs /\ local' \in Configs
          /\ late' \subseteq Fields \X Networks
      BY <2>1, <2>3, <3>1 DEF Link, Stage, staged, Configs, TypeOK
    <3>3. edits' \in Seq(Fields \X Networks)
      <4>1. edits \in Seq(Fields \X Networks) /\ <<f, workers[t].name>> \in Fields \X Networks
        BY <2>1 DEF TypeOK
      <4>2. Append(edits, <<f, workers[t].name>>) \in Seq(Fields \X Networks)
        BY <4>1, QueueAppend
      <4> QED
        BY <2>3, <4>1, <4>2
    <3>4. CASE Post(t, "failed")
      BY <1>4, <3>2, <3>3, <3>4, PostTyped DEF Write, TypeOK
    <3>5. CASE Goto(t, next) /\ UNCHANGED uiq
      BY ZenonT(40), <1>4, <3>2, <3>3, <3>5, GotoTyped DEF Write, TypeOK
    <3> QED
      BY <2>3, <3>4, <3>5
  <2> QED
    BY <1>4, <2>2, <2>3 DEF Write
<1>5. ASSUME NEW t \in Tokens, Commit(t) PROVE TypeOK'
  <2>1. CASE Disconnected(t)
    BY <1>5, <2>1, PostTyped DEF Commit, TypeOK
  <2>2. CASE ~Disconnected(t)
    BY ZenonT(40), <1>5, <2>2, GotoTyped DEF Commit, TypeOK
  <2> QED
    BY <2>1, <2>2
<1>6. ASSUME NEW t \in Tokens, RequestReadback(t) PROVE TypeOK'
  <2>1. CASE cancelled(t)
    BY <1>6, <2>1, PostTyped DEF RequestReadback, TypeOK
  <2>2. CASE ~cancelled(t)
    <3>1. workers[t] \in WorkerStates
      BY DEF TypeOK
    <3>2. [workers[t] EXCEPT !.pc = "reread", !.got = {}] \in WorkerStates
      BY <3>1 DEF WorkerStates
    <3>3. workers' = [workers EXCEPT ![t] = [workers[t] EXCEPT !.pc = "reread",
                                                               !.got = {}]]
      BY <1>6, <2>2 DEF RequestReadback, TypeOK
    <3>4. reads' \subseteq Tokens \X Fields
      BY <1>6, <2>2 DEF RequestReadback, TypeOK
    <3> QED
      BY <1>6, <2>2, <3>2, <3>3, <3>4 DEF RequestReadback, TypeOK
  <2> QED
    BY <2>1, <2>2
<1>7. ASSUME NEW t \in Tokens, FinishReadback(t) PROVE TypeOK'
  <2>1. reads' \subseteq Tokens \X Fields
    BY <1>7 DEF FinishReadback, TypeOK
  <2>2. CASE Goto(t, "check") /\ UNCHANGED uiq
    BY ZenonT(40), <1>7, <2>1, <2>2, GotoTyped DEF FinishReadback, TypeOK
  <2>3. CASE Post(t, "verified") \/ Post(t, "unverified")
    BY <1>7, <2>1, <2>3, PostTyped DEF FinishReadback, TypeOK
  <2> QED
    BY <1>7, <2>2, <2>3 DEF FinishReadback
<1>8. ASSUME NEW t \in Tokens, TimeOut(t) PROVE TypeOK'
  <2>1. CASE current(t)
    <3>1. apply # 0 /\ Finish(FALSE)
      BY <1>8, <2>1 DEF TimeOut, current
    <3> QED
      BY <1>8, <3>1, FinishTyped DEF TimeOut, TypeOK
  <2>2. CASE ~current(t)
    BY ZenonT(40), <1>8, <2>2 DEF TimeOut, TypeOK
  <2> QED
    BY <2>1, <2>2
<1>9. ASSUME NEW t \in Tokens, NEW f \in Fields, Answer(t, f) PROVE TypeOK'
  <2>1. config \in Configs /\ config[f] \in Networks /\ local \in Configs
    BY <1>9 DEF Answer, Link, TypeOK, Configs
  <2>2. local' \in Configs /\ {<<f, config[f]>>} \subseteq Fields \X Networks
    BY <1>9, <2>1 DEF Answer, Configs
  <2>3. since' \subseteq Fields \X Networks /\ shown' \subseteq Fields \X Networks
    BY <1>9, <2>2 DEF Answer, Reported, TypeOK
  <2>4. workers[t] \in WorkerStates
    BY DEF TypeOK
  <2>5. [workers[t] EXCEPT !.got = @ \cup {f}] \in WorkerStates
    BY <2>4 DEF WorkerStates
  <2>6. workers' = [workers EXCEPT ![t] = [workers[t] EXCEPT !.got = @ \cup {f}]]
    BY <1>9 DEF Answer, TypeOK
  <2> QED
    BY <1>9, <2>1, <2>2, <2>3, <2>5, <2>6 DEF Answer, TypeOK
<1>10. CASE CarryOutEdit
  <2>1. /\ edits \in Seq(Fields \X Networks) /\ edits # <<>>
        /\ Head(edits) \in Fields \X Networks /\ Tail(edits) \in Seq(Fields \X Networks)
    BY <1>10, QueueTail DEF CarryOutEdit, TypeOK
  <2>2. config' \in Configs
    BY <1>10, <2>1 DEF CarryOutEdit, TypeOK, Configs
  <2> QED
    BY <1>10, <2>1, <2>2 DEF CarryOutEdit, TypeOK
<1>11. CASE LoseLink
  <2>1. edits' \in Seq(Fields \X Networks) /\ reads' \subseteq Tokens \X Fields
    BY <1>11 DEF LoseLink
  <2> QED
    BY <1>11, <2>1 DEF LoseLink, TypeOK
<1>12. CASE NoticeLoss
  BY <1>12 DEF NoticeLoss, TypeOK
<1>13. CASE CloseLink
  BY <1>13 DEF CloseLink, TypeOK
<1>14. CASE ShowDown
  BY <1>14 DEF ShowDown, TypeOK, awaits_from_now
<1>15. CASE ShowOnline
  <2>1. selected' \in Networks /\ unmatched' \in BOOLEAN
    <3>1. CASE apply = 0 \/ awaiting
      <4>1. Detect
        BY <1>15, <3>1 DEF ShowOnline
      <4>2. Matches # {} => (CHOOSE n \in Matches : TRUE) \in Networks
        BY DEF Matches
      <4> QED
        BY <4>1, <4>2 DEF Detect, TypeOK
    <3> QED
      BY <1>15, <3>1 DEF ShowOnline, TypeOK
  <2>2. CASE apply # 0 /\ awaiting
    <3>1. Finish(verify(workers[apply].name)) /\ verify(workers[apply].name) \in BOOLEAN
      BY <1>15, <2>2 DEF ShowOnline, verify
    <3>2. PICK success \in BOOLEAN : Finish(success)
      BY <3>1
    <3> QED
      BY <1>15, <2>1, <2>2, <3>2, FinishTyped DEF ShowOnline, TypeOK
  <2>3. CASE ~(apply # 0 /\ awaiting)
    BY <1>15, <2>1, <2>3 DEF ShowOnline, TypeOK
  <2> QED
    BY <2>2, <2>3
<1>16. ASSUME NEW c \in Configs, Reconnect(c) PROVE TypeOK'
  <2>1. Pairs(c) \subseteq Fields \X Networks
    BY DEF Pairs, Configs
  <2>2. connects' \in 1..MaxConnects /\ iface' = connects'
    BY <1>16, NetworkAssumption DEF Reconnect, TypeOK
  <2>3. since' \subseteq Fields \X Networks
    BY <1>16, <2>1 DEF Reconnect, Reported, TypeOK
  <2> QED
    BY <1>16, <2>1, <2>2, <2>3 DEF Reconnect, TypeOK
<1>17. CASE HandleApplied
  <2>1. uiq' \in Seq(Messages)
    BY <1>17, QueueTail DEF HandleApplied, TypeOK
  <2>2. CASE ~current(Head(uiq).token) \/ awaiting
    BY <1>17, <2>1, <2>2 DEF HandleApplied, TypeOK
  <2>3. CASE ~(~current(Head(uiq).token) \/ awaiting)
             /\ (~online \/ reboots(Head(uiq).result))
    BY <1>17, <2>1, <2>3 DEF HandleApplied, TypeOK
  <2>4. CASE ~(~current(Head(uiq).token) \/ awaiting)
             /\ ~(~online \/ reboots(Head(uiq).result))
    <3>1. apply # 0
      BY <2>4 DEF current
    <3>2. PICK success \in BOOLEAN : Finish(success) /\ SelectIf(success)
      BY <1>17, <2>4 DEF HandleApplied
    <3>3. workers[apply].name \in Networks
      BY <3>1, <3>2, FinishTyped DEF TypeOK, WorkerStates
    <3>4. selected' \in Networks /\ unmatched' \in BOOLEAN
      BY <3>2, <3>3 DEF SelectIf, TypeOK
    <3> QED
      BY <1>17, <2>1, <3>1, <3>2, <3>4, FinishTyped DEF HandleApplied, TypeOK
  <2> QED
    BY <2>2, <2>3, <2>4
<1>18. CASE UNCHANGED vars
  BY <1>18 DEF vars, TypeOK
<1> QED
  BY <1>1, <1>2, <1>3, <1>4, <1>5, <1>6, <1>7, <1>8, <1>9, <1>10, <1>11, <1>12,
     <1>13, <1>14, <1>15, <1>16, <1>17, <1>18
     DEF Next, WorkerStep, WriteLora, WriteChannel, Fields

-----------------------------------------------------------------------------
(* The link and the tokens.                                                *)

(* Only a worker with an interface writes, and only to a copy there is.    *)
LEMMA WriteTargets ==
  ASSUME Inv0, NEW t \in Tokens, NEW f \in Fields, NEW next \in {"key", "commit"},
         Write(t, f, next)
  PROVE  \/ UNCHANGED local
         \/ iface # 0 /\ local' \in Configs /\ local' = staged(f, workers[t].name)
<1>1. workers[t].name \in Networks
  BY DEF Inv0, TypeOK, WorkerStates
<1>2. CASE ~UNCHANGED local
  <2>1. Pc(t) = f /\ iface = workers[t].iface /\ local' = staged(f, workers[t].name)
    BY <1>2 DEF Write, Stage, Disconnected
  <2>2. iface # 0
    BY <2>1 DEF Inv0, Tokened
  <2> QED
    BY <1>1, <2>1, <2>2 DEF Inv0, Link, staged, Configs
<1> QED
  BY <1>2

LEMMA LinkKept ==
  ASSUME Inv0, [Next]_vars
  PROVE  Link'
<1> TypeOK /\ Link /\ Tokened
  BY DEF Inv0
<1> USE DEF radio, service, app, ui, known, outstanding
<1>1. CASE UNCHANGED <<online, monitor, iface, local, alive>>
  BY <1>1 DEF Link
<1>2. ASSUME NEW t \in Tokens, NEW f \in Fields, NEW next \in {"key", "commit"},
             Write(t, f, next)
      PROVE  Link'
  <2>1. local' \in IF iface = 0 THEN {NoCopy} ELSE Configs
    BY <1>2, WriteTargets DEF Link
  <2> QED
    BY <1>2, <2>1 DEF Write, Link
<1>3. ASSUME NEW t \in Tokens, NEW f \in Fields, Answer(t, f) PROVE Link'
  <2>1. iface # 0 /\ local \in Configs /\ config[f] \in Networks
    BY <1>3 DEF Answer, Link, TypeOK, Configs
  <2>2. local' \in Configs
    BY <1>3, <2>1 DEF Answer, Configs
  <2> QED
    BY <1>3, <2>1, <2>2 DEF Answer, Link
<1>4. CASE LoseLink
  BY <1>4 DEF LoseLink, Link
<1>5. CASE CloseLink
  BY <1>5 DEF CloseLink, Link, TypeOK
<1>6. CASE ShowDown
  BY <1>6 DEF ShowDown, Link, TypeOK
<1>7. CASE ShowOnline
  BY <1>7 DEF ShowOnline, Link, TypeOK
<1>8. ASSUME NEW c \in Configs, Reconnect(c) PROVE Link'
  <2>1. iface' # 0 /\ local' \in Configs
    BY <1>8 DEF Reconnect, TypeOK
  <2> QED
    BY <1>8, <2>1 DEF Reconnect, Link
<1> QED
  BY <1>1, <1>2, <1>3, <1>4, <1>5, <1>6, <1>7, <1>8
     DEF Next, WorkerStep, WriteLora, WriteChannel, Fields, vars, SelectNetwork,
         SaveNetwork, StartWriting, Commit, RequestReadback, FinishReadback, TimeOut,
         CarryOutEdit, NoticeLoss, HandleApplied

(* What a step does to the worker of a token that keeps its apply.         *)
LEMMA TokenedKept ==
  ASSUME Inv0, [Next]_vars, TypeOK'
  PROVE  Tokened'
<1> TypeOK /\ Link /\ Tokened
  BY DEF Inv0
<1> USE DEF radio, service, app, ui, known, outstanding
<1>1. begun \in Nat /\ workers \in [Tokens -> WorkerStates]
      /\ outcome \in [Tokens -> {"none", "pending", "success", "failure"}]
      /\ uiq \in Seq(Messages) /\ Tokens \subseteq Nat
  BY NetworkAssumption DEF TypeOK, Tokens
<1>2. CASE UNCHANGED <<begun, workers, outcome, uiq>>
  BY <1>2 DEF Tokened, Pc
<1>3. ASSUME NEW n \in Networks, NEW saved \in BOOLEAN, Begin(n, saved), UNCHANGED uiq
      PROVE  Tokened'
  <2>0. /\ begun + 1 \in Tokens /\ begun' = begun + 1
        /\ workers' = [workers EXCEPT ![begun'] = Worker("start", n, saved)]
        /\ outcome' = [outcome EXCEPT ![begun'] = "pending"]
    BY <1>3, BeginTyped, Zenon
  <2>1. \A i \in DOMAIN uiq' : uiq'[i].token <= begun'
    <3>1. \A i \in DOMAIN uiq : uiq[i] \in Messages
      BY <1>1
    <3>2. \A i \in DOMAIN uiq : uiq[i].token \in Nat
      BY <1>1, <3>1 DEF Messages
    <3> QED
      BY <1>1, <1>3, <2>0, <3>2 DEF Tokened
  <2>2. ASSUME NEW t \in Tokens
        PROVE  /\ t > begun' => Pc(t)' = "none" /\ outcome'[t] = "none"
               /\ Pc(t)' \in Fields \cup {"commit"} => workers'[t].iface # 0
    <3>1. CASE t = begun'
      <4>1. workers'[t] = Worker("start", n, saved)
        BY <1>1, <2>0, <3>1
      <4>2. workers'[t].pc = "start" /\ ~(t > t)
        BY <1>1, <4>1 DEF Worker
      <4> QED
        BY <3>1, <4>2 DEF Pc, Fields
    <3>2. CASE t # begun'
      <4>1. workers'[t] = workers[t] /\ outcome'[t] = outcome[t]
        BY <1>1, <2>0, <3>2
      <4>2. t > begun' => t > begun
        BY <1>1, <2>0
      <4> QED
        BY <4>1, <4>2 DEF Tokened, Pc
    <3> QED
      BY <3>1, <3>2
  <2> QED
    BY <2>1, <2>2 DEF Tokened, Pc
<1>4. ASSUME NEW t \in Tokens, NEW result, Post(t, result), Pc(t) # "none",
             result \in {"verified", "unverified", "disconnected", "failed"},
             UNCHANGED <<begun, outcome>>
      PROVE  Tokened'
  <2>1. t <= begun
    BY <1>1, <1>4 DEF Tokened
  <2>2. \A i \in DOMAIN uiq' : uiq'[i].token <= begun
    BY <1>4, <2>1, PostTyped DEF Tokened
  <2>3. workers'[t].pc = "done" /\ \A u \in Tokens \ {t} : workers'[u] = workers[u]
    <3>1. workers'[t] = Worker("done", workers[t].name, workers[t].saved)
          /\ workers' = [workers EXCEPT ![t] = workers'[t]]
      BY <1>4, PostTyped
    <3> QED
      BY <1>1, <3>1 DEF Worker
  <2> QED
    BY <1>1, <1>4, <2>1, <2>2, <2>3 DEF Tokened, Pc, Fields
<1>5. ASSUME NEW t \in Tokens, Pc(t) # "none", UNCHANGED <<begun, outcome, uiq>>,
             workers' = [workers EXCEPT ![t] = workers'[t]],
             Pc(t)' \in Fields \cup {"commit"} => workers'[t].iface # 0
      PROVE  Tokened'
  <2>1. t <= begun
    BY <1>1, <1>5 DEF Tokened
  <2>2. \A u \in Tokens \ {t} : workers'[u] = workers[u]
    BY <1>1, <1>5
  <2> QED
    BY <1>1, <1>5, <2>1, <2>2 DEF Tokened, Pc
<1>6. ASSUME NEW t \in Tokens, StartWriting(t) PROVE Tokened'
  <2>1. CASE iface = 0
    BY <1>4, <1>6, <2>1 DEF StartWriting
  <2>2. CASE iface # 0
    <3>1. workers' = [workers EXCEPT ![t] = workers'[t]] /\ workers'[t].iface = iface
      BY <1>1, <1>6, <2>2 DEF StartWriting, WorkerStates
    <3> QED
      BY <1>5, <1>6, <2>2, <3>1 DEF StartWriting
  <2> QED
    BY <2>1, <2>2
<1>7. ASSUME NEW t \in Tokens, NEW f \in Fields, NEW next \in {"key", "commit"},
             Write(t, f, next)
      PROVE  Tokened'
  <2>1. Pc(t) = f /\ f # "none" /\ workers[t].iface # 0
    BY <1>7 DEF Write, Tokened, Fields
  <2>2. CASE Goto(t, next) /\ UNCHANGED uiq
    <3>1. workers' = [workers EXCEPT ![t] = workers'[t]]
          /\ workers'[t].iface = workers[t].iface
      <4>1. workers[t] \in WorkerStates /\ workers' = [workers EXCEPT ![t] = workers'[t]]
            /\ workers'[t] = [workers[t] EXCEPT !.pc = next]
        BY <1>1, <2>2, GotoTyped
      <4> QED
        BY <4>1 DEF WorkerStates
    <3> QED
      BY <1>5, <1>7, <2>1, <2>2, <3>1 DEF Write
  <2>3. CASE Post(t, "disconnected") \/ Post(t, "failed")
    BY <1>4, <1>7, <2>1, <2>3 DEF Write
  <2> QED
    BY <1>7, <2>2, <2>3 DEF Write
<1>8. ASSUME NEW t \in Tokens, Commit(t) PROVE Tokened'
  <2>1. CASE Disconnected(t)
    BY <1>4, <1>8, <2>1 DEF Commit
  <2>2. CASE ~Disconnected(t)
    <3>1. workers' = [workers EXCEPT ![t] = workers'[t]] /\ workers'[t].pc = "check"
      BY ZenonT(40), <1>1, <1>8, <2>2, GotoTyped DEF WorkerStates, Commit
    <3> QED
      BY <1>5, <1>8, <2>2, <3>1 DEF Commit, Pc, Fields
  <2> QED
    BY <2>1, <2>2
<1>9. ASSUME NEW t \in Tokens, RequestReadback(t) PROVE Tokened'
  <2>1. CASE cancelled(t)
    BY <1>4, <1>9, <2>1 DEF RequestReadback
  <2>2. CASE ~cancelled(t)
    <3>1. workers' = [workers EXCEPT ![t] = workers'[t]] /\ workers'[t].pc = "reread"
      BY <1>1, <1>9, <2>2 DEF RequestReadback, WorkerStates
    <3> QED
      BY <1>5, <1>9, <2>2, <3>1 DEF RequestReadback, Pc, Fields
  <2> QED
    BY <2>1, <2>2
<1>10. ASSUME NEW t \in Tokens, FinishReadback(t) PROVE Tokened'
  <2>1. CASE Goto(t, "check") /\ UNCHANGED uiq
    <3>1. workers' = [workers EXCEPT ![t] = workers'[t]] /\ workers'[t].pc = "check"
      BY <1>1, <2>1, GotoTyped DEF WorkerStates
    <3> QED
      BY <1>5, <1>10, <2>1, <3>1 DEF FinishReadback, Pc, Fields
  <2>2. CASE Post(t, "verified") \/ Post(t, "unverified")
    BY <1>4, <1>10, <2>2 DEF FinishReadback
  <2> QED
    BY <1>10, <2>1, <2>2 DEF FinishReadback
<1>11. ASSUME NEW t \in Tokens, NEW f \in Fields, Answer(t, f) PROVE Tokened'
  <2>1. \A u \in Tokens : /\ workers'[u].pc = workers[u].pc
                          /\ workers'[u].iface = workers[u].iface
    BY <1>1, <1>11 DEF Answer, WorkerStates
  <2> QED
    BY <1>11, <2>1 DEF Answer, Tokened, Pc
<1>12. ASSUME NEW success \in BOOLEAN, apply # 0, Finish(success),
              UNCHANGED <<begun, workers>>,
              \A i \in DOMAIN uiq' : uiq'[i].token <= begun
       PROVE  Tokened'
  <2>1. apply = begun /\ apply \in Tokens
    BY <1>12, FinishTyped DEF TypeOK
  <2>2. outcome' = [outcome EXCEPT ![apply] = outcome'[apply]]
    BY <1>1, <1>12, <2>1 DEF Finish
  <2> QED
    BY <1>1, <1>12, <2>1, <2>2 DEF Tokened, Pc
<1>13. ASSUME NEW t \in Tokens, TimeOut(t) PROVE Tokened'
  <2>1. CASE current(t)
    BY <1>12, <1>13, <2>1 DEF TimeOut, current, Tokened
  <2>2. CASE ~current(t)
    BY <1>13, <2>2 DEF TimeOut, Tokened, Pc
  <2> QED
    BY <2>1, <2>2
<1>14. CASE ShowOnline
  <2>1. CASE apply # 0 /\ awaiting
    <3>1. PICK success \in BOOLEAN : Finish(success)
      BY <1>14, <2>1 DEF ShowOnline, verify
    <3> QED
      BY <1>12, <1>14, <2>1, <3>1 DEF ShowOnline, Tokened
  <2>2. CASE ~(apply # 0 /\ awaiting)
    BY <1>2, <1>14, <2>2 DEF ShowOnline
  <2> QED
    BY <2>1, <2>2
<1>15. CASE HandleApplied
  <2>1. \A i \in DOMAIN uiq' : uiq'[i].token <= begun
    BY <1>1, <1>15, QueueTail DEF HandleApplied, Tokened
  <2>2. CASE UNCHANGED outcome
    BY <1>15, <2>1, <2>2 DEF HandleApplied, Tokened, Pc
  <2>3. CASE ~UNCHANGED outcome
    <3>1. apply # 0 /\ \E success \in BOOLEAN : Finish(success)
      BY <1>15, <2>3 DEF HandleApplied, current
    <3> QED
      BY <1>12, <1>15, <2>1, <3>1 DEF HandleApplied
  <2> QED
    BY <2>2, <2>3
<1>16. ASSUME NEW n \in Networks, SelectNetwork(n) \/ SaveNetwork(n) PROVE Tokened'
  <2>1. CASE UNCHANGED <<begun, workers, outcome>>
    BY <1>2, <1>16, <2>1 DEF SelectNetwork, SaveNetwork
  <2>2. CASE \E saved \in BOOLEAN : Begin(n, saved)
    BY <1>3, <1>16, <2>2 DEF SelectNetwork, SaveNetwork
  <2> QED
    BY <1>16, <2>1, <2>2 DEF SelectNetwork, SaveNetwork
<1> QED
  BY <1>2, <1>6, <1>7, <1>8, <1>9, <1>10, <1>11, <1>13, <1>14, <1>15, <1>16
     DEF Next, WorkerStep, WriteLora, WriteChannel, Fields, vars, CarryOutEdit,
         LoseLink, NoticeLoss, CloseLink, ShowDown, Reconnect

-----------------------------------------------------------------------------
(* The outstanding apply.                                                  *)

(* The four ways in which a step bears on the outstanding apply.           *)
Begins == /\ \E n \in Networks, saved \in BOOLEAN : Begin(n, saved)
          /\ Free /\ online
          /\ UNCHANGED <<service, local, online, uiq>>

Ends == /\ \E success \in BOOLEAN : Finish(success)
        /\ apply # 0
        /\ UNCHANGED <<begun, workers>>

ToldDown == /\ online' = FALSE
            /\ awaiting' = awaits_from_now
            /\ UNCHANGED <<apply, armed, outcome>>

StartsWaiting == /\ apply # 0 /\ awaiting' = TRUE
                 /\ UNCHANGED <<apply, armed, outcome, service, online>>

LEMMA OutstandingSteps ==
  ASSUME IInv, [Next]_vars
  PROVE  \/ Begins \/ Ends \/ ToldDown \/ StartsWaiting
         \/ UNCHANGED <<apply, awaiting, armed, outcome, online>>
         \/ ~awaiting /\ UNCHANGED <<apply, awaiting, armed, outcome>> /\ online'
         \/ apply = 0 /\ UNCHANGED <<apply, awaiting, armed, outcome>> /\ online'
<1> USE DEF radio, service, app, ui, known, outstanding
<1>1. ASSUME NEW n \in Networks, SelectNetwork(n)
      PROVE  Begins
  BY <1>1 DEF SelectNetwork, Begins
<1>2. ASSUME NEW n \in Networks, SaveNetwork(n)
      PROVE  Begins \/ UNCHANGED <<apply, awaiting, armed, outcome, online>>
  BY <1>2 DEF SaveNetwork, Begins
<1>3. ASSUME NEW t \in Tokens, TimeOut(t) PROVE Ends
  <2>1. current(t) /\ apply # 0
    BY <1>3 DEF TimeOut, current, IInv, Outstanding, TimerRuns
  <2> QED
    BY <1>3, <2>1 DEF TimeOut, Ends
<1>4. CASE HandleApplied
  <2>1. CASE awaiting \/ ~current(Head(uiq).token)
    BY <1>4, <2>1 DEF HandleApplied
  <2>2. CASE ~(awaiting \/ ~current(Head(uiq).token))
    BY <1>4, <2>2 DEF HandleApplied, current, Ends, StartsWaiting
  <2> QED
    BY <2>1, <2>2
<1>5. CASE ShowOnline
  <2>1. CASE apply # 0 /\ awaiting
    <3>1. \E success \in BOOLEAN : Finish(success)
      BY <1>5, <2>1 DEF ShowOnline, verify
    <3> QED
      BY <1>5, <2>1, <3>1 DEF ShowOnline, Ends
  <2>2. CASE ~(apply # 0 /\ awaiting)
    BY <1>5, <2>2 DEF ShowOnline
  <2> QED
    BY <2>1, <2>2
<1>6. CASE ShowDown
  BY <1>6 DEF ShowDown, ToldDown
<1> QED
  BY ZenonT(40), <1>1, <1>2, <1>3, <1>4, <1>5, <1>6
     DEF Next, WorkerStep, WriteLora, WriteChannel, Write, StartWriting, Commit,
         RequestReadback, FinishReadback, Answer, CarryOutEdit, LoseLink, NoticeLoss,
         CloseLink, Reconnect, vars

LEMMA OutstandingKept ==
  ASSUME IInv, [Next]_vars
  PROVE  Outstanding'
<1>0. /\ TypeOK /\ Link /\ Tokened /\ Outstanding /\ Tokens \subseteq Nat \ {0}
      /\ outcome \in [Tokens -> {"none", "pending", "success", "failure"}]
  BY NetworkAssumption DEF IInv, TypeOK, Tokens
<1>1. CASE Begins
  <2>1. PICK n \in Networks, saved \in BOOLEAN : Begin(n, saved)
    BY <1>1 DEF Begins
  <2>2. /\ begun + 1 \in Tokens /\ begun' = begun + 1 /\ apply' = begun'
        /\ awaiting' = FALSE /\ armed' = {apply'} /\ apply' # 0
        /\ outcome' = [outcome EXCEPT ![begun'] = "pending"]
    BY <1>0, <2>1, BeginTyped, Zenon
  <2>3. \A t \in Tokens : outcome[t] # "pending"
    BY <1>0, <1>1 DEF Begins, Free, Outstanding, OneOutstanding
  <2>4. OneOutstanding'
    BY <1>0, <2>2, <2>3 DEF OneOutstanding
  <2>5. TimerRuns' /\ online'
    BY <1>1, <2>2 DEF TimerRuns, Begins
  <2> QED
    BY <2>2, <2>4, <2>5 DEF Outstanding
<1>2. CASE Ends
  <2>1. apply \in Tokens /\ apply # 0 /\ apply' = 0 /\ awaiting' = FALSE /\ armed' = {}
        /\ outcome' = [outcome EXCEPT ![apply] = outcome'[apply]]
        /\ outcome'[apply] # "pending"
    <3>1. PICK success \in BOOLEAN : Finish(success)
      BY <1>2 DEF Ends
    <3>2. apply \in Tokens
      BY <1>0, <1>2, NetworkAssumption DEF Ends, TypeOK, Tokens
    <3> QED
      BY <1>0, <1>2, <3>1, <3>2 DEF Finish, disarmed, Ends
  <2>2. OneOutstanding'
    BY <1>0, <2>1 DEF OneOutstanding, Outstanding
  <2> QED
    BY <2>1, <2>2 DEF Outstanding, TimerRuns
<1>3. CASE ToldDown
  BY <1>0, <1>3 DEF ToldDown, awaits_from_now, Outstanding, OneOutstanding, TimerRuns
<1>4. CASE StartsWaiting
  BY <1>0, <1>4 DEF StartsWaiting, Outstanding, OneOutstanding, TimerRuns
<1>5. CASE UNCHANGED <<apply, awaiting, armed, outcome>> /\ (online' \/ UNCHANGED online)
  BY <1>0, <1>5 DEF Outstanding, OneOutstanding, TimerRuns
<1> QED
  BY <1>1, <1>2, <1>3, <1>4, <1>5, OutstandingSteps

-----------------------------------------------------------------------------
(* Waiting for a reconnect.                                                *)

(* A refused write of the outstanding apply means that the link is down.   *)
LEMMA RefusedMeansDown ==
  ASSUME IInv, NEW t \in Tokens, Pc(t) \in Fields \cup {"commit"}, Disconnected(t),
         apply = t, ~awaiting
  PROVE  Down
<1>1. apply # 0 /\ workers[t].iface # 0
  BY NetworkAssumption DEF IInv, Tokened, Tokens
<1> QED
  BY <1>1 DEF IInv, Waits, Disconnected, Down

LEMMA WaitsKept ==
  ASSUME IInv, [Next]_vars
  PROVE  Waits'
<1>0. /\ TypeOK /\ Link /\ Tokened /\ Outstanding /\ Waits /\ Inv0
      /\ workers \in [Tokens -> WorkerStates] /\ uiq \in Seq(Messages)
      /\ Tokens \subseteq Nat \ {0} /\ apply \in Tokens \cup {0}
  BY NetworkAssumption DEF IInv, Inv0, TypeOK, Tokens
<1> USE DEF radio, service, app, ui, known, outstanding
<1>1. CASE Ends
  <2>1. apply' = 0 /\ awaiting' = FALSE
    BY <1>1 DEF Ends, Finish
  <2> QED
    BY <2>1 DEF Waits, WaitsForReconnect
<1>2. CASE Begins
  <2>1. PICK n \in Networks, saved \in BOOLEAN : Begin(n, saved)
    BY <1>2 DEF Begins
  <2>2. /\ begun + 1 \in Tokens /\ begun' = begun + 1 /\ apply' = begun' /\ awaiting' = FALSE
        /\ workers' = [workers EXCEPT ![begun'] = Worker("start", n, saved)]
    BY <1>0, <2>1, BeginTyped, Zenon
  <2>3. workers'[apply'].iface = 0
    BY <1>0, <2>2 DEF Worker
  <2>4. \A i \in DOMAIN uiq' : uiq'[i].token # apply'
    <3>1. \A i \in DOMAIN uiq : uiq[i] \in Messages
      BY <1>0
    <3>2. \A i \in DOMAIN uiq : uiq[i].token \in Nat
      BY <1>0, <3>1 DEF Messages
    <3>3. begun \in Nat /\ \A i \in DOMAIN uiq : uiq[i].token <= begun
      BY <1>0, NetworkAssumption DEF Tokened, TypeOK
    <3> QED
      BY <1>2, <2>2, <3>2, <3>3 DEF Begins
  <2> QED
    BY <2>2, <2>3, <2>4 DEF Waits, WaitsForReconnect
<1>3. CASE UNCHANGED <<apply, awaiting, online, service, workers, uiq>>
  BY <1>0, <1>3 DEF Waits, WaitsForReconnect, Down
<1>4. ASSUME NEW t \in Tokens,
             UNCHANGED <<apply, awaiting, online, service>>,
             \A u \in Tokens \ {t} : workers'[u] = workers[u],
             workers'[t].iface \in {0, iface, workers[t].iface},
             \A i \in DOMAIN uiq' :
               \/ i \in DOMAIN uiq /\ uiq'[i] = uiq[i]
               \/ /\ uiq'[i].token = t
                  /\ uiq'[i].result = "disconnected" =>
                       Pc(t) \in Fields \cup {"commit"} /\ Disconnected(t)
      PROVE  Waits'
  <2>1. WaitsForReconnect'
    BY <1>0, <1>4 DEF Waits, WaitsForReconnect
  <2>2. ASSUME apply # 0, ~awaiting
        PROVE  workers'[apply].iface \in {0, iface} \/ Down
    BY <1>0, <1>4, <2>2 DEF Waits
  <2>3. ASSUME apply # 0, ~awaiting, NEW i \in DOMAIN uiq', uiq'[i].token = apply,
               uiq'[i].result = "disconnected"
        PROVE  Down
    <3>1. CASE i \in DOMAIN uiq /\ uiq'[i] = uiq[i]
      BY <1>0, <2>3, <3>1 DEF Waits
    <3>2. CASE uiq'[i].token = t /\ Pc(t) \in Fields \cup {"commit"} /\ Disconnected(t)
      BY <2>3, <3>2, RefusedMeansDown
    <3> QED
      BY <1>4, <2>3, <3>1, <3>2
  <2> QED
    BY <1>4, <2>1, <2>2, <2>3 DEF Waits, Down
<1>5. ASSUME NEW t \in Tokens, NEW result, Post(t, result),
             result \in {"verified", "unverified", "disconnected", "failed"},
             result = "disconnected" =>
               Pc(t) \in Fields \cup {"commit"} /\ Disconnected(t),
             UNCHANGED <<apply, awaiting, online, service>>
      PROVE  Waits'
  <2>1. /\ workers' = [workers EXCEPT ![t] = workers'[t]]
        /\ workers'[t] = Worker("done", workers[t].name, workers[t].saved)
        /\ \A i \in DOMAIN uiq' : \/ i \in DOMAIN uiq /\ uiq'[i] = uiq[i]
                                  \/ uiq'[i] = [token |-> t, result |-> result]
    BY <1>0, <1>5, PostTyped
  <2>2. workers'[t].iface = 0 /\ \A u \in Tokens \ {t} : workers'[u] = workers[u]
    BY <1>0, <2>1 DEF Worker
  <2> QED
    BY <1>4, <1>5, <2>1, <2>2
<1>6. ASSUME NEW t \in Tokens, NEW pc \in {"lora", "key", "commit", "check"},
             Goto(t, pc), UNCHANGED <<apply, awaiting, online, service, uiq>>
      PROVE  Waits'
  <2>1. workers[t] \in WorkerStates /\ workers' = [workers EXCEPT ![t] = workers'[t]]
        /\ workers'[t] = [workers[t] EXCEPT !.pc = pc]
    BY <1>0, <1>6, GotoTyped
  <2>2. workers'[t].iface = workers[t].iface
        /\ \A u \in Tokens \ {t} : workers'[u] = workers[u]
    BY <1>0, <2>1 DEF WorkerStates
  <2> QED
    BY <1>4, <1>6, <2>2
<1>7. ASSUME NEW t \in Tokens, StartWriting(t) PROVE Waits'
  <2>1. CASE iface = 0
    BY <1>5, <1>7, <2>1 DEF StartWriting
  <2>2. CASE iface # 0
    <3>1. workers'[t].iface = iface /\ \A u \in Tokens \ {t} : workers'[u] = workers[u]
      BY <1>0, <1>7, <2>2 DEF StartWriting, WorkerStates
    <3> QED
      BY <1>4, <1>7, <2>2, <3>1 DEF StartWriting
  <2> QED
    BY <2>1, <2>2
<1>8. ASSUME NEW t \in Tokens, NEW f \in Fields, NEW next \in {"key", "commit"},
             Write(t, f, next)
      PROVE  Waits'
  <2>1. Pc(t) \in Fields \cup {"commit"} /\ UNCHANGED <<apply, awaiting, online, service>>
    BY <1>8 DEF Write
  <2>2. CASE Disconnected(t) /\ Post(t, "disconnected")
    BY <1>5, <2>1, <2>2
  <2>3. CASE Post(t, "failed")
    BY <1>5, <2>1, <2>3
  <2>4. CASE Goto(t, next) /\ UNCHANGED uiq
    BY <1>6, <2>1, <2>4
  <2> QED
    BY <1>8, <2>2, <2>3, <2>4 DEF Write
<1>9. ASSUME NEW t \in Tokens, Commit(t) PROVE Waits'
  BY <1>5, <1>6, <1>9 DEF Commit
<1>10. ASSUME NEW t \in Tokens, RequestReadback(t) PROVE Waits'
  <2>1. CASE cancelled(t)
    BY <1>5, <1>10, <2>1 DEF RequestReadback
  <2>2. CASE ~cancelled(t)
    <3>1. workers'[t].iface = workers[t].iface
          /\ \A u \in Tokens \ {t} : workers'[u] = workers[u]
      BY <1>0, <1>10, <2>2 DEF RequestReadback, WorkerStates
    <3> QED
      BY <1>4, <1>10, <2>2, <3>1 DEF RequestReadback
  <2> QED
    BY <2>1, <2>2
<1>11. ASSUME NEW t \in Tokens, FinishReadback(t) PROVE Waits'
  <2>1. CASE Goto(t, "check") /\ UNCHANGED uiq
    BY <1>6, <1>11, <2>1 DEF FinishReadback
  <2>2. CASE Post(t, "verified") \/ Post(t, "unverified")
    BY <1>5, <1>11, <2>2 DEF FinishReadback
  <2> QED
    BY <1>11, <2>1, <2>2 DEF FinishReadback
<1>12. ASSUME NEW t \in Tokens, NEW f \in Fields, Answer(t, f) PROVE Waits'
  <2>1. workers'[t].iface = workers[t].iface
        /\ \A u \in Tokens \ {t} : workers'[u] = workers[u]
    BY <1>0, <1>12 DEF Answer, WorkerStates
  <2> QED
    BY <1>4, <1>12, <2>1 DEF Answer
<1>13. CASE NoticeLoss
  BY <1>0, <1>13 DEF NoticeLoss, Waits, WaitsForReconnect, Down
<1>14. CASE CloseLink
  BY <1>0, <1>14 DEF CloseLink, Waits, WaitsForReconnect, Down
<1>15. CASE ShowDown
  BY <1>0, <1>15 DEF ShowDown, awaits_from_now, Waits, WaitsForReconnect
<1>16. CASE ShowOnline
  <2>1. CASE apply # 0 /\ awaiting
    <3>1. \E success \in BOOLEAN : Finish(success)
      BY <1>16, <2>1 DEF ShowOnline, verify
    <3> QED
      BY <1>1, <1>16, <2>1, <3>1 DEF ShowOnline, Ends
  <2>2. CASE ~(apply # 0 /\ awaiting)
    <3>1. apply = 0 /\ ~awaiting
      BY <1>0, <1>16, <2>2 DEF ShowOnline, Outstanding, Link
    <3> QED
      BY <1>16, <2>2, <3>1 DEF ShowOnline, Waits, WaitsForReconnect
  <2> QED
    BY <2>1, <2>2
<1>17. ASSUME NEW c \in Configs, Reconnect(c) PROVE Waits'
  <2>1. ~online /\ (apply # 0 => awaiting) /\ UNCHANGED <<apply, awaiting, online>>
    BY <1>0, <1>17 DEF Reconnect, Outstanding, Link
  <2> QED
    BY <2>1 DEF Waits, WaitsForReconnect
<1>18. CASE HandleApplied
  <2>1. /\ Head(uiq) = uiq[1] /\ 1 \in DOMAIN uiq
        /\ \A i \in DOMAIN uiq' : i + 1 \in DOMAIN uiq /\ uiq'[i] = uiq[i + 1]
    BY <1>0, <1>18, QueueTail DEF HandleApplied
  <2>2. CASE awaiting \/ ~current(Head(uiq).token)
    <3>1. UNCHANGED <<apply, awaiting, online, service, workers>>
      BY <1>18, <2>2 DEF HandleApplied
    <3> QED
      BY <1>0, <2>1, <3>1 DEF Waits, WaitsForReconnect, Down
  <2>3. CASE ~(awaiting \/ ~current(Head(uiq).token))
             /\ (~online \/ reboots(Head(uiq).result))
    <3>1. awaiting' = TRUE /\ UNCHANGED <<apply, online, service>>
      BY <1>18, <2>3 DEF HandleApplied
    <3>2. Down
      BY <1>0, <2>1, <2>3 DEF Waits, Outstanding, current, reboots
    <3> QED
      BY <1>0, <3>1, <3>2 DEF Waits, WaitsForReconnect, Down
  <2>4. CASE ~(awaiting \/ ~current(Head(uiq).token))
             /\ ~(~online \/ reboots(Head(uiq).result))
    <3>1. Ends
      BY <1>18, <2>4 DEF HandleApplied, Ends, current
    <3> QED
      BY <1>1, <3>1
  <2> QED
    BY <2>2, <2>3, <2>4
<1>19. ASSUME NEW n \in Networks, SelectNetwork(n) \/ SaveNetwork(n) PROVE Waits'
  <2>1. Begins \/ UNCHANGED <<apply, awaiting, online, service, workers, uiq>>
    BY <1>19 DEF SelectNetwork, SaveNetwork, Begins
  <2> QED
    BY <1>2, <1>3, <2>1
<1>20. ASSUME NEW t \in Tokens, TimeOut(t) PROVE Waits'
  <2>1. current(t) /\ apply # 0
    BY <1>0, <1>20 DEF TimeOut, current, Outstanding, TimerRuns
  <2> QED
    BY <1>1, <1>20, <2>1 DEF TimeOut, Ends
<1> QED
  BY <1>3, <1>7, <1>8, <1>9, <1>10, <1>11, <1>12, <1>13, <1>14, <1>15, <1>16, <1>17,
     <1>18, <1>19, <1>20
     DEF Next, WorkerStep, WriteLora, WriteChannel, Fields, vars, CarryOutEdit, LoseLink

-----------------------------------------------------------------------------
(* What a success stands for.                                              *)

LEMMA FirstMessage ==
  ASSUME TypeOK, HandleApplied
  PROVE  /\ Head(uiq) = uiq[1] /\ 1 \in DOMAIN uiq
         /\ \A i \in DOMAIN uiq' : i + 1 \in DOMAIN uiq /\ uiq'[i] = uiq[i + 1]
BY QueueTail DEF HandleApplied, TypeOK

LEMMA BackedKept ==
  ASSUME IInv, Backed, [Next]_vars
  PROVE  Backed'
<1>0. /\ TypeOK /\ Link /\ Tokened /\ Outstanding /\ Inv0
      /\ workers \in [Tokens -> WorkerStates] /\ uiq \in Seq(Messages)
      /\ Tokens \subseteq Nat \ {0} /\ apply \in Tokens \cup {0}
  BY NetworkAssumption DEF IInv, Inv0, TypeOK, Tokens
<1> USE DEF radio, service, app, ui, known, outstanding
<1>1. CASE apply' = 0
  BY <1>1 DEF Backed
<1>2. CASE Ends
  BY <1>1, <1>2 DEF Ends, Finish
<1>3. CASE Begins
  <2>1. PICK n \in Networks, saved \in BOOLEAN : Begin(n, saved)
    BY <1>3 DEF Begins
  <2>2. /\ begun + 1 \in Tokens /\ begun' = begun + 1 /\ apply' = begun'
        /\ workers' = [workers EXCEPT ![begun'] = Worker("start", n, saved)]
    BY <1>0, <2>1, BeginTyped, Zenon
  <2>3. workers'[apply'].pc = "start" /\ monitor' # "online"
    BY <1>0, <1>3, <2>2 DEF Worker, Begins, Link
  <2>4. \A i \in DOMAIN uiq' : uiq'[i].token # apply'
    <3>1. \A i \in DOMAIN uiq : uiq[i] \in Messages
      BY <1>0
    <3>2. \A i \in DOMAIN uiq : uiq[i].token \in Nat
      BY <1>0, <3>1 DEF Messages
    <3>3. begun \in Nat /\ \A i \in DOMAIN uiq : uiq[i].token <= begun
      BY <1>0, NetworkAssumption DEF Tokened, TypeOK
    <3> QED
      BY <1>3, <2>2, <3>2, <3>3 DEF Begins
  <2> QED
    BY <2>3, <2>4 DEF Backed, Pc
<1>4. CASE UNCHANGED <<apply, awaiting, workers, local, iface, monitor, since, late, uiq>>
  BY <1>4 DEF Backed, Pc, Wanted, Told
<1>5. ASSUME NEW t \in Tokens,
             UNCHANGED <<apply, awaiting, iface, monitor>>, Told \subseteq Told',
             \A f \in Fields : \/ local'[f] = local[f]
                               \/ <<f, local'[f]>> \in Told'
                               \/ t = apply /\ monitor # "online",
             \A u \in Tokens : workers'[u].name = workers[u].name,
             \A u \in Tokens \ {t} : workers'[u] = workers[u],
             t = apply => workers'[t].pc # "reread" \/ workers'[t].got = {},
             \A i \in DOMAIN uiq' :
               \/ i \in DOMAIN uiq /\ uiq'[i] = uiq[i]
               \/ /\ uiq'[i].token = t
                  /\ uiq'[i].result = "verified" /\ t = apply =>
                       \A f \in Fields : Wanted(f) \in Told
      PROVE  Backed'
  <2> SUFFICES ASSUME apply # 0 PROVE Backed'
    BY <1>5 DEF Backed
  <2>1. apply \in Tokens /\ workers'[apply].name = workers[apply].name
    BY <1>0, <1>5
  <2>2. ASSUME NEW f \in Fields, local'[f] = workers[apply].name,
               t # apply \/ monitor = "online",
               local[f] = workers[apply].name => Wanted(f) \in Told
        PROVE  Wanted(f) \in Told'
    BY <1>5, <2>2 DEF Wanted
  <2>3. ASSUME workers'[apply].pc = "reread", iface # 0, NEW f \in workers'[apply].got,
               local'[f] = workers[apply].name
        PROVE  Wanted(f) \in Told'
    <3>1. t # apply /\ workers'[apply] = workers[apply]
      BY <1>5, <2>1, <2>3
    <3>2. f \in Fields
      BY <1>0, <2>1, <2>3, <3>1 DEF WorkerStates
    <3> QED
      BY <2>1, <2>2, <2>3, <3>1, <3>2 DEF Backed, Pc
  <2>4. ASSUME monitor = "online", NEW f \in Fields, local'[f] = workers[apply].name
        PROVE  Wanted(f) \in Told'
    BY <2>1, <2>2, <2>4 DEF Backed
  <2>5. ASSUME NEW i \in DOMAIN uiq', ~awaiting, uiq'[i].token = apply,
               uiq'[i].result = "verified"
        PROVE  \A f \in Fields : Wanted(f) \in Told
    BY <1>5, <2>1, <2>5 DEF Backed
  <2>6. \A f \in Fields : Wanted(f)' = Wanted(f)
    BY <1>5, <2>1 DEF Wanted
  <2>7. workers'[apply].pc = "reread" => workers'[apply].got \subseteq Fields
    BY <1>0, <1>5, <2>1 DEF WorkerStates
  <2> QED
    BY <1>5, <2>1, <2>3, <2>4, <2>5, <2>6, <2>7 DEF Backed, Pc
<1>6. ASSUME NEW t \in Tokens, NEW result, Post(t, result),
             result \in {"verified", "unverified", "disconnected", "failed"},
             result = "verified" /\ t = apply => \A f \in Fields : Wanted(f) \in Told,
             UNCHANGED <<apply, awaiting, iface, monitor>>, Told \subseteq Told',
             \A f \in Fields : \/ local'[f] = local[f]
                               \/ <<f, local'[f]>> \in Told'
                               \/ t = apply /\ monitor # "online"
      PROVE  Backed'
  <2>1. /\ workers' = [workers EXCEPT ![t] = workers'[t]]
        /\ workers'[t] = Worker("done", workers[t].name, workers[t].saved)
        /\ \A i \in DOMAIN uiq' : \/ i \in DOMAIN uiq /\ uiq'[i] = uiq[i]
                                  \/ uiq'[i] = [token |-> t, result |-> result]
    BY <1>0, <1>6, PostTyped
  <2>2. workers'[t].pc = "done" /\ workers'[t].name = workers[t].name
        /\ \A u \in Tokens \ {t} : workers'[u] = workers[u]
    BY <1>0, <2>1 DEF Worker
  <2> QED
    BY <1>5, <1>6, <2>1, <2>2
<1>7. ASSUME NEW t \in Tokens, NEW pc \in {"lora", "key", "commit", "check"},
             Goto(t, pc), UNCHANGED <<apply, awaiting, iface, monitor, uiq>>,
             Told \subseteq Told',
             \A f \in Fields : \/ local'[f] = local[f]
                               \/ <<f, local'[f]>> \in Told'
                               \/ t = apply /\ monitor # "online"
      PROVE  Backed'
  <2>1. workers[t] \in WorkerStates /\ workers' = [workers EXCEPT ![t] = workers'[t]]
        /\ workers'[t] = [workers[t] EXCEPT !.pc = pc]
    BY <1>0, <1>7, GotoTyped
  <2>2. workers'[t].pc = pc /\ workers'[t].name = workers[t].name
        /\ \A u \in Tokens \ {t} : workers'[u] = workers[u]
    BY <1>0, <2>1 DEF WorkerStates
  <2> QED
    BY <1>5, <1>7, <2>2
<1>8. ASSUME NEW t \in Tokens, NEW f \in Fields, Stage(t, f), local \in Configs,
             UNCHANGED since
      PROVE  /\ Told \subseteq Told'
             /\ \A g \in Fields : \/ local'[g] = local[g]
                                  \/ <<g, local'[g]>> \in Told'
                                  \/ t = apply /\ monitor # "online"
  <2>1. \A g \in Fields : local'[g] = IF g = f THEN workers[t].name ELSE local[g]
    BY <1>8 DEF Stage, staged, Configs
  <2>2. ~Late(t) => t = apply /\ monitor # "online"
    BY <1>0 DEF Late, Outstanding, Link
  <2>3. Told \subseteq Told' /\ (Late(t) => <<f, workers[t].name>> \in Told')
    BY <1>8 DEF Stage, Told
  <2>4. ASSUME NEW g \in Fields
        PROVE  \/ local'[g] = local[g]
               \/ <<g, local'[g]>> \in Told'
               \/ t = apply /\ monitor # "online"
    <3>1. CASE g = f
      BY <2>1, <2>2, <2>3, <3>1
    <3> QED
      BY <2>1, <3>1
  <2> QED
    BY <2>3, <2>4
<1>9. ASSUME NEW t \in Tokens, StartWriting(t) PROVE Backed'
  <2>1. CASE iface = 0
    BY <1>6, <1>9, <2>1 DEF StartWriting, Told
  <2>2. CASE iface # 0
    <3>1. workers'[t].pc = "lora" /\ workers'[t].name = workers[t].name
          /\ \A u \in Tokens \ {t} : workers'[u] = workers[u]
      BY <1>0, <1>9, <2>2 DEF StartWriting, WorkerStates
    <3> QED
      BY <1>5, <1>9, <2>2, <3>1 DEF StartWriting, Told
  <2> QED
    BY <2>1, <2>2
<1>10. ASSUME NEW t \in Tokens, NEW f \in Fields, NEW next \in {"key", "commit"},
              Write(t, f, next)
       PROVE  Backed'
  <2>1. /\ UNCHANGED <<apply, awaiting, iface, monitor>> /\ Told \subseteq Told'
        /\ \A g \in Fields : \/ local'[g] = local[g]
                             \/ <<g, local'[g]>> \in Told'
                             \/ t = apply /\ monitor # "online"
    <3>1. UNCHANGED <<apply, awaiting, since, iface, monitor>>
      BY <1>10 DEF Write
    <3>2. CASE UNCHANGED <<local, late>>
      BY <3>1, <3>2 DEF Told
    <3>3. CASE ~Disconnected(t) /\ Stage(t, f)
      <4>1. local \in Configs
        BY <1>0, <1>10, <3>3 DEF Write, Disconnected, Tokened, Link
      <4>2. /\ Told \subseteq Told'
            /\ \A g \in Fields : \/ local'[g] = local[g]
                                 \/ <<g, local'[g]>> \in Told'
                                 \/ t = apply /\ monitor # "online"
        BY <1>8, <1>10, <3>1, <3>3, <4>1
      <4> QED
        BY <3>1, <4>2
    <3> QED
      BY <1>10, <3>2, <3>3 DEF Write
  <2>2. CASE Post(t, "disconnected") \/ Post(t, "failed")
    BY <1>6, <2>1, <2>2
  <2>3. CASE Goto(t, next) /\ UNCHANGED uiq
    BY <1>7, <2>1, <2>3
  <2> QED
    BY <1>10, <2>2, <2>3 DEF Write
<1>11. ASSUME NEW t \in Tokens, Commit(t) PROVE Backed'
  BY <1>6, <1>7, <1>11 DEF Commit, Told
<1>12. ASSUME NEW t \in Tokens, RequestReadback(t) PROVE Backed'
  <2>1. CASE cancelled(t)
    BY <1>6, <1>12, <2>1 DEF RequestReadback, Told
  <2>2. CASE ~cancelled(t)
    <3>1. workers'[t].got = {} /\ workers'[t].name = workers[t].name
          /\ \A u \in Tokens \ {t} : workers'[u] = workers[u]
      BY <1>0, <1>12, <2>2 DEF RequestReadback, WorkerStates
    <3> QED
      BY <1>5, <1>12, <2>2, <3>1 DEF RequestReadback, Told
  <2> QED
    BY <2>1, <2>2
<1>13. ASSUME NEW t \in Tokens, FinishReadback(t) PROVE Backed'
  <2>1. CASE Goto(t, "check") /\ UNCHANGED uiq
    BY <1>7, <1>13, <2>1 DEF FinishReadback, Told
  <2>2. CASE Post(t, "unverified")
    BY <1>6, <1>13, <2>2 DEF FinishReadback, Told
  <2>3. CASE Post(t, "verified") /\ complete(workers[t].got) /\ verify(workers[t].name)
    <3>1. \A f \in Fields : local[f] = workers[t].name
      BY <2>3 DEF verify, Preset
    <3>2. iface # 0
      BY <1>0, <2>3 DEF verify, Preset, Link, NoCopy, Fields
    <3>3. t = apply => \A f \in Fields : Wanted(f) \in Told
      BY <1>0, <1>13, <2>3, <3>1, <3>2 DEF FinishReadback, complete, Backed
    <3> QED
      BY <1>6, <1>13, <2>3, <3>3 DEF FinishReadback, Told
  <2> QED
    BY <1>13, <2>1, <2>2, <2>3 DEF FinishReadback
<1>14. ASSUME UNCHANGED <<apply, awaiting, uiq, late>>, apply # 0, NEW pairs, Reported(pairs),
              \A u \in Tokens : workers'[u].name = workers[u].name
       PROVE  /\ Told \subseteq Told'
              /\ \A f \in Fields : <<f, workers[apply].name>> \in pairs
                                   => Wanted(f) \in Told'
              /\ workers'[apply].name = workers[apply].name
              /\ \A i \in DOMAIN uiq' :
                   ~awaiting' /\ uiq'[i].token = apply' /\ uiq'[i].result = "verified"
                   => \A f \in Fields : Wanted(f) \in Told'
  <2>1. since' = since \cup (pairs \cap Pairs(Preset(workers[apply].name)))
    BY <1>14 DEF Reported
  <2>2. \A f \in Fields : Wanted(f) \in Pairs(Preset(workers[apply].name))
    BY DEF Wanted, Pairs, Preset
  <2> QED
    BY <1>0, <1>14, <2>1, <2>2 DEF Backed, Wanted, Told
<1>15. ASSUME NEW t \in Tokens, NEW f \in Fields, Answer(t, f), apply # 0 PROVE Backed'
  <2>1. iface # 0 /\ local \in Configs /\ UNCHANGED <<apply, awaiting, uiq, late, iface, monitor>>
    BY <1>0, <1>15 DEF Answer, Link
  <2>2. /\ \A u \in Tokens : /\ workers'[u].name = workers[u].name
                             /\ workers'[u].pc = workers[u].pc
                             /\ workers'[u].got \subseteq workers[u].got \cup {f}
    BY <1>0, <1>15 DEF Answer, WorkerStates
  <2>3. Reported({<<f, config[f]>>}) /\ local' = [local EXCEPT ![f] = config[f]]
    BY <1>15 DEF Answer
  <2>4. /\ Told \subseteq Told'
        /\ config[f] = workers[apply].name => Wanted(f) \in Told'
        /\ workers'[apply].name = workers[apply].name
        /\ \A i \in DOMAIN uiq' :
             ~awaiting' /\ uiq'[i].token = apply' /\ uiq'[i].result = "verified"
             => \A g \in Fields : Wanted(g) \in Told'
    BY <1>14, <1>15, <2>1, <2>2, <2>3
  <2>5. local'[f] = config[f] /\ \A g \in Fields \ {f} : local'[g] = local[g]
    BY <2>1, <2>3 DEF Configs
  <2>6. workers[apply].got \subseteq Fields
    BY <1>0, <1>15 DEF WorkerStates
  <2>7. ASSUME NEW g \in Fields, local'[g] = workers[apply].name,
               \/ monitor = "online"
               \/ Pc(apply) = "reread" /\ g \in workers'[apply].got
        PROVE  Wanted(g) \in Told'
    <3>1. CASE g = f
      BY <2>4, <2>5, <2>7, <3>1
    <3>2. CASE g # f
      BY <1>0, <1>15, <2>1, <2>2, <2>4, <2>5, <2>7, <3>2 DEF Backed
    <3> QED
      BY <3>1, <3>2
  <2>8. apply \in Tokens /\ workers'[apply].pc = workers[apply].pc
        /\ workers'[apply].got \subseteq Fields
    BY <1>0, <1>15, <2>2, <2>6
  <2> QED
    BY <2>1, <2>4, <2>7, <2>8 DEF Backed, Pc, Wanted, Told
<1>16. CASE CloseLink
  BY <1>16 DEF CloseLink, Backed, Pc, Wanted, Told
<1>17. CASE ShowDown
  <2>1. iface' = 0 /\ monitor' # "online" /\ (apply' = 0 \/ awaiting')
    BY <1>0, <1>17 DEF ShowDown, awaits_from_now, Link
  <2> QED
    BY <2>1 DEF Backed
<1>18. CASE ShowOnline
  <2>1. CASE apply # 0 /\ awaiting
    <3>1. \E success \in BOOLEAN : Finish(success)
      BY <1>18, <2>1 DEF ShowOnline, verify
    <3> QED
      BY <1>2, <1>18, <2>1, <3>1 DEF ShowOnline, Ends
  <2>2. CASE ~(apply # 0 /\ awaiting)
    BY <1>0, <1>1, <1>18, <2>2 DEF ShowOnline, Outstanding, Link
  <2> QED
    BY <2>1, <2>2
<1>19. ASSUME NEW c \in Configs, Reconnect(c), apply # 0 PROVE Backed'
  <2>1. UNCHANGED <<apply, awaiting, uiq, late, workers>> /\ local' = c /\ Reported(Pairs(c))
    BY <1>19 DEF Reconnect
  <2>2. \A f \in Fields : c[f] = workers[apply].name
                          => <<f, workers[apply].name>> \in Pairs(c)
    BY DEF Pairs
  <2>3. /\ \A f \in Fields : c[f] = workers[apply].name => Wanted(f) \in Told'
        /\ \A i \in DOMAIN uiq' :
             ~awaiting' /\ uiq'[i].token = apply' /\ uiq'[i].result = "verified"
             => \A f \in Fields : Wanted(f) \in Told'
    BY <1>14, <1>19, <2>1, <2>2
  <2>4. workers[apply].got \subseteq Fields
    BY <1>0, <1>19 DEF WorkerStates
  <2> QED
    BY <2>1, <2>3, <2>4 DEF Backed, Pc, Wanted, Told
<1>20. CASE HandleApplied
  <2>1. Ends \/ (UNCHANGED <<apply, since>> /\ (awaiting' \/ UNCHANGED awaiting))
    BY <1>20 DEF HandleApplied, Ends, current
  <2>2. CASE UNCHANGED <<apply, since>> /\ (awaiting' \/ UNCHANGED awaiting)
    <3>1. \A i \in DOMAIN uiq' : i + 1 \in DOMAIN uiq /\ uiq'[i] = uiq[i + 1]
      BY <1>0, <1>20, FirstMessage
    <3> QED
      BY <1>20, <2>2, <3>1 DEF HandleApplied, Backed, Pc, Wanted, Told
  <2> QED
    BY <1>2, <2>1, <2>2
<1>21. ASSUME NEW n \in Networks, SelectNetwork(n) \/ SaveNetwork(n) PROVE Backed'
  <2>1. Begins \/ UNCHANGED <<apply, awaiting, workers, local, iface, monitor, since, late, uiq>>
    BY <1>21 DEF SelectNetwork, SaveNetwork, Begins
  <2> QED
    BY <1>3, <1>4, <2>1
<1>22. ASSUME NEW t \in Tokens, TimeOut(t) PROVE Backed'
  <2>1. current(t) /\ apply # 0
    BY <1>0, <1>22 DEF TimeOut, current, Outstanding, TimerRuns
  <2> QED
    BY <1>2, <1>22, <2>1 DEF TimeOut, Ends
<1>23. ASSUME apply = 0,
              \/ \E t \in Tokens, f \in Fields : Answer(t, f)
              \/ \E c \in Configs : Reconnect(c)
       PROVE  Backed'
  BY <1>1, <1>23 DEF Answer, Reconnect
<1> QED
  BY <1>4, <1>9, <1>10, <1>11, <1>12, <1>13, <1>15, <1>16, <1>17, <1>18, <1>19, <1>20,
     <1>21, <1>22, <1>23
     DEF Next, WorkerStep, WriteLora, WriteChannel, Fields, vars, CarryOutEdit,
         LoseLink, NoticeLoss

(* A step that says success had it reported.                               *)
LEMMA SuccessStep ==
  ASSUME IInv, Backed, [Next]_vars, NEW t \in Tokens,
         outcome[t] # outcome'[t], outcome'[t] = "success"
  PROVE  Pairs(Preset(workers[t].name)) \subseteq since \cup late
<1>0. /\ TypeOK /\ Link /\ Outstanding /\ apply \in Tokens \cup {0}
      /\ outcome \in [Tokens -> {"none", "pending", "success", "failure"}]
  BY NetworkAssumption DEF IInv, TypeOK, Tokens
<1> USE DEF radio, service, app, ui, known, outstanding
<1>1. ASSUME NEW success \in BOOLEAN, Finish(success), apply # 0
      PROVE  t = apply /\ success
  <2>1. outcome' = [outcome EXCEPT ![apply] = IF success THEN "success" ELSE "failure"]
    BY <1>1 DEF Finish
  <2> QED
    BY <1>0, <1>1, <2>1
<1>2. ASSUME t = apply, apply # 0, \A f \in Fields : Wanted(f) \in Told
      PROVE  Pairs(Preset(workers[t].name)) \subseteq since \cup late
  BY <1>2 DEF Wanted, Told, Pairs, Preset
<1>3. CASE Begins
  <2>1. PICK n \in Networks, saved \in BOOLEAN : Begin(n, saved)
    BY <1>3 DEF Begins
  <2>2. outcome' = [outcome EXCEPT ![begun'] = "pending"]
    BY <1>0, <2>1, BeginTyped, Zenon
  <2> QED
    BY <1>0, <2>2
<1>4. CASE HandleApplied
  <2>1. current(Head(uiq).token) /\ ~awaiting
        /\ Finish(Head(uiq).result = "verified")
    BY <1>4 DEF HandleApplied
  <2>2. apply # 0 /\ Head(uiq).token = apply /\ Head(uiq).result = "verified" /\ t = apply
    BY <1>0, <1>1, <2>1 DEF current
  <2> QED
    BY <1>0, <1>2, <1>4, <2>1, <2>2, FirstMessage DEF Backed
<1>5. CASE ShowOnline
  <2>1. apply # 0 /\ awaiting /\ Finish(verify(workers[apply].name)) /\ monitor = "online"
    BY <1>5 DEF ShowOnline
  <2>2. t = apply /\ verify(workers[apply].name)
    BY <1>1, <2>1 DEF verify
  <2>3. \A f \in Fields : local[f] = workers[apply].name
    BY <2>2 DEF verify, Preset
  <2> QED
    BY <1>2, <2>1, <2>2, <2>3 DEF Backed
<1>6. ASSUME NEW u \in Tokens, TimeOut(u) PROVE FALSE
  <2>1. current(u) /\ apply # 0
    BY <1>0, <1>6 DEF TimeOut, current, Outstanding, TimerRuns
  <2>2. Finish(FALSE)
    BY <1>6, <2>1 DEF TimeOut
  <2> QED
    BY <1>1, <2>1, <2>2
<1>7. ASSUME NEW n \in Networks, SelectNetwork(n) \/ SaveNetwork(n) PROVE Begins
  BY <1>7 DEF SelectNetwork, SaveNetwork, Begins
<1> QED
  BY <1>3, <1>4, <1>5, <1>6, <1>7
     DEF Next, WorkerStep, WriteLora, WriteChannel, Write, StartWriting, Commit,
         RequestReadback, FinishReadback, Answer, CarryOutEdit, LoseLink, NoticeLoss,
         CloseLink, ShowDown, Reconnect, vars

-----------------------------------------------------------------------------
(* The selector.                                                           *)

(* A NETWORK is reported, or was saved and not applied, or is being so.    *)
Here == shown \cup late
ReportedHere(n) == Pairs(Preset(n)) \subseteq Here
SavedOnly(n) == \E t \in Tokens : workers[t].saved /\ outcome[t] = "failure" /\ workers[t].name = n
BeingSaved(n) == apply # 0 /\ workers[apply].saved /\ workers[apply].name = n

(* An apply that does not wait has had all of its reports on this          *)
(* connection, and what the UI is going to compare was reported on it.     *)
Selector ==
  /\ apply # 0 /\ ~awaiting => since \subseteq shown
  /\ monitor = "online" => Pairs(local) \subseteq Here
  /\ online /\ ~unmatched =>
       ReportedHere(selected) \/ SavedOnly(selected) \/ BeingSaved(selected)

(* What a worker's step leaves alone.                                      *)
LEMMA WorkerLeaves ==
  ASSUME TypeOK, Link, Tokened, NEW t \in Tokens, WorkerStep(t)
  PROVE  /\ UNCHANGED <<monitor, online, selected, unmatched, apply, awaiting, outcome,
                        since, shown>>
         /\ \A u \in Tokens : /\ workers'[u].name = workers[u].name
                              /\ workers'[u].saved = workers[u].saved
         /\ late \subseteq late'
         /\ Late(t) => Pairs(local') \subseteq Pairs(local) \cup late'
<1> USE DEF radio, service, app, ui, known
<1>0. workers \in [Tokens -> WorkerStates] /\ workers[t] \in WorkerStates
  BY DEF TypeOK
<1>1. /\ UNCHANGED <<monitor, online, selected, unmatched, apply, awaiting, outcome,
                     since, shown>>
      /\ late \subseteq late'
  BY DEF WorkerStep, StartWriting, WriteLora, WriteChannel, Write, Stage, Commit,
         RequestReadback, FinishReadback
<1>2. \A u \in Tokens : /\ workers'[u].name = workers[u].name
                        /\ workers'[u].saved = workers[u].saved
  <2>1. ASSUME NEW result, Post(t, result) PROVE <1>2!:
    BY <1>0, <2>1 DEF Post, Worker, WorkerStates
  <2>2. ASSUME NEW pc, Goto(t, pc) PROVE <1>2!:
    BY <1>0, <2>2 DEF Goto, WorkerStates
  <2>3. CASE StartWriting(t)
    BY <1>0, <2>1, <2>3 DEF StartWriting, WorkerStates
  <2>4. CASE WriteLora(t) \/ WriteChannel(t)
    BY <2>1, <2>2, <2>4 DEF WriteLora, WriteChannel, Write
  <2>5. CASE Commit(t)
    BY <2>1, <2>2, <2>5 DEF Commit
  <2>6. CASE RequestReadback(t)
    BY <1>0, <2>1, <2>6 DEF RequestReadback, WorkerStates
  <2>7. CASE FinishReadback(t)
    BY <2>1, <2>2, <2>7 DEF FinishReadback
  <2> QED
    BY <2>3, <2>4, <2>5, <2>6, <2>7 DEF WorkerStep
<1>3. ASSUME NEW f \in Fields, NEW next, Write(t, f, next), Late(t)
      PROVE  Pairs(local') \subseteq Pairs(local) \cup late'
  <2>1. CASE UNCHANGED local
    BY <2>1 DEF Pairs
  <2>2. CASE ~Disconnected(t) /\ Stage(t, f)
    <3>1. local \in Configs
      BY <1>3, <2>2 DEF Write, Disconnected, Tokened, Link
    <3> QED
      BY <1>3, <2>2, <3>1 DEF Stage, staged, Pairs, Configs
  <2> QED
    BY <1>3, <2>1, <2>2 DEF Write
<1>4. Late(t) => Pairs(local') \subseteq Pairs(local) \cup late'
  <2>1. CASE UNCHANGED local
    BY <2>1 DEF Pairs
  <2>2. CASE WriteLora(t) \/ WriteChannel(t)
    BY <1>3, <2>2 DEF WriteLora, WriteChannel, Fields
  <2> QED
    BY <2>1, <2>2 DEF WorkerStep, StartWriting, Commit, RequestReadback, FinishReadback
<1> QED
  BY <1>1, <1>2, <1>4

LEMMA SelectorKept ==
  ASSUME IInv, Backed, Selector, [Next]_vars
  PROVE  Selector'
<1>0. /\ TypeOK /\ Link /\ Tokened /\ Outstanding
      /\ apply \in Tokens \cup {0} /\ workers \in [Tokens -> WorkerStates]
      /\ outcome \in [Tokens -> {"none", "pending", "success", "failure"}]
  BY NetworkAssumption DEF IInv, TypeOK, Tokens
<1>1. monitor = "online" => apply = 0 \/ awaiting
  BY <1>0 DEF Outstanding, Link
<1> USE DEF radio, service, app, ui, known, outstanding
<1>2. ASSUME UNCHANGED <<monitor, online, selected, unmatched, apply, awaiting, outcome>>,
             \A u \in Tokens : workers'[u].name = workers[u].name
                               /\ workers'[u].saved = workers[u].saved,
             Here \subseteq Here',
             apply # 0 /\ ~awaiting => since' \subseteq shown',
             monitor = "online" => Pairs(local') \subseteq Here'
      PROVE  Selector'
  <2>1. ReportedHere(selected) => ReportedHere(selected)'
    BY <1>2 DEF ReportedHere, Here, Pairs, Preset
  <2>2. SavedOnly(selected) => SavedOnly(selected)'
    BY <1>2 DEF SavedOnly
  <2>3. BeingSaved(selected) => BeingSaved(selected)'
    BY <1>0, <1>2 DEF BeingSaved
  <2>4. Pairs(local)' = Pairs(local')
    BY DEF Pairs
  <2> QED
    BY <1>2, <2>1, <2>2, <2>3, <2>4 DEF Selector
<1>3. ASSUME NEW t \in Tokens, WorkerStep(t) PROVE Selector'
  <2>1. /\ UNCHANGED <<monitor, online, selected, unmatched, apply, awaiting, outcome,
                       since, shown>>
        /\ \A u \in Tokens : workers'[u].name = workers[u].name
                             /\ workers'[u].saved = workers[u].saved
        /\ late \subseteq late' /\ (Late(t) => Pairs(local') \subseteq Pairs(local) \cup late')
    BY <1>0, <1>3, WorkerLeaves
  <2>2. monitor = "online" => Late(t)
    BY <1>1, <1>3, NetworkAssumption DEF Late, Tokens
  <2>3. Here \subseteq Here'
    BY <2>1 DEF Here
  <2>4. monitor = "online" => Pairs(local') \subseteq Here'
    BY <2>1, <2>2, <2>3 DEF Selector, Here
  <2> QED
    BY <1>2, <2>1, <2>3, <2>4 DEF Selector
<1>4. ASSUME NEW t \in Tokens, NEW f \in Fields, Answer(t, f) PROVE Selector'
  <2>1. /\ UNCHANGED <<monitor, online, selected, unmatched, apply, awaiting, outcome>>
        /\ local' = [local EXCEPT ![f] = config[f]]
        /\ shown' = shown \cup {<<f, config[f]>>} /\ Reported({<<f, config[f]>>})
        /\ late' = late
    BY <1>4 DEF Answer
  <2>2. \A u \in Tokens : workers'[u].name = workers[u].name
                          /\ workers'[u].saved = workers[u].saved
    BY <1>0, <1>4 DEF Answer, WorkerStates
  <2>3. apply # 0 /\ ~awaiting => since' \subseteq shown'
    BY <2>1 DEF Reported, Selector
  <2>4. Pairs(local') \subseteq Pairs(local) \cup {<<f, config[f]>>}
    <3>1. local \in Configs
      BY <1>0, <1>4 DEF Answer, Link
    <3> QED
      BY <2>1, <3>1 DEF Pairs, Configs
  <2>5. Here' = Here \cup {<<f, config[f]>>}
    BY <2>1 DEF Here
  <2> QED
    BY <1>2, <2>1, <2>2, <2>3, <2>4, <2>5 DEF Selector
<1>5. CASE CarryOutEdit \/ LoseLink \/ NoticeLoss
  <2>1. UNCHANGED <<monitor, online, selected, unmatched, apply, awaiting, outcome, workers,
                    since, shown, late, local>>
    BY <1>5 DEF CarryOutEdit, LoseLink, NoticeLoss
  <2>2. UNCHANGED Here
    BY <2>1 DEF Here
  <2> QED
    BY <1>2, <2>1, <2>2 DEF Selector
<1>6. CASE CloseLink
  <2>1. /\ UNCHANGED <<online, selected, unmatched, apply, awaiting, outcome, workers, since, shown,
                        late>>
        /\ monitor' = "down"
    BY <1>6 DEF CloseLink
  <2> QED
    BY <2>1 DEF Selector, ReportedHere, Here, SavedOnly, BeingSaved, Pairs, Preset
<1>7. CASE ShowDown
  <2>1. online' = FALSE /\ monitor' = "connect" /\ apply' = apply
        /\ awaiting' = IF apply # 0 THEN TRUE ELSE awaiting
    BY <1>7 DEF ShowDown, awaits_from_now
  <2> QED
    BY <2>1 DEF Selector
<1>8. ASSUME NEW c \in Configs, Reconnect(c) PROVE Selector'
  <2>1. /\ ~online /\ online' = online /\ apply' = apply /\ awaiting' = awaiting
        /\ local' = c /\ shown' = Pairs(c)
    BY <1>0, <1>8 DEF Reconnect, Link
  <2>2. apply' = 0 \/ awaiting'
    BY <1>0, <2>1 DEF Outstanding
  <2>3. Pairs(local)' \subseteq Here'
    BY <2>1 DEF Pairs, Here
  <2> QED
    BY <2>1, <2>2, <2>3 DEF Selector
<1>9. CASE ShowOnline
  <2>1. /\ monitor = "online" /\ monitor' = "watching" /\ UNCHANGED <<shown, late, local, workers>>
        /\ Detect
    BY <1>1, <1>9 DEF ShowOnline
  <2>2. apply' = 0
    <3>1. CASE apply # 0 /\ awaiting
      BY <1>9, <3>1 DEF ShowOnline, Finish
    <3>2. CASE ~(apply # 0 /\ awaiting)
      BY <1>1, <1>9, <3>2 DEF ShowOnline
    <3> QED
      BY <3>1, <3>2
  <2>3. ~unmatched' => ReportedHere(selected)'
    <3> SUFFICES ASSUME Matches # {} PROVE ReportedHere(selected)'
      BY <2>1 DEF Detect
    <3>1. selected' \in Matches
      <4>1. selected' = CHOOSE n \in Matches : TRUE
        BY <2>1 DEF Detect
      <4> QED
        BY <4>1
    <3>2. local = Preset(selected')
      BY <3>1 DEF Matches, verify
    <3> QED
      BY <2>1, <3>2 DEF Selector, ReportedHere, Here, Pairs, Preset
  <2> QED
    BY <2>1, <2>2, <2>3 DEF Selector
<1>10. ASSUME apply \in Tokens, apply' = 0, UNCHANGED <<monitor, online, shown, late, local, workers>>,
              \/ /\ UNCHANGED <<selected, unmatched>>
                 /\ outcome' = [outcome EXCEPT ![apply] = "failure"]
              \/ selected' = workers[apply].name /\ ReportedHere(workers[apply].name)
       PROVE  Selector'
  <2>1. (monitor = "online" => Pairs(local) \subseteq Here)'
    BY <1>10 DEF Selector, Here, Pairs
  <2>2. CASE /\ UNCHANGED <<selected, unmatched>>
             /\ outcome' = [outcome EXCEPT ![apply] = "failure"]
    <3>1. ReportedHere(selected) => ReportedHere(selected)'
      BY <1>10, <2>2 DEF ReportedHere, Here, Pairs, Preset
    <3>2. SavedOnly(selected) => SavedOnly(selected)'
      BY <1>0, <1>10, <2>2 DEF SavedOnly
    <3>3. BeingSaved(selected) => SavedOnly(selected)'
      BY <1>0, <1>10, <2>2 DEF SavedOnly, BeingSaved
    <3> QED
      BY <1>10, <2>1, <2>2, <3>1, <3>2, <3>3 DEF Selector
  <2>3. CASE selected' = workers[apply].name /\ ReportedHere(workers[apply].name)
    <3>1. ReportedHere(selected)'
      BY <1>10, <2>3 DEF ReportedHere, Here, Pairs, Preset
    <3> QED
      BY <1>10, <2>1, <3>1 DEF Selector
  <2> QED
    BY <1>10, <2>2, <2>3
<1>11. CASE HandleApplied
  <2>1. uiq # <<>> /\ UNCHANGED <<monitor, online, shown, late, local, workers>>
    BY <1>11 DEF HandleApplied
  <2>2. CASE ~current(Head(uiq).token) \/ awaiting
    <3>1. UNCHANGED <<selected, unmatched, apply, awaiting, outcome, since>>
      BY <1>11, <2>2 DEF HandleApplied
    <3> QED
      BY <1>2, <2>1, <3>1 DEF Selector, Here
  <2>3. CASE current(Head(uiq).token) /\ ~awaiting /\ (~online \/ reboots(Head(uiq).result))
    <3>1. awaiting' = TRUE /\ UNCHANGED <<selected, unmatched, apply, outcome, since>>
      BY <1>11, <2>3 DEF HandleApplied
    <3> QED
      BY <2>1, <3>1 DEF Selector, ReportedHere, Here, SavedOnly, BeingSaved, Pairs, Preset
  <2>4. CASE current(Head(uiq).token) /\ ~awaiting /\ online /\ ~reboots(Head(uiq).result)
    <3>1. /\ Finish(Head(uiq).result = "verified") /\ SelectIf(Head(uiq).result = "verified")
          /\ apply \in Tokens /\ Head(uiq).token = apply
      BY <1>0, <1>11, <2>4 DEF HandleApplied, current
    <3>2. CASE Head(uiq).result = "verified"
      <4>1. \A f \in Fields : Wanted(f) \in Told
        <5>1. 1 \in DOMAIN uiq /\ Head(uiq) = uiq[1] /\ apply # 0
          BY <1>0, <2>1, <2>4, <3>1, QueueTail DEF TypeOK, current
        <5> QED
          BY <2>4, <3>1, <3>2, <5>1 DEF Backed
      <4>2. Told \subseteq Here
        BY <2>4 DEF Selector, Told, Here, current
      <4>3. ReportedHere(workers[apply].name)
        BY <4>1, <4>2 DEF ReportedHere, Wanted, Pairs, Preset
      <4> QED
        BY <1>10, <2>1, <3>1, <3>2, <4>3 DEF Finish, SelectIf
    <3>3. CASE Head(uiq).result # "verified"
      BY <1>10, <2>1, <3>1, <3>3 DEF Finish, SelectIf
    <3> QED
      BY <3>2, <3>3
  <2> QED
    BY <2>2, <2>3, <2>4
<1>12. ASSUME NEW t \in Tokens, TimeOut(t) PROVE Selector'
  <2>1. current(t) /\ apply \in Tokens
    BY <1>0, <1>12 DEF TimeOut, current, Outstanding, TimerRuns
  <2> QED
    BY <1>10, <1>12, <2>1 DEF TimeOut, Finish
<1>13. ASSUME NEW n \in Networks, SelectNetwork(n) \/ SaveNetwork(n) PROVE Selector'
  <2>1. apply = 0 /\ UNCHANGED <<monitor, online, shown, late, local>>
    BY <1>13 DEF SelectNetwork, SaveNetwork, Free
  <2>2. CASE ~online
    <3>1. UNCHANGED <<apply, awaiting>>
      BY <1>13, <2>2 DEF SelectNetwork, SaveNetwork
    <3> QED
      BY <2>1, <2>2, <3>1 DEF Selector, Here, Pairs
  <2>3. CASE online
    <3>1. PICK saved \in BOOLEAN :
            /\ Begin(n, saved)
            /\ saved => selected' = n
            /\ ~saved => UNCHANGED <<selected, unmatched>>
      BY <1>13, <2>3 DEF SelectNetwork, SaveNetwork
    <3>2. /\ begun + 1 \in Tokens /\ begun' = begun + 1 /\ apply' = begun' /\ since' = {}
          /\ workers' = [workers EXCEPT ![begun'] = Worker("start", n, saved)]
          /\ outcome' = [outcome EXCEPT ![begun'] = "pending"]
      BY <1>0, <3>1, BeginTyped, Zenon
    <3>3. begun \in Nat /\ outcome[begun + 1] = "none" /\ apply' # 0
      BY <1>0, <3>2, NetworkAssumption DEF Tokened, TypeOK
    <3>4. (monitor = "online" => Pairs(local) \subseteq Here)'
      BY <2>1 DEF Selector, Here, Pairs
    <3>5. CASE saved
      <4>1. BeingSaved(selected)'
        BY <1>0, <3>1, <3>2, <3>3, <3>5 DEF BeingSaved, Worker
      <4> QED
        BY <3>2, <3>4, <4>1 DEF Selector
    <3>6. CASE ~saved
      <4>1. ReportedHere(selected) => ReportedHere(selected)'
        BY <2>1, <3>1, <3>6 DEF ReportedHere, Here, Pairs, Preset
      <4>2. SavedOnly(selected) => SavedOnly(selected)'
        BY <1>0, <3>1, <3>2, <3>3, <3>6 DEF SavedOnly
      <4>3. ~BeingSaved(selected)
        BY <2>1 DEF BeingSaved
      <4> QED
        BY <2>1, <2>3, <3>1, <3>2, <3>4, <3>6, <4>1, <4>2, <4>3 DEF Selector
    <3> QED
      BY <3>5, <3>6
  <2> QED
    BY <2>2, <2>3
<1>14. CASE UNCHANGED vars
  BY <1>2, <1>14 DEF vars, Selector, Here
<1> QED
  BY <1>3, <1>4, <1>5, <1>6, <1>7, <1>8, <1>9, <1>11, <1>12, <1>13, <1>14 DEF Next

-----------------------------------------------------------------------------
(* The theorems.                                                           *)

LEMMA InitHolds == Init => IInv /\ Backed
<1> SUFFICES ASSUME Init PROVE IInv /\ Backed
  OBVIOUS
<1>1. TypeOK
  BY InitTyped
<1>2. Tokens \subseteq Nat \ {0}
  BY NetworkAssumption DEF Tokens
<1>3. Link
  BY PresetTyped, NetworkAssumption DEF Init, Link
<1>4. Tokened
  BY <1>2 DEF Init, Tokened, Worker, Pc, Fields
<1>5. Outstanding /\ Waits /\ Backed
  BY <1>2 DEF Init, Outstanding, OneOutstanding, TimerRuns, Waits, WaitsForReconnect, Backed
<1> QED
  BY <1>1, <1>3, <1>4, <1>5 DEF IInv

LEMMA StepHolds == IInv /\ [Next]_vars => IInv'
<1> SUFFICES ASSUME IInv, [Next]_vars PROVE IInv'
  OBVIOUS
<1>1. Inv0
  BY DEF IInv, Inv0
<1>2. TypeOK' /\ Link'
  BY <1>1, TypeKept, LinkKept
<1>3. Tokened'
  BY <1>1, <1>2, TokenedKept
<1> QED
  BY <1>2, <1>3, OutstandingKept, WaitsKept DEF IInv

(* The inductive invariant holds in every reachable state.                 *)
THEOREM Inductive == Spec => []IInv
BY InitHolds, StepHolds, PTL DEF Spec

(* Types; only the outstanding apply has a timer.                          *)
THEOREM TypeCorrect == Spec => []TypeOK
<1>1. IInv => TypeOK
  BY DEF IInv
<1> QED
  BY <1>1, Inductive, PTL

(* The apply that is outstanding is the one without an outcome, however    *)
(* many are begun (_begin_network_apply, _finish_network_apply).           *)
THEOREM OneAtATime == Spec => []OneOutstanding
<1>1. IInv => OneOutstanding
  BY DEF IInv, Outstanding
<1> QED
  BY <1>1, Inductive, PTL

(* An outstanding apply never lacks the timer that ends it at last.        *)
THEOREM AlwaysTimed == Spec => []TimerRuns
<1>1. IInv => TimerRuns
  BY DEF IInv, Outstanding
<1> QED
  BY <1>1, Inductive, PTL

(* A reconnect is waited for only if one is on its way, even with workers  *)
(* that go on after their apply (radio_config_preset_applied).             *)
THEOREM OnlyDisconnectsAreAwaited == Spec => []WaitsForReconnect
<1>1. IInv => WaitsForReconnect
  BY DEF IInv, Waits
<1> QED
  BY <1>1, Inductive, PTL

(* "APPLIED" was reported by the radio since the apply began, field by     *)
(* field, but for what a worker that outlived its apply wrote: the apply's *)
(* own writes are never taken for the radio's answer.                      *)
THEOREM SuccessIsReported == Spec => SuccessWasReported
<1>1. Init => IInv /\ Backed
  BY InitHolds
<1>2. IInv /\ Backed /\ [Next]_vars => (IInv /\ Backed)'
  BY StepHolds, BackedKept
<1>3. IInv /\ Backed /\ [Next]_vars
      => [\A t \in Tokens :
            outcome[t] # outcome'[t] /\ outcome'[t] = "success"
            => Pairs(Preset(workers[t].name)) \subseteq since \cup late]_vars
  BY SuccessStep
<1> QED
  BY <1>1, <1>2, <1>3, PTL DEF Spec, SuccessWasReported

(* The selector names a NETWORK as active only if this connection's radio  *)
(* reported it, but for what a worker that outlived its apply wrote, or it *)
(* was saved and could not be applied.                                     *)
THEOREM SelectorIsReported == Spec => []SelectorWasReported
<1>1. Init => IInv /\ Backed /\ Selector
  <2> SUFFICES ASSUME Init PROVE Selector
    BY InitHolds
  <2> QED
    BY DEF Init, Selector, ReportedHere, Here
<1>2. IInv /\ Backed /\ Selector /\ [Next]_vars => (IInv /\ Backed /\ Selector)'
  BY StepHolds, BackedKept, SelectorKept
<1>3. Selector => SelectorWasReported
  BY DEF Selector, SelectorWasReported, ReportedHere, Here, SavedOnly, BeingSaved
<1> QED
  BY <1>1, <1>2, <1>3, PTL DEF Spec
=============================================================================

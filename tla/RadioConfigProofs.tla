------------------------- MODULE RadioConfigProofs --------------------------
(***************************************************************************)
(* Theorems about the configuration of the radio, for any fields, values,  *)
(* slots, keys, tables and bounds: the sections of RadioConfig and its     *)
(* clock, and the channels of Channels.                                    *)
(***************************************************************************)
EXTENDS RadioConfig, Channels, WellFoundedInduction, TLAPS

-----------------------------------------------------------------------------
(* RadioConfig.                                                            *)

ClockStates ==
  [pc : {"idle", "begin", "sync", "zone", "write", "post"}, gen : Nat,
   on : 0..MaxOpened, ok : BOOLEAN]
Results == [gen : Nat, on : 0..MaxOpened, ok : BOOLEAN]

(* The types of the section and its copies, and of the clock.              *)
SectionTypes ==
  /\ device \in Section /\ copy \in Section /\ snapshot \in Section /\ rows \in Section
  /\ writer \in [Workers -> Writes]
  /\ message \in [Workers -> Section \cup {NoMessage}]
  /\ {overdue, unsure} \subseteq BOOLEAN
  /\ chosen \in 0..MaxChosen
ClockTypes ==
  /\ syncing \in BOOLEAN
  /\ clock \in ClockStates
  /\ syncGen \in Nat
  /\ results \in Seq(Results)
  /\ lastSync \in 0..MaxOpened

(* While the screen speaks of a link there is no other one.                *)
OneLink == shown # 0 => link \in {0, shown}

(* A worker of the current generation was started when the link that is    *)
(* still shown was, and takes no other one; what succeeds had a link.      *)
ClockIsOfThisLink ==
  clock.pc # "idle" =>
    /\ clock.gen <= syncGen
    /\ clock.ok => clock.on # 0
    /\ clock.gen = syncGen => shown # 0 /\ clock.on \in {0, shown}

(* So are its results.                                                     *)
ResultsAreOfThisLink ==
  \A i \in DOMAIN results :
    /\ results[i].gen <= syncGen
    /\ results[i].gen = syncGen /\ results[i].ok => results[i].on = shown

LinkPart == LinkTypeOK /\ OneLink
ClockPart == ClockTypes /\ ClockIsOfThisLink /\ ResultsAreOfThisLink
(* A write under way has a value, which an applied one was answered with,  *)
(* and once the section is copied a message.                               *)
Valued ==
  \A w \in Workers :
    writer[w].pc # "idle" =>
      /\ writer[w].value \in Values
      /\ writer[w].pc = "applied" => writer[w].got = writer[w].value
      /\ writer[w].pc = "copied" => message[w] \in Section

ConfigInv == LinkPart /\ SectionTypes /\ Valued /\ ClockPart

LEMMA TypesSplit == ConfigTypeOK <=> SectionTypes /\ ClockTypes
BY DEF ConfigTypeOK, SectionTypes, ClockTypes, ClockStates, Results

LEMMA WriteType ==
  ASSUME NEW pc \in {"idle", "begin", "staged", "copied", "asking", "applied", "failed"},
         NEW f \in Fields, NEW v \in Values \cup {NoValue}, NEW on \in 0..MaxOpened,
         NEW got \in Values \cup {NoValue}
  PROVE  Write(pc, f, v, on, got) \in Writes
BY DEF Write, Writes

LEMMA AdvanceType ==
  ASSUME SectionTypes, NEW w \in Workers,
         NEW pc \in {"idle", "begin", "staged", "copied", "asking", "applied", "failed"},
         NEW on \in 0..MaxOpened, NEW got \in Values \cup {NoValue},
         Advance(w, pc, on, got)
  PROVE  writer' \in [Workers -> Writes]
<1>1. writer[w].field \in Fields /\ writer[w].value \in Values \cup {NoValue}
  BY DEF SectionTypes, Writes
<1>2. Write(pc, writer[w].field, writer[w].value, on, got) \in Writes
  BY <1>1, WriteType
<1> QED BY <1>2 DEF Advance, SectionTypes

(* Steps of the link alone.                                                *)
LEMMA LinkSteps ==
  ASSUME LinkPart, OpenLink \/ ShowLink \/ LoseLink \/ CloseLink \/ HideLink
  PROVE  LinkPart'
<1> USE LinkAssumption DEF LinkPart, LinkTypeOK, OneLink
<1>1. CASE OpenLink
  <2>1. opened + 1 \in 0..MaxOpened
    BY <1>1 DEF OpenLink
  <2> QED BY <1>1, <2>1 DEF OpenLink
<1>2. CASE ShowLink
  BY <1>2 DEF ShowLink
<1>3. CASE LoseLink
  BY <1>3 DEF LoseLink
<1>4. CASE CloseLink
  <2>1. 0 \in 0..MaxOpened
    OBVIOUS
  <2> QED BY <1>4, <2>1 DEF CloseLink
<1>5. CASE HideLink
  <2>1. 0 \in 0..MaxOpened
    OBVIOUS
  <2> QED BY <1>5, <2>1 DEF HideLink
<1> QED BY <1>1, <1>2, <1>3, <1>4, <1>5

LEMMA LinkStays == ASSUME LinkPart, UNCHANGED linkVars PROVE LinkPart'
BY DEF LinkPart, LinkTypeOK, OneLink, linkVars

LEMMA ClockStays ==
  ASSUME ClockPart, UNCHANGED clockVars, UNCHANGED shown PROVE ClockPart'
BY DEF ClockPart, ClockTypes, ClockIsOfThisLink, ResultsAreOfThisLink, clockVars

-----------------------------------------------------------------------------
(* Writes.                                                                 *)

(* A section with one value replaced, and the value of a field.            *)
LEMMA SectionUpdate ==
  ASSUME NEW s \in Section, NEW f \in Fields, NEW v \in Values
  PROVE  [s EXCEPT ![f] = v] \in Section /\ s[f] \in Values
BY DEF Section

WriteSteps(w) ==
  \/ StageValue(w) \/ CopySection(w) \/ SendSection(w)
  \/ AnswerSection(w) \/ WriteApplied(w) \/ WriteFailed(w)

LEMMA WritesKeep ==
  ASSUME LinkTypeOK, SectionTypes, Valued, NEW w \in Workers, WriteSteps(w)
  PROVE  SectionTypes' /\ Valued' /\ UNCHANGED <<linkVars, clockVars>>
<1>1. /\ writer[w].field \in Fields /\ writer[w].got \in Values \cup {NoValue}
      /\ link \in 0..MaxOpened /\ 0 \in 0..MaxOpened
  BY LinkAssumption DEF SectionTypes, Writes, LinkTypeOK
<1>2. PICK pc \in {"staged", "copied", "asking", "applied", "failed"}, on \in 0..MaxOpened,
           got \in Values \cup {NoValue} : 
             /\ Advance(w, pc, on, got) /\ writer[w].pc # "idle"
             /\ pc = "applied" => got = writer[w].value
             /\ pc = "copied" => message'[w] \in Section
  <2>1. CASE StageValue(w)
    BY <1>1, <2>1 DEF StageValue
  <2>2. CASE SendSection(w)
    BY <1>1, <2>2 DEF SendSection
  <2>3. CASE AnswerSection(w)
    <3>1. answered_value(w) \in Values
      BY <1>1 DEF answered_value, SectionTypes, Section
    <3> QED BY <1>1, <2>3, <3>1 DEF AnswerSection
  <2>4. CASE WriteApplied(w)
    BY <1>1, <2>4 DEF WriteApplied
  <2>5. CASE WriteFailed(w)
    BY <1>1, <2>5 DEF WriteFailed
  <2>6. CASE CopySection(w)
    <3>1. writer[w].on \in 0..MaxOpened
      BY DEF SectionTypes, Writes
    <3>2. message'[w] \in Section
      BY <2>6 DEF CopySection, SectionTypes
    <3> QED BY <1>1, <2>6, <3>1, <3>2 DEF CopySection
  <2> QED BY <2>1, <2>2, <2>3, <2>4, <2>5, <2>6 DEF WriteSteps
<1>3. writer' \in [Workers -> Writes]
  BY <1>2, AdvanceType
<1>4. Valued'
  <2>1. writer[w].value \in Values
    BY <1>2 DEF Valued
  <2>2. \A u \in Workers \ {w} : message'[u] = message[u]
    BY DEF WriteSteps, StageValue, CopySection, SendSection, AnswerSection, WriteApplied,
           WriteFailed, SectionTypes
  <2>3. /\ writer'[w].pc = pc /\ writer'[w].got = got /\ writer'[w].value = writer[w].value
        /\ \A u \in Workers \ {w} : writer'[u] = writer[u]
    BY <1>2 DEF SectionTypes, Advance, Write
  <2> QED BY <1>2, <2>1, <2>2, <2>3 DEF Valued
<1>5. CASE StageValue(w)
  <2>1. writer[w].value \in Values
    BY <1>2 DEF Valued
  <2>2. copy' \in Section
    BY <1>1, <1>5, <2>1, SectionUpdate DEF StageValue, SectionTypes
  <2>3. unsure' \in BOOLEAN
    BY <1>5 DEF StageValue, SectionTypes
  <2> QED BY <1>3, <1>4, <1>5, <2>2, <2>3 DEF StageValue, SectionTypes
<1>6. CASE SendSection(w)
  <2>1. message' \in [Workers -> Section \cup {NoMessage}]
    BY <1>6 DEF SendSection, SectionTypes
  <2>2. device' \in Section /\ unsure' \in BOOLEAN
    <3>1. CASE Alive(writer[w].on)
      <4>1. message[w] \in Section
        BY <1>6 DEF SendSection, Valued
      <4>2. device' \in {device, message[w]} /\ unsure' = (unsure \/ Overtaken(w))
        BY <1>6, <3>1 DEF SendSection
      <4> QED BY <4>1, <4>2 DEF SectionTypes, Overtaken
    <3>2. CASE ~Alive(writer[w].on)
      BY <1>6, <3>2 DEF SendSection, SectionTypes
    <3> QED BY <3>1, <3>2
  <2> QED BY <1>3, <1>4, <1>6, <2>1, <2>2 DEF SendSection, SectionTypes
<1>7. CASE AnswerSection(w)
  BY <1>3, <1>4, <1>7 DEF AnswerSection, SectionTypes
<1>8. CASE WriteApplied(w)
  BY <1>3, <1>4, <1>8 DEF WriteApplied, SectionTypes
<1>9. CASE WriteFailed(w)
  <2>1. overdue' \in BOOLEAN /\ unsure' \in BOOLEAN
    BY <1>9 DEF WriteFailed, SectionTypes
  <2> QED BY <1>3, <1>4, <1>9, <2>1 DEF WriteFailed, SectionTypes
<1>10. CASE CopySection(w)
  <2>1. message' \in [Workers -> Section \cup {NoMessage}]
    BY <1>10 DEF CopySection, SectionTypes
  <2> QED BY <1>3, <1>4, <1>10, <2>1 DEF CopySection, SectionTypes
<1> QED BY <1>5, <1>6, <1>7, <1>8, <1>9, <1>10 DEF WriteSteps

LEMMA NoWriteType == NoWrite \in Writes /\ NoWrite.pc = "idle"
<1>1. 0 \in 0..MaxOpened
  BY LinkAssumption
<1> QED BY <1>1, ConfigAssumption DEF NoWrite, Write, Writes

LEMMA BegunType ==
  ASSUME NEW f \in Fields, NEW v \in Values
  PROVE  Begun(f, v) \in Writes /\ Begun(f, v).value = v /\ Begun(f, v).pc = "begin"
<1>1. 0 \in 0..MaxOpened
  BY LinkAssumption
<1> QED BY <1>1 DEF Begun, Write, Writes

(* A worker starts a write, or is done with one.                           *)
LEMMA WriterSet ==
  ASSUME SectionTypes, Valued, NEW w \in Workers, NEW new \in Writes, UNCHANGED message,
         new.pc = "idle" \/ (new.pc = "begin" /\ new.value \in Values), writer' = [writer EXCEPT ![w] = new]
  PROVE  writer' \in [Workers -> Writes] /\ Valued'
BY DEF SectionTypes, Valued

LEMMA SettingsKeep ==
  ASSUME SectionTypes, Valued, LinkTypeOK,
         AnswerLate \/ RadioSettingApplied \/ \E f \in Fields, v \in Values : ChooseValue(f, v)
  PROVE  SectionTypes' /\ Valued' /\ UNCHANGED <<linkVars, clockVars>>
<1>1. CASE AnswerLate
  BY <1>1 DEF AnswerLate, SectionTypes, Valued
<1>2. CASE RadioSettingApplied
  <2> DEFINE w == writer["setting"]
  <2>1. /\ w.pc \in {"applied", "failed"}
        /\ rows' = [rows EXCEPT ![w.field] = settled_value(w)]
        /\ writer' = [writer EXCEPT !["setting"] = NoWrite]
        /\ UNCHANGED <<linkVars, device, copy, snapshot, message, overdue, chosen, unsure, clockVars>>
    BY <1>2 DEF RadioSettingApplied
  <2>2. w \in Writes /\ "setting" \in Workers
    BY DEF SectionTypes, Workers
  <2>3. w.field \in Fields /\ (w.pc = "applied" => w.got \in Values)
    BY <2>1, <2>2 DEF Valued, Writes
  <2> HIDE DEF w
  <2>4. settled_value(w) \in Values
    BY <2>1, <2>3 DEF settled_value, SectionTypes, Section
  <2>5. rows' \in Section
    BY <2>1, <2>3, <2>4, SectionUpdate DEF SectionTypes
  <2>6. writer' \in [Workers -> Writes] /\ Valued'
    BY <2>1, <2>2, NoWriteType, WriterSet
  <2> QED BY <2>1, <2>5, <2>6 DEF SectionTypes
<1>3. ASSUME NEW f \in Fields, NEW v \in Values, ChooseValue(f, v)
      PROVE  SectionTypes' /\ Valued' /\ UNCHANGED <<linkVars, clockVars>>
  <2>1. rows' \in Section
    BY <1>3, SectionUpdate DEF ChooseValue, SectionTypes
  <2>2. chosen' \in 0..MaxChosen
    BY <1>3, ConfigAssumption DEF ChooseValue, SectionTypes
  <2>3. writer' \in [Workers -> Writes] /\ Valued'
    <3>1. CASE writer' = [writer EXCEPT !["setting"] = Begun(f, v)]
      BY <1>3, <3>1, BegunType, WriterSet DEF Workers, ChooseValue
    <3>2. CASE writer' = writer
      BY <1>3, <3>2 DEF SectionTypes, Valued, ChooseValue
    <3> QED BY <1>3, <3>1, <3>2 DEF ChooseValue
  <2>4. unsure' \in BOOLEAN
    BY <1>3 DEF ChooseValue, SectionTypes
  <2> QED BY <1>3, <2>1, <2>2, <2>3, <2>4 DEF ChooseValue, SectionTypes
<1> QED BY <1>1, <1>2, <1>3
-----------------------------------------------------------------------------
(* The clock.                                                              *)

LEMMA ClockType ==
  ASSUME NEW pc \in {"idle", "begin", "sync", "zone", "write", "post"}, NEW gen \in Nat,
         NEW on \in 0..MaxOpened, NEW ok \in BOOLEAN
  PROVE  /\ Clock(pc, gen, on, ok) \in ClockStates
         /\ Clock(pc, gen, on, ok).pc = pc /\ Clock(pc, gen, on, ok).gen = gen
         /\ Clock(pc, gen, on, ok).on = on /\ Clock(pc, gen, on, ok).ok = ok
BY DEF Clock, ClockStates

LEMMA NoClockType == NoClock \in ClockStates /\ NoClock.pc = "idle"
<1>1. 0 \in 0..MaxOpened
  BY LinkAssumption
<1> QED BY <1>1 DEF NoClock, Clock, ClockStates

(* The worker goes on with the link it took, or takes the one of now.      *)
LEMMA ClockMoves ==
  ASSUME LinkPart, ClockPart, NEW pc \in {"sync", "zone", "write", "post"},
         NEW on \in {clock.on, link}, NEW ok \in BOOLEAN, clock.pc # "idle",
         ok => on # 0, clock' = Clock(pc, clock.gen, on, ok),
         UNCHANGED <<linkVars, syncing, syncGen, results, lastSync>>
  PROVE  LinkPart' /\ ClockPart'
<1>1. clock.gen \in Nat /\ on \in 0..MaxOpened
  BY DEF ClockPart, ClockTypes, ClockStates, LinkPart, LinkTypeOK
<1>2. /\ clock' \in ClockStates
      /\ clock'.gen = clock.gen /\ clock'.on = on /\ clock'.ok = ok
  BY <1>1, ClockType
<1>3. ClockTypes'
  BY <1>2 DEF ClockPart, ClockTypes
<1>4. ClockIsOfThisLink'
  BY <1>2 DEF ClockPart, ClockIsOfThisLink, LinkPart, OneLink, linkVars
<1>5. ResultsAreOfThisLink'
  BY DEF ClockPart, ResultsAreOfThisLink, linkVars
<1> QED BY <1>3, <1>4, <1>5, LinkStays DEF ClockPart

LEMMA SetTimeKeeps == ASSUME LinkPart, ClockPart, SetTime PROVE LinkPart' /\ ClockPart'
<1>1. UNCHANGED <<linkVars, syncing, syncGen, results, lastSync>>
  BY DEF SetTime
<1>2. CASE clock.pc = "begin" /\ clock' = Clock("sync", clock.gen, link, FALSE)
  BY <1>1, <1>2, ClockMoves
<1>3. ASSUME clock.pc = "sync", NEW ok \in BOOLEAN, ok => Alive(clock.on),
             clock' = Clock("zone", clock.gen, clock.on, ok)
      PROVE  LinkPart' /\ ClockPart'
  BY <1>1, <1>3, ClockMoves DEF Alive
<1> QED BY <1>2, <1>3 DEF SetTime

LEMMA ClockOk == ASSUME ClockPart, clock.pc # "idle"
                 PROVE  clock.ok \in BOOLEAN /\ (clock.ok => clock.on # 0)
BY DEF ClockPart, ClockTypes, ClockStates, ClockIsOfThisLink

LEMMA SetZoneKeeps ==
  ASSUME ConfigInv, SetZone PROVE ConfigInv'
<1> USE DEF ConfigInv
<1>1. /\ clock.pc = "zone"
      /\ UNCHANGED <<linkVars, device, copy, snapshot, message, overdue, rows, chosen, unsure,
                     syncing, syncGen, results, lastSync>>
  BY DEF SetZone
<1>2. \/ /\ writer' = [writer EXCEPT !["clock"] = Begun(TzField, HostTz)]
         /\ clock' = Clock("write", clock.gen, clock.on, clock.ok)
      \/ /\ UNCHANGED writer
         /\ clock' = Clock("post", clock.gen, clock.on, clock.ok)
  BY DEF SetZone
<1>3. LinkPart' /\ ClockPart'
  BY <1>1, <1>2, ClockOk, ClockMoves
<1>4. writer' \in [Workers -> Writes] /\ Valued'
  <2>1. CASE writer' = [writer EXCEPT !["clock"] = Begun(TzField, HostTz)]
    BY <1>1, <2>1, BegunType, ConfigAssumption, WriterSet DEF Workers
  <2>2. CASE UNCHANGED writer
    BY <1>1, <2>2 DEF SectionTypes, Valued
  <2> QED BY <1>2, <2>1, <2>2
<1>5. SectionTypes'
  BY <1>1, <1>4 DEF SectionTypes
<1> QED BY <1>3, <1>4, <1>5

LEMMA ZoneWrittenKeeps ==
  ASSUME ConfigInv, ZoneWritten PROVE ConfigInv'
<1> USE DEF ConfigInv
<1>1. /\ clock.pc = "write"
      /\ rows' \in {rendered, rows}
      /\ writer' = [writer EXCEPT !["clock"] = NoWrite]
      /\ clock' = Clock("post", clock.gen, clock.on, clock.ok)
      /\ UNCHANGED <<linkVars, device, copy, snapshot, message, overdue, chosen, unsure,
                     syncing, syncGen, results, lastSync>>
  BY DEF ZoneWritten
<1>2. LinkPart' /\ ClockPart'
  BY <1>1, ClockOk, ClockMoves
<1>3. writer' \in [Workers -> Writes] /\ Valued'
  BY <1>1, NoWriteType, WriterSet DEF Workers
<1>4. rendered \in Section
  BY DEF rendered, SectionTypes, Section
<1>5. SectionTypes'
  BY <1>1, <1>3, <1>4 DEF SectionTypes
<1> QED BY <1>2, <1>3, <1>5

LEMMA PostKeeps == ASSUME LinkPart, ClockPart, PostResult PROVE LinkPart' /\ ClockPart'
<1> DEFINE r == [gen |-> clock.gen, on |-> clock.on, ok |-> clock.ok]
<1>1. /\ clock.pc = "post" /\ results' = Append(results, r) /\ clock' = NoClock
      /\ UNCHANGED <<linkVars, syncing, syncGen, lastSync>>
  BY DEF PostResult
<1>2. /\ r \in Results /\ r.gen <= syncGen
      /\ r.gen = syncGen /\ r.ok => r.on = shown
  BY <1>1 DEF ClockPart, ClockTypes, ClockStates, ClockIsOfThisLink, Results
<1> HIDE DEF r
<1>3. ClockTypes' /\ ClockIsOfThisLink'
  BY <1>1, <1>2, NoClockType DEF ClockPart, ClockTypes, ClockIsOfThisLink
<1>4. ResultsAreOfThisLink'
  <2> SUFFICES ASSUME NEW i \in DOMAIN results'
               PROVE  /\ results'[i].gen <= syncGen
                      /\ results'[i].gen = syncGen /\ results'[i].ok => results'[i].on = shown
    BY <1>1 DEF ResultsAreOfThisLink, linkVars
  <2>1. \/ i \in DOMAIN results /\ results'[i] = results[i]
        \/ results'[i] = r
    BY <1>1, <1>2 DEF ClockPart, ClockTypes
  <2> QED BY <1>2, <2>1 DEF ClockPart, ResultsAreOfThisLink
<1> QED BY <1>1, <1>3, <1>4, LinkStays DEF ClockPart

LEMMA AppliedKeeps ==
  ASSUME LinkPart, ClockPart, ClockSyncApplied
  PROVE  LinkPart' /\ ClockPart' /\ (lastSync' # lastSync => lastSync' = shown)
<1> DEFINE r == results[1]
<1>1. /\ results \in Seq(Results) /\ results # <<>> /\ Head(results) = r
      /\ results' = Tail(results) /\ UNCHANGED <<linkVars, clock, syncGen>>
  BY DEF ClockSyncApplied, ClockPart, ClockTypes
<1>2. /\ 1 \in DOMAIN results /\ r \in Results
      /\ \A i \in DOMAIN results' : i + 1 \in DOMAIN results /\ results'[i] = results[i + 1]
      /\ results' \in Seq(Results)
  BY <1>1
<1>3. r.gen = syncGen /\ r.ok => r.on = shown
  BY <1>2 DEF ClockPart, ResultsAreOfThisLink
<1>4. IF r.gen = syncGen
      THEN syncing' = FALSE /\ lastSync' = IF r.ok THEN r.on ELSE lastSync
      ELSE UNCHANGED <<syncing, lastSync>>
  BY <1>1 DEF ClockSyncApplied, is_current
<1> HIDE DEF r
<1>5. lastSync' # lastSync => lastSync' = shown
  BY <1>3, <1>4
<1>6. ClockTypes'
  BY <1>1, <1>2, <1>4 DEF ClockPart, ClockTypes, Results
<1>7. ClockIsOfThisLink'
  BY <1>1 DEF ClockPart, ClockIsOfThisLink, linkVars
<1>8. ResultsAreOfThisLink'
  BY <1>1, <1>2 DEF ClockPart, ResultsAreOfThisLink, linkVars
<1> QED BY <1>1, <1>5, <1>6, <1>7, <1>8, LinkStays DEF ClockPart

-----------------------------------------------------------------------------
(* The link.                                                               *)

LEMMA OpenKeeps == ASSUME ConfigInv, ConfigOpen PROVE ConfigInv'
<1> USE DEF ConfigInv
<1>1. /\ OpenLink /\ device' \in Sections /\ copy' = device' /\ snapshot' = device'
      /\ overdue' = FALSE /\ unsure' = FALSE /\ UNCHANGED <<writer, message, rows, chosen, clockVars>>
  BY DEF ConfigOpen
<1>2. SectionTypes' /\ Valued'
  BY <1>1, ConfigAssumption DEF SectionTypes, Valued, Section
<1>3. LinkPart' /\ ClockPart'
  BY <1>1, LinkSteps, ClockStays DEF OpenLink
<1> QED BY <1>2, <1>3

LEMMA ResultGen ==
  ASSUME ClockPart, NEW i \in DOMAIN results
  PROVE  results[i].gen \in Nat /\ syncGen \in Nat /\ results[i].gen <= syncGen
<1>1. results \in Seq(Results) /\ syncGen \in Nat
  BY DEF ClockPart, ClockTypes
<1>2. results[i] \in Results
  BY <1>1
<1> QED BY <1>1, <1>2 DEF ClockPart, Results, ResultsAreOfThisLink

(* A new generation: what was begun before is none of this link.           *)
LEMMA NewGeneration ==
  ASSUME ClockPart, NEW k \in {1, 2}, syncGen' = syncGen + k, UNCHANGED <<clock, results, lastSync>>,
         syncing' \in BOOLEAN
  PROVE  ClockPart'
<1>1. ClockTypes'
  BY DEF ClockPart, ClockTypes
<1>2. ClockIsOfThisLink'
  BY DEF ClockPart, ClockTypes, ClockStates, ClockIsOfThisLink
<1>3. ResultsAreOfThisLink'
  <2> SUFFICES ASSUME NEW i \in DOMAIN results
               PROVE  results[i].gen <= syncGen + k /\ results[i].gen # syncGen + k
    BY DEF ResultsAreOfThisLink
  <2>1. results[i].gen \in Nat /\ syncGen \in Nat /\ results[i].gen <= syncGen
    BY ResultGen
  <2> QED BY <2>1
<1> QED BY <1>1, <1>2, <1>3 DEF ClockPart

LEMMA ShowKeeps == ASSUME ConfigInv, ConfigShow PROVE ConfigInv'
<1> USE DEF ConfigInv
<1>1. /\ ShowLink /\ rows' = rendered /\ syncing' = TRUE /\ syncGen' = syncGen + 2
      /\ clock' = IF clock.pc = "idle" THEN Clock("begin", syncGen', 0, FALSE) ELSE clock
      /\ UNCHANGED <<device, copy, snapshot, writer, message, overdue, chosen, unsure, results, lastSync>>
  BY DEF ConfigShow
<1>2. rendered \in Section
  BY DEF rendered, SectionTypes, Section
<1>3. SectionTypes' /\ Valued'
  BY <1>1, <1>2 DEF SectionTypes, Valued
<1>4. LinkPart'
  BY <1>1, LinkSteps
<1>5. CASE clock.pc # "idle"
  BY <1>1, <1>3, <1>4, <1>5, NewGeneration
<1>6. CASE clock.pc = "idle"
  <2>1. syncGen' \in Nat /\ 0 \in 0..MaxOpened
    BY <1>1, LinkAssumption DEF ClockPart, ClockTypes
  <2>2. /\ clock' \in ClockStates /\ clock'.gen = syncGen' /\ clock'.on = 0 /\ clock'.ok = FALSE
    <3>1. PICK g \in Nat : g = syncGen'
      BY <2>1
    <3>2. clock' = Clock("begin", g, 0, FALSE)
      BY <1>1, <1>6, <3>1
    <3> QED BY <2>1, <3>1, <3>2 DEF Clock, ClockStates
  <2>3. ClockTypes'
    BY <1>1, <2>1, <2>2 DEF ClockPart, ClockTypes
  <2>4. ClockIsOfThisLink'
    <3>1. shown' # 0
      BY <1>1 DEF ShowLink
    <3> QED BY <2>1, <2>2, <3>1 DEF ClockIsOfThisLink
  <2>5. ResultsAreOfThisLink'
    <3> SUFFICES ASSUME NEW i \in DOMAIN results
                 PROVE  results[i].gen <= syncGen + 2 /\ results[i].gen # syncGen + 2
      BY <1>1 DEF ResultsAreOfThisLink
    <3>1. results[i].gen \in Nat /\ syncGen \in Nat /\ results[i].gen <= syncGen
      BY ResultGen
    <3> QED BY <3>1
  <2> QED BY <1>3, <1>4, <2>3, <2>4, <2>5 DEF ClockPart
<1> QED BY <1>5, <1>6

LEMMA HideKeeps == ASSUME ConfigInv, ConfigHide PROVE ConfigInv'
<1> USE DEF ConfigInv
<1>1. /\ HideLink /\ syncing' = FALSE /\ syncGen' = syncGen + 1
      /\ UNCHANGED <<device, copy, snapshot, writer, message, overdue, rows, chosen, unsure,
                     clock, results, lastSync>>
  BY DEF ConfigHide
<1>2. SectionTypes' /\ Valued'
  BY <1>1 DEF SectionTypes, Valued
<1> QED BY <1>1, <1>2, LinkSteps, NewGeneration

-----------------------------------------------------------------------------
LEMMA InitHolds == LinkInit /\ ConfigInit => ConfigInv
<1> SUFFICES ASSUME LinkInit, ConfigInit PROVE ConfigInv
  OBVIOUS
<1>0. 0 \in 0..MaxOpened
  BY LinkAssumption
<1>1. LinkPart
  BY <1>0, LinkAssumption DEF LinkInit, LinkPart, LinkTypeOK, OneLink
<1>2. SectionTypes /\ Valued
  <2>1. device \in Section /\ copy \in Section /\ snapshot \in Section /\ rows \in Section
    BY ConfigAssumption DEF ConfigInit, Section
  <2>2. writer \in [Workers -> Writes] /\ message \in [Workers -> Section \cup {NoMessage}]
    BY NoWriteType DEF ConfigInit
  <2>3. Valued
    BY NoWriteType DEF ConfigInit, Valued
  <2>4. chosen \in 0..MaxChosen
    BY ConfigAssumption DEF ConfigInit
  <2> QED BY <2>1, <2>2, <2>3, <2>4 DEF ConfigInit, SectionTypes
<1>3. ClockPart
  <2>1. ClockTypes
    <3>1. <<>> \in Seq(Results)
      OBVIOUS
    <3> QED BY <1>0, <3>1, NoClockType DEF ConfigInit, ClockTypes
  <2>2. ClockIsOfThisLink
    BY NoClockType DEF ConfigInit, ClockIsOfThisLink
  <2>3. ResultsAreOfThisLink
    BY DEF ConfigInit, ResultsAreOfThisLink
  <2> QED BY <2>1, <2>2, <2>3 DEF ClockPart
<1> QED BY <1>1, <1>2, <1>3 DEF ConfigInv

SyncStep == lastSync' # lastSync => lastSync' = shown

LEMMA StepHolds == ConfigInv /\ [ConfigNext]_<<linkVars, configVars>> => ConfigInv' /\ SyncStep
<1> SUFFICES ASSUME ConfigInv, [ConfigNext]_<<linkVars, configVars>>
             PROVE  ConfigInv' /\ SyncStep
  OBVIOUS
<1> USE DEF ConfigInv
<1>1. ASSUME SectionTypes', Valued', UNCHANGED <<linkVars, clockVars>>
      PROVE  ConfigInv' /\ SyncStep
  BY <1>1, LinkStays, ClockStays DEF linkVars, clockVars, SyncStep
<1>2. ASSUME NEW w \in Workers, WriteSteps(w) PROVE ConfigInv' /\ SyncStep
  BY <1>1, <1>2, WritesKeep DEF LinkPart
<1>3. CASE AnswerLate \/ RadioSettingApplied \/ \E f \in Fields, v \in Values : ChooseValue(f, v)
  BY <1>1, <1>3, SettingsKeep DEF LinkPart
<1>4. ASSUME LinkPart', ClockPart', UNCHANGED <<device, copy, snapshot, writer, message, overdue, rows,
                                              chosen, unsure>>
      PROVE  ConfigInv'
  BY <1>4 DEF SectionTypes, Valued
<1>5. CASE SetTime
  BY <1>4, <1>5, SetTimeKeeps DEF SetTime, SyncStep
<1>6. CASE SetZone
  BY <1>6, SetZoneKeeps DEF SetZone, SyncStep
<1>7. CASE ZoneWritten
  BY <1>7, ZoneWrittenKeeps DEF ZoneWritten, SyncStep
<1>8. CASE PostResult
  BY <1>4, <1>8, PostKeeps DEF PostResult, SyncStep
<1>9. CASE ClockSyncApplied
  <2>1. UNCHANGED <<device, copy, snapshot, writer, message, overdue, rows, chosen, unsure>>
    BY <1>9 DEF ClockSyncApplied
  <2> QED BY <1>4, <1>9, <2>1, AppliedKeeps DEF SyncStep
<1>10. CASE ConfigOpen
  BY <1>10, OpenKeeps DEF ConfigOpen, clockVars, SyncStep
<1>11. CASE ConfigShow
  BY <1>11, ShowKeeps DEF ConfigShow, SyncStep
<1>12. CASE ConfigHide
  BY <1>12, HideKeeps DEF ConfigHide, SyncStep
<1>13. CASE (LoseLink \/ CloseLink) /\ UNCHANGED configVars
  <2>1. SectionTypes' /\ Valued' /\ UNCHANGED clockVars
    BY <1>13 DEF configVars, clockVars, SectionTypes, Valued
  <2>2. UNCHANGED shown
    BY <1>13 DEF LoseLink, CloseLink
  <2> QED BY <1>13, <2>1, <2>2, LinkSteps, ClockStays DEF SyncStep, clockVars
<1>14. CASE UNCHANGED <<linkVars, configVars>>
  BY <1>1, <1>14 DEF configVars, clockVars, SectionTypes, Valued
<1> QED BY <1>2, <1>3, <1>5, <1>6, <1>7, <1>8, <1>9, <1>10, <1>11, <1>12, <1>13, <1>14
     DEF ConfigNext, WriteSteps

(* Types hold.                                                             *)
THEOREM ConfigTypeCorrect == ConfigSpec => []ConfigTypeOK
<1>1. ConfigInv => ConfigTypeOK
  BY TypesSplit DEF ConfigInv, ClockPart
<1> QED BY <1>1, InitHolds, StepHolds, PTL DEF ConfigSpec

(* However late a result is and however long a sync was stuck, the clock   *)
(* counts as synced by a sync of the link that is shown.                   *)
THEOREM SyncsAreOfThisLink == ConfigSpec => SyncIsOfThisLink
<1>1. ConfigSpec => [][SyncStep]_configVars
  <2>1. ConfigInv /\ [ConfigNext]_<<linkVars, configVars>> => [SyncStep]_configVars
    BY StepHolds
  <2> QED BY <2>1, InitHolds, StepHolds, PTL DEF ConfigSpec
<1> QED BY <1>1 DEF SyncStep, SyncIsOfThisLink

-----------------------------------------------------------------------------
(* The rows.  On a live link where nothing failed yet, whatever differs    *)
(* from the radio is what a write that is still under way will settle.     *)

Live == link # 0 /\ ~lost /\ ~unsure

(* The write is of this link, and not decided.                             *)
Active(w) == writer[w].pc \in {"staged", "copied", "asking"} /\ writer[w].on = link
Holds(w, f) == Active(w) /\ writer[w].field = f

CopyBacked == \A f \in Fields : copy[f] # device[f] => \E w \in Workers : Holds(w, f)
SnapshotBacked ==
  snapshot[TzField] # device[TzField] => \E w \in Workers : Holds(w, TzField)

(* An answer that confirms a value, and an applied one, are what the radio *)
(* and the copy go on having.                                              *)
Confirmed(w) ==
  \/ Active(w) /\ writer[w].pc = "asking" /\ writer[w].got = writer[w].value
  \/ writer[w].pc = "applied"
ConfirmedStays ==
  \A w \in Workers : Confirmed(w) =>
    /\ device[writer[w].field] = writer[w].value
    /\ copy[writer[w].field] = writer[w].value

(* No two workers have one field, unless one has not begun.                *)
Apart ==
  \A u, w \in Workers :
    u # w /\ Active(u) /\ writer[w].pc \notin {"idle", "begin"}
      => writer[w].field # writer[u].field

Backed == Live => CopyBacked /\ SnapshotBacked /\ ConfirmedStays /\ Apart

(* The row of a field is due to be settled.                                *)
Due(f) ==
  \/ writer["setting"].pc # "idle" /\ writer["setting"].field = f
  \/ writer["clock"].field = f /\ (Active("clock") \/ writer["clock"].pc = "applied")
RowsBacked ==
  Live /\ shown = link => \A f \in Fields : rows[f] # device[f] => Due(f)

(* Links are numbered; the clock's write is part of its work.              *)
Numbered ==
  /\ link <= opened
  /\ \A w \in Workers : writer[w].on <= opened
ClockWrites == clock.pc # "write" => writer["clock"].pc = "idle"

RowsInv == ConfigInv /\ Backed /\ RowsBacked /\ Numbered /\ ClockWrites

(* What a step of a write does to the records of the workers.              *)
LEMMA Advanced ==
  ASSUME SectionTypes, NEW w \in Workers, NEW pc, NEW on, NEW got, Advance(w, pc, on, got)
  PROVE  /\ writer'[w].pc = pc /\ writer'[w].on = on /\ writer'[w].got = got
         /\ writer'[w].field = writer[w].field /\ writer'[w].value = writer[w].value
         /\ \A u \in Workers \ {w} : writer'[u] = writer[u]
BY DEF SectionTypes, Advance, Write

(* A write that is under way keeps its field due.                          *)
LEMMA HoldsIsDue == ASSUME NEW w \in Workers, NEW f, Holds(w, f) PROVE Due(f)
BY DEF Holds, Active, Due, Workers

LEMMA DueStays ==
  ASSUME NEW f, Due(f), UNCHANGED link,
         writer'["setting"].field = writer["setting"].field,
         writer'["clock"].field = writer["clock"].field,
         writer["setting"].pc # "idle" => writer'["setting"].pc # "idle",
         Active("clock") \/ writer["clock"].pc = "applied"
           => Active("clock")' \/ writer'["clock"].pc = "applied"
  PROVE  Due(f)'
BY DEF Due

LEMMA StageBacked ==
  ASSUME ConfigInv, Backed, RowsBacked, NEW w \in Workers, StageValue(w)
  PROVE  Backed' /\ RowsBacked'
<1> SUFFICES ASSUME Live'
             PROVE  /\ CopyBacked' /\ SnapshotBacked' /\ ConfirmedStays' /\ Apart'
                    /\ RowsBacked'
  BY DEF Backed, RowsBacked
<1> DEFINE f == writer[w].field
<1>1. /\ link # 0 /\ ~unsure /\ ~Contended(w) /\ ~lost
      /\ UNCHANGED <<link, lost, shown, device, snapshot, rows>>
  BY DEF Live, StageValue, linkVars
<1>2. /\ writer[w].pc = "begin" /\ copy' = [copy EXCEPT ![f] = writer[w].value]
      /\ Advance(w, "staged", link, NoValue)
  BY <1>1 DEF StageValue
<1>3. /\ writer'[w].pc = "staged" /\ writer'[w].on = link /\ writer'[w].field = f
      /\ \A u \in Workers \ {w} : writer'[u] = writer[u]
  BY <1>2, Advanced DEF ConfigInv
<1>4. \A u \in Workers \ {w} : writer[u].pc # "idle" => writer[u].field # f
  BY <1>1 DEF Contended
<1>5. Live /\ CopyBacked /\ SnapshotBacked /\ ConfirmedStays /\ Apart
  BY <1>1 DEF Live, Backed
<1>6. Active(w)'
  BY <1>1, <1>3 DEF Active
<1>7. \A u \in Workers : Active(u) => Active(u)' /\ writer'[u].field = writer[u].field
  BY <1>1, <1>2, <1>3 DEF Active
<1>8. f \in Fields /\ copy \in [Fields -> Values]
  BY DEF ConfigInv, SectionTypes, Writes, Section
<1> HIDE DEF f
<1>9. CopyBacked'
  <2> SUFFICES ASSUME NEW g \in Fields, copy'[g] # device'[g]
               PROVE  \E u \in Workers : Holds(u, g)'
    BY DEF CopyBacked
  <2>1. CASE g = f
    BY <1>3, <1>6, <2>1 DEF Holds
  <2>2. CASE g # f
    <3>1. copy'[g] = copy[g] /\ device'[g] = device[g]
      BY <1>1, <1>2, <1>8, <2>2
    <3>2. PICK u \in Workers : Holds(u, g)
      BY <1>5, <3>1 DEF CopyBacked
    <3> QED BY <1>7, <3>2 DEF Holds
  <2> QED BY <2>1, <2>2
<1>10. SnapshotBacked'
  BY <1>1, <1>5, <1>7 DEF SnapshotBacked, Holds
<1>11. ConfirmedStays'
  <2> SUFFICES ASSUME NEW u \in Workers, Confirmed(u)'
               PROVE  /\ device'[writer'[u].field] = writer'[u].value
                      /\ copy'[writer'[u].field] = writer'[u].value
    BY DEF ConfirmedStays
  <2>1. u # w
    BY <1>3 DEF Confirmed
  <2>2. writer'[u] = writer[u] /\ Confirmed(u) /\ writer[u].pc # "idle"
    BY <1>1, <1>3, <2>1 DEF Confirmed, Active
  <2>3. writer[u].field # f /\ writer[u].field \in Fields
    BY <1>4, <2>1, <2>2 DEF ConfigInv, SectionTypes, Writes
  <2> QED BY <1>1, <1>2, <1>5, <1>8, <2>2, <2>3 DEF ConfirmedStays
<1>12. Apart'
  BY <1>1, <1>3, <1>4, <1>5 DEF Apart, Active
<1>13. RowsBacked'
  <2>1. \A g \in Fields : Due(g) => Due(g)'
    <3> SUFFICES ASSUME NEW g \in Fields, Due(g) PROVE Due(g)'
      OBVIOUS
    <3>1. CASE writer["setting"].pc # "idle" /\ writer["setting"].field = g
      <4>1. writer'["setting"].pc # "idle" /\ writer'["setting"].field = g
        BY <1>3, <3>1 DEF f, Workers
      <4> QED BY <4>1 DEF Due
    <3>2. CASE writer["clock"].field = g /\ (Active("clock") \/ writer["clock"].pc = "applied")
      <4>1. w # "clock"
        BY <1>2, <3>2 DEF Active
      <4>2. writer'["clock"] = writer["clock"]
        BY <1>3, <4>1 DEF Workers
      <4> QED BY <1>1, <3>2, <4>2 DEF Due, Active
    <3> QED BY <3>1, <3>2 DEF Due
  <2> QED BY <1>1, <1>5, <2>1 DEF RowsBacked
<1> QED BY <1>9, <1>10, <1>11, <1>12, <1>13

(* A write of an earlier link ends.                                        *)
LEMMA StaleBacked ==
  ASSUME ConfigInv, Backed, RowsBacked, NEW w \in Workers, Live, ~Active(w),
         writer[w].pc \in {"staged", "copied", "asking"}, Advance(w, "failed", 0, NoValue),
         UNCHANGED <<link, lost, unsure, shown, device, copy, snapshot, rows>>
  PROVE  Backed' /\ RowsBacked'
<1>1. /\ writer'[w].pc = "failed" /\ writer'[w].on = 0 /\ writer'[w].field = writer[w].field
      /\ \A u \in Workers \ {w} : writer'[u] = writer[u]
  BY Advanced DEF ConfigInv
<1>2. CopyBacked /\ SnapshotBacked /\ ConfirmedStays /\ Apart
  BY DEF Backed
<1>3. \A u \in Workers : /\ Active(u)' <=> Active(u)
                         /\ writer'[u].field = writer[u].field
                         /\ Active(u) => u # w
  BY <1>1 DEF Active
<1>4. CopyBacked' /\ SnapshotBacked'
  BY <1>2, <1>3 DEF CopyBacked, SnapshotBacked, Holds
<1>5. ConfirmedStays'
  <2> SUFFICES ASSUME NEW u \in Workers, Confirmed(u)'
               PROVE  /\ device'[writer'[u].field] = writer'[u].value
                      /\ copy'[writer'[u].field] = writer'[u].value
    BY DEF ConfirmedStays
  <2>1. u # w
    BY <1>1 DEF Confirmed
  <2> QED BY <1>1, <1>2, <2>1 DEF ConfirmedStays, Confirmed, Active
<1>6. Apart'
  BY <1>1, <1>2, <1>3 DEF Apart
<1>7. RowsBacked'
  <2>1. \A f \in Fields : Due(f) => Due(f)'
    BY <1>1, <1>3, DueStays DEF Workers
  <2> QED BY <2>1 DEF RowsBacked, Live
<1> QED BY <1>4, <1>5, <1>6, <1>7 DEF Backed

(* A write of this link goes on, the others stay.                          *)
LEMMA GoesOn ==
  ASSUME ConfigInv, NEW w \in Workers, Active(w), UNCHANGED link, NEW got,
         NEW pc \in {"copied", "asking"}, Advance(w, pc, link, got)
  PROVE  /\ writer'[w].pc = pc /\ writer'[w].got = got
         /\ writer'[w].value = writer[w].value
         /\ \A u \in Workers \ {w} : writer'[u] = writer[u]
         /\ \A u \in Workers : /\ Active(u)' <=> Active(u)
                               /\ writer'[u].field = writer[u].field
                               /\ writer'[u].pc \in {"idle", "begin"}
                                    <=> writer[u].pc \in {"idle", "begin"}
                               /\ writer'[u].pc = "applied" <=> writer[u].pc = "applied"
<1>1. /\ writer'[w].pc = pc /\ writer'[w].on = link /\ writer'[w].got = got
      /\ writer'[w].field = writer[w].field /\ writer'[w].value = writer[w].value
      /\ \A u \in Workers \ {w} : writer'[u] = writer[u]
  BY Advanced DEF ConfigInv
<1> QED BY <1>1 DEF Active

(* The section is copied: nothing else changes, unless the link is gone.   *)
LEMMA CopyStepBacked ==
  ASSUME ConfigInv, Backed, RowsBacked, NEW w \in Workers, CopySection(w)
  PROVE  Backed' /\ RowsBacked'
<1> SUFFICES ASSUME Live'
             PROVE  Backed' /\ RowsBacked'
  BY DEF Backed, RowsBacked
<1>1. /\ writer[w].pc = "staged" /\ Live /\ Advance(w, "copied", writer[w].on, NoValue)
      /\ UNCHANGED <<link, lost, unsure, shown, device, copy, snapshot, rows>>
  BY DEF CopySection, linkVars, Live
<1>2. /\ writer'[w].pc = "copied" /\ writer'[w].on = writer[w].on
      /\ writer'[w].field = writer[w].field
      /\ writer'[w].value = writer[w].value
      /\ \A u \in Workers \ {w} : writer'[u] = writer[u]
  BY <1>1, Advanced DEF ConfigInv
<1>3. \A u \in Workers : /\ Active(u)' <=> Active(u)
                         /\ writer'[u].field = writer[u].field
                         /\ writer'[u].pc \in {"idle", "begin"}
                              <=> writer[u].pc \in {"idle", "begin"}
                         /\ writer'[u].pc = "applied" <=> writer[u].pc = "applied"
  BY <1>1, <1>2 DEF Active
<1>4. CopyBacked /\ SnapshotBacked /\ ConfirmedStays /\ Apart
  BY <1>1 DEF Backed
<1>5. CopyBacked' /\ SnapshotBacked'
  BY <1>1, <1>3, <1>4 DEF CopyBacked, SnapshotBacked, Holds
<1>6. ConfirmedStays'
  <2> SUFFICES ASSUME NEW u \in Workers, Confirmed(u)'
               PROVE  /\ device[writer'[u].field] = writer'[u].value
                      /\ copy[writer'[u].field] = writer'[u].value
    BY <1>1 DEF ConfirmedStays
  <2>1. u # w
    BY <1>2 DEF Confirmed
  <2>2. Confirmed(u) /\ writer'[u] = writer[u]
    BY <1>1, <1>2, <1>3, <2>1 DEF Confirmed
  <2> QED BY <1>4, <2>2 DEF ConfirmedStays
<1>7. Apart'
  BY <1>3, <1>4 DEF Apart
<1>8. RowsBacked'
  <2>1. \A f \in Fields : Due(f) => Due(f)'
    BY <1>1, <1>2, <1>3, DueStays DEF Workers
  <2> QED BY <1>1, <2>1 DEF RowsBacked, Live
<1> QED BY <1>5, <1>6, <1>7, <1>8 DEF Backed

(* What a message that was not overtaken brings to the radio is what the   *)
(* copy has, but for the field of the write itself.                        *)
LEMMA SendBacked ==
  ASSUME ConfigInv, Backed, RowsBacked, NEW w \in Workers, SendSection(w)
  PROVE  Backed' /\ RowsBacked'
<1> SUFFICES ASSUME Live'
             PROVE  Backed' /\ RowsBacked'
  BY DEF Backed, RowsBacked
<1>1. /\ writer[w].pc = "copied"
      /\ UNCHANGED <<link, lost, shown, copy, snapshot, rows>>
  BY DEF SendSection, linkVars
<1>2. CASE ~Alive(writer[w].on)
  <2>1. device' = device /\ Advance(w, "failed", 0, NoValue) /\ UNCHANGED unsure
    BY <1>2 DEF SendSection
  <2>2. Live
    BY <1>1, <2>1 DEF Live
  <2>3. ~Active(w)
    BY <1>1, <1>2, <2>2 DEF Active, Alive, Live
  <2> QED BY <1>1, <2>1, <2>2, <2>3, StaleBacked
<1>3. CASE Alive(writer[w].on)
  <2> DEFINE own == writer[w].field
  <2>0. /\ device' \in {device, message[w]} /\ Advance(w, "asking", link, NoValue)
        /\ unsure' = (unsure \/ Overtaken(w))
    BY <1>3 DEF SendSection
  <2>1. Active(w) /\ Live /\ ~Overtaken(w) /\ unsure' = unsure
    BY <1>1, <1>3, <2>0 DEF Active, Alive, Live, ConfigInv, SectionTypes
  <2>2. /\ writer'[w].pc = "asking" /\ writer'[w].got = NoValue
        /\ writer'[w].value = writer[w].value
        /\ \A u \in Workers \ {w} : writer'[u] = writer[u]
        /\ \A u \in Workers : /\ Active(u)' <=> Active(u)
                              /\ writer'[u].field = writer[u].field
                              /\ writer'[u].pc \in {"idle", "begin"}
                                   <=> writer[u].pc \in {"idle", "begin"}
                              /\ writer'[u].pc = "applied" <=> writer[u].pc = "applied"
    BY <1>1, <2>0, <2>1, GoesOn
  <2>3. CopyBacked /\ SnapshotBacked /\ ConfirmedStays /\ Apart
    BY <2>1 DEF Backed
  <2>4. \A f \in Fields : f = own => Holds(w, f) /\ Holds(w, f)'
    BY <2>1, <2>2 DEF Holds
  <2>5. \A f \in Fields : f = own \/ device'[f] = device[f] \/ device'[f] = copy[f]
    BY <2>0, <2>1 DEF Overtaken
  <2>6. \A f \in Fields : (\E u \in Workers : Holds(u, f)) => \E u \in Workers : Holds(u, f)'
    BY <2>2 DEF Holds
  <2> HIDE DEF own
  <2>7. CopyBacked'
    <3> SUFFICES ASSUME NEW f \in Fields, copy[f] # device'[f]
                 PROVE  \E u \in Workers : Holds(u, f)'
      BY <1>1 DEF CopyBacked
    <3>1. CASE f = own
      BY <2>4, <3>1
    <3>2. CASE f # own
      <4>1. copy[f] # device[f]
        BY <2>5, <3>2
      <4> QED BY <2>3, <2>6, <4>1 DEF CopyBacked
    <3> QED BY <3>1, <3>2
  <2>8. SnapshotBacked'
    <3> SUFFICES ASSUME snapshot[TzField] # device'[TzField]
                 PROVE  \E u \in Workers : Holds(u, TzField)'
      BY <1>1 DEF SnapshotBacked
    <3>1. CASE TzField = own
      BY <2>4, <3>1, ConfigAssumption
    <3>2. CASE TzField # own
      <4>1. snapshot[TzField] # device[TzField] \/ copy[TzField] # device[TzField]
        BY <2>5, <3>2, ConfigAssumption
      <4>2. TzField \in Fields
        BY ConfigAssumption
      <4>3. \E u \in Workers : Holds(u, TzField)
        BY <2>3, <4>1, <4>2 DEF SnapshotBacked, CopyBacked
      <4> QED BY <2>6, <4>2, <4>3
    <3> QED BY <3>1, <3>2
  <2>9. ConfirmedStays'
    <3> SUFFICES ASSUME NEW u \in Workers, Confirmed(u)'
                 PROVE  /\ device'[writer'[u].field] = writer'[u].value
                        /\ copy'[writer'[u].field] = writer'[u].value
      BY DEF ConfirmedStays
    <3>1. writer[w].value \in Values
      BY <1>1 DEF ConfigInv, Valued
    <3>2. u # w
      BY <2>2, <3>1, ConfigAssumption DEF Confirmed
    <3>3. Confirmed(u) /\ writer'[u] = writer[u]
      BY <1>1, <2>2, <3>2 DEF Confirmed, Active
    <3>4. writer[u].pc \notin {"idle", "begin"}
      BY <3>3 DEF Confirmed
    <3>5. writer[u].field # own /\ writer[u].field \in Fields
      BY <2>1, <2>3, <3>2, <3>4 DEF Apart, own, ConfigInv, SectionTypes, Writes
    <3>6. device[writer[u].field] = writer[u].value /\ copy[writer[u].field] = writer[u].value
      BY <2>3, <3>3 DEF ConfirmedStays
    <3> QED BY <1>1, <2>5, <3>3, <3>5, <3>6
  <2>10. Apart'
    BY <2>2, <2>3 DEF Apart
  <2>11. RowsBacked'
    <3> SUFFICES ASSUME shown = link, NEW f \in Fields, rows[f] # device'[f]
                 PROVE  Due(f)'
      BY <1>1 DEF RowsBacked
    <3>1. Due(f)
      <4>1. CASE f = own
        BY <2>4, <4>1, HoldsIsDue
      <4>2. CASE f # own /\ rows[f] # device[f]
        BY <2>1, <4>2 DEF RowsBacked
      <4>3. CASE f # own /\ copy[f] # device[f]
        BY <2>3, <4>3, HoldsIsDue DEF CopyBacked
      <4> QED BY <2>5, <4>1, <4>2, <4>3
    <3> QED BY <1>1, <2>2, <3>1, DueStays DEF Workers
  <2> QED BY <2>7, <2>8, <2>9, <2>10, <2>11 DEF Backed
<1> QED BY <1>2, <1>3

LEMMA AnswerBacked ==
  ASSUME ConfigInv, Backed, RowsBacked, NEW w \in Workers, AnswerSection(w)
  PROVE  Backed' /\ RowsBacked'
<1> SUFFICES ASSUME Live'
             PROVE  Backed' /\ RowsBacked'
  BY DEF Backed, RowsBacked
<1>1. /\ writer[w].pc = "asking" /\ writer[w].on = link /\ Live
      /\ copy' = device /\ Advance(w, "asking", link, device[writer[w].field])
      /\ UNCHANGED <<link, lost, unsure, shown, device, snapshot, rows>>
  BY DEF AnswerSection, answered_value, Alive, linkVars, Live
<1>2. Active(w)
  BY <1>1 DEF Active
<1>3. /\ writer'[w].pc = "asking" /\ writer'[w].got = device[writer[w].field]
      /\ writer'[w].value = writer[w].value
      /\ \A u \in Workers \ {w} : writer'[u] = writer[u]
      /\ \A u \in Workers : /\ Active(u)' <=> Active(u)
                            /\ writer'[u].field = writer[u].field
                            /\ writer'[u].pc \in {"idle", "begin"}
                                 <=> writer[u].pc \in {"idle", "begin"}
                            /\ writer'[u].pc = "applied" <=> writer[u].pc = "applied"
  BY <1>1, <1>2, GoesOn
<1>4. CopyBacked /\ SnapshotBacked /\ ConfirmedStays /\ Apart
  BY <1>1 DEF Backed
<1>5. CopyBacked'
  BY <1>1 DEF CopyBacked
<1>6. SnapshotBacked'
  BY <1>1, <1>3, <1>4 DEF SnapshotBacked, Holds
<1>7. ConfirmedStays'
  <2> SUFFICES ASSUME NEW u \in Workers, Confirmed(u)'
               PROVE  device[writer'[u].field] = writer'[u].value
    BY <1>1 DEF ConfirmedStays
  <2>1. CASE u = w
    BY <1>1, <1>3, <2>1 DEF Confirmed
  <2>2. CASE u # w
    BY <1>1, <1>3, <1>4, <2>2 DEF Confirmed, ConfirmedStays, Active
  <2> QED BY <2>1, <2>2
<1>8. Apart'
  BY <1>3, <1>4 DEF Apart
<1>9. RowsBacked'
  <2> SUFFICES ASSUME shown = link, NEW f \in Fields, rows[f] # device[f]
               PROVE  Due(f)'
    BY <1>1 DEF RowsBacked
  <2>1. Due(f)
    BY <1>1 DEF RowsBacked
  <2> QED BY <1>1, <1>3, <2>1, DueStays DEF Workers
<1> QED BY <1>5, <1>6, <1>7, <1>8, <1>9 DEF Backed

LEMMA AppliedBacked ==
  ASSUME ConfigInv, Backed, RowsBacked, NEW w \in Workers, WriteApplied(w)
  PROVE  Backed' /\ RowsBacked'
<1> SUFFICES ASSUME Live'
             PROVE  Backed' /\ RowsBacked'
  BY DEF Backed, RowsBacked
<1>1. /\ writer[w].pc = "asking" /\ writer[w].on = link /\ Live
      /\ writer[w].got = writer[w].value
      /\ snapshot' = copy /\ Advance(w, "applied", link, writer[w].got)
      /\ UNCHANGED <<link, lost, unsure, shown, device, copy, rows>>
  BY DEF WriteApplied, Alive, linkVars, Live
<1>2. Active(w) /\ Confirmed(w)
  BY <1>1 DEF Active, Confirmed
<1>3. /\ writer'[w].pc = "applied" /\ writer'[w].field = writer[w].field
      /\ writer'[w].value = writer[w].value
      /\ \A u \in Workers \ {w} : writer'[u] = writer[u]
  BY <1>1, Advanced DEF ConfigInv
<1>4. CopyBacked /\ SnapshotBacked /\ ConfirmedStays /\ Apart
  BY <1>1 DEF Backed
<1>5. \A u \in Workers : /\ Active(u)' => Active(u) /\ u # w
                         /\ u # w /\ Active(u) => Active(u)'
                         /\ writer'[u].field = writer[u].field
  BY <1>1, <1>3 DEF Active
<1>6. \A f \in Fields : copy[f] # device[f] => \E u \in Workers : Holds(u, f)'
  <2> SUFFICES ASSUME NEW f \in Fields, copy[f] # device[f]
               PROVE  \E u \in Workers : Holds(u, f)'
    OBVIOUS
  <2>1. PICK u \in Workers : Holds(u, f)
    BY <1>4 DEF CopyBacked
  <2>2. u # w
    BY <1>2, <1>4, <2>1 DEF ConfirmedStays, Holds
  <2> QED BY <1>5, <2>1, <2>2 DEF Holds
<1>7. CopyBacked' /\ SnapshotBacked'
  BY <1>1, <1>6, ConfigAssumption DEF CopyBacked, SnapshotBacked
<1>8. ConfirmedStays'
  <2> SUFFICES ASSUME NEW u \in Workers, Confirmed(u)'
               PROVE  /\ device[writer'[u].field] = writer'[u].value
                      /\ copy[writer'[u].field] = writer'[u].value
    BY <1>1 DEF ConfirmedStays
  <2>1. CASE u = w
    BY <1>2, <1>3, <1>4, <2>1 DEF ConfirmedStays
  <2>2. CASE u # w
    BY <1>1, <1>3, <1>4, <2>2 DEF Confirmed, ConfirmedStays, Active
  <2> QED BY <2>1, <2>2
<1>9. Apart'
  <2> SUFFICES ASSUME NEW u \in Workers, NEW v \in Workers, u # v, Active(u)',
                      writer'[v].pc \notin {"idle", "begin"}
               PROVE  writer'[v].field # writer'[u].field
    BY DEF Apart
  <2>1. Active(u) /\ u # w /\ writer[v].pc \notin {"idle", "begin"}
    BY <1>1, <1>3, <1>5
  <2> QED BY <1>4, <1>5, <2>1 DEF Apart
<1>10. RowsBacked'
  <2> SUFFICES ASSUME shown = link, NEW f \in Fields, rows[f] # device[f]
               PROVE  Due(f)'
    BY <1>1 DEF RowsBacked
  <2>1. Due(f)
    BY <1>1 DEF RowsBacked
  <2> QED BY <1>1, <1>3, <1>5, <2>1, DueStays DEF Workers
<1> QED BY <1>7, <1>8, <1>9, <1>10 DEF Backed

LEMMA FailedBacked ==
  ASSUME ConfigInv, Backed, RowsBacked, NEW w \in Workers, WriteFailed(w)
  PROVE  Backed' /\ RowsBacked'
<1> SUFFICES ASSUME Live'
             PROVE  Backed' /\ RowsBacked'
  BY DEF Backed, RowsBacked
<1>1. /\ writer[w].pc = "asking" /\ Advance(w, "failed", 0, NoValue)
      /\ UNCHANGED <<link, lost, shown, device, copy, snapshot, rows>>
      /\ unsure' = (unsure \/ Alive(writer[w].on)) /\ Live
  BY DEF WriteFailed, linkVars, Live
<1>2. ~Alive(writer[w].on) /\ unsure' = unsure
  BY <1>1 DEF Live, ConfigInv, SectionTypes
<1>3. ~Active(w)
  BY <1>1, <1>2 DEF Active, Alive, Live
<1> QED BY <1>1, <1>2, <1>3, StaleBacked

(* A late answer makes the copy what the radio has.                        *)
LEMMA LateBacked ==
  ASSUME Backed, RowsBacked, AnswerLate
  PROVE  Backed' /\ RowsBacked'
<1>1. copy' = device /\ UNCHANGED <<link, lost, unsure, shown, device, snapshot, rows, writer>>
  BY DEF AnswerLate, linkVars
<1>2. Live' => Live
  BY <1>1 DEF Live
<1>3. Live' => CopyBacked' /\ SnapshotBacked' /\ Apart'
  BY <1>1, <1>2 DEF Backed, CopyBacked, SnapshotBacked, Apart, Holds, Active
<1>4. Live' => ConfirmedStays'
  BY <1>1, <1>2 DEF Backed, ConfirmedStays, Confirmed, Active
<1>5. RowsBacked'
  BY <1>1, <1>2 DEF RowsBacked, Due, Active
<1> QED BY <1>3, <1>4, <1>5 DEF Backed

(* A worker's record is replaced by one that is not active; the old one    *)
(* was not either.                                                         *)
LEMMA ReplacedBacked ==
  ASSUME ConfigInv, Backed, NEW w \in Workers, NEW new \in Writes, new.pc \in {"idle", "begin"},
         ~Active(w), writer' = [writer EXCEPT ![w] = new],
         UNCHANGED <<link, lost, unsure, device, copy, snapshot>>
  PROVE  Backed'
<1> SUFFICES ASSUME Live
             PROVE  CopyBacked' /\ SnapshotBacked' /\ ConfirmedStays' /\ Apart'
  BY DEF Backed, Live
<1>1. /\ writer'[w] = new
      /\ \A u \in Workers \ {w} : writer'[u] = writer[u]
  BY DEF ConfigInv, SectionTypes
<1>2. \A u \in Workers : /\ Active(u)' <=> Active(u)
                         /\ Active(u) => u # w
                         /\ Confirmed(u)' => Confirmed(u) /\ u # w
  BY <1>1 DEF Active, Confirmed
<1>3. CopyBacked /\ SnapshotBacked /\ ConfirmedStays /\ Apart
  BY DEF Backed
<1>4. CopyBacked' /\ SnapshotBacked'
  BY <1>1, <1>2, <1>3 DEF CopyBacked, SnapshotBacked, Holds
<1>5. ConfirmedStays'
  BY <1>1, <1>2, <1>3 DEF ConfirmedStays
<1>6. Apart'
  <2> SUFFICES ASSUME NEW u \in Workers, NEW v \in Workers, u # v, Active(u)',
                      writer'[v].pc \notin {"idle", "begin"}
               PROVE  writer'[v].field # writer'[u].field
    BY DEF Apart
  <2>1. Active(u) /\ u # w /\ v # w
    BY <1>1, <1>2
  <2> QED BY <1>1, <1>3, <2>1 DEF Apart
<1> QED BY <1>4, <1>5, <1>6

LEMMA SettingAppliedBacked ==
  ASSUME ConfigInv, Backed, RowsBacked, RadioSettingApplied
  PROVE  Backed' /\ RowsBacked'
<1> DEFINE w == writer["setting"]
<1>1. /\ w.pc \in {"applied", "failed"}
      /\ rows' = [rows EXCEPT ![w.field] = settled_value(w)]
      /\ writer' = [writer EXCEPT !["setting"] = NoWrite]
      /\ UNCHANGED <<link, lost, unsure, shown, device, copy, snapshot>>
  BY DEF RadioSettingApplied, linkVars
<1>2. "setting" \in Workers /\ "clock" \in Workers
  BY DEF Workers
<1>3. Backed'
  <2>1. ~Active("setting") /\ NoWrite.pc \in {"idle", "begin"}
    BY <1>1, NoWriteType DEF Active
  <2> QED BY <1>1, <1>2, <2>1, NoWriteType, ReplacedBacked
<1>4. RowsBacked'
  <2> SUFFICES ASSUME Live, shown = link, NEW f \in Fields, rows'[f] # device[f]
               PROVE  Due(f)'
    BY <1>1 DEF RowsBacked, Live
  <2>1. w.field \in Fields /\ rows \in [Fields -> Values]
    BY <1>2 DEF ConfigInv, SectionTypes, Writes, Section
  <2>2. CopyBacked /\ ConfirmedStays /\ Apart
    BY DEF Backed
  <2>3. settled_value(w) = device[w.field]
    <3>1. CASE w.pc = "applied"
      <4>1. w.got = w.value
        BY <1>2, <3>1 DEF ConfigInv, Valued
      <4>2. device[w.field] = w.value
        BY <1>2, <2>2, <3>1 DEF ConfirmedStays, Confirmed
      <4> QED BY <3>1, <4>1, <4>2 DEF settled_value
    <3>2. CASE w.pc = "failed"
      <4>1. settled_value(w) = copy[w.field]
        BY <3>2 DEF settled_value, Live
      <4>2. \A u \in Workers : ~Holds(u, w.field)
        BY <1>2, <2>2, <3>2 DEF Apart, Holds, Active
      <4> QED BY <2>1, <2>2, <4>1, <4>2 DEF CopyBacked
    <3> QED BY <1>1, <3>1, <3>2
  <2>4. f # w.field /\ rows[f] # device[f]
    BY <1>1, <2>1, <2>3
  <2>5. Due(f) /\ writer'["clock"] = writer["clock"]
    BY <1>1, <2>4 DEF RowsBacked, ConfigInv, SectionTypes, Workers
  <2> QED BY <1>1, <2>4, <2>5 DEF Due, Active
<1> QED BY <1>3, <1>4

LEMMA ChooseBacked ==
  ASSUME ConfigInv, Backed, RowsBacked, NEW f \in Fields, NEW v \in Values, ChooseValue(f, v)
  PROVE  Backed' /\ RowsBacked'
<1> SUFFICES ASSUME Live'
             PROVE  Backed' /\ RowsBacked'
  BY DEF Backed, RowsBacked
<1>1. /\ rows' = [rows EXCEPT ![f] = v]
      /\ writer["setting"].pc = "idle" /\ UNCHANGED unsure
      /\ writer' = [writer EXCEPT !["setting"] = Begun(f, v)]
      /\ UNCHANGED <<link, lost, shown, device, copy, snapshot>>
  BY DEF ChooseValue, Live, linkVars
<1>2. "setting" \in Workers /\ Begun(f, v).pc = "begin" /\ Begun(f, v).field = f
  BY DEF Workers, Begun, Write
<1>3. Backed'
  <2>1. ~Active("setting") /\ Begun(f, v).pc \in {"idle", "begin"}
    BY <1>1, <1>2 DEF Active
  <2> QED BY <1>1, <1>2, <2>1, BegunType, ReplacedBacked
<1>4. RowsBacked'
  <2> SUFFICES ASSUME shown = link, NEW g \in Fields, rows'[g] # device[g]
               PROVE  Due(g)'
    BY <1>1 DEF RowsBacked, Live
  <2>1. /\ writer'["setting"] = Begun(f, v) /\ writer'["clock"] = writer["clock"]
        /\ rows \in [Fields -> Values]
    BY <1>1 DEF ConfigInv, SectionTypes, Workers, Section
  <2>2. CASE g = f
    BY <1>2, <2>1, <2>2 DEF Due
  <2>3. CASE g # f
    <3>1. Due(g)
      BY <1>1, <2>1, <2>3 DEF RowsBacked, Live
    <3> QED BY <1>1, <2>1, <3>1 DEF Due, Active
  <2> QED BY <2>2, <2>3
<1> QED BY <1>3, <1>4

-----------------------------------------------------------------------------
(* The rows, while the clock works and the link changes.                   *)

LEMMA RowsStay ==
  ASSUME Backed, RowsBacked,
         UNCHANGED <<link, lost, unsure, shown, device, copy, snapshot, rows, writer>>
  PROVE  Backed' /\ RowsBacked'
<1>1. Backed'
  BY DEF Backed, Live, CopyBacked, SnapshotBacked, ConfirmedStays, Apart, Confirmed, Holds, Active
<1>2. RowsBacked'
  BY DEF RowsBacked, Live, Due, Active
<1> QED BY <1>1, <1>2

LEMMA SetZoneBacked ==
  ASSUME ConfigInv, Backed, RowsBacked, ClockWrites, SetZone
  PROVE  Backed' /\ RowsBacked'
<1>1. /\ writer["clock"].pc = "idle"
      /\ UNCHANGED <<link, lost, unsure, shown, device, copy, snapshot, rows>>
  BY DEF SetZone, ClockWrites, linkVars
<1>2. CASE writer' = writer
  BY <1>1, <1>2, RowsStay
<1>3. CASE writer' = [writer EXCEPT !["clock"] = Begun(TzField, HostTz)]
  <2>1. "clock" \in Workers /\ Begun(TzField, HostTz).pc \in {"idle", "begin"}
    BY DEF Workers, Begun, Write
  <2>2. ~Active("clock")
    BY <1>1 DEF Active
  <2>3. Backed'
    BY <1>1, <1>3, <2>1, <2>2, ConfigAssumption, BegunType, ReplacedBacked
  <2>4. RowsBacked'
    <3> SUFFICES ASSUME Live, shown = link, NEW f \in Fields, rows[f] # device[f]
                 PROVE  Due(f)'
      BY <1>1 DEF RowsBacked, Live
    <3>1. Due(f) /\ ~(Active("clock") \/ writer["clock"].pc = "applied")
      BY <1>1, <2>2 DEF RowsBacked
    <3>2. writer'["setting"] = writer["setting"]
      BY <1>3 DEF ConfigInv, SectionTypes, Workers
    <3> QED BY <3>1, <3>2 DEF Due
  <2> QED BY <2>3, <2>4
<1> QED BY <1>2, <1>3 DEF SetZone

(* What is drawn anew differs from the radio where a write will settle it. *)
LEMMA RenderedBacked ==
  ASSUME Live, Backed, NEW f \in Fields, rendered[f] # device[f]
  PROVE  \E w \in Workers : Holds(w, f)
<1>1. CASE f = TzField
  BY <1>1 DEF Backed, SnapshotBacked, rendered
<1>2. CASE f # TzField
  BY <1>2 DEF Backed, CopyBacked, rendered
<1> QED BY <1>1, <1>2

LEMMA ZoneWrittenBacked ==
  ASSUME ConfigInv, Backed, RowsBacked, ZoneWritten
  PROVE  Backed' /\ RowsBacked'
<1>1. /\ writer["clock"].pc \in {"applied", "failed"}
      /\ rows' = IF writer["clock"].pc = "applied" /\ shown # 0 /\ link # 0
                 THEN rendered ELSE rows
      /\ writer' = [writer EXCEPT !["clock"] = NoWrite]
      /\ UNCHANGED <<link, lost, unsure, shown, device, copy, snapshot>>
  BY DEF ZoneWritten, linkVars
<1>2. "clock" \in Workers /\ NoWrite.pc \in {"idle", "begin"} /\ ~Active("clock")
  BY <1>1, NoWriteType DEF Workers, Active
<1>3. Backed'
  BY <1>1, <1>2, NoWriteType, ReplacedBacked, Zenon
<1>4. writer'["setting"] = writer["setting"]
  BY <1>1 DEF ConfigInv, SectionTypes, Workers
<1>5. RowsBacked'
  <2> SUFFICES ASSUME Live, shown = link, NEW f \in Fields, rows'[f] # device[f]
               PROVE  Due(f)'
    BY <1>1 DEF RowsBacked, Live
  <2>1. writer["setting"].pc # "idle" /\ writer["setting"].field = f
    <3>1. CASE writer["clock"].pc = "applied"
      <4>1. PICK w \in Workers : Holds(w, f)
        BY <1>1, <3>1, RenderedBacked DEF Live
      <4>2. w = "setting"
        BY <1>2, <4>1 DEF Workers, Holds
      <4> QED BY <4>1, <4>2 DEF Holds, Active
    <3>2. CASE writer["clock"].pc = "failed"
      BY <1>1, <1>2, <3>2 DEF RowsBacked, Due
    <3> QED BY <1>1, <3>1, <3>2
  <2> QED BY <1>4, <2>1 DEF Due
<1> QED BY <1>3, <1>5

(* A new link: no write is of it, and all that is known comes from it.     *)
LEMMA OpenBacked ==
  ASSUME ConfigInv, Numbered, ConfigOpen
  PROVE  Backed' /\ RowsBacked'
<1>1. /\ shown = 0 /\ link' = opened + 1 /\ shown' = shown
      /\ copy' = device' /\ snapshot' = device' /\ writer' = writer
      /\ \A u \in Workers : writer[u].pc \notin {"applied", "failed"}
  BY DEF ConfigOpen, OpenLink, NoneUnshown
<1>2. \A w \in Workers : ~Active(w)'
  <2> SUFFICES ASSUME NEW w \in Workers PROVE writer[w].on # opened + 1
    BY <1>1 DEF Active
  <2>1. writer[w].on \in Nat /\ opened \in Nat
    BY LinkAssumption DEF ConfigInv, LinkPart, LinkTypeOK, SectionTypes, Writes
  <2> QED BY <2>1 DEF Numbered
<1>3. CopyBacked' /\ SnapshotBacked'
  BY <1>1 DEF CopyBacked, SnapshotBacked
<1>4. ConfirmedStays' /\ Apart'
  BY <1>1, <1>2 DEF ConfirmedStays, Confirmed, Apart
<1>5. RowsBacked'
  <2>1. opened \in Nat
    BY LinkAssumption DEF ConfigInv, LinkPart, LinkTypeOK
  <2> QED BY <1>1, <2>1 DEF RowsBacked
<1> QED BY <1>3, <1>4, <1>5 DEF Backed

LEMMA ShowBacked ==
  ASSUME ConfigInv, Backed, ConfigShow
  PROVE  Backed' /\ RowsBacked'
<1>1. /\ rows' = rendered
      /\ UNCHANGED <<link, lost, unsure, device, copy, snapshot, writer>>
  BY DEF ConfigShow, ShowLink
<1>2. Backed'
  BY <1>1 DEF Backed, Live, CopyBacked, SnapshotBacked, ConfirmedStays, Apart, Confirmed, Holds,
              Active
<1>3. RowsBacked'
  <2> SUFFICES ASSUME Live, NEW f \in Fields, rendered[f] # device[f]
               PROVE  Due(f)'
    BY <1>1 DEF RowsBacked, Live
  <2>1. Due(f)
    BY RenderedBacked, HoldsIsDue
  <2> QED BY <1>1, <2>1 DEF Due, Active
<1> QED BY <1>2, <1>3

(* A link that is lost, closed or hidden is not live, or not shown.        *)
LEMMA LossBacked ==
  ASSUME LoseLink \/ CloseLink \/ HideLink
  PROVE  Backed' /\ RowsBacked'
BY DEF Backed, RowsBacked, Live, LoseLink, CloseLink, HideLink

(* A worker's record is as before, or names no later link.                 *)
LEMMA NumberedStays ==
  ASSUME ConfigInv, Numbered, UNCHANGED <<link, opened>>, NEW w \in Workers,
         writer'[w].on \in {0, link, writer[w].on},
         \A u \in Workers \ {w} : writer'[u] = writer[u]
  PROVE  Numbered'
<1>1. 0 <= opened
  BY LinkAssumption DEF ConfigInv, LinkPart, LinkTypeOK
<1> QED BY <1>1 DEF Numbered

LEMMA WritesBacked ==
  ASSUME RowsInv, NEW w \in Workers, WriteSteps(w)
  PROVE  Backed' /\ RowsBacked' /\ Numbered' /\ ClockWrites'
<1> USE DEF RowsInv
<1>1. Backed' /\ RowsBacked'
  BY StageBacked, CopyStepBacked, SendBacked, AnswerBacked, AppliedBacked, FailedBacked DEF WriteSteps
<1>2. PICK pc \in {"staged", "copied", "asking", "applied", "failed"},
           on \in {0, link, writer[w].on},
           got \in Values \cup {NoValue} :
             /\ Advance(w, pc, on, got) /\ writer[w].pc # "idle"
  <2>1. CASE StageValue(w)
    BY <2>1 DEF StageValue
  <2>2. CASE SendSection(w)
    BY <2>2 DEF SendSection
  <2>3. CASE AnswerSection(w)
    <3>1. answered_value(w) \in Values
      BY DEF answered_value, ConfigInv, SectionTypes, Writes, Section
    <3> QED BY <2>3, <3>1 DEF AnswerSection
  <2>4. CASE WriteApplied(w)
    <3>1. writer[w].got \in Values \cup {NoValue}
      BY DEF ConfigInv, SectionTypes, Writes
    <3> QED BY <2>4, <3>1 DEF WriteApplied
  <2>5. CASE WriteFailed(w)
    BY <2>5 DEF WriteFailed
  <2>6. CASE CopySection(w)
    BY <2>6 DEF CopySection
  <2> QED BY <2>1, <2>2, <2>3, <2>4, <2>5, <2>6 DEF WriteSteps
<1>3. writer'[w].on = on /\ \A u \in Workers \ {w} : writer'[u] = writer[u]
  BY <1>2, Advanced DEF ConfigInv
<1>4. UNCHANGED <<link, opened, clock>>
  BY DEF WriteSteps, StageValue, CopySection, SendSection, AnswerSection, WriteApplied,
         WriteFailed, linkVars, clockVars
<1>5. Numbered'
  BY <1>3, <1>4, NumberedStays
<1>6. ClockWrites'
  BY <1>2, <1>3, <1>4 DEF ClockWrites, Workers
<1> QED BY <1>1, <1>5, <1>6

LEMMA SettingsBacked ==
  ASSUME RowsInv,
         AnswerLate \/ RadioSettingApplied \/ \E f \in Fields, v \in Values : ChooseValue(f, v)
  PROVE  Backed' /\ RowsBacked' /\ Numbered' /\ ClockWrites'
<1> USE DEF RowsInv
<1>1. Backed' /\ RowsBacked'
  BY LateBacked, SettingAppliedBacked, ChooseBacked
<1>2. UNCHANGED <<link, opened, clock>>
  BY DEF AnswerLate, RadioSettingApplied, ChooseValue, linkVars, clockVars
<1>3. /\ "setting" \in Workers /\ Workers \ {"setting"} = {"clock"}
      /\ writer \in [Workers -> Writes]
  BY DEF Workers, ConfigInv, SectionTypes
<1>4. \/ writer' = writer
      \/ writer'["clock"] = writer["clock"] /\ writer'["setting"].on = 0
  BY <1>3 DEF AnswerLate, RadioSettingApplied, ChooseValue, NoWrite, Begun, Write
<1>5. Numbered'
  <2>1. CASE writer' = writer
    BY <1>2, <2>1 DEF Numbered
  <2>2. CASE writer'["clock"] = writer["clock"] /\ writer'["setting"].on = 0
    BY <1>2, <1>3, <2>2, NumberedStays
  <2> QED BY <1>4, <2>1, <2>2
<1>6. ClockWrites'
  BY <1>2, <1>4 DEF ClockWrites
<1> QED BY <1>1, <1>5, <1>6

(* The clock's own write is there while the worker waits for it.           *)
LEMMA ClockBacked ==
  ASSUME RowsInv, SetTime \/ SetZone \/ ZoneWritten \/ PostResult \/ ClockSyncApplied
  PROVE  Backed' /\ RowsBacked' /\ Numbered' /\ ClockWrites'
<1> USE DEF RowsInv
<1>1. UNCHANGED <<link, opened>>
  BY DEF SetTime, SetZone, ZoneWritten, PostResult, ClockSyncApplied, linkVars
<1>2. /\ "clock" \in Workers /\ Workers \ {"clock"} = {"setting"}
      /\ writer \in [Workers -> Writes]
  BY DEF Workers, ConfigInv, SectionTypes
<1>3. CASE SetTime \/ PostResult \/ ClockSyncApplied
  <2>1. UNCHANGED <<link, opened, lost, unsure, shown, device, copy, snapshot, rows, writer>>
    BY <1>3 DEF SetTime, PostResult, ClockSyncApplied, linkVars
  <2>2. clock'.pc = clock.pc \/ (clock.pc # "write" /\ clock'.pc # "write")
    BY <1>3 DEF SetTime, PostResult, ClockSyncApplied, Clock, NoClock
  <2> QED BY <2>1, <2>2, RowsStay DEF Numbered, ClockWrites
<1>4. CASE SetZone
  <2>1. Backed' /\ RowsBacked'
    BY <1>4, SetZoneBacked
  <2>2. \/ writer' = writer /\ clock.pc = "zone"
        \/ /\ writer'["setting"] = writer["setting"] /\ writer'["clock"].on = 0
           /\ clock'.pc = "write"
    BY <1>2, <1>4 DEF SetZone, Begun, Write, Clock
  <2>3. Numbered'
    <3>1. CASE writer' = writer
      BY <1>1, <3>1 DEF Numbered
    <3>2. CASE writer'["setting"] = writer["setting"] /\ writer'["clock"].on = 0
      BY <1>1, <1>2, <3>2, NumberedStays
    <3> QED BY <2>2, <3>1, <3>2
  <2>4. ClockWrites'
    BY <2>2 DEF ClockWrites
  <2> QED BY <2>1, <2>3, <2>4
<1>5. CASE ZoneWritten
  <2>1. /\ writer'["setting"] = writer["setting"] /\ writer'["clock"].on = 0
        /\ writer'["clock"].pc = "idle"
    BY <1>2, <1>5 DEF ZoneWritten, NoWrite, Write
  <2>2. Numbered'
    BY <1>1, <1>2, <2>1, NumberedStays
  <2> QED BY <1>5, <2>1, <2>2, ZoneWrittenBacked DEF ClockWrites
<1> QED BY <1>3, <1>4, <1>5

LEMMA LinkBacked ==
  ASSUME RowsInv,
         ConfigOpen \/ ConfigShow \/ ConfigHide \/ ((LoseLink \/ CloseLink) /\ UNCHANGED configVars)
  PROVE  Backed' /\ RowsBacked' /\ Numbered' /\ ClockWrites'
<1> USE DEF RowsInv
<1>1. UNCHANGED writer
  BY DEF ConfigOpen, ConfigShow, ConfigHide, configVars
<1>2. Backed' /\ RowsBacked'
  BY OpenBacked, ShowBacked, LossBacked DEF ConfigHide
<1>3. Numbered'
  <2>1. OpenLink \/ ShowLink \/ LoseLink \/ CloseLink \/ HideLink
    BY DEF ConfigOpen, ConfigShow, ConfigHide
  <2>2. opened \in Nat /\ link \in Nat /\ link <= opened
    BY LinkAssumption DEF ConfigInv, LinkPart, LinkTypeOK, Numbered
  <2>3. link' <= opened' /\ opened <= opened' /\ opened' \in Nat
    BY <2>1, <2>2 DEF OpenLink, ShowLink, LoseLink, CloseLink, HideLink
  <2>4. \A w \in Workers : writer[w].on \in Nat /\ writer[w].on <= opened
    BY LinkAssumption DEF ConfigInv, SectionTypes, Writes, Numbered
  <2> QED BY <1>1, <2>2, <2>3, <2>4 DEF Numbered
<1>4. ClockWrites'
  BY <1>1 DEF ClockWrites, ConfigOpen, clockVars, ConfigShow, ConfigHide, configVars, Clock
<1> QED BY <1>2, <1>3, <1>4

-----------------------------------------------------------------------------
LEMMA RowsInit == LinkInit /\ ConfigInit => RowsInv
<1> SUFFICES ASSUME LinkInit, ConfigInit PROVE RowsInv
  OBVIOUS
<1>1. ~Live
  BY DEF LinkInit, Live
<1>2. Numbered
  BY DEF LinkInit, ConfigInit, Numbered, NoWrite, Write
<1>3. ClockWrites
  BY DEF ConfigInit, ClockWrites, NoWrite, Write, Workers
<1> QED BY <1>1, <1>2, <1>3, InitHolds DEF RowsInv, Backed, RowsBacked

LEMMA RowsStep == RowsInv /\ [ConfigNext]_<<linkVars, configVars>> => RowsInv'
<1> SUFFICES ASSUME RowsInv, [ConfigNext]_<<linkVars, configVars>> PROVE RowsInv'
  OBVIOUS
<1>1. ConfigInv'
  BY StepHolds DEF RowsInv
<1>2. CASE \E w \in Workers : WriteSteps(w)
  BY <1>1, <1>2, WritesBacked DEF RowsInv
<1>3. CASE AnswerLate \/ RadioSettingApplied \/ \E f \in Fields, v \in Values : ChooseValue(f, v)
  BY <1>1, <1>3, SettingsBacked DEF RowsInv
<1>4. CASE SetTime \/ SetZone \/ ZoneWritten \/ PostResult \/ ClockSyncApplied
  BY <1>1, <1>4, ClockBacked DEF RowsInv
<1>5. CASE ConfigOpen \/ ConfigShow \/ ConfigHide \/ ((LoseLink \/ CloseLink) /\ UNCHANGED configVars)
  BY <1>1, <1>5, LinkBacked DEF RowsInv
<1>6. CASE UNCHANGED <<linkVars, configVars>>
  <2>1. UNCHANGED <<link, lost, unsure, shown, opened, device, copy, snapshot, rows, writer, clock>>
    BY <1>6 DEF linkVars, configVars
  <2> QED BY <1>1, <2>1, RowsStay DEF RowsInv, Numbered, ClockWrites
<1> QED BY <1>2, <1>3, <1>4, <1>5, <1>6 DEF ConfigNext, WriteSteps

(* Whatever writes, answers, failures and reconnections interleave, rows   *)
(* that have settled on a link without a failure show what the radio has.  *)
THEOREM SettledRowsAreTrue == ConfigSpec => []RowsAreTrue
<1>1. RowsInv => RowsAreTrue
  <2> SUFFICES ASSUME RowsInv, Settled, ~unsure PROVE rows = device
    BY DEF RowsAreTrue
  <2>1. Live /\ shown = link
    BY DEF Settled, Live
  <2>2. \A f \in Fields : ~Due(f)
    BY DEF Settled, Due, Active, Workers
  <2>3. rows \in [Fields -> Values] /\ device \in [Fields -> Values]
    BY DEF RowsInv, ConfigInv, SectionTypes, Section
  <2> QED BY <2>1, <2>2, <2>3 DEF RowsInv, RowsBacked
<1> QED BY <1>1, RowsInit, RowsStep, PTL DEF ConfigSpec

-----------------------------------------------------------------------------
(* Channels.                                                               *)

Appliers ==
  [pc : {"idle", "begin", "staged", "asking", "verified", "failed"},
   key : Conversations, slot : Slots, on : 0..MaxOpened]

(* A slot that the copy calls free is free: a write that is sent has       *)
(* changed the copy before.                                                *)
CopyKnowsChannels ==
  link # 0 => \A i \in Slots : slotCopy[i] = Free => slots[i] = Free

(* What has been staged on the current link, and not been sent, is for a   *)
(* slot that is free yet; no worker has the interface of a link to come.   *)
StagedForFree ==
  /\ link <= opened /\ applier.on <= opened
  /\ applier.pc # "idle" => applier.key \in Keys
  /\ applier.pc = "staged" /\ link # 0 /\ applier.on = link =>
       slotCopy[applier.slot] = applier.key /\ slots[applier.slot] = Free

Tables == slots \in Table /\ slotCopy \in Table
Applies == applier \in Appliers /\ draft \in Conversations /\ editing \in BOOLEAN
Lists ==
  /\ DOMAIN listed \subseteq Slots /\ \A i \in DOMAIN listed : listed[i] \in Conversations
  /\ hidden \subseteq Conversations
Screen ==
  /\ current \in Slots /\ overlapped \in BOOLEAN
  /\ states \in [Slots -> Conversations \cup {NotLoaded}]
  /\ mounted \subseteq Conversations
  /\ emptied \in Seq(Conversations)
Tasks == queued \in Seq(Slots \cup {Reconciling})
Asked == asked \in 0..MaxAsked /\ bound \in BOOLEAN

Types == LinkTypeOK /\ Tables /\ Applies /\ Lists /\ Screen /\ Tasks /\ Asked

ChannelsInv == Types /\ CopyKnowsChannels /\ StagedForFree

LEMMA TypesAre == Types => ChannelsTypeOK
BY DEF Types, Tables, Applies, Lists, Screen, Tasks, Asked, ChannelsTypeOK, Appliers, Range

(* The least of some slots is one of them.                                 *)
LEMMA LeastIsOne ==
  ASSUME NEW s \in SUBSET Slots, s # {}
  PROVE  Least(s) \in s
<1>1. s \subseteq Nat
  BY ChannelsAssumption DEF Slots
<1>2. PICK x \in s : \A y \in s : ~ (<<y, x>> \in OpToRel(<, Nat))
  BY <1>1, NatLessThanWellFounded, WFMin, Zenon
<1>3. \A y \in s : x <= y
  <2> SUFFICES ASSUME NEW y \in s PROVE x <= y
    OBVIOUS
  <2>1. x \in Nat /\ y \in Nat /\ <<y, x>> \in Nat \X Nat
    BY <1>1
  <2>2. ~ (<<y, x>>[1] < <<y, x>>[2])
    BY <1>2, <2>1 DEF OpToRel
  <2> QED BY <2>1, <2>2
<1> QED BY <1>3 DEF Least

-----------------------------------------------------------------------------
(* Lists and conversations.                                                *)

LEMMA FilteredType ==
  ASSUME NEW table \in Table, NEW hid
  PROVE  \E d \in SUBSET Slots : filtered(table, hid) \in [d -> Conversations]
<1>1. {j \in enabled(table) : table[j] \notin hid} \in SUBSET Slots
  BY DEF enabled
<1> WITNESS {j \in enabled(table) : table[j] \notin hid} \in SUBSET Slots
<1> QED BY ChannelsAssumption DEF Table, filtered, enabled, Conversations

LEMMA KeyType ==
  ASSUME Lists, NEW i
  PROVE  channel_key_for(i) \in Conversations
BY DEF Lists, channel_key_for, Conversations

LEMMA ReloadedType ==
  ASSUME Lists
  PROVE  reloaded \in [Slots -> Conversations \cup {NotLoaded}]
BY KeyType DEF reloaded

LEMMA SelectedType ==
  ASSUME NEW d \in SUBSET Slots, NEW list \in [d -> Conversations], NEW key,
         NEW index \in Slots
  PROVE  selected_index(list, key, index) \in Slots
<1>1. CASE having(list, key) # {}
  <2>1. having(list, key) \in SUBSET Slots
    BY DEF having
  <2> QED BY <1>1, <2>1, LeastIsOne DEF selected_index
<1>2. CASE having(list, key) = {} /\ list # <<>>
  <2>1. d # {}
    <3> SUFFICES ASSUME d = {} PROVE list = <<>>
      BY <1>2
    <3>1. <<>> \in [d -> Conversations]
      OBVIOUS
    <3> QED BY <3>1
  <2> QED BY <1>2, <2>1, LeastIsOne DEF selected_index
<1>3. CASE having(list, key) = {} /\ list = <<>>
  BY <1>3 DEF selected_index
<1> QED BY <1>1, <1>2, <1>3

LEMMA AfterType ==
  ASSUME Lists, NEW i \in DOMAIN listed, DOMAIN listed # {i}
  PROVE  after(i) \in Slots
<1> DEFINE others == DOMAIN listed \ {i}
           higher == {j \in others : j > i}
<1>1. others \in SUBSET Slots /\ higher \in SUBSET Slots /\ others # {}
  BY DEF Lists
<1>2. higher # {} => Least(higher) \in Slots
  BY <1>1, LeastIsOne
<1>3. Least(others) \in Slots
  BY <1>1, LeastIsOne
<1> HIDE DEF others, higher
<1>4. after(i) = Least(IF higher # {} THEN higher ELSE others)
  BY DEF after, others, higher
<1> QED BY <1>2, <1>3, <1>4

(* A task empties the transcript to fill it with a conversation.           *)
LEMMA MountType ==
  ASSUME Screen, NEW key \in Conversations, Mount(key)
  PROVE  mounted' \subseteq Conversations /\ emptied' \in Seq(Conversations) /\ overlapped' \in BOOLEAN
<1>1. emptied \in Seq(Conversations)
  BY DEF Screen
<1> QED BY <1>1 DEF Mount

LEMMA SwitchType ==
  ASSUME Screen, Lists, NEW i \in Slots, SwitchTo(i)
  PROVE  Screen'
<1>1. CASE i = current
  BY <1>1 DEF SwitchTo, screenVars, Screen
<1>2. CASE i # current
  <2>1. loaded(i) \in Conversations
    BY KeyType DEF loaded, Screen
  <2>2. Mount(loaded(i)) /\ current' = i /\ states' = [states EXCEPT ![i] = loaded(i)]
    BY <1>2 DEF SwitchTo
  <2> QED BY <2>1, <2>2, MountType DEF Screen
<1> QED BY <1>1, <1>2

LEMMA ReconcileType ==
  ASSUME Screen, Lists, Reconcile
  PROVE  Screen'
<1>1. channel_key_for(current) \in Conversations
  BY KeyType
<1>2. CASE channel_key_for(current) = states[current]
  BY <1>2 DEF Reconcile, screenVars, Screen
<1>3. CASE channel_key_for(current) # states[current]
  <2>1. /\ Mount(channel_key_for(current)) /\ current' = current
        /\ states' = [states EXCEPT ![current] = channel_key_for(current)]
    BY <1>3 DEF Reconcile
  <2> QED BY <1>1, <2>1, MountType DEF Screen
<1> QED BY <1>2, <1>3

-----------------------------------------------------------------------------
(* Steps that leave the radio, its copy and the worker alone.              *)

LEMMA ApplyStays ==
  ASSUME CopyKnowsChannels, StagedForFree, UNCHANGED <<link, opened, slots, slotCopy, applier>>
  PROVE  CopyKnowsChannels' /\ StagedForFree'
BY DEF CopyKnowsChannels, StagedForFree

LEMMA ListsFrom ==
  ASSUME NEW d \in SUBSET Slots, listed' \in [d -> Conversations], hidden' \subseteq Conversations
  PROVE  Lists'
BY DEF Lists

(* The user's moves between conversations, and the tasks they leave.       *)
LEMMA ScreenStep ==
  ASSUME ChannelsInv,
         \/ BeginTask \/ \E n \in DOMAIN emptied : Fill(n)
         \/ \E i \in Slots : ChooseChannel(i)
         \/ DeleteChannel
  PROVE  ChannelsInv' /\ UNCHANGED slots
<1>1. Types /\ Lists /\ Screen /\ Tasks /\ Asked /\ Applies /\ Tables /\ LinkTypeOK
  BY DEF ChannelsInv, Types
<1>2. UNCHANGED <<linkVars, slots, slotCopy, applier, draft, editing>>
  BY DEF BeginTask, Fill, ChooseChannel, DeleteChannel, applyVars
<1>3. LinkTypeOK' /\ Tables' /\ CopyKnowsChannels' /\ StagedForFree'
  BY <1>1, <1>2, ApplyStays DEF linkVars, LinkTypeOK, Tables, ChannelsInv
<1>4. Applies'
  BY <1>1, <1>2 DEF Applies
<1>5. Asked'
  BY <1>1, ChannelsAssumption DEF Asked, BeginTask, Fill, ChooseChannel, DeleteChannel
<1>6. Lists' /\ Screen' /\ Tasks'
  <2>1. CASE BeginTask
    <3>1. Lists'
      BY <1>1, <2>1 DEF BeginTask, Lists
    <3>2. Head(queued) \in Slots \cup {Reconciling} /\ Tasks'
      BY <1>1, <2>1 DEF BeginTask, Tasks
    <3>3. CASE Head(queued) = Reconciling
      BY <1>1, <2>1, <3>1, <3>2, <3>3, ReconcileType DEF BeginTask
    <3>4. CASE Head(queued) # Reconciling
      BY <1>1, <2>1, <3>1, <3>2, <3>4, SwitchType DEF BeginTask
    <3> QED BY <3>3, <3>4
  <2>2. ASSUME NEW n \in DOMAIN emptied, Fill(n) PROVE Lists' /\ Screen' /\ Tasks'
    <3>1. emptied \in Seq(Conversations) /\ n \in 1..Len(emptied)
      BY <1>1 DEF Screen
    <3>2. emptied' = SubSeq(emptied, 1, n - 1) \o SubSeq(emptied, n + 1, Len(emptied))
      BY <2>2 DEF Fill, RemoveAt
    <3>3. SubSeq(emptied, 1, n - 1) \in Seq(Conversations)
      BY <3>1
    <3>4. SubSeq(emptied, n + 1, Len(emptied)) \in Seq(Conversations)
      BY <3>1
    <3>5. emptied' \in Seq(Conversations) /\ emptied[n] \in Conversations
      BY <3>1, <3>2, <3>3, <3>4
    <3> QED BY <1>1, <2>2, <3>5 DEF Fill, Screen, Lists, Tasks
  <2>3. ASSUME NEW i \in Slots, ChooseChannel(i) PROVE Lists' /\ Screen' /\ Tasks'
    <3>1. SwitchTo(i) /\ UNCHANGED <<listed, hidden, queued>>
      BY <2>3 DEF ChooseChannel
    <3> QED BY <1>1, <3>1, SwitchType DEF Lists, Tasks
  <2>4. CASE DeleteChannel
    <3>1. hidden' \subseteq Conversations
      BY <1>1, <2>4 DEF DeleteChannel, Lists
    <3>2. CASE DOMAIN listed = {current}
      BY <1>1, <2>4, <3>1, <3>2 DEF DeleteChannel, Lists, Screen, Tasks
    <3>3. CASE DOMAIN listed # {current}
      <4>1. after(current) \in Slots
        BY <1>1, <2>4, <3>3, AfterType DEF DeleteChannel
      <4>2. Tasks'
        BY <1>1, <2>4, <3>3, <4>1 DEF DeleteChannel, Tasks
      <4>3. Screen'
        BY <1>1, <2>4, <3>3 DEF DeleteChannel, Screen
      <4>4. DOMAIN listed \ {current} \in SUBSET Slots
        BY <1>1 DEF Lists
      <4>5. listed' \in [DOMAIN listed \ {current} -> Conversations]
        BY <1>1, <2>4, <3>3 DEF DeleteChannel, Lists
      <4> QED BY <3>1, <4>2, <4>3, <4>4, <4>5, ListsFrom
    <3> QED BY <3>2, <3>3
  <2> QED BY <2>1, <2>2, <2>3, <2>4
<1> QED BY <1>2, <1>3, <1>4, <1>5, <1>6 DEF ChannelsInv, Types

-----------------------------------------------------------------------------
(* The editor and its worker.                                              *)

OnlyFree == \A i \in Slots : slots[i] # Free => slots'[i] = slots[i]

LEMMA ApplierType ==
  ASSUME NEW pc \in {"idle", "begin", "staged", "asking", "verified", "failed"},
         NEW key \in Conversations, NEW slot \in Slots, NEW on \in 0..MaxOpened
  PROVE  Applier(pc, key, slot, on) \in Appliers
BY DEF Applier, Appliers

LEMMA NoApplierType == NoApplier \in Appliers /\ NoApplier.pc = "idle" /\ NoApplier.on = 0
<1>1. 0 \in Slots /\ 0 \in 0..MaxOpened /\ NoChannel \in Conversations
  BY ChannelsAssumption, LinkAssumption DEF Slots, Conversations
<1> QED BY <1>1, ApplierType DEF NoApplier, Applier

(* A worker goes on to pc.                                                 *)
LEMMA StepType ==
  ASSUME applier \in Appliers, Step("asking") \/ Step("failed") \/ Step("verified")
  PROVE  /\ applier' \in Appliers /\ applier'.pc \in {"asking", "failed", "verified"}
         /\ applier'.key = applier.key /\ applier'.on = applier.on
BY DEF Step, Appliers

LEMMA EditorStep ==
  ASSUME ChannelsInv,
         \/ StartNewChannel \/ CancelNewChannel
         \/ \E key \in Keys : SaveNewChannel(key)
         \/ ApplyFailed \/ Promote
  PROVE  ChannelsInv' /\ UNCHANGED slots
<1>1. Types /\ Lists /\ Screen /\ Tasks /\ Asked /\ Applies /\ Tables /\ LinkTypeOK
  BY DEF ChannelsInv, Types
<1>2. UNCHANGED <<linkVars, slots, slotCopy, screenVars>>
  BY DEF StartNewChannel, CancelNewChannel, SaveNewChannel, ApplyFailed, Promote
<1>3. LinkTypeOK' /\ Tables' /\ Screen' /\ CopyKnowsChannels'
  BY <1>1, <1>2 DEF linkVars, LinkTypeOK, Tables, Screen, screenVars, ChannelsInv, CopyKnowsChannels
<1>4. NoChannel \in Conversations /\ Keys \subseteq Conversations
  BY DEF Conversations
<1>5. /\ applier' \in Appliers /\ applier'.on \in {0, applier.on}
      /\ applier'.pc \in {"idle", "begin", applier.pc}
      /\ applier'.pc = "staged" => applier' = applier
      /\ applier'.pc # "idle" => applier'.key \in Keys
  <2>1. CASE applier' = NoApplier
    BY <2>1, NoApplierType
  <2>2. CASE applier' = applier
    BY <1>1, <2>2 DEF Applies, ChannelsInv, StagedForFree
  <2>3. ASSUME NEW key \in Keys, applier' = Applier("begin", key, 0, 0) PROVE <1>5!:
    <3>1. 0 \in Slots /\ 0 \in 0..MaxOpened
      BY ChannelsAssumption, LinkAssumption DEF Slots
    <3>2. applier' \in Appliers
      BY <1>4, <2>3, <3>1, ApplierType
    <3> QED BY <2>3, <3>2 DEF Applier
  <2> QED BY <2>1, <2>2, <2>3
          DEF StartNewChannel, CancelNewChannel, SaveNewChannel, ApplyFailed, Promote
<1>6. StagedForFree'
  <2>1. link <= opened /\ applier.on <= opened /\ 0 <= opened
    BY <1>1 DEF ChannelsInv, StagedForFree, LinkTypeOK
  <2> QED BY <1>2, <1>5, <2>1 DEF ChannelsInv, StagedForFree, linkVars
<1>7. Applies'
  BY <1>1, <1>4, <1>5 DEF Applies, StartNewChannel, CancelNewChannel, SaveNewChannel, ApplyFailed, Promote
<1>8. Asked'
  BY <1>1, ChannelsAssumption
     DEF Asked, StartNewChannel, CancelNewChannel, SaveNewChannel, ApplyFailed, Promote
<1>9. Lists' /\ Tasks'
  <2>1. CASE UNCHANGED <<listed, hidden, queued>>
    BY <1>1, <2>1 DEF Lists, Tasks
  <2>2. CASE Promote
    <3>1. hidden' \subseteq Conversations
      BY <1>1, <2>2 DEF Promote, Lists
    <3>2. PICK d \in SUBSET Slots : filtered(slotCopy, hidden') \in [d -> Conversations]
      BY <1>1, FilteredType DEF Tables
    <3>3. Lists'
      BY <2>2, <3>1, <3>2, ListsFrom DEF Promote
    <3>4. applier.slot \in Slots
      BY <1>1 DEF Applies, Appliers
    <3> QED BY <1>1, <2>2, <3>3, <3>4 DEF Promote, Tasks
  <2> QED BY <2>1, <2>2 DEF StartNewChannel, CancelNewChannel, SaveNewChannel, ApplyFailed
<1> QED BY <1>2, <1>3, <1>6, <1>7, <1>8, <1>9 DEF ChannelsInv, Types

(* A slot is staged that the copy calls free; only the staged one is sent. *)
LEMMA WorkerStep ==
  ASSUME ChannelsInv, StageChannel \/ SendChannel \/ VerifyChannel
  PROVE  ChannelsInv' /\ OnlyFree
<1>1. Types /\ Lists /\ Screen /\ Tasks /\ Asked /\ Applies /\ Tables /\ LinkTypeOK
  BY DEF ChannelsInv, Types
<1>2. UNCHANGED <<linkVars, screenVars, draft, editing, listed, hidden, queued, bound, asked>>
  BY DEF StageChannel, SendChannel, VerifyChannel
<1>3. LinkTypeOK' /\ Lists' /\ Screen' /\ Tasks' /\ Asked'
  BY <1>1, <1>2 DEF linkVars, LinkTypeOK, Lists, Screen, screenVars, Tasks, Asked
<1>4. /\ applier \in Appliers /\ applier.slot \in Slots /\ applier.key \in Conversations
      /\ link \in 0..MaxOpened
      /\ slots \in Table /\ slotCopy \in Table
  BY <1>1 DEF Applies, Appliers, Tables, LinkTypeOK
<1>5. link <= opened /\ applier.on <= opened /\ (applier.pc # "idle" => applier.key \in Keys)
  BY DEF ChannelsInv, StagedForFree
<1>6. CASE StageChannel
  <2>1. OnlyFree /\ UNCHANGED slots
    BY <1>6 DEF StageChannel, OnlyFree
  <2>2. CASE link = 0 \/ DisabledSlots = {}
    <3>1. Step("failed") /\ UNCHANGED slotCopy
      BY <1>6, <2>2 DEF StageChannel
    <3>2. /\ applier' \in Appliers /\ applier'.pc # "staged"
          /\ applier'.key = applier.key /\ applier'.on = applier.on
      BY <1>4, <3>1, StepType DEF Step, Appliers
    <3>3. applier'.key \in Keys
      BY <1>5, <1>6, <3>2 DEF StageChannel
    <3>4. StagedForFree' /\ CopyKnowsChannels'
      BY <1>2, <1>5, <2>1, <3>1, <3>2, <3>3
         DEF StagedForFree, CopyKnowsChannels, ChannelsInv, linkVars
    <3> QED BY <1>1, <1>2, <1>3, <2>1, <3>1, <3>2, <3>4 DEF Applies, Tables, ChannelsInv, Types
  <2>3. CASE link # 0 /\ DisabledSlots # {}
    <3>1. PICK slot \in DisabledSlots :
            /\ slotCopy' = [slotCopy EXCEPT ![slot] = applier.key]
            /\ applier' = Applier("staged", applier.key, slot, link)
      <4>1. DisabledSlots \in SUBSET Slots
        BY DEF DisabledSlots
      <4>2. Least(DisabledSlots) \in DisabledSlots
        BY <2>3, <4>1, LeastIsOne
      <4> QED BY <1>6, <2>3, <4>2 DEF StageChannel
    <3>2. slot \in Slots /\ slotCopy[slot] = Free /\ slots[slot] = Free
      BY <2>3, <3>1 DEF DisabledSlots, ChannelsInv, CopyKnowsChannels
    <3>3. applier.key \in Keys /\ applier.key # Free
      BY <1>5, <1>6, ChannelsAssumption DEF StageChannel
    <3>4. slotCopy' \in Table
      BY <1>4, <3>1, <3>2, <3>3 DEF Table
    <3>5. applier' \in Appliers
      BY <1>4, <3>1, <3>2, ApplierType
    <3>6. /\ applier'.key = applier.key /\ applier'.slot = slot /\ applier'.on = link
          /\ applier'.pc = "staged"
      BY <3>1 DEF Applier
    <3>7. slotCopy'[slot] = applier.key /\ \A i \in Slots \ {slot} : slotCopy'[i] = slotCopy[i]
      BY <1>4, <3>1, <3>2 DEF Table
    <3>8. StagedForFree'
      BY <1>2, <1>5, <2>1, <3>2, <3>3, <3>6, <3>7 DEF StagedForFree, linkVars
    <3>9. CopyKnowsChannels'
      BY <1>2, <2>1, <3>2, <3>3, <3>7 DEF CopyKnowsChannels, ChannelsInv, linkVars
    <3> QED BY <1>1, <1>2, <1>3, <2>1, <3>4, <3>5, <3>8, <3>9 DEF Applies, Tables, ChannelsInv, Types
  <2> QED BY <2>2, <2>3
<1>7. CASE SendChannel \/ VerifyChannel
  <2>1. UNCHANGED slotCopy
    BY <1>7 DEF SendChannel, VerifyChannel
  <2>2. /\ applier' \in Appliers /\ applier'.pc \in {"asking", "failed", "verified"}
        /\ applier'.key = applier.key /\ applier'.on = applier.on
    BY <1>4, <1>7, StepType DEF SendChannel, VerifyChannel
  <2>3. applier'.key \in Keys
    BY <1>5, <1>7, <2>2 DEF SendChannel, VerifyChannel
  <2>4. StagedForFree'
    BY <1>2, <1>5, <2>2, <2>3 DEF StagedForFree, linkVars
  <2>5. CASE UNCHANGED slots
    <3>1. CopyKnowsChannels'
      BY <1>2, <2>1, <2>5 DEF CopyKnowsChannels, ChannelsInv, linkVars
    <3>2. OnlyFree
      BY <2>5 DEF OnlyFree
    <3> QED BY <1>1, <1>2, <1>3, <2>1, <2>2, <2>4, <2>5, <3>1, <3>2
            DEF Applies, Tables, ChannelsInv, Types
  <2>6. CASE SendChannel /\ slots' # slots
    <3>1. /\ Alive(applier.on) /\ applier.pc = "staged"
          /\ slots' = [slots EXCEPT ![applier.slot] = applier.key]
      BY <2>6 DEF SendChannel
    <3>2. link # 0 /\ applier.on = link
      BY <3>1 DEF Alive
    <3>3. slotCopy[applier.slot] = applier.key /\ slots[applier.slot] = Free
      BY <3>1, <3>2 DEF ChannelsInv, StagedForFree
    <3>4. applier.key \in Keys /\ applier.key # Free
      BY <1>5, <3>1, ChannelsAssumption
    <3>5. slots' \in Table /\ \A i \in Slots \ {applier.slot} : slots'[i] = slots[i]
      BY <1>4, <3>1, <3>4 DEF Table
    <3>6. OnlyFree
      BY <3>3, <3>5 DEF OnlyFree
    <3>7. CopyKnowsChannels'
      BY <1>2, <1>4, <2>1, <3>3, <3>4, <3>5 DEF CopyKnowsChannels, ChannelsInv, linkVars
    <3> QED BY <1>1, <1>2, <1>3, <2>1, <2>2, <2>4, <3>5, <3>6, <3>7
            DEF Applies, Tables, ChannelsInv, Types
  <2> QED BY <1>7, <2>5, <2>6 DEF VerifyChannel
<1> QED BY <1>6, <1>7

-----------------------------------------------------------------------------
(* Links.                                                                  *)

LEMMA ChannelsLinkStep ==
  ASSUME ChannelsInv,
         \/ ChannelsOpen \/ ChannelsShow \/ NameSaved
         \/ (LoseLink \/ CloseLink \/ HideLink) /\ UNCHANGED channelsVars
  PROVE  ChannelsInv' /\ (opened' = opened => OnlyFree)
<1>1. Types /\ Lists /\ Screen /\ Tasks /\ Asked /\ Applies /\ Tables /\ LinkTypeOK
  BY DEF ChannelsInv, Types
<1>2. link \in 0..MaxOpened /\ shown \in 0..MaxOpened /\ opened \in 0..MaxOpened /\ lost \in BOOLEAN
  BY <1>1 DEF LinkTypeOK
<1>3. link <= opened /\ applier.on <= opened /\ applier.on \in 0..MaxOpened
  BY <1>1 DEF ChannelsInv, StagedForFree, Applies, Appliers
<1>4. CASE ChannelsOpen
  <2>1. /\ link' = opened + 1 /\ opened' = opened + 1 /\ opened < MaxOpened /\ lost' = FALSE
        /\ UNCHANGED shown
    BY <1>4 DEF ChannelsOpen, OpenLink
  <2>2. LinkTypeOK' /\ opened' # opened
    <3>1. MaxOpened \in Nat /\ opened \in Nat /\ opened + 1 \in 0..MaxOpened /\ opened + 1 # opened
      BY <1>2, <2>1, LinkAssumption
    <3> QED BY <1>2, <2>1, <3>1 DEF LinkTypeOK
  <2>3. UNCHANGED <<applier, draft, editing, screenVars, listed, hidden, queued, bound, asked>>
    BY <1>4 DEF ChannelsOpen
  <2>4. Applies' /\ Lists' /\ Screen' /\ Tasks' /\ Asked'
    BY <1>1, <2>3 DEF Applies, Lists, Screen, screenVars, Tasks, Asked
  <2>5. Tables' /\ slotCopy' = slots'
    BY <1>4, ChannelsAssumption DEF ChannelsOpen, Tables, Table, Slots
  <2>6. CopyKnowsChannels'
    BY <2>5 DEF CopyKnowsChannels
  <2>7. link' <= opened' /\ applier.on <= opened' /\ applier.on # link'
    BY <1>2, <1>3, <2>1
  <2>8. StagedForFree'
    BY <2>3, <2>7 DEF StagedForFree, ChannelsInv
  <2> QED BY <2>2, <2>4, <2>5, <2>6, <2>8 DEF ChannelsInv, Types
<1>5. CASE ChannelsShow
  <2>1. /\ UNCHANGED <<link, lost, opened, slots, slotCopy, applier, draft, editing,
                       emptied, mounted, overlapped, hidden, asked>>
        /\ shown' = link /\ bound' = TRUE
    BY <1>5 DEF ChannelsShow, ShowLink, applyVars
  <2>2. LinkTypeOK' /\ Tables' /\ Asked' /\ CopyKnowsChannels' /\ StagedForFree' /\ OnlyFree
    BY <1>1, <1>2, <2>1, ApplyStays DEF LinkTypeOK, Tables, Asked, OnlyFree, ChannelsInv
  <2>3. PICK d \in SUBSET Slots : filtered(slotCopy, hidden) \in [d -> Conversations]
    BY <1>1, FilteredType DEF Tables
  <2>4. Lists'
    <3>1. listed' \in [d -> Conversations] /\ hidden' \subseteq Conversations
      BY <1>1, <1>5, <2>1, <2>3 DEF ChannelsShow, Lists
    <3> QED BY <3>1, ListsFrom
  <2>5. PICK index \in Slots, cached \in [Slots -> Conversations \cup {NotLoaded}] :
          /\ current' = index
          /\ states' = [i \in Slots |-> IF i \in reassigned(slotCopy, cached, index)
                                        THEN NotLoaded ELSE cached[i]]
          /\ LET t == selected_index(filtered(slotCopy, hidden), channel_key_for(index), index)
             IN  queued' = Append(queued, IF t # index THEN t ELSE Reconciling)
    <3>1. reloaded \in [Slots -> Conversations \cup {NotLoaded}]
      BY <1>1, ReloadedType
    <3>2. 0 \in Slots /\ current \in Slots /\ states \in [Slots -> Conversations \cup {NotLoaded}]
      BY <1>1, ChannelsAssumption DEF Screen, Slots
    <3> QED BY <1>5, <3>1, <3>2 DEF ChannelsShow
  <2>6. Screen'
    BY <1>1, <2>1, <2>5 DEF Screen
  <2>7. Applies'
    BY <1>1, <2>1 DEF Applies
  <2>8. Tasks'
    <3>1. PICK t \in Slots \cup {Reconciling} : queued' = Append(queued, t)
      <4>1. selected_index(filtered(slotCopy, hidden), channel_key_for(index), index) \in Slots
        BY <2>3, SelectedType
      <4> QED BY <2>5, <4>1
    <3> QED BY <1>1, <3>1 DEF Tasks
  <2> QED BY <2>2, <2>4, <2>6, <2>7, <2>8 DEF ChannelsInv, Types
<1>7. CASE NameSaved
  <2>1. /\ UNCHANGED <<linkVars, slots, slotCopy, applier, draft, editing, emptied, mounted,
                       overlapped, listed, hidden, queued, bound>>
        /\ current' = 0 /\ states' = reloaded /\ asked' = asked + 1 /\ asked < MaxAsked
    BY <1>7 DEF NameSaved, applyVars
  <2>2. LinkTypeOK' /\ Tables' /\ CopyKnowsChannels' /\ StagedForFree' /\ OnlyFree
    BY <1>1, <2>1, ApplyStays DEF LinkTypeOK, linkVars, Tables, OnlyFree, ChannelsInv
  <2>3. Screen'
    BY <1>1, <2>1, ReloadedType, ChannelsAssumption DEF Screen, Slots
  <2>4. Lists' /\ Applies' /\ Tasks'
    BY <1>1, <2>1 DEF Lists, Applies, Tasks
  <2>5. Asked'
    BY <1>1, <2>1, ChannelsAssumption DEF Asked
  <2> QED BY <2>2, <2>3, <2>4, <2>5 DEF ChannelsInv, Types
<1>6. CASE (LoseLink \/ CloseLink \/ HideLink) /\ UNCHANGED channelsVars
  <2>1. /\ link' \in {0, link} /\ opened' = opened
        /\ shown' \in 0..MaxOpened /\ lost' \in BOOLEAN /\ link' \in 0..MaxOpened
    <3>1. 0 \in 0..MaxOpened
      BY LinkAssumption
    <3>2. CASE LoseLink
      BY <1>2, <3>1, <3>2 DEF LoseLink
    <3>3. CASE CloseLink
      BY <1>2, <3>1, <3>3 DEF CloseLink
    <3>4. CASE HideLink
      BY <1>2, <3>1, <3>4 DEF HideLink
    <3> QED BY <1>6, <3>2, <3>3, <3>4
  <2>2. LinkTypeOK'
    BY <1>2, <2>1 DEF LinkTypeOK
  <2>3. Lists' /\ Screen' /\ Tasks' /\ Asked' /\ Applies' /\ Tables' /\ OnlyFree
    BY <1>1, <1>6 DEF channelsVars, applyVars, screenVars, Lists, Screen, Tasks, Asked, Applies,
                      Tables, OnlyFree
  <2>4. CopyKnowsChannels' /\ StagedForFree'
    <3>1. UNCHANGED <<slots, slotCopy, applier>>
      BY <1>6 DEF channelsVars, applyVars
    <3>2. link' <= opened'
      BY <1>2, <1>3, <2>1
    <3> QED BY <1>3, <2>1, <3>1, <3>2 DEF CopyKnowsChannels, StagedForFree, ChannelsInv
  <2> QED BY <2>2, <2>3, <2>4 DEF ChannelsInv, Types
<1> QED BY <1>4, <1>5, <1>6, <1>7

-----------------------------------------------------------------------------
LEMMA ChannelsStart == LinkInit /\ ChannelsInit => ChannelsInv
<1> SUFFICES ASSUME LinkInit, ChannelsInit PROVE ChannelsInv
  OBVIOUS
<1>1. 0 \in Slots /\ 0 \in 0..MaxOpened /\ 0 \in 0..MaxAsked /\ NoChannel \in Conversations
  BY ChannelsAssumption, LinkAssumption DEF Slots, Conversations
<1>2. LinkTypeOK
  BY <1>1 DEF LinkInit, LinkTypeOK
<1>3. Tables /\ Lists /\ Screen /\ Asked
  BY <1>1 DEF ChannelsInit, Tables, Table, Lists, Screen, Asked
<1>4. Tasks
  BY DEF ChannelsInit, Tasks
<1>5. Applies
  BY <1>1, NoApplierType DEF ChannelsInit, Applies
<1>6. CopyKnowsChannels
  BY DEF LinkInit, CopyKnowsChannels
<1>7. StagedForFree
  BY NoApplierType DEF LinkInit, ChannelsInit, StagedForFree
<1> QED BY <1>2, <1>3, <1>4, <1>5, <1>6, <1>7 DEF ChannelsInv, Types

LEMMA ChannelsStep ==
  ChannelsInv /\ [ChannelsNext]_<<linkVars, channelsVars>> =>
    ChannelsInv' /\ (opened' = opened => OnlyFree)
<1> SUFFICES ASSUME ChannelsInv, [ChannelsNext]_<<linkVars, channelsVars>>
             PROVE  ChannelsInv' /\ (opened' = opened => OnlyFree)
  OBVIOUS
<1>1. CASE \/ BeginTask \/ \E n \in DOMAIN emptied : Fill(n)
           \/ \E i \in Slots : ChooseChannel(i)
           \/ DeleteChannel
  BY <1>1, ScreenStep DEF OnlyFree
<1>2. CASE \/ StartNewChannel \/ CancelNewChannel
           \/ \E key \in Keys : SaveNewChannel(key)
           \/ ApplyFailed \/ Promote
  BY <1>2, EditorStep DEF OnlyFree
<1>3. CASE StageChannel \/ SendChannel \/ VerifyChannel
  BY <1>3, WorkerStep
<1>4. CASE \/ ChannelsOpen \/ ChannelsShow \/ NameSaved
           \/ (LoseLink \/ CloseLink \/ HideLink) /\ UNCHANGED channelsVars
  BY <1>4, ChannelsLinkStep
<1>5. CASE UNCHANGED <<linkVars, channelsVars>>
  <2>1. Lists' /\ Screen' /\ Tasks' /\ Asked' /\ Applies' /\ Tables' /\ LinkTypeOK' /\ OnlyFree
    BY <1>5 DEF channelsVars, applyVars, screenVars, linkVars, Lists, Screen, Tasks, Asked,
                Applies, Tables, LinkTypeOK, OnlyFree, ChannelsInv, Types
  <2>2. CopyKnowsChannels' /\ StagedForFree'
    BY <1>5, ApplyStays DEF channelsVars, applyVars, linkVars, ChannelsInv
  <2> QED BY <2>1, <2>2 DEF ChannelsInv, Types
<1> QED BY <1>1, <1>2, <1>3, <1>4, <1>5 DEF ChannelsNext

(* Types hold, and with them every slot and conversation that is chosen is *)
(* one of those there are.                                                 *)
THEOREM ChannelsTypeCorrect == ChannelsSpec => []ChannelsTypeOK
<1>1. ChannelsInv => ChannelsTypeOK
  BY TypesAre DEF ChannelsInv
<1> QED BY <1>1, ChannelsStart, ChannelsStep, PTL DEF ChannelsSpec

(* Whatever was refused, lost or left in the copy, and whatever radio is   *)
(* connected next, the app writes no slot of a radio that has a channel.   *)
THEOREM ChannelsAreNotOverwritten == ChannelsSpec => NoChannelOverwritten
<1>1. ChannelsSpec => [][opened' = opened => OnlyFree]_channelsVars
  <2>1. [ChannelsNext]_<<linkVars, channelsVars>> /\ ChannelsInv =>
          [opened' = opened => OnlyFree]_channelsVars
    BY ChannelsStep
  <2> QED BY <2>1, ChannelsStart, ChannelsStep, PTL DEF ChannelsSpec
<1>2. ASSUME opened' = opened => OnlyFree
      PROVE  \A i \in Slots : opened' = opened /\ slots[i] # Free => slots'[i] = slots[i]
  BY <1>2 DEF OnlyFree
<1> QED BY <1>1, <1>2, PTL DEF NoChannelOverwritten

-----------------------------------------------------------------------------
(* The conversation that is shown.  On the link that is shown, a slot of   *)
(* the list has the channel of the copy; so has what is loaded for a slot  *)
(* other than the first, which a new list or name always drops; and what   *)
(* the transcript has or waits for, if such a slot is current.             *)

Awaited == {emptied[k] : k \in DOMAIN emptied}
Others == Slots \ {0}

ListIsOfLink == \A i \in DOMAIN listed : listed[i] = slotCopy[i]
StatesAreOfLink == \A i \in Others : states[i] \in {NotLoaded, NoChannel, slotCopy[i]}
TranscriptIsOfLink ==
  current # 0 /\ ~overlapped => mounted \cup Awaited \subseteq {slotCopy[current], NoChannel}
OfLink ==
  shown # 0 /\ shown = link => ListIsOfLink /\ StatesAreOfLink /\ TranscriptIsOfLink

(* Before the first profile nothing can be chosen.                         *)
NothingYet ==
  ~bound =>
    /\ shown = 0 /\ current = 0 /\ queued = <<>> /\ applier.pc = "idle"
    /\ DOMAIN listed = {0} /\ \A i \in Others : states[i] = NotLoaded

ShownInv == OfLink /\ NothingYet

LEMMA NoneOfKeys == NotLoaded \notin Conversations /\ Free \notin Conversations
BY ChannelsAssumption DEF Conversations

LEMMA FilteredIsCopy ==
  ASSUME NEW hid, NEW i \in DOMAIN filtered(slotCopy, hid)
  PROVE  filtered(slotCopy, hid)[i] = slotCopy[i]
BY DEF filtered

LEMMA MountShows ==
  ASSUME Screen, NEW key \in Conversations, Mount(key)
  PROVE  ~overlapped' => mounted' \cup Awaited' = {key}
<1> SUFFICES ASSUME emptied = <<>> PROVE mounted' \cup Awaited' = {key}
  BY DEF Mount
<1>1. emptied' = <<key>> /\ mounted' = {}
  BY DEF Mount
<1> QED BY <1>1 DEF Awaited

LEMMA KeyOfLink ==
  ASSUME ListIsOfLink, NEW i
  PROVE  channel_key_for(i) \in {slotCopy[i], NoChannel}
BY DEF ListIsOfLink, channel_key_for

LEMMA SwitchShows ==
  ASSUME Screen, Lists, ListIsOfLink, StatesAreOfLink, TranscriptIsOfLink,
         NEW i \in Slots, SwitchTo(i), UNCHANGED <<slotCopy, listed>>
  PROVE  StatesAreOfLink' /\ TranscriptIsOfLink'
<1>1. CASE i = current
  BY <1>1 DEF SwitchTo, screenVars, StatesAreOfLink, TranscriptIsOfLink, Awaited
<1>2. CASE i # current
  <2>1. Mount(loaded(i)) /\ current' = i /\ states' = [states EXCEPT ![i] = loaded(i)]
    BY <1>2 DEF SwitchTo
  <2>2. loaded(i) \in Conversations
    BY KeyType DEF loaded, Screen
  <2>3. i # 0 => loaded(i) \in {slotCopy[i], NoChannel}
    BY KeyOfLink DEF loaded, StatesAreOfLink, Others
  <2>4. StatesAreOfLink'
    BY <2>1, <2>3 DEF StatesAreOfLink, Screen, Others
  <2>5. ~overlapped' => mounted' \cup Awaited' = {loaded(i)}
    BY <2>1, <2>2, MountShows
  <2>6. TranscriptIsOfLink'
    BY <2>1, <2>3, <2>5 DEF TranscriptIsOfLink
  <2> QED BY <2>4, <2>6
<1> QED BY <1>1, <1>2

LEMMA ReconcileShows ==
  ASSUME Screen, Lists, ListIsOfLink, StatesAreOfLink, TranscriptIsOfLink,
         Reconcile, UNCHANGED <<slotCopy, listed>>
  PROVE  StatesAreOfLink' /\ TranscriptIsOfLink'
<1>1. PICK key \in Conversations : key = channel_key_for(current)
  BY KeyType
<1>2. key \in {slotCopy[current], NoChannel}
  BY <1>1, KeyOfLink
<1>3. CASE key = states[current]
  BY <1>1, <1>3 DEF Reconcile, screenVars, StatesAreOfLink, TranscriptIsOfLink, Awaited
<1>4. CASE key # states[current]
  <2>1. Mount(key) /\ current' = current /\ states' = [states EXCEPT ![current] = key]
    BY <1>1, <1>4 DEF Reconcile
  <2>2. StatesAreOfLink'
    BY <1>2, <2>1 DEF StatesAreOfLink, Screen, Others
  <2>3. ~overlapped' => mounted' \cup Awaited' = {key}
    BY <2>1, MountShows
  <2>4. TranscriptIsOfLink'
    BY <1>2, <2>1, <2>3 DEF TranscriptIsOfLink
  <2> QED BY <2>2, <2>4
<1> QED BY <1>3, <1>4

LEMMA FillShows ==
  ASSUME Screen, NEW n \in DOMAIN emptied, Fill(n)
  PROVE  mounted' \cup Awaited' \subseteq mounted \cup Awaited
<1>1. emptied \in Seq(Conversations) /\ n \in 1..Len(emptied)
  BY DEF Screen
<1>2. /\ mounted' = mounted \cup {emptied[n]}
      /\ emptied' = SubSeq(emptied, 1, n - 1) \o SubSeq(emptied, n + 1, Len(emptied))
  BY DEF Fill, RemoveAt
<1>3. \A k \in DOMAIN emptied' : emptied'[k] \in Awaited
  <2> DEFINE front == SubSeq(emptied, 1, n - 1)
             back == SubSeq(emptied, n + 1, Len(emptied))
  <2>4. /\ front \in Seq(Conversations) /\ Len(front) = n - 1
        /\ \A k \in 1..(n - 1) : front[k] = emptied[k]
    BY <1>1
  <2>5. /\ back \in Seq(Conversations) /\ Len(back) = Len(emptied) - n
        /\ \A k \in 1..(Len(emptied) - n) : back[k] = emptied[n + k]
    BY <1>1
  <2>6. emptied' = front \o back
    BY <1>2
  <2>7. Len(emptied) \in Nat /\ n \in Nat /\ n <= Len(emptied) /\ n >= 1
    BY <1>1
  <2> HIDE DEF front, back
  <2>8. /\ Len(emptied') = Len(front) + Len(back)
        /\ \A k \in 1..(Len(front) + Len(back)) :
             emptied'[k] = IF k <= Len(front) THEN front[k] ELSE back[k - Len(front)]
    <3> DEFINE all == front \o back
    <3>1. front \in Seq(Conversations) /\ back \in Seq(Conversations)
      BY <2>4, <2>5
    <3>2. Len(all) = Len(front) + Len(back)
      BY <3>1
    <3>3. \A k \in 1..(Len(front) + Len(back)) :
            all[k] = IF k <= Len(front) THEN front[k] ELSE back[k - Len(front)]
      BY <3>1
    <3> HIDE DEF all
    <3>4. emptied' = all
      BY <2>6 DEF all
    <3> QED BY <3>2, <3>3, <3>4
  <2>1. Len(emptied') = Len(emptied) - 1
    BY <2>4, <2>5, <2>7, <2>8
  <2>2. ASSUME NEW k \in 1..Len(emptied) - 1
        PROVE  emptied'[k] = IF k < n THEN emptied[k] ELSE emptied[k + 1]
    <3>3. Len(front) + Len(back) = Len(emptied) - 1
      BY <2>4, <2>5, <2>7
    <3>4. k \in 1..(Len(front) + Len(back))
      BY <3>3
    <3>5. emptied'[k] = IF k <= Len(front) THEN front[k] ELSE back[k - Len(front)]
      BY <2>8, <3>4
    <3>6. emptied'[k] = IF k <= n - 1 THEN front[k] ELSE back[k - (n - 1)]
      BY <2>4, <3>5
    <3>1. CASE k < n
      <4>1. k \in 1..(n - 1) /\ k <= n - 1
        BY <2>7, <3>1
      <4>2. emptied'[k] = front[k]
        BY <3>6, <4>1
      <4> QED BY <2>4, <3>1, <4>1, <4>2
    <3>2. CASE k >= n
      <4>1. k - (n - 1) \in 1..(Len(emptied) - n) /\ n + (k - (n - 1)) = k + 1
        BY <2>7, <3>2
      <4>2. emptied'[k] = back[k - (n - 1)]
        <5>1. ~(k <= n - 1)
          BY <2>7, <3>2
        <5> QED BY <3>6, <5>1
      <4>3. back[k - (n - 1)] = emptied[k + 1]
        BY <2>5, <4>1
      <4> QED BY <2>7, <3>2, <4>2, <4>3
    <3> QED BY <2>7, <3>1, <3>2
  <2>3. DOMAIN emptied' = 1..Len(emptied) - 1
    <3>1. emptied' \in Seq(Conversations)
      BY <2>4, <2>5, <2>6
    <3> QED BY <2>1, <3>1
  <2> QED BY <1>1, <2>2, <2>3 DEF Awaited
<1> QED BY <1>2, <1>3 DEF Awaited

(* The user's moves and the tasks.                                         *)
LEMMA ScreenShows ==
  ASSUME ChannelsInv, ShownInv,
         \/ BeginTask \/ \E n \in DOMAIN emptied : Fill(n)
         \/ \E i \in Slots : ChooseChannel(i)
         \/ DeleteChannel
  PROVE  ShownInv'
<1>1. Screen /\ Lists /\ Tasks
  BY DEF ChannelsInv, Types
<1>2. UNCHANGED <<linkVars, slotCopy, applier, bound>>
  BY DEF BeginTask, Fill, ChooseChannel, DeleteChannel, applyVars
<1>3. NothingYet'
  <2> SUFFICES ASSUME ~bound
               PROVE  /\ shown = 0 /\ current' = 0 /\ queued' = <<>> /\ applier.pc = "idle"
                      /\ DOMAIN listed' = {0} /\ \A i \in Others : states'[i] = NotLoaded
    BY <1>2 DEF NothingYet, linkVars
  <2>1. /\ shown = 0 /\ current = 0 /\ queued = <<>> /\ applier.pc = "idle"
        /\ DOMAIN listed = {0} /\ \A i \in Others : states[i] = NotLoaded
    BY DEF ShownInv, NothingYet
  <2>2. PICK n \in DOMAIN emptied : Fill(n)
    BY <2>1 DEF BeginTask, ChooseChannel, DeleteChannel
  <2> QED BY <2>1, <2>2 DEF Fill
<1>4. OfLink'
  <2> SUFFICES ASSUME shown # 0, shown = link
               PROVE  ListIsOfLink' /\ StatesAreOfLink' /\ TranscriptIsOfLink'
    BY <1>2 DEF OfLink, linkVars
  <2>1. ListIsOfLink /\ StatesAreOfLink /\ TranscriptIsOfLink
    BY DEF ShownInv, OfLink
  <2>2. CASE BeginTask
    <3>1. /\ UNCHANGED listed /\ Head(queued) \in Slots \cup {Reconciling}
          /\ IF Head(queued) = Reconciling THEN Reconcile ELSE SwitchTo(Head(queued))
      BY <1>1, <2>2 DEF BeginTask, Tasks
    <3>2. ListIsOfLink'
      BY <1>2, <2>1, <3>1 DEF ListIsOfLink
    <3>3. CASE Head(queued) = Reconciling
      BY <1>1, <1>2, <2>1, <3>1, <3>2, <3>3, ReconcileShows
    <3>4. CASE Head(queued) # Reconciling
      BY <1>1, <1>2, <2>1, <3>1, <3>2, <3>4, SwitchShows
    <3> QED BY <3>3, <3>4
  <2>3. ASSUME NEW n \in DOMAIN emptied, Fill(n)
        PROVE  ListIsOfLink' /\ StatesAreOfLink' /\ TranscriptIsOfLink'
    <3>1. UNCHANGED <<current, states, overlapped, listed>>
      BY <2>3 DEF Fill
    <3>2. mounted' \cup Awaited' \subseteq mounted \cup Awaited
      BY <1>1, <2>3, FillShows
    <3> QED BY <1>2, <2>1, <3>1, <3>2
            DEF ListIsOfLink, StatesAreOfLink, TranscriptIsOfLink
  <2>4. ASSUME NEW i \in Slots, ChooseChannel(i)
        PROVE  ListIsOfLink' /\ StatesAreOfLink' /\ TranscriptIsOfLink'
    <3>1. SwitchTo(i) /\ UNCHANGED listed
      BY <2>4 DEF ChooseChannel
    <3>2. ListIsOfLink'
      BY <1>2, <2>1, <3>1 DEF ListIsOfLink
    <3> QED BY <1>1, <1>2, <2>1, <3>1, <3>2, SwitchShows
  <2>5. CASE DeleteChannel
    <3>1. UNCHANGED <<current, emptied, mounted, overlapped>>
      BY <2>5 DEF DeleteChannel
    <3>2. TranscriptIsOfLink'
      BY <1>2, <2>1, <3>1 DEF TranscriptIsOfLink, Awaited
    <3>3. CASE DOMAIN listed = {current}
      BY <1>2, <2>1, <2>5, <3>2, <3>3 DEF DeleteChannel, ListIsOfLink, StatesAreOfLink
    <3>4. CASE DOMAIN listed # {current}
      <4>1. /\ listed' = [i \in DOMAIN listed \ {current} |-> listed[i]]
            /\ states' = [states EXCEPT ![current] = NotLoaded]
        BY <2>5, <3>4 DEF DeleteChannel
      <4>2. ListIsOfLink'
        BY <1>2, <2>1, <4>1 DEF ListIsOfLink
      <4>3. StatesAreOfLink'
        BY <1>1, <1>2, <2>1, <4>1 DEF StatesAreOfLink, Screen, Others
      <4> QED BY <3>2, <4>2, <4>3
    <3> QED BY <3>3, <3>4
  <2> QED BY <2>2, <2>3, <2>4, <2>5
<1> QED BY <1>3, <1>4 DEF ShownInv

(* The copy changes where it was free, which no list and no transcript had.*)
LEMMA WorkerShows ==
  ASSUME ChannelsInv, ShownInv, StageChannel \/ SendChannel \/ VerifyChannel
  PROVE  ShownInv'
<1>1. Screen /\ Lists /\ Tables
  BY DEF ChannelsInv, Types
<1>2. /\ UNCHANGED <<linkVars, screenVars, listed, queued, bound>>
      /\ applier.pc # "idle"
  BY DEF StageChannel, SendChannel, VerifyChannel
<1>3. NothingYet'
  BY <1>2 DEF ShownInv, NothingYet
<1>4. \A i \in Slots : slotCopy[i] # Free => slotCopy'[i] = slotCopy[i]
  <2>1. CASE StageChannel /\ slotCopy' # slotCopy
    <3>1. Least(DisabledSlots) \in DisabledSlots
      BY <2>1, LeastIsOne DEF StageChannel, DisabledSlots
    <3> QED BY <1>1, <2>1, <3>1 DEF StageChannel, DisabledSlots, Tables, Table
  <2>2. CASE UNCHANGED slotCopy
    BY <2>2
  <2> QED BY <2>1, <2>2 DEF SendChannel, VerifyChannel
<1>5. OfLink'
  <2> SUFFICES ASSUME shown # 0, shown = link
               PROVE  ListIsOfLink' /\ StatesAreOfLink' /\ TranscriptIsOfLink'
    BY <1>2 DEF OfLink, linkVars
  <2>1. ListIsOfLink /\ StatesAreOfLink /\ TranscriptIsOfLink
    BY DEF ShownInv, OfLink
  <2>2. ListIsOfLink'
    BY <1>1, <1>2, <1>4, <2>1, NoneOfKeys DEF ListIsOfLink, Lists
  <2>3. StatesAreOfLink'
    <3> SUFFICES ASSUME NEW i \in Others
                 PROVE  states[i] \in {NotLoaded, NoChannel, slotCopy'[i]}
      BY <1>2 DEF StatesAreOfLink, screenVars
    <3>1. states[i] \in {NotLoaded, NoChannel, slotCopy[i]} /\ i \in Slots
      BY <2>1 DEF StatesAreOfLink, Others
    <3>2. states[i] \in Conversations \cup {NotLoaded}
      BY <1>1, <3>1 DEF Screen
    <3> QED BY <1>4, <3>1, <3>2, NoneOfKeys
  <2>4. TranscriptIsOfLink'
    <3> SUFFICES ASSUME current # 0, ~overlapped, NEW key \in mounted \cup Awaited
                 PROVE  key \in {slotCopy'[current], NoChannel}
      BY <1>2 DEF TranscriptIsOfLink, Awaited, screenVars
    <3>1. key \in {slotCopy[current], NoChannel} /\ current \in Slots
      BY <1>1, <2>1 DEF TranscriptIsOfLink, Screen
    <3>2. key \in Conversations
      BY <1>1 DEF Screen, Awaited
    <3> QED BY <1>4, <3>1, <3>2, NoneOfKeys
  <2> QED BY <2>2, <2>3, <2>4
<1> QED BY <1>3, <1>5 DEF ShownInv

LEMMA EditorShows ==
  ASSUME ChannelsInv, ShownInv,
         \/ StartNewChannel \/ CancelNewChannel
         \/ \E key \in Keys : SaveNewChannel(key)
         \/ ApplyFailed \/ Promote
  PROVE  ShownInv'
<1>1. UNCHANGED <<linkVars, slotCopy, screenVars, bound>>
  BY DEF StartNewChannel, CancelNewChannel, SaveNewChannel, ApplyFailed, Promote
<1>2. NothingYet'
  <2> SUFFICES ASSUME ~bound
               PROVE  queued' = <<>> /\ applier'.pc = "idle" /\ DOMAIN listed' = {0}
    BY <1>1 DEF ShownInv, NothingYet, linkVars, screenVars
  <2>1. shown = 0 /\ queued = <<>> /\ applier.pc = "idle" /\ DOMAIN listed = {0}
    BY DEF ShownInv, NothingYet
  <2> QED BY <2>1 DEF StartNewChannel, CancelNewChannel, SaveNewChannel, ApplyFailed, Promote
<1>3. OfLink'
  <2> SUFFICES ASSUME shown # 0, shown = link
               PROVE  ListIsOfLink' /\ StatesAreOfLink' /\ TranscriptIsOfLink'
    BY <1>1 DEF OfLink, linkVars
  <2>1. ListIsOfLink /\ StatesAreOfLink /\ TranscriptIsOfLink
    BY DEF ShownInv, OfLink
  <2>2. listed' = listed \/ listed' = filtered(slotCopy, hidden')
    BY DEF StartNewChannel, CancelNewChannel, SaveNewChannel, ApplyFailed, Promote
  <2>3. ListIsOfLink'
    BY <1>1, <2>1, <2>2, FilteredIsCopy DEF ListIsOfLink
  <2> QED BY <1>1, <2>1, <2>3
          DEF StatesAreOfLink, TranscriptIsOfLink, Awaited, screenVars
<1> QED BY <1>2, <1>3 DEF ShownInv

LEMMA LinkShows ==
  ASSUME ChannelsInv, ShownInv,
         \/ ChannelsOpen \/ ChannelsShow \/ NameSaved
         \/ (LoseLink \/ CloseLink \/ HideLink) /\ UNCHANGED channelsVars
  PROVE  ShownInv'
<1>1. Screen /\ Lists
  BY DEF ChannelsInv, Types
<1>2. CASE ChannelsOpen
  <2>1. shown' = 0 /\ UNCHANGED <<shown, screenVars, listed, queued, bound, applier>>
    BY <1>2 DEF ChannelsOpen, OpenLink
  <2> QED BY <2>1 DEF ShownInv, OfLink, NothingYet, screenVars
<1>3. CASE ChannelsShow
  <2>1. bound' = TRUE /\ UNCHANGED <<slotCopy, emptied, mounted, overlapped>>
    BY <1>3 DEF ChannelsShow, applyVars
  <2>2. listed' = filtered(slotCopy, hidden)
    BY <1>3 DEF ChannelsShow
  <2>3. PICK cached :
          /\ \A i \in Others : cached[i] = NotLoaded
          /\ current' = 0
          /\ states' = [i \in Slots |-> IF i \in reassigned(slotCopy, cached, 0)
                                        THEN NotLoaded ELSE cached[i]]
    <3>1. \A i \in Others : reloaded[i] = NotLoaded
      BY DEF reloaded, Others
    <3>2. ~bound => current = 0 /\ \A i \in Others : states[i] = NotLoaded
      BY DEF ShownInv, NothingYet
    <3>3. CASE bound
      BY <1>3, <3>1, <3>3 DEF ChannelsShow
    <3>4. CASE ~bound
      BY <1>3, <3>2, <3>4 DEF ChannelsShow
    <3> QED BY <3>3, <3>4
  <2>4. \A i \in Others : states'[i] = NotLoaded
    BY <2>3 DEF Others
  <2> QED BY <2>1, <2>2, <2>3, <2>4, FilteredIsCopy
          DEF ShownInv, OfLink, NothingYet, ListIsOfLink, StatesAreOfLink, TranscriptIsOfLink
<1>4. CASE NameSaved
  <2>1. /\ UNCHANGED <<linkVars, slotCopy, listed, bound>> /\ bound
        /\ current' = 0 /\ states' = reloaded
    BY <1>4 DEF NameSaved, applyVars
  <2>2. \A i \in Others : states'[i] = NotLoaded
    BY <2>1 DEF reloaded, Others
  <2> QED BY <2>1, <2>2
          DEF ShownInv, OfLink, NothingYet, ListIsOfLink, StatesAreOfLink, TranscriptIsOfLink,
              linkVars
<1>5. CASE (LoseLink \/ CloseLink \/ HideLink) /\ UNCHANGED channelsVars
  <2>1. /\ shown' # 0 /\ shown' = link' => shown # 0 /\ shown = link
        /\ shown = 0 => shown' = 0
    BY <1>5 DEF LoseLink, CloseLink, HideLink
  <2>2. UNCHANGED <<slotCopy, applier, screenVars, listed, queued, bound>>
    BY <1>5 DEF channelsVars, applyVars
  <2> QED BY <2>1, <2>2
          DEF ShownInv, OfLink, NothingYet, ListIsOfLink, StatesAreOfLink, TranscriptIsOfLink,
              Awaited, screenVars
<1> QED BY <1>2, <1>3, <1>4, <1>5

LEMMA ShownStep ==
  ChannelsInv /\ ShownInv /\ [ChannelsNext]_<<linkVars, channelsVars>> => ShownInv'
<1> SUFFICES ASSUME ChannelsInv, ShownInv, [ChannelsNext]_<<linkVars, channelsVars>>
             PROVE  ShownInv'
  OBVIOUS
<1>1. CASE UNCHANGED <<linkVars, channelsVars>>
  BY <1>1 DEF channelsVars, applyVars, screenVars, linkVars, ShownInv, OfLink, NothingYet,
              ListIsOfLink, StatesAreOfLink, TranscriptIsOfLink, Awaited
<1> QED BY <1>1, ScreenShows, WorkerShows, EditorShows, LinkShows DEF ChannelsNext

(* A slot other than the first that is current shows its own channel's     *)
(* history; for any number of slots, channels, radios and tasks.           *)
THEOREM ChosenHistoryIsShown == ChannelsSpec => []ChosenIsShown
<1>1. LinkInit /\ ChannelsInit => ShownInv
  <2> SUFFICES ASSUME LinkInit, ChannelsInit PROVE ShownInv
    OBVIOUS
  <2> QED BY DEF LinkInit, ChannelsInit, NoApplier, Applier, ShownInv, OfLink, NothingYet,
                 Others
<1>2. ChannelsInv /\ ShownInv => ChosenIsShown
  BY DEF ShownInv, OfLink, ListIsOfLink, TranscriptIsOfLink, ChosenIsShown, Quiet
<1> QED BY <1>1, <1>2, ChannelsStart, ChannelsStep, ShownStep, PTL DEF ChannelsSpec
=============================================================================

--------------------------- MODULE ProfilesProofs ---------------------------
(***************************************************************************)
(* Proofs about Profiles, for any radios, names, packets and bounds.       *)
(***************************************************************************)
EXTENDS Profiles, TLAPS

(* There is no other interface than one to the target, and the screen is   *)
(* told of that one.                                                       *)
LinkIsTarget ==
  /\ attached \in {NoKey, target}
  /\ running /\ step = "announce" => attached = target

(* What the rename worker read, of a radio that may be gone by now.        *)
SaverRead ==
  /\ saver.pc # "idle" => saver.name \in Spellings
  /\ saver.pc \in {"write", "read", "saved"} => saver.iface \in Radios
  /\ saver.pc = "saved" /\ saver.iface # target => ~shown /\ step = "connect"

(* The store is bound to a profile of the target, if to any.               *)
BoundToTarget ==
  /\ stamp # NoKey => stamp[1] = target /\ current # NoKey
  /\ pending => current # NoKey

(* Unless the store failed, each profile that is in use is one that the    *)
(* store knows, and the app and the store agree on the resolved one.       *)
Owned ==
  spent.faults = 0 =>
    /\ \A r \in rows : r[2] # NoKey => r[2] \in profiles
    /\ stamp # NoKey => stamp \in profiles
    /\ current # NoKey => current \in profiles
    /\ running /\ current # NoKey /\ ~pending => isBound /\ stamp = current

ProfilesInv ==
  ProfilesTypeOK /\ LinkIsTarget /\ SaverRead /\ BoundToTarget /\ RowKeepsItsRadio /\ Owned

(* What a step does to the rows, and to the transcript.                    *)
RowsStayOrMove ==
  spent.faults = 0 =>
    \/ rows \subseteq rows'
    \/ \E old \in ProfileKeys, new \in ProfileKeys :
         /\ \A r \in rows : r[2] # new
         /\ rows' = rekey(old, new)

OwnEnters ==
  running' /\ current' # NoKey /\ ~pending' /\ spent'.faults = 0 =>
    \A r \in loaded' : \/ r[2] = current'
                       \/ r \in loaded /\ current \in {NoKey, current'} /\ ~pending

(* The types of what the app and the store keep.                           *)
StoreTypes ==
  /\ rows \subseteq Texts \X MaybeKeys
  /\ profiles \subseteq ProfileKeys
  /\ {running, shown, pending, isBound} \subseteq BOOLEAN
  /\ current \in MaybeKeys
  /\ stamp \in MaybeKeys
  /\ loaded \subseteq Texts \X MaybeKeys
  /\ keyed \in {"no", "due", "yes"}
LinkTypes ==
  /\ named \in [Radios -> Spellings]
  /\ attached \in Radios \cup {NoKey}
  /\ step \in {"connect", "announce", "watch", "down", "ended"}
  /\ reported \in Spellings
  /\ target \in Radios
  /\ saver \in SaverStates
  /\ spent \in [{"renames", "links", "faults", "crashes"} -> Nat]

LEMMA TypesSplit == ProfilesTypeOK <=> StoreTypes /\ LinkTypes
BY DEF ProfilesTypeOK, StoreTypes, LinkTypes

(* A profile key names its radio.                                          *)
LEMMA KeyOfRadio ==
  ASSUME NEW radio \in Radios, NEW spelling \in Spellings,
         canonical_profile_key(radio, spelling) # NoKey
  PROVE  /\ canonical_profile_key(radio, spelling) \in ProfileKeys
         /\ canonical_profile_key(radio, spelling)[1] = radio
BY DEF canonical_profile_key, ProfileKeys

LEMMA KeyIsMaybe ==
  ASSUME NEW radio \in Radios, NEW spelling \in Spellings
  PROVE  canonical_profile_key(radio, spelling) \in MaybeKeys
BY KeyOfRadio DEF MaybeKeys

LEMMA NoRadioIsNoKey == NoKey \notin Radios
BY ProfilesAssumption

(* A row keeps its packet when it is rekeyed, and its radio when the radio *)
(* of the key stays.                                                       *)
LEMMA RekeyedRow ==
  ASSUME NEW old, NEW new, NEW s \in rekey(old, new), rows \subseteq Texts \X MaybeKeys
  PROVE  \E r \in rows : /\ s[1] = r[1]
                         /\ \/ s = r /\ r[2] # old
                            \/ s = <<r[1], new>> /\ r[2] = old
<1>1. PICK r \in rows : s = IF r[2] = old THEN <<r[1], new>> ELSE r
  BY DEF rekey
<1> QED BY <1>1

-----------------------------------------------------------------------------
(* _activate_local_profile.                                                *)

(* What each outcome of it keeps.                                          *)
Kept ==
  /\ StoreTypes' /\ RowKeepsItsRadio' /\ BoundToTarget' /\ Owned'
  /\ RowsStayOrMove /\ OwnEnters

LEMMA UnresolveKeeps ==
  ASSUME ProfilesInv, Unresolve, UNCHANGED <<running, spent>>,
         shown' \in BOOLEAN, keyed' \in {"no", "due", "yes"}
  PROVE  Kept
<1> USE DEF ProfilesInv
<1>1. stamp' = NoKey
  BY DEF Unresolve, unbound_stamp, BoundToTarget
<1>2. StoreTypes'
  BY <1>1, TypesSplit DEF Unresolve, StoreTypes, MaybeKeys
<1>3. RowKeepsItsRadio'
  BY DEF Unresolve, RowKeepsItsRadio
<1>4. BoundToTarget'
  BY <1>1 DEF Unresolve, BoundToTarget
<1>5. current' # NoKey => pending'
  BY DEF Unresolve
<1>6. Owned'
  BY <1>1, <1>5 DEF Unresolve, Owned
<1>7. RowsStayOrMove
  BY DEF Unresolve, RowsStayOrMove
<1>8. OwnEnters
  BY <1>5 DEF OwnEnters
<1> QED BY <1>2, <1>3, <1>4, <1>6, <1>7, <1>8 DEF Kept

LEMMA RebindKeeps ==
  ASSUME ProfilesInv, NEW key \in ProfileKeys, key = current, key[1] = target, Rebind(key),
         UNCHANGED <<running, target, spent>>,
         shown' \in BOOLEAN, keyed' \in {"no", "due", "yes"}
  PROVE  Kept
<1> USE DEF ProfilesInv
<1>1. key # NoKey
  BY ProfilesAssumption
<1>2. loaded' \subseteq Texts \X MaybeKeys
  BY TypesSplit DEF Rebind, after_gap, ns_filter, StoreTypes
<1>3. StoreTypes'
  BY <1>2, TypesSplit DEF Rebind, StoreTypes, MaybeKeys
<1>4. RowKeepsItsRadio'
  BY DEF Rebind, RowKeepsItsRadio
<1>5. BoundToTarget'
  BY <1>1 DEF Rebind, BoundToTarget
<1>6. Owned'
  BY DEF Rebind, Owned
<1>7. RowsStayOrMove
  BY DEF Rebind, RowsStayOrMove
<1>8. OwnEnters
  BY DEF Rebind, after_gap, ns_filter, OwnEnters
<1> QED BY <1>3, <1>4, <1>5, <1>6, <1>7, <1>8 DEF Kept

(* Rows that move to a new pair go to one of their own radio, that no row  *)
(* has so far.                                                             *)
LEMMA MovedRows ==
  ASSUME ProfilesInv, NEW key \in ProfileKeys, follows_rename(key),
         rows' = rekey(current, key)
  PROVE  /\ rows' \subseteq Texts \X MaybeKeys
         /\ RowKeepsItsRadio'
         /\ RowsStayOrMove
         /\ spent.faults = 0 =>
              \A s \in rows' : s[2] # NoKey => s[2] \in (profiles \ {current}) \cup {key}
<1> USE DEF ProfilesInv
<1>1. rows \subseteq Texts \X MaybeKeys /\ current \in MaybeKeys
  BY TypesSplit DEF StoreTypes
<1>2. current # NoKey /\ current[1] = key[1] /\ key \notin profiles
  BY DEF follows_rename
<1>3. current \in ProfileKeys /\ key # NoKey /\ key \in MaybeKeys
  BY <1>1, <1>2, ProfilesAssumption DEF MaybeKeys
<1>4. ASSUME NEW s \in rows'
      PROVE  /\ s \in Texts \X MaybeKeys
             /\ s[2] # NoKey => s[2][1] = HeardBy[s[1]]
             /\ spent.faults = 0 /\ s[2] # NoKey => s[2] \in (profiles \ {current}) \cup {key}
  <2>1. PICK r \in rows : /\ s[1] = r[1]
                          /\ \/ s = r /\ r[2] # current
                             \/ s = <<r[1], key>> /\ r[2] = current
    BY <1>1, <1>4, RekeyedRow
  <2>2. CASE s = r /\ r[2] # current
    BY <1>1, <2>1, <2>2 DEF RowKeepsItsRadio, Owned
  <2>3. CASE s = <<r[1], key>> /\ r[2] = current
    <3>1. r[1] \in Texts /\ s[2] = key /\ s[1] = r[1]
      BY <1>1, <2>3
    <3>2. key[1] = HeardBy[r[1]]
      BY <1>2, <2>3 DEF RowKeepsItsRadio
    <3> QED BY <1>3, <2>3, <3>1, <3>2
  <2> QED BY <2>1, <2>2, <2>3
<1>5. RowsStayOrMove
  <2>1. spent.faults = 0 => \A r \in rows : r[2] # key
    BY <1>2, <1>3 DEF Owned
  <2> QED BY <1>3, <2>1 DEF RowsStayOrMove
<1> QED BY <1>4, <1>5 DEF RowKeepsItsRadio

LEMMA AdoptKeeps ==
  ASSUME ProfilesInv, NEW key \in ProfileKeys, key[1] = target, Adopt(key),
         UNCHANGED <<running, target, spent>>,
         shown' \in BOOLEAN, keyed' \in {"no", "due", "yes"}
  PROVE  Kept
<1> USE DEF ProfilesInv
<1>1. key # NoKey /\ key \in MaybeKeys
  BY ProfilesAssumption DEF MaybeKeys
<1>2. pending' = FALSE /\ current' = key /\ isBound' = TRUE /\ stamp' = key
  BY DEF Adopt
<1>3. /\ rows' \subseteq Texts \X MaybeKeys
      /\ RowKeepsItsRadio'
      /\ RowsStayOrMove
      /\ profiles' \subseteq ProfileKeys
      /\ key \in profiles'
      /\ spent.faults = 0 => \A s \in rows' : s[2] # NoKey => s[2] \in profiles'
  <2>1. CASE follows_rename(key)
    <3>1. rows' = rekey(current, key) /\ profiles' = (profiles \ {current}) \cup {key}
      BY <2>1 DEF Adopt
    <3> QED BY <2>1, <3>1, MovedRows, TypesSplit DEF StoreTypes
  <2>2. CASE ~follows_rename(key)
    <3>1. rows' = rows /\ profiles' = profiles \cup {key}
      BY <2>2 DEF Adopt, ensure_profile
    <3> QED BY <3>1, TypesSplit DEF StoreTypes, RowKeepsItsRadio, Owned, RowsStayOrMove
  <2> QED BY <2>1, <2>2
<1>4. loaded' = IF current = NoKey THEN loaded ELSE {r \in rows' : r[2] = key}
  BY DEF Adopt
<1>5. StoreTypes'
  BY <1>1, <1>2, <1>3, <1>4, TypesSplit DEF StoreTypes
<1>6. BoundToTarget'
  BY <1>1, <1>2 DEF BoundToTarget
<1>7. Owned'
  BY <1>2, <1>3 DEF Owned
<1>8. OwnEnters
  <2>1. CASE current = NoKey
    BY <1>4, <2>1 DEF OwnEnters, BoundToTarget
  <2>2. CASE current # NoKey
    BY <1>2, <1>4, <2>2 DEF OwnEnters
  <2> QED BY <2>1, <2>2
<1> QED BY <1>3, <1>5, <1>6, <1>7, <1>8 DEF Kept

LEMMA ResolvesKeeps ==
  ASSUME ProfilesInv, NEW key \in MaybeKeys, key # NoKey => key[1] = target, Resolves(key),
         UNCHANGED <<running, target, spent>>,
         shown' \in BOOLEAN, keyed' \in {"no", "due", "yes"}
  PROVE  Kept
<1>1. key # NoKey => key \in ProfileKeys
  BY DEF MaybeKeys
<1> QED BY <1>1, UnresolveKeeps, RebindKeeps, AdoptKeeps DEF Resolves

(* While the store has not failed, no migration collides.                  *)
LEMMA NoCollision ==
  ASSUME ProfilesInv, NEW key \in ProfileKeys, follows_rename(key), spent.faults = 0
  PROVE  ~RekeyCollides(current, key)
<1>1. key # NoKey
  BY ProfilesAssumption
<1>2. \A s \in rows : s[2] # key
  BY <1>1 DEF ProfilesInv, Owned, follows_rename
<1> QED BY <1>2 DEF RekeyCollides

(* What a failed activation keeps.                                         *)
LEMMA BreaksKeeps ==
  ASSUME ProfilesInv, NEW key \in MaybeKeys, key # NoKey => key[1] = target, Breaks(key),
         running' \in BOOLEAN, UNCHANGED target,
         shown' \in BOOLEAN, keyed' \in {"no", "due", "yes"}
  PROVE  Kept /\ spent' \in [{"renames", "links", "faults", "crashes"} -> Nat]
<1> USE DEF ProfilesInv
<1>1. key # NoKey /\ key \in ProfileKeys
  BY DEF Breaks, MaybeKeys
<1>2. spent \in [{"renames", "links", "faults", "crashes"} -> Nat]
  BY TypesSplit DEF LinkTypes
<1>3. spent' \in [{"renames", "links", "faults", "crashes"} -> Nat] /\ spent'.faults # 0
  <2>1. CASE spent' = [spent EXCEPT !.faults = @ + 1]
    BY <1>2, <2>1
  <2>2. CASE follows_rename(key) /\ RekeyCollides(current, key) /\ UNCHANGED spent
    BY <1>1, <1>2, <2>2, NoCollision
  <2> QED BY <2>1, <2>2 DEF Breaks
<1>4. pending' = FALSE /\ current' = key
  BY DEF Breaks, AdoptFailsEarly, AdoptFailsLate
<1>5. CASE AdoptFailsEarly(key)
  <2>1. StoreTypes'
    BY <1>4, <1>5, TypesSplit DEF AdoptFailsEarly, StoreTypes
  <2>2. RowKeepsItsRadio' /\ RowsStayOrMove
    BY <1>5 DEF AdoptFailsEarly, RowKeepsItsRadio, RowsStayOrMove
  <2>3. BoundToTarget'
    BY <1>1, <1>4, <1>5 DEF AdoptFailsEarly, BoundToTarget
  <2> QED BY <1>3, <2>1, <2>2, <2>3 DEF Kept, Owned, OwnEnters
<1>6. CASE AdoptFailsLate(key)
  <2>1. isBound' = TRUE /\ stamp' = key /\ loaded' = loaded
    BY <1>6 DEF AdoptFailsLate
  <2>2. /\ rows' \subseteq Texts \X MaybeKeys
        /\ RowKeepsItsRadio'
        /\ RowsStayOrMove
        /\ profiles' \subseteq ProfileKeys
    <3>1. CASE follows_rename(key)
      <4>1. /\ rows' = rekey(current, key)
            /\ profiles' \in {profiles, (profiles \ {current}) \cup {key}}
        BY <1>6, <3>1 DEF AdoptFailsLate
      <4> QED BY <1>1, <3>1, <4>1, MovedRows, TypesSplit DEF StoreTypes
    <3>2. CASE ~follows_rename(key)
      <4>1. rows' = rows /\ profiles' = profiles
        BY <1>6, <3>2 DEF AdoptFailsLate
      <4> QED BY <4>1, TypesSplit DEF StoreTypes, RowKeepsItsRadio, RowsStayOrMove
    <3> QED BY <3>1, <3>2
  <2>3. StoreTypes'
    BY <1>4, <2>1, <2>2, TypesSplit DEF StoreTypes
  <2>4. BoundToTarget'
    BY <1>1, <1>4, <2>1 DEF BoundToTarget
  <2> QED BY <1>3, <2>2, <2>3, <2>4 DEF Kept, Owned, OwnEnters
<1> QED BY <1>3, <1>5, <1>6 DEF Breaks

-----------------------------------------------------------------------------
(* The steps.                                                              *)

Preserved == ProfilesInv' /\ RowsStayOrMove /\ OwnEnters

(* Steps that leave the app and the store alone.                           *)
LEMMA LinkStepKeeps ==
  ASSUME ProfilesInv, UNCHANGED <<rows, profiles, appvars, target>>,
         LinkTypes', LinkIsTarget', SaverRead', spent'.faults = spent.faults
  PROVE  Preserved
<1> USE DEF ProfilesInv, appvars
<1>1. StoreTypes'
  BY TypesSplit DEF StoreTypes
<1>2. RowKeepsItsRadio' /\ BoundToTarget' /\ Owned'
  BY DEF RowKeepsItsRadio, BoundToTarget, Owned
<1>3. RowsStayOrMove /\ OwnEnters
  BY DEF RowsStayOrMove, OwnEnters
<1>4. ProfilesTypeOK'
  BY <1>1, TypesSplit DEF ProfilesTypeOK, StoreTypes, LinkTypes
<1> QED BY <1>2, <1>3, <1>4 DEF Preserved

(* Steps of the UI thread that resolve an identity, or fail to.            *)
LEMMA KeptIsPreserved ==
  ASSUME Kept, LinkTypes', LinkIsTarget', SaverRead'
  PROVE  Preserved
<1>1. ProfilesTypeOK'
  BY DEF Kept, ProfilesTypeOK, StoreTypes, LinkTypes
<1> QED BY <1>1 DEF Kept, Preserved, ProfilesInv

LEMMA SpendKeeps ==
  ASSUME LinkTypes, NEW what \in {"renames", "links", "crashes"}, Spend(what)
  PROVE  /\ spent' \in [{"renames", "links", "faults", "crashes"} -> Nat]
         /\ spent'.faults = spent.faults
BY DEF LinkTypes, Spend

LEMMA ConnectKeeps == ASSUME ProfilesInv, Connect PROVE Preserved
<1> USE DEF ProfilesInv
<1>1. /\ attached' = target /\ reported' = named[target] /\ step' = "announce"
      /\ UNCHANGED <<rows, profiles, named, target, appvars, saver>> /\ Spend("links")
      /\ saver.pc # "saved"
  BY DEF Connect, durable
<1>2. LinkTypes /\ LinkTypes' /\ spent'.faults = spent.faults
  BY <1>1, TypesSplit, SpendKeeps DEF LinkTypes
<1>3. LinkIsTarget' /\ SaverRead'
  BY <1>1 DEF LinkIsTarget, SaverRead
<1> QED BY <1>1, <1>2, <1>3, LinkStepKeeps

LEMMA LinkLostKeeps == ASSUME ProfilesInv, LinkLost PROVE Preserved
<1> USE DEF ProfilesInv
<1>1. /\ step = "watch" /\ attached' = NoKey /\ step' = "down"
      /\ UNCHANGED <<rows, profiles, named, reported, target, appvars, saver, spent>>
  BY DEF LinkLost, durable
<1>2. LinkTypes /\ LinkTypes'
  BY <1>1, TypesSplit DEF LinkTypes
<1>3. LinkIsTarget' /\ SaverRead'
  BY <1>1 DEF LinkIsTarget, SaverRead, appvars
<1> QED BY <1>1, <1>2, <1>3, LinkStepKeeps

LEMMA RenamedElsewhereKeeps ==
  ASSUME ProfilesInv, NEW r \in Radios, NEW s \in Spellings, RenamedElsewhere(r, s)
  PROVE  Preserved
<1> USE DEF ProfilesInv
<1>1. /\ named' = [named EXCEPT ![r] = s] /\ Spend("renames")
      /\ UNCHANGED <<rows, profiles, linkvars, appvars, saver>>
  BY DEF RenamedElsewhere
<1>2. LinkTypes /\ LinkTypes' /\ spent'.faults = spent.faults
  BY <1>1, TypesSplit, SpendKeeps DEF LinkTypes, linkvars
<1>3. LinkIsTarget' /\ SaverRead'
  BY <1>1 DEF LinkIsTarget, SaverRead, linkvars, appvars
<1> QED BY <1>1, <1>2, <1>3, LinkStepKeeps DEF linkvars

LEMMA SaveShortNameKeeps ==
  ASSUME ProfilesInv, NEW s \in Spellings, SaveShortName(s) PROVE Preserved
<1> USE DEF ProfilesInv
<1>1. /\ saver' = Saver("start", NoKey, s) /\ Spend("renames")
      /\ UNCHANGED <<rows, profiles, named, linkvars, appvars>>
  BY DEF SaveShortName, durable
<1>2. saver' \in SaverStates
  BY <1>1 DEF Saver, SaverStates
<1>3. LinkTypes /\ LinkTypes' /\ spent'.faults = spent.faults
  BY <1>1, <1>2, TypesSplit, SpendKeeps DEF LinkTypes, linkvars
<1>4. LinkIsTarget' /\ SaverRead'
  BY <1>1 DEF LinkIsTarget, SaverRead, linkvars, appvars, Saver
<1> QED BY <1>1, <1>3, <1>4, LinkStepKeeps DEF linkvars

(* The worker: what it read when it is done is the target of that moment.  *)
LEMMA SaverKeeps ==
  ASSUME ProfilesInv, TakeInterface \/ WriteOwner \/ WriteOwnerFails \/ ReadOwner
  PROVE  Preserved
<1> USE DEF ProfilesInv
<1>1. UNCHANGED <<rows, profiles, linkvars, appvars, spent>>
  BY DEF TakeInterface, WriteOwner, WriteOwnerFails, ReadOwner, durable
<1>2. LinkTypes
  BY TypesSplit
<1>3. saver.pc # "idle" => saver.name \in Spellings
  BY DEF SaverRead
<1>4. ASSUME NEW pc \in {"write", "read", "saved"}, NEW i \in Radios,
             saver' = Saver(pc, i, saver.name), saver.pc # "idle",
             pc = "saved" => i = attached, named' \in [Radios -> Spellings]
      PROVE  Preserved
  <2>1. saver' \in SaverStates
    BY <1>3, <1>4 DEF Saver, SaverStates
  <2>2. LinkTypes'
    BY <1>1, <1>2, <1>4, <2>1 DEF LinkTypes, linkvars
  <2>3. pc = "saved" => i = target
    BY <1>4, ProfilesAssumption, NoRadioIsNoKey DEF LinkIsTarget
  <2>4. LinkIsTarget' /\ SaverRead'
    BY <1>1, <1>3, <1>4, <2>3 DEF LinkIsTarget, SaverRead, linkvars, appvars, Saver
  <2> QED BY <1>1, <2>2, <2>4, LinkStepKeeps DEF linkvars
<1>5. ASSUME saver' = Idle, UNCHANGED named
      PROVE  Preserved
  <2>1. saver' \in SaverStates
    BY <1>5 DEF Idle, Saver, SaverStates
  <2>2. LinkTypes'
    BY <1>1, <1>2, <1>5, <2>1 DEF LinkTypes, linkvars
  <2>3. LinkIsTarget' /\ SaverRead'
    BY <1>1, <1>5 DEF LinkIsTarget, SaverRead, linkvars, appvars, Idle, Saver
  <2> QED BY <1>1, <2>2, <2>3, LinkStepKeeps DEF linkvars
<1>6. CASE TakeInterface
  <2>1. attached = NoKey \/ attached \in Radios
    BY <1>2 DEF LinkTypes
  <2> QED BY <1>2, <1>4, <1>5, <1>6, <2>1 DEF TakeInterface, LinkTypes, durable
<1>7. CASE WriteOwner
  <2>1. saver.iface \in Radios
    BY <1>7 DEF WriteOwner, SaverRead
  <2>2. named' \in [Radios -> Spellings]
    BY <1>2, <1>3, <1>7, <2>1 DEF WriteOwner, LinkTypes
  <2> QED BY <1>4, <1>7, <2>1, <2>2 DEF WriteOwner
<1>8. CASE WriteOwnerFails
  BY <1>5, <1>8 DEF WriteOwnerFails, durable
<1>9. CASE ReadOwner
  <2>1. attached = NoKey \/ attached \in Radios
    BY <1>2 DEF LinkTypes
  <2> QED BY <1>2, <1>4, <1>5, <1>9, <2>1 DEF ReadOwner, LinkTypes, durable
<1> QED BY <1>6, <1>7, <1>8, <1>9

(* A packet is stamped with a profile of the radio that delivered it.      *)
LEMMA ReceiveKeeps == ASSUME ProfilesInv, NEW t \in Texts, Receive(t) PROVE Preserved
<1> USE DEF ProfilesInv
<1> DEFINE row == <<t, ns_value>>
<1>1. /\ running /\ attached = HeardBy[t]
      /\ rows' = rows \cup {row}
      /\ loaded' = IF row \in rows THEN loaded ELSE loaded \cup {row}
      /\ UNCHANGED <<profiles, named, linkvars, running, shown, current, pending,
                     isBound, stamp, keyed, saver, spent>>
  BY DEF Receive
<1>2. LinkTypes /\ StoreTypes
  BY TypesSplit
<1>3. HeardBy[t] = target
  BY <1>1, ProfilesAssumption, NoRadioIsNoKey DEF LinkIsTarget
<1>4. row[1] = t /\ row[2] = ns_value /\ ns_value \in {stamp, NoKey}
  BY DEF ns_value
<1>5. row \in Texts \X MaybeKeys
  BY <1>2, <1>4 DEF StoreTypes, MaybeKeys
<1> HIDE DEF row
<1>6. ProfilesTypeOK'
  <2>1. LinkTypes'
    BY <1>1, <1>2 DEF LinkTypes, linkvars
  <2>2. rows' \subseteq Texts \X MaybeKeys /\ loaded' \subseteq Texts \X MaybeKeys
    BY <1>1, <1>2, <1>5 DEF StoreTypes
  <2>3. StoreTypes'
    BY <1>1, <1>2, <2>2 DEF StoreTypes
  <2> QED BY <2>1, <2>3 DEF ProfilesTypeOK, StoreTypes, LinkTypes
<1>7. LinkIsTarget' /\ SaverRead' /\ BoundToTarget'
  BY <1>1 DEF LinkIsTarget, SaverRead, BoundToTarget, linkvars
<1>8. RowKeepsItsRadio'
  BY <1>1, <1>3, <1>4 DEF RowKeepsItsRadio, BoundToTarget
<1>9. Owned'
  BY <1>1, <1>4 DEF Owned
<1>10. RowsStayOrMove
  BY <1>1 DEF RowsStayOrMove
<1>11. OwnEnters
  <2> SUFFICES ASSUME running', current' # NoKey, ~pending', spent'.faults = 0,
                      NEW r \in loaded'
               PROVE  r[2] = current' \/ (r \in loaded /\ current = current' /\ ~pending)
    BY DEF OwnEnters
  <2>1. isBound /\ stamp = current /\ current' = current /\ ~pending
    BY <1>1 DEF Owned
  <2>2. ns_value = current
    BY <2>1 DEF ns_value
  <2> QED BY <1>1, <1>4, <2>1, <2>2
<1> QED BY <1>6, <1>7, <1>8, <1>9, <1>10, <1>11 DEF Preserved

(* The identity of the ONLINE event is one of the target.                  *)
LEMMA AnnouncedKey ==
  ASSUME ProfilesInv, running, step = "announce"
  PROVE  /\ attached = target
         /\ canonical_profile_key(attached, reported) \in MaybeKeys
         /\ canonical_profile_key(attached, reported) # NoKey =>
              canonical_profile_key(attached, reported)[1] = target
<1>1. attached = target /\ target \in Radios /\ reported \in Spellings
  BY DEF ProfilesInv, LinkIsTarget, ProfilesTypeOK
<1> QED BY <1>1, KeyIsMaybe, KeyOfRadio

LEMMA ShowOnlineKeeps == ASSUME ProfilesInv, ShowOnline PROVE Preserved
<1> DEFINE key == canonical_profile_key(attached, reported)
<1>1. /\ running /\ step = "announce" /\ shown' = TRUE /\ step' = "watch" /\ Resolves(key)
      /\ keyed' \in IF keyed = "no" THEN {"no", "due"} ELSE {keyed}
      /\ UNCHANGED <<named, attached, reported, target, running, saver, spent>>
  BY DEF ShowOnline
<1>2. attached = target /\ key \in MaybeKeys /\ (key # NoKey => key[1] = target)
  BY <1>1, AnnouncedKey
<1> HIDE DEF key
<1>3. StoreTypes /\ LinkTypes
  BY TypesSplit DEF ProfilesInv
<1>4. keyed' \in {"no", "due", "yes"} /\ shown' \in BOOLEAN
  BY <1>1, <1>3 DEF StoreTypes
<1>5. Kept
  BY <1>1, <1>2, <1>4, ResolvesKeeps
<1>6. LinkTypes'
  BY <1>1, <1>3 DEF LinkTypes
<1>7. LinkIsTarget' /\ SaverRead'
  BY <1>1, <1>2 DEF ProfilesInv, LinkIsTarget, SaverRead
<1> QED BY <1>5, <1>6, <1>7, KeptIsPreserved

LEMMA ShowOnlineBreaksKeeps == ASSUME ProfilesInv, ShowOnlineBreaks PROVE Preserved
<1> DEFINE key == canonical_profile_key(attached, reported)
<1>1. /\ running /\ step = "announce" /\ shown' = TRUE /\ step' = "ended" /\ attached' = NoKey
      /\ Breaks(key)
      /\ UNCHANGED <<named, reported, target, running, keyed, saver>>
  BY DEF ShowOnlineBreaks
<1>2. attached = target /\ key \in MaybeKeys /\ (key # NoKey => key[1] = target)
  BY <1>1, AnnouncedKey
<1> HIDE DEF key
<1>3. StoreTypes /\ LinkTypes
  BY TypesSplit DEF ProfilesInv
<1>4. keyed' \in {"no", "due", "yes"} /\ shown' \in BOOLEAN /\ running' \in BOOLEAN
  BY <1>1, <1>3 DEF StoreTypes
<1>5. Kept /\ spent' \in [{"renames", "links", "faults", "crashes"} -> Nat]
  BY <1>1, <1>2, <1>4, BreaksKeeps
<1>6. LinkTypes'
  BY <1>1, <1>3, <1>5 DEF LinkTypes
<1>7. LinkIsTarget' /\ SaverRead'
  BY <1>1 DEF ProfilesInv, LinkIsTarget, SaverRead
<1> QED BY <1>5, <1>6, <1>7, KeptIsPreserved

LEMMA ShowDownKeeps == ASSUME ProfilesInv, ShowDown PROVE Preserved
<1>1. /\ shown' = FALSE /\ step' = "connect" /\ Unresolve
      /\ UNCHANGED <<named, attached, reported, target, running, keyed, saver, spent>>
  BY DEF ShowDown
<1>2. StoreTypes /\ LinkTypes
  BY TypesSplit DEF ProfilesInv
<1>3. Kept
  BY <1>1, <1>2, UnresolveKeeps DEF StoreTypes
<1>4. LinkTypes'
  BY <1>1, <1>2 DEF LinkTypes
<1>5. LinkIsTarget' /\ SaverRead'
  BY <1>1 DEF ProfilesInv, LinkIsTarget, SaverRead
<1> QED BY <1>3, <1>4, <1>5, KeptIsPreserved

LEMMA SwitchDeviceKeeps ==
  ASSUME ProfilesInv, NEW radio \in Radios, SwitchDevice(radio) PROVE Preserved
<1>1. /\ target' = radio /\ attached' = NoKey /\ shown' = FALSE /\ step' = "connect"
      /\ Unresolve
      /\ UNCHANGED <<named, reported, running, keyed, saver, spent>>
  BY DEF SwitchDevice
<1>2. StoreTypes /\ LinkTypes
  BY TypesSplit DEF ProfilesInv
<1>3. Kept
  BY <1>1, <1>2, UnresolveKeeps DEF StoreTypes
<1>4. LinkTypes'
  BY <1>1, <1>2 DEF LinkTypes
<1>5. LinkIsTarget' /\ SaverRead'
  BY <1>1 DEF ProfilesInv, LinkIsTarget, SaverRead
<1> QED BY <1>3, <1>4, <1>5, KeptIsPreserved
(* While the screen says ONLINE, what the rename worker read is of the     *)
(* target.                                                                 *)
LEMMA SavedKey ==
  ASSUME ProfilesInv, saver.pc = "saved"
  PROVE  /\ canonical_profile_key(saver.iface, saver.name) \in MaybeKeys
         /\ shown /\ canonical_profile_key(saver.iface, saver.name) # NoKey =>
              canonical_profile_key(saver.iface, saver.name)[1] = target
<1>1. /\ saver.iface \in Radios /\ saver.name \in Spellings
      /\ shown => saver.iface = target
  BY DEF ProfilesInv, SaverRead
<1> QED BY <1>1, KeyIsMaybe, KeyOfRadio

LEMMA IdleIsRead == Idle \in SaverStates /\ Idle.pc = "idle"
BY DEF Idle, Saver, SaverStates

LEMMA IdentitySavedKeeps == ASSUME ProfilesInv, IdentitySaved PROVE Preserved
<1> DEFINE key == canonical_profile_key(saver.iface, saver.name)
<1>1. /\ running /\ saver.pc = "saved" /\ saver' = Idle
      /\ IF shown THEN Resolves(key) ELSE Unresolve
      /\ UNCHANGED <<named, linkvars, running, shown, keyed, spent>>
  BY DEF IdentitySaved
<1>2. key \in MaybeKeys /\ (shown /\ key # NoKey => key[1] = target)
  BY <1>1, SavedKey
<1> HIDE DEF key
<1>3. StoreTypes /\ LinkTypes
  BY TypesSplit DEF ProfilesInv
<1>4. keyed' \in {"no", "due", "yes"} /\ shown' \in BOOLEAN /\ UNCHANGED target
  BY <1>1, <1>3 DEF StoreTypes, linkvars
<1>5. Kept
  BY <1>1, <1>2, <1>4, ResolvesKeeps, UnresolveKeeps
<1>6. LinkTypes'
  BY <1>1, <1>3, IdleIsRead DEF LinkTypes, linkvars
<1>7. LinkIsTarget' /\ SaverRead'
  BY <1>1, IdleIsRead DEF ProfilesInv, LinkIsTarget, SaverRead, linkvars
<1> QED BY <1>5, <1>6, <1>7, KeptIsPreserved

LEMMA IdentitySavedBreaksKeeps == ASSUME ProfilesInv, IdentitySavedBreaks PROVE Preserved
<1> DEFINE key == canonical_profile_key(saver.iface, saver.name)
<1>1. /\ running /\ shown /\ saver.pc = "saved" /\ Breaks(key)
      /\ running' = FALSE /\ saver' = Idle /\ attached' = NoKey
      /\ UNCHANGED <<named, step, reported, target, shown, keyed>>
  BY DEF IdentitySavedBreaks
<1>2. key \in MaybeKeys /\ (key # NoKey => key[1] = target)
  BY <1>1, SavedKey
<1> HIDE DEF key
<1>3. StoreTypes /\ LinkTypes
  BY TypesSplit DEF ProfilesInv
<1>4. keyed' \in {"no", "due", "yes"} /\ shown' \in BOOLEAN /\ running' \in BOOLEAN
  BY <1>1, <1>3 DEF StoreTypes
<1>5. Kept /\ spent' \in [{"renames", "links", "faults", "crashes"} -> Nat]
  BY <1>1, <1>2, <1>4, BreaksKeeps
<1>6. LinkTypes'
  BY <1>1, <1>3, <1>5, IdleIsRead DEF LinkTypes
<1>7. LinkIsTarget' /\ SaverRead'
  BY <1>1, IdleIsRead DEF LinkIsTarget, SaverRead
<1> QED BY <1>5, <1>6, <1>7, KeptIsPreserved

(* What is read back is narrowed to the profile the store is bound to.     *)
LEMMA ReconcileKeeps == ASSUME ProfilesInv, ReconcileTranscript PROVE Preserved
<1> USE DEF ProfilesInv
<1>1. /\ running /\ keyed' = "yes" /\ loaded' = ns_filter(isBound, stamp)
      /\ UNCHANGED <<rows, profiles, named, linkvars, running, shown, current, pending,
                     isBound, stamp, saver, spent>>
  BY DEF ReconcileTranscript, durable
<1>2. StoreTypes /\ LinkTypes
  BY TypesSplit
<1>3. ProfilesTypeOK'
  <2>1. loaded' \subseteq Texts \X MaybeKeys
    BY <1>1, <1>2 DEF StoreTypes, ns_filter
  <2> QED BY <1>1, <1>2, <2>1 DEF ProfilesTypeOK, StoreTypes, LinkTypes, linkvars
<1>4. LinkIsTarget' /\ SaverRead' /\ BoundToTarget' /\ RowKeepsItsRadio' /\ Owned'
  BY <1>1 DEF LinkIsTarget, SaverRead, BoundToTarget, RowKeepsItsRadio, Owned, linkvars
<1>5. RowsStayOrMove /\ OwnEnters
  BY <1>1 DEF RowsStayOrMove, OwnEnters, Owned, ns_filter
<1> QED BY <1>3, <1>4, <1>5 DEF Preserved

LEMMA CrashKeeps == ASSUME ProfilesInv, Crash PROVE Preserved
<1> USE DEF ProfilesInv
<1>1. /\ running' = FALSE /\ saver' = Idle /\ attached' = NoKey /\ Spend("crashes")
      /\ UNCHANGED <<rows, profiles, named, step, reported, target, shown, current, pending,
                     isBound, stamp, loaded, keyed>>
  BY DEF Crash, durable
<1>2. StoreTypes /\ LinkTypes
  BY TypesSplit
<1>3. /\ spent' \in [{"renames", "links", "faults", "crashes"} -> Nat]
      /\ spent'.faults = spent.faults
  BY <1>1, <1>2, SpendKeeps
<1>4. ProfilesTypeOK'
  BY <1>1, <1>2, <1>3, IdleIsRead DEF ProfilesTypeOK, StoreTypes, LinkTypes
<1>5. LinkIsTarget' /\ SaverRead' /\ BoundToTarget' /\ RowKeepsItsRadio' /\ Owned'
  BY <1>1, <1>3, IdleIsRead
     DEF LinkIsTarget, SaverRead, BoundToTarget, RowKeepsItsRadio, Owned
<1>6. RowsStayOrMove /\ OwnEnters
  BY <1>1 DEF RowsStayOrMove, OwnEnters
<1> QED BY <1>4, <1>5, <1>6 DEF Preserved

LEMMA StartKeeps == ASSUME ProfilesInv, Start PROVE Preserved
<1> USE DEF ProfilesInv
<1>1. /\ running' = TRUE /\ shown' = FALSE /\ step' = "connect"
      /\ current' = NoKey /\ pending' = FALSE /\ isBound' = FALSE /\ stamp' = NoKey
      /\ loaded' = rows /\ keyed' = "no"
      /\ UNCHANGED <<rows, profiles, named, attached, reported, target, saver, spent>>
  BY DEF Start, durable, ns_filter
<1>2. StoreTypes /\ LinkTypes
  BY TypesSplit
<1>3. ProfilesTypeOK'
  BY <1>1, <1>2 DEF ProfilesTypeOK, StoreTypes, LinkTypes, MaybeKeys
<1>4. LinkIsTarget' /\ SaverRead' /\ BoundToTarget' /\ RowKeepsItsRadio' /\ Owned'
  BY <1>1 DEF LinkIsTarget, SaverRead, BoundToTarget, RowKeepsItsRadio, Owned
<1>5. RowsStayOrMove /\ OwnEnters
  BY <1>1 DEF RowsStayOrMove, OwnEnters
<1> QED BY <1>3, <1>4, <1>5 DEF Preserved

-----------------------------------------------------------------------------
LEMMA InitHolds == ProfilesInit => ProfilesInv
<1> SUFFICES ASSUME ProfilesInit PROVE ProfilesInv
  OBVIOUS
<1>1. ProfilesTypeOK
  <2>1. LinkTypes
    <3>1. reported \in Spellings /\ named \in [Radios -> Spellings] /\ target \in Radios
      BY ProfilesAssumption DEF ProfilesInit
    <3>2. spent \in [{"renames", "links", "faults", "crashes"} -> Nat]
      BY DEF ProfilesInit
    <3> QED BY <3>1, <3>2, IdleIsRead DEF ProfilesInit, LinkTypes
  <2>2. StoreTypes
    BY DEF ProfilesInit, StoreTypes, MaybeKeys
  <2> QED BY <2>1, <2>2, TypesSplit
<1>2. LinkIsTarget /\ SaverRead
  BY IdleIsRead DEF ProfilesInit, LinkIsTarget, SaverRead
<1>3. BoundToTarget /\ RowKeepsItsRadio /\ Owned
  BY DEF ProfilesInit, BoundToTarget, RowKeepsItsRadio, Owned
<1> QED BY <1>1, <1>2, <1>3 DEF ProfilesInv

LEMMA StepHolds == ProfilesInv /\ [ProfilesNext]_profilesVars => Preserved
<1> SUFFICES ASSUME ProfilesInv, [ProfilesNext]_profilesVars PROVE Preserved
  OBVIOUS
<1>1. CASE Connect
  BY <1>1, ConnectKeeps
<1>2. CASE LinkLost
  BY <1>2, LinkLostKeeps
<1>3. ASSUME NEW t \in Texts, Receive(t) PROVE Preserved
  BY <1>3, ReceiveKeeps
<1>4. CASE ShowOnline
  BY <1>4, ShowOnlineKeeps
<1>5. CASE ShowOnlineBreaks
  BY <1>5, ShowOnlineBreaksKeeps
<1>6. CASE ReconcileTranscript
  BY <1>6, ReconcileKeeps
<1>7. CASE ShowDown
  BY <1>7, ShowDownKeeps
<1>8. ASSUME NEW r \in Radios, SwitchDevice(r) PROVE Preserved
  BY <1>8, SwitchDeviceKeeps
<1>9. ASSUME NEW s \in Spellings, SaveShortName(s) PROVE Preserved
  BY <1>9, SaveShortNameKeeps
<1>10. CASE IdentitySaved
  BY <1>10, IdentitySavedKeeps
<1>11. CASE IdentitySavedBreaks
  BY <1>11, IdentitySavedBreaksKeeps
<1>12. CASE TakeInterface \/ WriteOwner \/ WriteOwnerFails \/ ReadOwner
  BY <1>12, SaverKeeps
<1>13. ASSUME NEW r \in Radios, NEW s \in Spellings, RenamedElsewhere(r, s) PROVE Preserved
  BY <1>13, RenamedElsewhereKeeps
<1>14. CASE Crash
  BY <1>14, CrashKeeps
<1>15. CASE Start
  BY <1>15, StartKeeps
<1>16. CASE UNCHANGED profilesVars
  <2>1. UNCHANGED <<rows, profiles, named, linkvars, appvars, saver, spent>>
    BY <1>16 DEF profilesVars, durable
  <2>2. LinkTypes'
    BY <2>1, TypesSplit DEF ProfilesInv, LinkTypes, linkvars
  <2>3. LinkIsTarget' /\ SaverRead'
    BY <2>1 DEF ProfilesInv, LinkIsTarget, SaverRead, linkvars, appvars
  <2> QED BY <2>1, <2>2, <2>3, LinkStepKeeps DEF linkvars
<1> QED BY <1>1, <1>2, <1>3, <1>4, <1>5, <1>6, <1>7, <1>8, <1>9, <1>10, <1>11, <1>12, <1>13,
           <1>14, <1>15, <1>16 DEF ProfilesNext

(* Types hold.                                                             *)
THEOREM ProfilesTypeCorrect == ProfilesSpec => []ProfilesTypeOK
<1>1. ProfilesInv => ProfilesTypeOK
  BY DEF ProfilesInv
<1>2. Preserved => ProfilesInv'
  BY DEF Preserved
<1> QED BY <1>1, <1>2, InitHolds, StepHolds, PTL DEF ProfilesSpec

(* No row ever belongs to a radio that did not hear its packet, whatever   *)
(* is renamed, switched, killed or refused by the store.                   *)
THEOREM RadiosNeverShareHistory == ProfilesSpec => []RowKeepsItsRadio
<1>1. ProfilesInv => RowKeepsItsRadio
  BY DEF ProfilesInv
<1>2. Preserved => ProfilesInv'
  BY DEF Preserved
<1> QED BY <1>1, <1>2, InitHolds, StepHolds, PTL DEF ProfilesSpec

(* While the store does not fail, rows move to a profile without any only. *)
THEOREM HistoriesStayApart == ProfilesSpec => HistoriesNeverMerge
<1>1. Preserved => ProfilesInv' /\ [RowsStayOrMove]_profilesVars
  BY DEF Preserved
<1>2. ProfilesSpec => [][RowsStayOrMove]_profilesVars
  BY <1>1, InitHolds, StepHolds, PTL DEF ProfilesSpec
<1> QED BY <1>2 DEF RowsStayOrMove, HistoriesNeverMerge

(* While the store does not fail, a resolved profile gets no row of        *)
(* another one into its transcript.                                        *)
THEOREM OthersStayOut == ProfilesSpec => OnlyOwnEnters
<1>1. Preserved => ProfilesInv' /\ [OwnEnters]_profilesVars
  BY DEF Preserved
<1>2. ProfilesSpec => [][OwnEnters]_profilesVars
  BY <1>1, InitHolds, StepHolds, PTL DEF ProfilesSpec
<1> QED BY <1>2 DEF OwnEnters, OnlyOwnEnters
=============================================================================

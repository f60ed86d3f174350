------------------------------ MODULE Profiles ------------------------------
(***************************************************************************)
(* Whose history is it?  The local chat history is kept per profile, a     *)
(* pair of radio and short name.  The UI thread binds the store to the     *)
(* profile of the connected radio; a short name change moves the history   *)
(* to the new pair, or switches to a pair that exists; the worker that     *)
(* writes the name to the radio ends after the link or the device may have *)
(* changed; and the store, a database, may fail between two of the steps.  *)
(*                                                                         *)
(* The link is the one of module Reception seen from afar: one monitor,    *)
(* and packets handled when they arrive.                                   *)
(***************************************************************************)
EXTENDS Naturals, FiniteSets

CONSTANTS
  Radios,     \* radios, one for each connection target
  FirstRadio, \* the target of the settings file
  Spellings,  \* short names as a radio reports them
  Canonical,  \* canonical_short_name, as a function; Blank when unusable
  FirstName,  \* the short name each radio has at first
  Blank,
  Texts,      \* text packets
  HeardBy,    \* the radio that delivers a packet
  NoKey,      \* no profile: SQL NULL
  MaxRenames, \* bound: names saved
  MaxLinks,   \* bound: connections opened
  MaxTroubles \* bound: store operations that fail, and times the process is killed

ProfileKeys == Radios \X ({Canonical[s] : s \in Spellings} \ {Blank})

ASSUME ProfilesAssumption ==
  /\ FirstRadio \in Radios
  /\ FirstName \in [Radios -> Spellings]
  /\ HeardBy \in [Texts -> Radios]
  /\ NoKey \notin ProfileKeys \cup Radios
  /\ {MaxRenames, MaxLinks, MaxTroubles} \subseteq Nat

VARIABLES
  rows,     \* <<packet, profile_key>> of the messages table
  profiles, \* profile_key of the local_profiles table
  named,    \* the short name each radio has
  attached, \* the radio behind RadioService._interface, or NoKey
  step,     \* what the monitor thread does next
  reported, \* the short name read when the link came up
  target,   \* the device path
  running,  \* the process lives
  shown,    \* the UI's _radio_state is ONLINE
  current,  \* _active_profile_key
  pending,  \* _profile_pending_resolution
  isBound,  \* ChatStore._profile_bound
  stamp,    \* ChatStore._active_profile_key
  loaded,   \* rows of the transcript
  keyed,    \* was the transcript loaded for a known channel key?
  saver,    \* the save-radio-short-name worker
  spent     \* how much of each bound is used

durable == <<rows, profiles, named>>
linkvars == <<attached, step, reported, target>>
appvars == <<running, shown, current, pending, isBound, stamp, loaded, keyed>>

profilesVars == <<durable, linkvars, appvars, saver, spent>>

-----------------------------------------------------------------------------
(* ChatStore.                                                              *)

(* Bug: a blank short name makes a profile.                                *)
BlankCounts(radio, spelling) == <<radio, Canonical[spelling]>>

(* canonical_profile_key: none for a blank short name.                     *)
canonical_profile_key(radio, spelling) ==
  IF Canonical[spelling] = Blank THEN NoKey ELSE <<radio, Canonical[spelling]>>

(* _ns_value: what is stamped on a new row.                                *)
ns_value == IF isBound THEN stamp ELSE NoKey

(* _ns_filter: every read is narrowed to the bound profile, and no row     *)
(* equals NULL; a store that was never bound reads everything.             *)
ns_filter(bnd, key) ==
  IF bnd THEN {r \in rows : r[2] = key /\ key # NoKey} ELSE rows

(* _rekey_active_profile_rows: UPDATE messages SET profile_key.            *)
rekey(old, new) == {IF r[2] = old THEN <<r[1], new>> ELSE r : r \in rows}

(* The UPDATE meets the unique index: a packet is in both profiles.        *)
RekeyCollides(old, new) ==
  \E r, s \in rows : r[1] = s[1] /\ r[2] = old /\ s[2] = new

-----------------------------------------------------------------------------
(* _activate_local_profile, on the UI thread.                              *)

Saver(pc, iface, name) == [pc |-> pc, iface |-> iface, name |-> name]
Idle == Saver("idle", NoKey, Blank)

(* Bug: the store stays bound to the profile that was active.              *)
KeepsBinding(key) == key

(* set_active_profile(None), once a profile has been active.               *)
unbound_stamp(key) == IF current = NoKey THEN key ELSE NoKey

(* No identity, or a blank short name: nothing is discarded.               *)
Unresolve ==
  /\ pending' = (pending \/ current # NoKey)
  /\ isBound' = (isBound \/ current # NoKey)
  /\ stamp' = unbound_stamp(stamp)
  /\ UNCHANGED <<rows, profiles, current, loaded>>

(* Bug: the transcript of the same profile is kept.                        *)
KeepsTranscript(key) == loaded

(* Packets of no profile may have been mounted while it was unresolved.    *)
after_gap(key) == IF pending THEN ns_filter(TRUE, key) ELSE loaded

(* The identity of the active profile again.                               *)
Rebind(key) ==
  /\ pending' = FALSE /\ isBound' = TRUE /\ stamp' = key
  /\ loaded' = after_gap(key)
  /\ UNCHANGED <<rows, profiles, current>>

(* Bug: a pair that exists is renamed over.                                *)
FollowsAlways(key) == current # NoKey /\ ~pending /\ current[1] = key[1]

(* History follows a rename of the same radio, seen without a gap, to a    *)
(* pair that is new.                                                       *)
follows_rename(key) ==
  /\ current # NoKey /\ ~pending
  /\ current[1] = key[1]
  /\ key \notin profiles

(* ensure_profile: INSERT OR IGNORE.                                       *)
ensure_profile(key) == profiles \cup {key}

(* migrate_profile_association and ensure_profile, or switch_profile and   *)
(* ensure_profile; then _reload_active_profile_view, except for the first  *)
(* profile of the run.                                                     *)
Adopt(key) ==
  /\ pending' = FALSE /\ current' = key /\ isBound' = TRUE /\ stamp' = key
  /\ IF follows_rename(key)
     THEN /\ ~RekeyCollides(current, key)
          /\ rows' = rekey(current, key)
          /\ profiles' = (profiles \ {current}) \cup {key}
     ELSE /\ rows' = rows
          /\ profiles' = ensure_profile(key)
  /\ loaded' = IF current = NoKey THEN loaded ELSE {r \in rows' : r[2] = key}

(* The lookup, or the migration, which is one transaction, fails: the      *)
(* active profile has been replaced already, the store is left alone.      *)
AdoptFailsEarly(key) ==
  /\ pending' = FALSE /\ current' = key
  /\ UNCHANGED <<rows, profiles, isBound, stamp, loaded>>

(* ensure_profile fails: the store has been bound, and moved.              *)
AdoptFailsLate(key) ==
  /\ pending' = FALSE /\ current' = key /\ isBound' = TRUE /\ stamp' = key
  /\ IF follows_rename(key)
     THEN /\ ~RekeyCollides(current, key)
          /\ rows' = rekey(current, key)
          /\ profiles' = IF current \in profiles
                         THEN (profiles \ {current}) \cup {key} ELSE profiles
     ELSE UNCHANGED <<rows, profiles>>
  /\ UNCHANGED loaded

TroubleLeft == spent.faults + spent.crashes < MaxTroubles

Resolves(key) ==
  \/ key = NoKey /\ Unresolve
  \/ key # NoKey /\ key = current /\ Rebind(key)
  \/ key # NoKey /\ key # current /\ Adopt(key)

(* A ChatStoreError leaves _activate_local_profile.                        *)
Breaks(key) ==
  /\ key \notin {NoKey, current}
  /\ \/ /\ TroubleLeft
        /\ spent' = [spent EXCEPT !.faults = @ + 1]
        /\ AdoptFailsEarly(key) \/ AdoptFailsLate(key)
     \/ /\ follows_rename(key) /\ RekeyCollides(current, key)
        /\ AdoptFailsEarly(key)
        /\ UNCHANGED spent

-----------------------------------------------------------------------------
(* The monitor thread and the packets.                                     *)

Spend(what) == spent' = [spent EXCEPT ![what] = @ + 1]

(* A link comes up long after a posted message has been handled.           *)
Connect ==
  /\ running /\ step = "connect" /\ spent.links < MaxLinks
  /\ saver.pc # "saved"
  /\ attached' = target /\ reported' = named[target] /\ step' = "announce"
  /\ Spend("links")
  /\ UNCHANGED <<durable, target, appvars, saver>>

LinkLost ==
  /\ running /\ step = "watch"
  /\ attached' = NoKey /\ step' = "down"
  /\ UNCHANGED <<durable, reported, target, appvars, saver, spent>>

(* _accept_received_message: the row is stamped with the profile the store *)
(* is bound to by now; only a new row is mounted.                          *)
Receive(t) ==
  LET row == <<t, ns_value>> IN
  /\ running /\ attached = HeardBy[t]
  /\ rows' = rows \cup {row}
  /\ loaded' = IF row \in rows THEN loaded ELSE loaded \cup {row}
  /\ UNCHANGED <<profiles, named, linkvars, running, shown, current, pending,
                 isBound, stamp, keyed, saver, spent>>

-----------------------------------------------------------------------------
(* The UI thread.                                                          *)

(* _show_connection(ONLINE): the profile first, then the channel list,     *)
(* whose new key makes a worker reconcile the transcript.                  *)
ShowOnline ==
  LET key == canonical_profile_key(attached, reported) IN
  /\ running /\ step = "announce"
  /\ shown' = TRUE /\ step' = "watch"
  /\ Resolves(key)
  /\ keyed' \in IF keyed = "no" THEN {"no", "due"} ELSE {keyed}
  /\ UNCHANGED <<named, attached, reported, target, running, saver, spent>>

(* The error is raised in the monitor thread, which it ends; the generator *)
(* closes the interface, and the screen goes on saying ONLINE.             *)
ShowOnlineBreaks ==
  LET key == canonical_profile_key(attached, reported) IN
  /\ running /\ step = "announce"
  /\ shown' = TRUE /\ step' = "ended" /\ attached' = NoKey
  /\ Breaks(key)
  /\ UNCHANGED <<named, reported, target, running, keyed, saver>>

(* _reconcile_current_channel_identity.                                    *)
ReconcileTranscript ==
  /\ running /\ keyed = "due"
  /\ keyed' = "yes"
  /\ loaded' = ns_filter(isBound, stamp)
  /\ UNCHANGED <<durable, linkvars, running, shown, current, pending, isBound,
                 stamp, saver, spent>>

(* _show_connection of any other state.                                    *)
ShowDown ==
  /\ running /\ step = "down"
  /\ shown' = FALSE /\ step' = "connect"
  /\ Unresolve
  /\ UNCHANGED <<named, attached, reported, target, running, keyed, saver, spent>>

SwitchDevice(radio) ==
  /\ running /\ radio # target
  /\ target' = radio /\ attached' = NoKey
  /\ shown' = FALSE /\ step' = "connect"
  /\ Unresolve
  /\ UNCHANGED <<named, reported, running, keyed, saver, spent>>

(* save_short_name: one worker of the group at a time.                     *)
SaveShortName(name) ==
  /\ running /\ shown /\ saver = Idle
  /\ spent.renames < MaxRenames /\ Canonical[name] # Blank
  /\ saver' = Saver("start", NoKey, name)
  /\ Spend("renames")
  /\ UNCHANGED <<durable, linkvars, appvars>>

(* identity_saved: the radio it is about need not be the one of the screen.*)
IdentitySaved ==
  LET key == canonical_profile_key(saver.iface, saver.name) IN
  /\ running /\ saver.pc = "saved"
  /\ saver' = Idle
  /\ IF shown THEN Resolves(key) ELSE Unresolve
  /\ UNCHANGED <<named, linkvars, running, shown, keyed, spent>>

(* The error is raised in a message handler, which ends the app.           *)
IdentitySavedBreaks ==
  LET key == canonical_profile_key(saver.iface, saver.name) IN
  /\ running /\ shown /\ saver.pc = "saved"
  /\ Breaks(key)
  /\ running' = FALSE /\ saver' = Idle /\ attached' = NoKey
  /\ UNCHANGED <<named, step, reported, target, shown, keyed>>

Crash ==
  /\ running /\ TroubleLeft
  /\ Spend("crashes")
  /\ running' = FALSE /\ saver' = Idle /\ attached' = NoKey
  /\ UNCHANGED <<durable, step, reported, target, shown, current, pending,
                 isBound, stamp, loaded, keyed>>

(* A new process loads the transcript before any profile is bound.         *)
Start ==
  /\ ~running
  /\ running' = TRUE /\ shown' = FALSE /\ step' = "connect"
  /\ current' = NoKey /\ pending' = FALSE /\ isBound' = FALSE /\ stamp' = NoKey
  /\ loaded' = ns_filter(FALSE, NoKey) /\ keyed' = "no"
  /\ UNCHANGED <<durable, attached, reported, target, saver, spent>>

-----------------------------------------------------------------------------
(* The radio and the save-radio-short-name worker.                         *)

(* Its owner renames a radio from another client.                          *)
RenamedElsewhere(radio, name) ==
  /\ attached # radio /\ named[radio] # name
  /\ spent.renames < MaxRenames
  /\ named' = [named EXCEPT ![radio] = name]
  /\ Spend("renames")
  /\ UNCHANGED <<rows, profiles, linkvars, appvars, saver>>

(* set_short_name takes the interface of the moment.                       *)
TakeInterface ==
  /\ saver.pc = "start"
  /\ saver' = IF attached = NoKey THEN Idle ELSE Saver("write", attached, saver.name)
  /\ UNCHANGED <<durable, linkvars, appvars, spent>>

(* setOwner may wait for room in the SDK's queue; by then the interface    *)
(* may be closed, and what is written to it goes nowhere.                  *)
WriteOwner ==
  /\ saver.pc = "write"
  /\ named' = IF attached = saver.iface
              THEN [named EXCEPT ![attached] = saver.name] ELSE named
  /\ saver' = Saver("read", saver.iface, saver.name)
  /\ UNCHANGED <<rows, profiles, linkvars, appvars, spent>>

(* setOwner raises: IdentitySaveFailed.                                    *)
WriteOwnerFails ==
  /\ saver.pc = "write"
  /\ saver' = Idle
  /\ UNCHANGED <<durable, linkvars, appvars, spent>>

(* replace(self._read_radio_info(), short_name=normalized): the interface  *)
(* is read again, and may be that of another radio.                        *)
ReadOwner ==
  /\ saver.pc = "read"
  /\ saver' = IF attached = NoKey THEN Idle ELSE Saver("saved", attached, saver.name)
  /\ UNCHANGED <<durable, linkvars, appvars, spent>>

-----------------------------------------------------------------------------
ProfilesInit ==
  /\ rows = {} /\ profiles = {} /\ named = FirstName
  /\ attached = NoKey /\ step = "connect" /\ target = FirstRadio
  /\ reported = FirstName[FirstRadio]
  /\ running = TRUE /\ shown = FALSE /\ current = NoKey /\ pending = FALSE
  /\ isBound = FALSE /\ stamp = NoKey /\ loaded = {} /\ keyed = "no"
  /\ saver = Idle
  /\ spent = [renames |-> 0, links |-> 0, faults |-> 0, crashes |-> 0]

ProfilesNext ==
  \/ Connect \/ LinkLost
  \/ \E t \in Texts : Receive(t)
  \/ ShowOnline \/ ShowOnlineBreaks \/ ReconcileTranscript \/ ShowDown
  \/ \E r \in Radios : SwitchDevice(r)
  \/ \E s \in Spellings : SaveShortName(s)
  \/ IdentitySaved \/ IdentitySavedBreaks
  \/ TakeInterface \/ WriteOwner \/ WriteOwnerFails \/ ReadOwner
  \/ \E r \in Radios, s \in Spellings : RenamedElsewhere(r, s)
  \/ Crash \/ Start

ProfilesSpec == ProfilesInit /\ [][ProfilesNext]_profilesVars

-----------------------------------------------------------------------------
MaybeKeys == ProfileKeys \cup {NoKey}

SaverStates ==
  [pc : {"idle", "start", "write", "read", "saved"}, iface : Radios \cup {NoKey},
   name : Spellings \cup {Blank}]

(* Types of the profile state.                                             *)
ProfilesTypeOK ==
  /\ rows \subseteq Texts \X MaybeKeys
  /\ profiles \subseteq ProfileKeys
  /\ named \in [Radios -> Spellings]
  /\ attached \in Radios \cup {NoKey}
  /\ step \in {"connect", "announce", "watch", "down", "ended"}
  /\ reported \in Spellings
  /\ target \in Radios
  /\ {running, shown, pending, isBound} \subseteq BOOLEAN
  /\ current \in MaybeKeys
  /\ stamp \in MaybeKeys
  /\ loaded \subseteq Texts \X MaybeKeys
  /\ keyed \in {"no", "due", "yes"}
  /\ saver \in SaverStates
  /\ spent \in [{"renames", "links", "faults", "crashes"} -> Nat]

(* Two radios never share history: a row that belongs to a profile belongs *)
(* to one of the radio that delivered the packet, whatever was renamed,    *)
(* reconnected, switched or restarted meanwhile.                           *)
RowKeepsItsRadio ==
  \A r \in rows : r[2] # NoKey => r[2][1] = HeardBy[r[1]]

(* No two histories are ever merged: the rows of a profile move to one     *)
(* that has none, all together, and stay with it otherwise.                *)
HistoriesNeverMerge ==
  [][spent.faults = 0 =>
       \/ rows \subseteq rows'
       \/ \E old \in ProfileKeys, new \in ProfileKeys :
            /\ \A r \in rows : r[2] # new
            /\ rows' = rekey(old, new)]_profilesVars

(* While a profile is resolved, no row of another one, and none that       *)
(* belongs to nobody, enters the transcript; and a change of profile       *)
(* leaves none behind.                                                     *)
OnlyOwnEnters ==
  [][running' /\ current' # NoKey /\ ~pending' /\ spent'.faults = 0 =>
       \A r \in loaded' : \/ r[2] = current'
                          \/ r \in loaded /\ current \in {NoKey, current'}
                                /\ ~pending]_profilesVars

=============================================================================

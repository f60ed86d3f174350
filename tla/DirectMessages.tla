--------------------------- MODULE DirectMessages ---------------------------
(***************************************************************************)
(* The DM conversations.  Each is loaded from the store when it is first   *)
(* touched, and kept; one transcript and one input line serve them all.    *)
(* The store reads and stamps rows with the profile it is bound to: none   *)
(* while the link is being made, when messages still arrive and            *)
(* conversations are still opened.  A message is its place in the order of *)
(* arrival; a text that is being written is the place it was written in.   *)
(***************************************************************************)
EXTENDS SequencesExt

CONSTANTS
  Peers,        \* remote nodes: their ids
  NoPeer,
  Elsewhere,    \* text written where no conversation is open
  DmKeys,       \* profile keys
  NoKey,
  MaxRows       \* bound: messages

ASSUME DirectMessagesAssumption == MaxRows \in Nat /\ NoPeer \notin Peers /\ NoKey \notin DmKeys

VARIABLES
  dmRows,       \* messages in the store: id, peer and profile_key
  dmProfile,    \* the profile the store is bound to, and _active_profile_key
  dmStates,     \* _dm_states
  openDm,       \* current_dm_node_id
  newDmMode,    \* _new_dm_mode
  dmVisible,    \* the CHAT tab, in DMS mode
  dmOrder,      \* _dm_conversation_order
  dmLog,        \* #dm-log: whose conversation, and which messages
  dmInput,      \* #dm-input; NoPeer is no text
  unboundLoads  \* conversations loaded while no profile was bound

dmVars == <<dmRows, dmProfile, dmStates, openDm, newDmMode, dmVisible, dmOrder, dmLog,
            dmInput, unboundLoads>>

DmIds == 1..MaxRows
DmRow(id, peer, key) == [id |-> id, peer |-> peer, key |-> key]
DmBind(bound, active) == [bound |-> bound, active |-> active]
DmLog(peer, ids) == [peer |-> peer, ids |-> ids]
NoChat == [loaded |-> FALSE, entries |-> {}, unread |-> {}, draft |-> NoPeer]

-----------------------------------------------------------------------------
(* ChatStore, once it has been bound: NULL equals nothing.                 *)

OwnDm(set) == {r \in set : r.key = dmProfile.bound /\ r.key # NoKey}
stored_of(n) == {r.id : r \in {q \in OwnDm(dmRows) : q.peer = n}}

(* list_dm_conversations: the most recent first.                           *)
latest(set, n) == Max({r.id : r \in {q \in set : q.peer = n}})
conversations(set) ==
  LET peers == {r.peer : r \in set}
  IN  CHOOSE s \in [1..Cardinality(peers) -> peers] :
        \A i, j \in DOMAIN s : i < j => latest(set, s[i]) > latest(set, s[j])

(* add_incoming, add_outgoing: stamped with the bound profile.             *)
Next_id == Cardinality(dmRows) + 1
added_dm(n) == dmRows \cup {DmRow(Next_id, n, dmProfile.bound)}

-----------------------------------------------------------------------------
(* _ensure_dm_loaded.                                                      *)
loadedChat(n) ==
  IF dmStates[n].loaded THEN dmStates[n]
  ELSE [dmStates[n] EXCEPT !.loaded = TRUE, !.entries = @ \cup stored_of(n)]

TouchDm(n) == unboundLoads' = IF dmStates[n].loaded \/ dmProfile.bound # NoKey THEN unboundLoads
                       ELSE unboundLoads \cup {n}

(* _capture_current_dm_state.                                              *)
capturedDm == IF openDm = NoPeer THEN dmStates ELSE [dmStates EXCEPT ![openDm].draft = dmInput]

(* Bug: the input line keeps its text.                                     *)
KeptInput(n, was) == dmInput

(* dm_input.value = state.draft.                                           *)
restored_draft(n, was) == was[n].draft

(* _open_dm_conversation, which never leaves NEW DM.                       *)
OpenConversation(n, was) ==
  /\ openDm' = n
  /\ dmStates' = [was EXCEPT ![n] = [loadedChat(n) EXCEPT !.unread = {}, !.draft = was[n].draft]]
  /\ dmLog' = DmLog(n, loadedChat(n).entries)
  /\ dmInput' = restored_draft(n, was)
  /\ TouchDm(n)

Reopen(n) ==
  /\ dmStates' = [dmStates EXCEPT ![n].unread = {}]
  /\ UNCHANGED <<openDm, dmLog, dmInput, unboundLoads>>

(* From the DM dropdown, the list, the menu of a sender or of a node.      *)
OpenDm(n) ==
  /\ dmVisible' = TRUE
  /\ IF n = openDm THEN Reopen(n) ELSE OpenConversation(n, capturedDm)
  /\ dmOrder' = IF ~dmVisible /\ openDm = NoPeer THEN conversations(OwnDm(dmRows)) ELSE dmOrder
  /\ UNCHANGED <<dmRows, dmProfile, newDmMode>>

StartNewDm ==
  /\ dmStates' = capturedDm /\ openDm' = NoPeer /\ newDmMode' = TRUE /\ dmVisible' = TRUE
  /\ dmLog' = DmLog(NoPeer, {}) /\ dmInput' = NoPeer
  /\ dmOrder' = IF ~dmVisible /\ openDm = NoPeer THEN conversations(OwnDm(dmRows)) ELSE dmOrder
  /\ UNCHANGED <<dmRows, dmProfile, unboundLoads>>

(* A valid node ID.                                                        *)
SubmitNewDm(n) ==
  /\ dmVisible /\ newDmMode /\ dmInput # NoPeer
  /\ newDmMode' = FALSE
  /\ IF n = openDm THEN Reopen(n) ELSE OpenConversation(n, capturedDm)
  /\ UNCHANGED <<dmRows, dmProfile, dmVisible, dmOrder>>

(* _close_dm_conversation.                                                 *)
CancelNewDm ==
  /\ dmVisible /\ newDmMode
  /\ newDmMode' = FALSE /\ dmStates' = capturedDm /\ openDm' = NoPeer
  /\ dmOrder' = conversations(OwnDm(dmRows))
  /\ UNCHANGED <<dmRows, dmProfile, dmVisible, dmLog, dmInput, unboundLoads>>

WriteDm ==
  /\ dmVisible /\ dmInput = NoPeer
  /\ dmInput' = IF openDm = NoPeer THEN Elsewhere ELSE openDm
  /\ UNCHANGED <<dmRows, dmProfile, dmStates, openDm, newDmMode, dmVisible, dmOrder, dmLog,
                 unboundLoads>>

(* dm_input_submitted and _start_dm_outgoing, ONLINE.                      *)
SendDm ==
  /\ dmVisible /\ ~newDmMode /\ openDm # NoPeer /\ dmInput # NoPeer
  /\ dmProfile.bound # NoKey /\ Next_id \in DmIds
  /\ dmRows' = added_dm(openDm)
  /\ dmStates' = [dmStates EXCEPT ![openDm].entries = @ \cup {Next_id}]
  /\ dmLog' = DmLog(dmLog.peer, dmLog.ids \cup {Next_id}) /\ dmInput' = NoPeer
  /\ UNCHANGED <<dmProfile, openDm, newDmMode, dmVisible, dmOrder, unboundLoads>>

(* _accept_received_dm: mounted only if the conversation can be seen.      *)
ReceiveDm(n) ==
  LET seen == dmVisible /\ openDm = n IN
  /\ Next_id \in DmIds /\ dmRows' = added_dm(n)
  /\ dmStates' = [dmStates EXCEPT ![n] =
       [loadedChat(n) EXCEPT !.entries = @ \cup {Next_id},
                             !.unread = IF seen THEN @ ELSE @ \cup {Next_id}]]
  /\ dmLog' = IF seen THEN DmLog(dmLog.peer, dmLog.ids \cup {Next_id}) ELSE dmLog
  /\ dmOrder' = IF dmVisible /\ openDm = NoPeer THEN conversations(OwnDm(added_dm(n))) ELSE dmOrder
  /\ TouchDm(n)
  /\ UNCHANGED <<dmProfile, openDm, newDmMode, dmVisible, dmInput>>

(* show_tab and _switch_chat_mode.                                         *)
LeaveDms ==
  /\ dmVisible /\ dmVisible' = FALSE
  /\ dmStates' = capturedDm /\ newDmMode' = FALSE
  /\ UNCHANGED <<dmRows, dmProfile, openDm, dmOrder, dmLog, dmInput, unboundLoads>>

EnterDms ==
  /\ ~dmVisible /\ dmVisible' = TRUE
  /\ dmOrder' = IF openDm = NoPeer THEN conversations(OwnDm(dmRows)) ELSE dmOrder
  /\ UNCHANGED <<dmRows, dmProfile, dmStates, openDm, newDmMode, dmLog, dmInput, unboundLoads>>

(* _next_dm_after: the order of the list may be an old one.                *)
next_after(n, remaining) ==
  LET i == CHOOSE j \in DOMAIN dmOrder : dmOrder[j] = n
      turned == SubSeq(dmOrder, i + 1, Len(dmOrder)) \o SubSeq(dmOrder, 1, i)
      left == {j \in DOMAIN turned : turned[j] \in ToSet(remaining)}
  IN  IF n \notin ToSet(dmOrder) \/ left = {} THEN Head(remaining) ELSE turned[Min(left)]

(* _delete_current_dm: CTRL+D.                                             *)
DeleteDm ==
  LET gone == {r \in OwnDm(dmRows) : r.peer = openDm}
      was == [dmStates EXCEPT ![openDm] = NoChat]
      remaining == conversations(OwnDm(dmRows) \ gone)
  IN
  /\ dmVisible /\ openDm # NoPeer /\ newDmMode' = FALSE
  /\ dmRows' = {IF r \in gone THEN DmRow(r.id, NoPeer, NoKey) ELSE r : r \in dmRows}
  /\ IF remaining # <<>>
     THEN OpenConversation(next_after(openDm, remaining), was) /\ UNCHANGED dmOrder
     ELSE /\ dmStates' = was /\ openDm' = NoPeer /\ dmOrder' = <<>>
          /\ unboundLoads' = unboundLoads \ {openDm}
          /\ UNCHANGED <<dmLog, dmInput>>
  /\ UNCHANGED <<dmProfile, dmVisible>>

-----------------------------------------------------------------------------
(* _activate_local_profile.                                                *)

Unresolve ==
  /\ dmProfile.bound # NoKey /\ dmProfile' = DmBind(NoKey, dmProfile.active)
  /\ UNCHANGED <<dmRows, dmStates, openDm, newDmMode, dmVisible, dmOrder, dmLog, dmInput,
                 unboundLoads>>

(* Bug: the conversations of the profile before stay.                      *)
KeepsChats(key) == dmStates

(* _reload_active_profile_view; preserve_dm for the same profile.          *)
reloaded_dms(key) == IF key = dmProfile.active THEN dmStates ELSE [n \in Peers |-> NoChat]

Resolve(key) ==
  /\ dmProfile.bound # key /\ dmProfile' = DmBind(key, key)
  /\ dmStates' = reloaded_dms(key) /\ newDmMode' = FALSE
  /\ IF key = dmProfile.active THEN UNCHANGED <<openDm, dmOrder, unboundLoads>>
     ELSE openDm' = NoPeer /\ dmOrder' = <<>> /\ unboundLoads' = {}
  /\ UNCHANGED <<dmRows, dmVisible, dmLog, dmInput>>

DmInit ==
  /\ \E key \in DmKeys : dmProfile = DmBind(key, key)
  /\ dmRows = {} /\ dmStates = [n \in Peers |-> NoChat] /\ openDm = NoPeer
  /\ newDmMode = FALSE /\ dmVisible = FALSE /\ dmOrder = <<>>
  /\ dmLog = DmLog(NoPeer, {}) /\ dmInput = NoPeer /\ unboundLoads = {}

DmNext ==
  \/ \E n \in Peers : OpenDm(n) \/ SubmitNewDm(n) \/ ReceiveDm(n)
  \/ StartNewDm \/ CancelNewDm \/ WriteDm \/ SendDm \/ LeaveDms \/ EnterDms \/ DeleteDm
  \/ Unresolve \/ \E key \in DmKeys : Resolve(key)

DmSpec == DmInit /\ [][DmNext]_dmVars

-----------------------------------------------------------------------------
DmTexts == Peers \cup {NoPeer, Elsewhere}

(* Types of the conversations' state.                                      *)
DmTypeOK ==
  /\ dmRows \subseteq [id : DmIds, peer : Peers \cup {NoPeer}, key : DmKeys \cup {NoKey}]
  /\ dmProfile \in [bound : DmKeys \cup {NoKey}, active : DmKeys]
  /\ dmStates \in [Peers -> [loaded : BOOLEAN, entries : SUBSET DmIds, unread : SUBSET DmIds,
                          draft : DmTexts]]
  /\ openDm \in Peers \cup {NoPeer} /\ {newDmMode, dmVisible} \subseteq BOOLEAN
  /\ dmOrder \in Seq(Peers)
  /\ dmLog \in [peer : Peers \cup {NoPeer}, ids : SUBSET DmIds]
  /\ dmInput \in DmTexts /\ unboundLoads \subseteq Peers

(* Whatever conversation is open, the transcript shows that one's messages *)
(* only, and the text in the input line, which ENTER sends to it, was      *)
(* written in it: no draft moves to another node by opening, cancelling,   *)
(* deleting or a change of tab or of profile.                              *)
DmGoesWhereShown ==
  openDm # NoPeer =>
    /\ dmLog.peer = openDm /\ dmLog.ids \subseteq dmStates[openDm].entries
    /\ dmInput \in {NoPeer, openDm}

(* A loaded conversation has no message of a profile that is not active,   *)
(* and, while a profile is bound, every one the store has for that one     *)
(* (unless it was loaded while none was).                                  *)
DmHistoryIsOwn ==
  \A n \in Peers : dmStates[n].loaded =>
    /\ \A r \in dmRows : r.id \in dmStates[n].entries => r.key \in {dmProfile.active, NoKey}
    /\ n \notin unboundLoads => stored_of(n) \subseteq dmStates[n].entries

(* _reload_active_profile_view: the conversations of the profile survive a *)
(* window without a profile; none is left without its history.             *)
DmHistorySurvives ==
  \A n \in Peers : dmStates[n].loaded => stored_of(n) \subseteq dmStates[n].entries
=============================================================================

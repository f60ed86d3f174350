----------------------------- MODULE RadioLink -----------------------------
(***************************************************************************)
(* The link as the workers of the app see it.  A worker takes the          *)
(* interface of the moment and compares it with RadioService._interface    *)
(* when its answer comes; the screen learns of a link after the service    *)
(* does.  Module Reception models how a link is made, kept and lost; here  *)
(* an interface is the number of its connection.                           *)
(***************************************************************************)
EXTENDS Naturals

CONSTANT MaxOpened \* bound: connections made

ASSUME LinkAssumption == MaxOpened \in Nat

VARIABLES
  link,   \* RadioService._interface; 0 is none
  lost,   \* RadioService._connection_lost
  shown,  \* the link of which the screen says ONLINE; 0 is none
  opened  \* connections made: _connection_generation

linkVars == <<link, lost, shown, opened>>

LinkInit == link = 0 /\ lost = FALSE /\ shown = 0 /\ opened = 0

(* connect(): CONNECTING has been shown before it.                         *)
OpenLink ==
  /\ link = 0 /\ shown = 0 /\ opened < MaxOpened
  /\ link' = opened + 1 /\ opened' = opened + 1 /\ lost' = FALSE
  /\ UNCHANGED shown

(* The ONLINE event.                                                       *)
ShowLink == link # 0 /\ shown # link /\ shown' = link /\ UNCHANGED <<link, lost, opened>>

(* meshtastic.connection.lost.                                             *)
LoseLink == link # 0 /\ ~lost /\ lost' = TRUE /\ UNCHANGED <<link, shown, opened>>

(* close(), by the monitor that noticed, or for another device.            *)
CloseLink == link # 0 /\ link' = 0 /\ UNCHANGED <<lost, shown, opened>>

(* CONNECTING or ERROR is shown.                                           *)
HideLink == link = 0 /\ shown # 0 /\ shown' = 0 /\ UNCHANGED <<link, lost, opened>>

(* `self._interface is not target_interface or self._connection_lost`.     *)
Alive(on) == on # 0 /\ on = link /\ ~lost

LinkTypeOK ==
  /\ link \in 0..MaxOpened /\ shown \in 0..MaxOpened /\ opened \in 0..MaxOpened
  /\ lost \in BOOLEAN
=============================================================================

----------------------------- MODULE MCAppParts -----------------------------
(***************************************************************************)
(* Parts of the app that have nothing in common but the link, each checked *)
(* on its own with small constants: a behaviour is one of one part.  The   *)
(* two halves of NodeActions share the link and no other variable.         *)
(***************************************************************************)
EXTENDS RadioConfig, Channels, NodeActions, MeshBoard, MessageWindow, DirectMessages,
        Encounters, StoreSchema

CONSTANTS
  Parts,                 \* those to check
  LongFast, Home, Spare  \* three channels

VARIABLE part

partVars ==
  <<part, linkVars, configVars, channelsVars, nodeVars, meshVars, windowVars, dmVars,
    passVars, schemaVars>>

(* The channel of each message in the order of history.                    *)
MCChanOf == [m \in 1..5 |-> IF m \in {2, 5} THEN 2 ELSE 1]

(* A radio in another time zone than the host.                             *)
MCSections == {[f \in Fields |-> IF f = TzField THEN v ELSE HostTz] : v \in Values \ {HostTz}}

(* Radios with the same channels in other slots, one channel in two slots, *)
(* or another channel in the same slot.                                    *)
MCReported ==
  {[i \in 0..2 |-> t[i + 1]] :
     t \in {<<LongFast, Home, Free>>, <<Home, LongFast, LongFast>>, <<LongFast, Spare, Free>>}}

(* A neighbour of unknown position, and a node two hops to the east.       *)
MCFirstKnown == 1 :> Record(0, NoDepth, Nowhere) @@ 2 :> Record(0, 2, <<1, 0>>)

MCPlaces == {<<0, 0>>, <<2, 1>>}
MCSizes == {<<5, 9>>, <<9, 15>>}

(* Of the angles that occur; the cosine of 60 degrees is a little over a   *)
(* half, as in floating point.                                             *)
Angles(table) == [d \in 0..180 |-> IF d \in DOMAIN table THEN table[d] ELSE 0]
MCCosine == Angles(0 :> 1000 @@ 45 :> 707 @@ 60 :> 501 @@ 90 :> 0)
MCSine == Angles(0 :> 0 @@ 45 :> 707 @@ 60 :> 866 @@ 90 :> 1000)

Init ==
  /\ LinkInit /\ ConfigInit /\ ChannelsInit /\ NodesInit /\ MeshInit
  /\ WindowInit /\ DmInit /\ PassesInit /\ SchemaInit
  /\ part \in Parts
  /\ part # "board" => view.size = CHOOSE size \in Sizes : TRUE
  /\ part # "window" => stored = {}
  /\ part # "dms" => dmProfile.bound = CHOOSE key \in DmKeys : TRUE
  /\ part # "schema" => disk.version = SchemaVersion

Next ==
  /\ UNCHANGED part
  /\ \/ /\ part = "config" /\ ConfigNext /\ UNCHANGED <<channelsVars, nodeVars>>
        /\ UNCHANGED <<meshVars, windowVars, dmVars, passVars, schemaVars>>
     \/ /\ part = "channels" /\ ChannelsNext /\ UNCHANGED <<configVars, nodeVars>>
        /\ UNCHANGED <<meshVars, windowVars, dmVars, passVars, schemaVars>>
     \/ /\ \/ part = "traces" /\ NodesNext /\ UNCHANGED removeVars
           \/ part = "removals" /\ NodesNext /\ UNCHANGED traceVars
        /\ UNCHANGED <<configVars, channelsVars, meshVars, windowVars, dmVars, passVars,
                       schemaVars>>
     \/ /\ UNCHANGED <<linkVars, configVars, channelsVars, nodeVars>>
        /\ \/ /\ part = "board" /\ MeshNext
              /\ UNCHANGED <<windowVars, dmVars, passVars, schemaVars>>
           \/ /\ part = "window" /\ WindowNext
              /\ UNCHANGED <<meshVars, dmVars, passVars, schemaVars>>
           \/ /\ part = "dms" /\ DmNext
              /\ UNCHANGED <<meshVars, windowVars, passVars, schemaVars>>
           \/ /\ part = "passes" /\ PassesNext
              /\ UNCHANGED <<meshVars, windowVars, dmVars, schemaVars>>
           \/ /\ part = "schema" /\ SchemaNext
              /\ UNCHANGED <<meshVars, windowVars, dmVars, passVars>>

Spec == Init /\ [][Next]_partVars

(* Types of the state of the part that runs.                               *)
PartsTypeOK ==
  /\ LinkTypeOK
  /\ part = "config" => ConfigTypeOK
  /\ part = "channels" => ChannelsTypeOK
  /\ part = "board" => MeshTypeOK
  /\ part \in {"traces", "removals"} => NodesTypeOK
  /\ part = "window" => WindowTypeOK
  /\ part = "dms" => DmTypeOK
  /\ part = "passes" => PassesTypeOK
  /\ part = "schema" => SchemaTypeOK
=============================================================================

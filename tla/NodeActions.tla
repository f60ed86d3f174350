---------------------------- MODULE NodeActions ----------------------------
(***************************************************************************)
(* What the menu of a node on the MESH board asks of the radio: a          *)
(* traceroute, one at a time, that an answer, a refusal, a failed send, a  *)
(* timer or the loss of the link ends; and the removal of the node from    *)
(* the radio's database, which has to be asked for twice.  Answers come on *)
(* the SDK's thread and, like timers, through the queue of the app, where  *)
(* they may wait while the trace they belong to ends.                      *)
(***************************************************************************)
EXTENDS RadioLink, Sequences

CONSTANTS
  Nodes,      \* remote nodes
  NoNode,
  MaxTraces,  \* bound: traceroutes started
  MaxPresses  \* bound: times REMOVE NODE is chosen, and expiries

ASSUME NodeActionsAssumption ==
  MaxTraces \in Nat /\ MaxPresses \in Nat /\ NoNode \notin Nodes

Tokens == 1..MaxTraces
Known == Nodes \cup {NoNode}

VARIABLES
  traced,    \* the destination of each request token; NoNode before it is used
  active,    \* the token of _active_traceroute; 0 is none
  senders,   \* workers in send_traceroute
  waiting,   \* response handlers the SDK keeps
  timers,    \* tokens whose timer may still call _traceroute_timed_out
  posted,    \* TracerouteStatusReceived and TracerouteRequestFailed in the queue
  happened,  \* token and how: what did happen to each request
  banner,    \* the banner and, what a reader takes it for, the token it ended
  routes,    \* _traceroute_routes: the token of the evidence; 0 is none
  nodedb,    \* nodes of the radio
  armed,     \* _node_remove_confirm
  removers,  \* workers in remove_node
  presses    \* what the user chose REMOVE NODE for; NoNode is an expiry

traceVars == <<traced, active, senders, waiting, timers, posted, happened, banner, routes>>
removeVars == <<nodedb, armed, removers, presses>>
nodeVars == <<traceVars, removeVars>>

-----------------------------------------------------------------------------
(* Traceroutes.                                                            *)

Unused == {t \in Tokens : traced[t] = NoNode}
Outcome(t, how) == [token |-> t, how |-> how]
NoBanner == Outcome(0, "none")

(* _start_traceroute: silently ignored while one is active.                *)
StartTraceroute(node) ==
  /\ shown # 0 /\ active = 0
  /\ \E t \in Unused :
       /\ \A u \in Unused : t <= u
       /\ traced' = [traced EXCEPT ![t] = node]
       /\ active' = t /\ senders' = senders \cup {t} /\ timers' = timers \cup {t}
  /\ banner' = NoBanner
  /\ UNCHANGED <<linkVars, waiting, posted, happened, routes, removeVars>>

(* send_traceroute, on whatever interface there is by then.                *)
SendTraceroute(t) ==
  /\ t \in senders /\ senders' = senders \ {t}
  /\ \/ /\ link # 0 /\ waiting' = waiting \cup {t}
        /\ UNCHANGED <<posted, happened>>
     \/ /\ posted' = posted \cup {Outcome(t, "failed")}
        /\ happened' = happened \cup {Outcome(t, "failed")}
        /\ UNCHANGED waiting
  /\ UNCHANGED <<linkVars, traced, active, timers, banner, routes, removeVars>>

(* _parse_traceroute_response: a RouteDiscovery, or a routing error; the   *)
(* handler is called once.  The interface may be gone by then.             *)
AnswerTraceroute(t, how) ==
  /\ t \in waiting /\ waiting' = waiting \ {t}
  /\ posted' = posted \cup {Outcome(t, how)}
  /\ happened' = happened \cup {Outcome(t, how)}
  /\ UNCHANGED <<linkVars, traced, active, senders, timers, banner, routes, removeVars>>

(* Bug: any outcome ends the trace of the moment.                          *)
AnyActive(t) == active # 0

is_active(t) == active # 0 /\ active = t

(* _clear_active_traceroute stops the timer, whose callback may already be *)
(* in the queue.                                                           *)
Clear == active' = 0 /\ timers' \in {timers, timers \ {active}}

(* forward_route_evidence: the newest route replaces, a failure does not.  *)
evidence(o) == IF o.how = "route" THEN [routes EXCEPT ![traced[o.token]] = o.token] ELSE routes

TracerouteOutcome(o) ==
  /\ o \in posted /\ posted' = posted \ {o}
  /\ IF is_active(o.token)
     THEN /\ banner' = Outcome(active, IF o.how = "route" THEN "succeeded" ELSE "failed")
          /\ routes' = evidence(o)
          /\ Clear
     ELSE UNCHANGED <<banner, routes, active, timers>>
  /\ UNCHANGED <<linkVars, traced, senders, waiting, happened, removeVars>>

TracerouteTimedOut(t) ==
  /\ t \in timers
  /\ happened' = happened \cup {Outcome(t, "expired")}
  /\ IF is_active(t) THEN active' = 0 /\ banner' = Outcome(active, "failed")
     ELSE UNCHANGED <<active, banner>>
  /\ timers' = timers \ {t}
  /\ UNCHANGED <<linkVars, traced, senders, waiting, posted, routes, removeVars>>

DismissBanner ==
  /\ banner # NoBanner /\ banner' = NoBanner
  /\ UNCHANGED <<linkVars, traced, active, senders, waiting, timers, posted, happened,
                 routes, removeVars>>

-----------------------------------------------------------------------------
(* REMOVE NODE.                                                            *)

(* Bug: any armed node confirms.                                           *)
SomeArmed(node) == armed # NoNode

is_armed(node) == armed = node

(* _request_node_remove.                                                   *)
RequestNodeRemove(node) ==
  /\ Len(presses) < MaxPresses /\ presses' = Append(presses, node)
  /\ IF is_armed(node)
     THEN /\ armed' = NoNode
          /\ removers' = IF shown # 0 THEN removers \cup {node} ELSE removers
     ELSE armed' = node /\ UNCHANGED removers
  /\ UNCHANGED <<linkVars, traceVars, nodedb>>

NodeRemoveConfirmExpired ==
  /\ armed # NoNode /\ armed' = NoNode
  /\ Len(presses) < MaxPresses /\ presses' = Append(presses, NoNode)
  /\ UNCHANGED <<linkVars, traceVars, nodedb, removers>>

(* remove_node: a removal that was sent counts as one.                     *)
RemoveNode(node) ==
  /\ node \in removers /\ removers' = removers \ {node}
  /\ nodedb' \in IF link # 0 /\ ~lost THEN {nodedb, nodedb \ {node}} ELSE {nodedb}
  /\ UNCHANGED <<linkVars, traceVars, armed, presses>>

-----------------------------------------------------------------------------
(* _show_connection: the loss of the link is the end of the trace.         *)
NodesHide ==
  /\ HideLink
  /\ IF active = 0 THEN UNCHANGED <<active, timers>> ELSE Clear
  /\ UNCHANGED <<traced, senders, waiting, posted, happened, banner, routes, removeVars>>

NodesInit ==
  /\ traced = [t \in Tokens |-> NoNode] /\ active = 0
  /\ senders = {} /\ waiting = {} /\ timers = {} /\ posted = {} /\ happened = {}
  /\ banner = NoBanner /\ routes = [n \in Nodes |-> 0]
  /\ nodedb = Nodes /\ armed = NoNode /\ removers = {} /\ presses = <<>>

NodesNext ==
  \/ \E node \in Nodes : StartTraceroute(node)
  \/ \E t \in Tokens : \/ SendTraceroute(t) \/ TracerouteTimedOut(t)
                       \/ AnswerTraceroute(t, "route") \/ AnswerTraceroute(t, "refused")
  \/ \E o \in posted : TracerouteOutcome(o)
  \/ DismissBanner
  \/ \E node \in Nodes : RequestNodeRemove(node) \/ RemoveNode(node)
  \/ NodeRemoveConfirmExpired
  \/ NodesHide
  \/ (OpenLink \/ ShowLink \/ LoseLink \/ CloseLink) /\ UNCHANGED nodeVars

NodesSpec == LinkInit /\ NodesInit /\ [][NodesNext]_<<linkVars, nodeVars>>

-----------------------------------------------------------------------------
Outcomes == [token : Tokens, how : {"route", "refused", "failed", "expired"}]

(* Types of the node actions' state.                                       *)
NodesTypeOK ==
  /\ traced \in [Tokens -> Known] /\ active \in 0..MaxTraces
  /\ senders \subseteq Tokens /\ waiting \subseteq Tokens /\ timers \subseteq Tokens
  /\ posted \subseteq Outcomes /\ happened \subseteq Outcomes
  /\ banner \in [token : 0..MaxTraces, how : {"none", "succeeded", "failed"}]
  /\ routes \in [Nodes -> 0..MaxTraces]
  /\ nodedb \subseteq Nodes /\ armed \in Known
  /\ removers \subseteq Nodes /\ presses \in Seq(Known)

(* The banner tells what became of the trace that was shown: it says       *)
(* success only when that request was answered with a route, failure only  *)
(* when that request was refused, could not be sent or ran out of time,    *)
(* whatever late answers and timers of earlier requests come in between;   *)
(* the evidence of a node, if any, is of an answered request to it; and a  *)
(* trace that is shown has its own timer, so it always ends.               *)
TraceEndsAsItself ==
  /\ banner.how = "succeeded" => Outcome(banner.token, "route") \in happened
  /\ banner.how = "failed" =>
       \E how \in {"refused", "failed", "expired"} : Outcome(banner.token, how) \in happened
  /\ \A n \in Nodes : routes[n] # 0 =>
       traced[routes[n]] = n /\ Outcome(routes[n], "route") \in happened
  /\ active # 0 => active \in timers

(* A node leaves the radio's database only if its removal was asked for    *)
(* twice in a row, with no other node and no expiry in between.            *)
RemovedWhenConfirmed ==
  \A n \in Nodes \ nodedb :
    \E i \in 2..Len(presses) : presses[i - 1] = n /\ presses[i] = n
=============================================================================

------------------------------ MODULE MeshBoard ------------------------------
(***************************************************************************)
(* The MESH tab: what the app knows of the nodes (the radio's own record,  *)
(* the messages, the routes traced), the layout it remembers from refresh  *)
(* to refresh, and the view.  A time is a number of windows of activity; a *)
(* node is active for one, stale for another, then too old to be shown.    *)
(***************************************************************************)
EXTENDS MeshGrid

CONSTANTS
  Remotes,    \* the remote nodes, by number
  Favorites,  \* those the user marked
  FirstKnown, \* the records of the nodes the radio knows at first
  Depths,     \* the hop counts it can report
  Places,     \* the positions
  Sizes,      \* the sizes of the viewport, <<rows, columns>>
  MaxRemote,  \* DEFAULT_MAX_REMOTE_NODES
  MaxWindows, \* bound: windows of activity
  MaxChanges  \* bound: changes of what is known, and moves of the user

VARIABLES
  mesh,    \* what is known: the radio's records, the messages, the routes
  layout,  \* what a refresh leaves to the next
  view,    \* MeshTopologyView
  changes  \* bound

meshVars == <<mesh, layout, view, changes>>

NeverHeard == -1
NoDepth == -1
Record(heard, depth, at) == [heard |-> heard, depth |-> depth, at |-> at]

(* All that a radio may report as a depth.                                 *)
Reports == Depths \cup {FirstKnown[n].depth : n \in DOMAIN FirstKnown}

ASSUME MeshBoardAssumption ==
  /\ Remotes \subseteq 1..(Span - 1) /\ Favorites \subseteq Remotes
  /\ MaxRemote \in Nat /\ MaxWindows \in Nat /\ MaxChanges \in Nat
  /\ Depths \subseteq Nat /\ IsFiniteSet(Reports)
  /\ Places # {} /\ Places \subseteq Int \X Int
  /\ Sizes \subseteq (Nat \ {0}) \X (Nat \ {0})
  /\ DOMAIN FirstKnown \subseteq Remotes
  /\ \A n \in DOMAIN FirstKnown :
       FirstKnown[n] \in [heard : Int, depth : Nat \cup {NoDepth}, at : (Int \X Int) \cup {Nowhere}]

(* A route is the relays of a trace; no trace, no entry.                   *)
NoView(size) == [nodes |-> <<>>, order |-> <<>>, you |-> FALSE, place |-> Nowhere, now |-> 0,
                 rings |-> <<>>, base |-> <<>>, markers |-> <<>>, routes |-> <<>>,
                 selected |-> Nowhere, size |-> size]

NoLayout == [sticky |-> <<>>, depths |-> {}, rings |-> <<>>,
             extent |-> [up |-> 0, down |-> 0, left |-> 0, right |-> 0]]

MeshInit ==
  /\ mesh = [known |-> FirstKnown, chat |-> <<>>, routes |-> <<>>,
             you |-> CHOOSE p \in Places : TRUE, now |-> 0]
  /\ layout = NoLayout
  /\ view \in {NoView(size) : size \in Sizes}
  /\ changes = 0

Change == /\ changes < MaxChanges
          /\ changes' = changes + 1
-----------------------------------------------------------------------------
(* build_mesh_working_set.  `known` is what could be read of the NodeDB.   *)

relays(routes) == UNION {ToSet(routes[n]) : n \in DOMAIN routes}

Active(state, now) == state.heard = now

freshest(state) == Max({state.heard, state.chat})

(* activity_tier.                                                          *)
tier(state, now) ==
  IF freshest(state) = NeverHeard THEN IF state.relay THEN "active" ELSE "very_old"
  ELSE CASE now - freshest(state) = 0 -> "active"
         [] now - freshest(state) = 1 -> "stale"
         [] OTHER -> "very_old"

node_state(n, known) ==
  LET record == IF n \in DOMAIN known THEN known[n] ELSE Record(NeverHeard, NoDepth, Nowhere)
  IN  [heard |-> record.heard, depth |-> record.depth, at |-> record.at,
       chat |-> IF n \in DOMAIN mesh.chat THEN mesh.chat[n] ELSE NeverHeard,
       relay |-> n \in relays(mesh.routes)]

candidates(known) ==
  {n \in DOMAIN known \cup DOMAIN mesh.chat \cup relays(mesh.routes) :
     tier(node_state(n, known), mesh.now) # "very_old"}

(* Active, favorites, freshest first.                                      *)
rank(n, known) == << IF Active(node_state(n, known), mesh.now) THEN 0 ELSE 1,
                     IF n \in Favorites THEN 0 ELSE 1, -freshest(node_state(n, known)), n>>

(* The best MaxRemote of them, and then the relays that are left.          *)
ranked(known) ==
  LET all == candidates(known)
      key == [n \in all |-> rank(n, known)]
      admitted == {n \in all : \/ Cardinality(earlier(all, key, n)) < MaxRemote
                               \/ n \in relays(mesh.routes)}
  IN  in_order(admitted, key)

-----------------------------------------------------------------------------
(* mesh_hop_rings_for: ring 1 is that of the direct neighbours, the others *)
(* are ranked; a node of no known depth goes beyond them all.              *)

ladder(depth, depths) ==
  IF depth = 0 THEN 1
  ELSE Min({1 + Cardinality({d \in depths : 0 < d /\ d <= depth}), TopRing - 1})

(* Bug: the ring of the nodes of no known depth may be ring 1.             *)
unfloored_ring(depths) == Max({0} \cup {ladder(d, depths) : d \in depths}) + 1

unknown_ring(depths) ==
  Min({Max({0} \cup {ladder(d, depths) : d \in depths} \cup {1}) + 1, TopRing})

hop_rings(nodes, depths) ==
  [n \in DOMAIN nodes |-> IF nodes[n].depth = NoDepth THEN unknown_ring(depths)
                          ELSE ladder(nodes[n].depth, depths)]

depths_of(nodes) == {nodes[n].depth : n \in DOMAIN nodes} \ {NoDepth}

-----------------------------------------------------------------------------
(* MeshTopologyView.set_nodes.                                             *)

(* A marker for each ring between YOU and an active node of known depth,   *)
(* unless its route is known.                                              *)
active_hop_counts(nodes, rings, routes, now) ==
  [n \in {n \in DOMAIN nodes : /\ nodes[n].depth > 0 /\ Active(nodes[n], now)
                               /\ n \notin DOMAIN routes /\ rings[n] > 1}
     |-> rings[n] - 1]

(* Bug: YOU is selected though it is not there.                            *)
fallback_to_you(you, order) == You

fallback(you, order) == IF you THEN You ELSE Head(order)

set_nodes(v) ==
  LET real == [n \in DOMAIN v.nodes \cup (IF v.you THEN {You} ELSE {}) |-> v.base[n]]
      kept == v.selected \in DOMAIN real
  IN  [v EXCEPT !.base = real,
                !.now = mesh.now,
                !.routes = mesh.routes,
                !.markers = build_relay_stages(real,
                              active_hop_counts(v.nodes, v.rings, mesh.routes, mesh.now)),
                !.selected = IF kept THEN @ ELSE fallback(v.you, v.order)]

-----------------------------------------------------------------------------
(* _refresh_mesh, on the tab and ONLINE.                                   *)

(* Nobody of the last layout is left.                                      *)
turnover(remotes, you) ==
  LET before == DOMAIN layout.sticky \ (IF you THEN {You} ELSE {})
  IN  before # {} /\ remotes # {} /\ before \cap remotes = {}

(* Where the nodes were, without those whose ring has changed.             *)
evicted(last, rings) ==
  LET moved == {n \in DOMAIN rings \cap DOMAIN last.rings : rings[n] # last.rings[n]}
  IN  Restrict(last.sticky, DOMAIN last.sticky \ moved)

ratchet(extent, slots) == [side \in DOMAIN extent |-> Max({extent[side], extents(slots)[side]})]

laid_out(nodes, you) ==
  LET remotes == DOMAIN nodes
      last == IF turnover(remotes, you) THEN NoLayout ELSE layout
      depths == last.depths \cup depths_of(nodes)
      rings == hop_rings(nodes, depths)
      at == [n \in remotes \cup {You} |-> IF n \in remotes THEN nodes[n].at
                                        ELSE IF you THEN mesh.you ELSE Nowhere]
      slots == assign_grid_slots(you, at, remotes, rings, evicted(last, rings))
  IN  [sticky |-> slots, depths |-> depths, rings |-> rings,
       extent |-> ratchet(last.extent, slots)]

refresh(known, you) ==
  LET order == ranked(known)
      nodes == [n \in ToSet(order) |-> node_state(n, known)]
  IN  IF order = <<>> /\ ~you
      THEN view' = NoView(view.size) /\ UNCHANGED layout
      ELSE /\ layout' = laid_out(nodes, you)
           /\ view' = set_nodes([view EXCEPT
                        !.nodes = nodes, !.order = order, !.you = you,
                        !.place = IF you THEN mesh.you ELSE Nowhere,
                        !.rings = layout'.rings,
                        !.base = place_within_bounds(layout'.sticky, layout'.extent)])

Refresh ==
  /\ refresh(mesh.known, TRUE)
  /\ UNCHANGED <<mesh, changes>>

(* The records change under the reader: get_known_nodes returns ().        *)
RefreshUnread ==
  /\ Change
  /\ refresh(<<>>, FALSE)
  /\ UNCHANGED mesh

-----------------------------------------------------------------------------
(* What becomes known between two refreshes.                               *)

Knows(known) == mesh' = [mesh EXCEPT !.known = known]

HearNode(n) == Knows(put(mesh.known, n,
                     IF n \in DOMAIN mesh.known THEN [mesh.known[n] EXCEPT !.heard = mesh.now]
                     ELSE Record(mesh.now, NoDepth, Nowhere)))

LearnDepth(n, depth) == n \in DOMAIN mesh.known /\ Knows([mesh.known EXCEPT ![n].depth = depth])

LearnPlace(n, p) == n \in DOMAIN mesh.known /\ Knows([mesh.known EXCEPT ![n].at = p])

ForgetNode(n) == Knows(Restrict(mesh.known, DOMAIN mesh.known \ {n}))

(* Another radio, which knows the other nodes.                             *)
SwitchRadio ==
  Knows([n \in Remotes \ DOMAIN mesh.known |-> Record(mesh.now, NoDepth, Nowhere)])

OwnPlace(p) == mesh' = [mesh EXCEPT !.you = p]

Chat(n) == mesh' = [mesh EXCEPT !.chat = put(@, n, mesh.now)]

Trace(n, forward) == mesh' = [mesh EXCEPT !.routes = put(@, n, forward)]

TimePasses == /\ mesh.now < MaxWindows
              /\ mesh' = [mesh EXCEPT !.now = @ + 1]

Routes(n) == {<<>>} \cup {<<m>> : m \in Remotes \ {n}}

Learn ==
  /\ Change
  /\ \/ \E n \in Remotes :
          \/ HearNode(n) \/ ForgetNode(n) \/ Chat(n)
          \/ \E depth \in Depths : LearnDepth(n, depth)
          \/ \E p \in Places \cup {Nowhere} : LearnPlace(n, p)
          \/ \E forward \in Routes(n) : Trace(n, forward)
     \/ \E p \in Places \cup {Nowhere} : OwnPlace(p)
     \/ SwitchRadio \/ TimePasses
  /\ UNCHANGED <<layout, view>>

-----------------------------------------------------------------------------
(* The user.                                                               *)

Select(n) ==
  /\ n \in DOMAIN view.base
  /\ view' = set_nodes([view EXCEPT !.selected = n])

Move(arrow) ==
  /\ view.order # <<>> \/ view.you
  /\ directional_target(view.base, view.selected, arrow) # view.selected
  /\ view' = set_nodes([view EXCEPT
                          !.selected = directional_target(view.base, view.selected, arrow)])

(* on_resize: as of the last time.                                         *)
Resize(size) ==
  IF view.order # <<>> \/ view.you
  THEN view' = [set_nodes([view EXCEPT !.size = size]) EXCEPT
                  !.now = view.now,
                  !.markers = build_relay_stages(view.base,
                     active_hop_counts(view.nodes, view.rings, mesh.routes, view.now))]
  ELSE view' = [view EXCEPT !.size = size]

Navigate ==
  /\ Change
  /\ \/ \E n \in Remotes \cup {You} : Select(n)
     \/ \E arrow \in Arrows : Move(arrow)
     \/ \E size \in Sizes \ {view.size} : Resize(size)
  /\ UNCHANGED <<mesh, layout>>

MeshNext == Refresh \/ RefreshUnread \/ Learn \/ Navigate

MeshSpec == MeshInit /\ [][MeshNext]_meshVars

-----------------------------------------------------------------------------
(* What is drawn of the view.                                              *)

positions(v) == translated(merged(v.base, v.markers), v.selected, v.size)

viewport(v) == project_to_viewport(positions(v), v.size)

(* The markers of a node, from YOU on.                                     *)
stages(v, n) ==
  LET placed == {step \in 1..TopRing : marker(n, step) \in DOMAIN v.markers}
  IN  [step \in 1..Cardinality(placed) |-> marker(n, step)]

explicit(v, n) == n \in DOMAIN v.routes

stale(v, n) == tier(v.nodes[n], v.now) = "stale"

(* The nodes that get a connector: not those that only relay, and not one  *)
(* whose route goes through a node that is not shown.                      *)
destinations(v) ==
  {n \in DOMAIN v.nodes :
     /\ v.you
     /\ tier(v.nodes[n], v.now) # "very_old"
     /\ explicit(v, n) \/ n \notin relays(v.routes)
     /\ explicit(v, n) => ToSet(v.routes[n]) \subseteq DOMAIN v.base}

node_chain(v, n) ==
  <<You>> \o (IF explicit(v, n) THEN v.routes[n] ELSE IF stale(v, n) THEN <<>> ELSE stages(v, n))
          \o <<n>>

drawn(v, n) ==
  connector(node_chain(v, n), IF explicit(v, n) \/ stale(v, n) THEN <<>> ELSE stages(v, n),
            [m \in DOMAIN viewport(v) |-> pixel(viewport(v)[m])],
            edge_nodes(positions(v), v.size))

connected_relay_ids(v) == UNION {drawn(v, n).markers : n \in destinations(v)}

-----------------------------------------------------------------------------
(* The types of the state.                                                 *)
MeshTypeOK ==
  /\ DOMAIN mesh.known \cup DOMAIN mesh.chat \cup DOMAIN mesh.routes \subseteq Remotes
  /\ mesh.now \in 0..MaxWindows /\ mesh.you \in Places \cup {Nowhere}
  /\ DOMAIN layout.sticky \subseteq Remotes \cup {You}
  /\ DOMAIN view.nodes = ToSet(view.order) /\ DOMAIN view.rings = DOMAIN view.nodes
  /\ Range(view.rings) \subseteq 1..TopRing
  /\ view.selected \in DOMAIN view.base \cup {Nowhere}
  /\ changes \in 0..MaxChanges

Distinct(cells) == \A m, n \in DOMAIN cells : cells[m] = cells[n] => m = n

(* The board and the viewport each have as many cells as there are nodes   *)
(* and markers: otherwise the code stacks them.                            *)
RoomForAll ==
  \A size \in {Grid, view.size} :
    Cardinality(DOMAIN merged(view.base, view.markers)) <= Cardinality(Cells(size))

(* While there is room for all, every node and every marker has a cell of  *)
(* the board for itself, however nodes come, go, move and are stretched to *)
(* the board's sides; YOU is in the middle.  In the viewport too, where    *)
(* nodes beyond its sides are clipped to them, nothing that is drawn       *)
(* covers anything else, and the selected node is in the middle.           *)
EveryNodeHasItsCell ==
  RoomForAll =>
  /\ Distinct(merged(view.base, view.markers))
  /\ Range(merged(view.base, view.markers)) \subseteq Cells(Grid)
  /\ view.you => view.base[You] = Center(Grid)
  /\ DOMAIN view.base # {} =>
       /\ Distinct(Restrict(viewport(view), DOMAIN view.base \cup connected_relay_ids(view)))
       /\ \A n \in DOMAIN view.base : viewport(view)[n] \in Cells(view.size)
       /\ viewport(view)[view.selected] = Center(view.size)

(* What the rings say of depth is what the radio reports, as long as the   *)
(* view lasts: the inner ring is for direct neighbours only, a deeper node *)
(* is never nearer, a node of unknown depth is beyond all those of a known *)
(* one.                                                                    *)
DepthOrder ==
  \A n \in DOMAIN view.nodes :
    LET depth(m) == view.nodes[m].depth
    IN  /\ view.rings[n] = 1 <=> depth(n) = 0
        /\ \A m \in DOMAIN view.nodes :
             /\ depth(n) # NoDepth /\ depth(m) = NoDepth => view.rings[n] < view.rings[m]
             /\ depth(n) # NoDepth /\ depth(n) < depth(m) => view.rings[n] <= view.rings[m]

(* And what the markers say: they are shown for active nodes of a known    *)
(* depth alone, one for each ring on the way.                              *)
MarkersCountRings ==
  \A n \in DOMAIN view.nodes :
    LET shown == {m \in connected_relay_ids(view) : m \div Span = n}
    IN  /\ Cardinality(shown) \in {0, view.rings[n] - 1}
        /\ shown # {} => /\ view.nodes[n].depth > 0 /\ Active(view.nodes[n], view.now)
                         /\ ~explicit(view, n)

(* What the board says of depth is true.                                   *)
RingsTellDepth == DepthOrder /\ MarkersCountRings

(* The order in which the regions are placed.                              *)
Placed(region) == SelectInSeq(Regions, LAMBDA r : r = region)

(* A node that stays on its ring and in its region stays in its slot, but  *)
(* for a node of a region that is placed before its own.                   *)
LayoutIsStable ==
  [][\A n \in (DOMAIN layout.sticky \cap DOMAIN layout'.sticky) \ {You} :
       LET was == layout.sticky[n]
           is == layout'.sticky[n]
       IN  is.region = was.region /\ layout.rings[n] = layout'.rings[n] =>
             \/ is = was
             \/ \E m \in DOMAIN layout'.sticky :
                  /\ layout'.sticky[m].at = was.at
                  /\ Placed(layout'.sticky[m].region) < Placed(was.region)]_meshVars

=============================================================================

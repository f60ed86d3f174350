------------------------------ MODULE MeshGrid ------------------------------
(***************************************************************************)
(* The geometry of the MESH board, as functions of the nodes' rings and    *)
(* places: the logical slot of each node, its cell on a grid of fixed      *)
(* size, the cells of the hop markers, the connectors, the clip to the     *)
(* part of the board in view, and the arrow keys.  A node is a number, in  *)
(* the order of the ids; the local node, YOU, is number 0.  Products of    *)
(* floating point numbers are exact here, and a tie rounds to even.        *)
(***************************************************************************)
EXTENDS Integers, SequencesExt

CONSTANTS
  Nowhere,  \* no position
  GridRows, \* MESH_LOGICAL_GRID_ROWS
  GridCols, \* MESH_LOGICAL_GRID_COLUMNS
  TopRing,  \* MESH_UNKNOWN_HOPS_RING
  Span,     \* more than the number of any node
  Cosine,   \* of an angle in degrees, in thousandths
  Sine

ASSUME MeshGridAssumption ==
  /\ {GridRows, GridCols, TopRing, Span} \subseteq Nat \ {0}
  /\ TopRing > 2 /\ TopRing < Span
  /\ {Cosine, Sine} \subseteq [0..180 -> Int]

You == 0
Grid == <<GridRows, GridCols>>
Center(size) == <<size[1] \div 2 + 1, size[2] \div 2 + 1>>
Cells(size) == (1..size[1]) \X (1..size[2])

abs_value(v) == IF v < 0 THEN -v ELSE v
sign(v) == IF v < 0 THEN -1 ELSE IF v = 0 THEN 0 ELSE 1
square_norm(v) == v[1] * v[1] + v[2] * v[2]
clamp(v, low, high) == IF v < low THEN low ELSE IF v > high THEN high ELSE v

(* The order of two keys, or the given one if they are equal.              *)
Before(a, b, otherwise) == a < b \/ (a = b /\ otherwise)

(* Sequences of numbers, as the keys of a sort.                            *)
Earlier(a, b) == \E i \in 1..Len(a) : a[i] < b[i] /\ \A j \in 1..(i - 1) : a[j] = b[j]

earlier(S, key, n) == {m \in S : Earlier(key[m], key[n])}

(* The members of a set by their keys.                                     *)
in_order(S, key) ==
  [i \in 1..Cardinality(S) |-> CHOOSE n \in S : Cardinality(earlier(S, key, n)) = i - 1]

(* f, but x at k; and f, or g where f is not defined.                      *)
put(f, k, x) == [m \in DOMAIN f \cup {k} |-> IF m = k THEN x ELSE f[m]]
merged(f, g) == [m \in DOMAIN f \cup DOMAIN g |-> IF m \in DOMAIN f THEN f[m] ELSE g[m]]

(* round(a / b).                                                           *)
rounded(a, b) ==
  LET q == a \div b
      r == a % b
  IN  IF 2 * r < b \/ (2 * r = b /\ q % 2 = 0) THEN q ELSE q + 1

-----------------------------------------------------------------------------
(* Searches for a free cell, ring by ring around the wanted one.           *)

(* The i-th offset on the ring: the axes, then all round (where those of   *)
(* the axes come again, in vain).                                          *)
square_ring(r, i) ==
  LET k == i - 4
  IN  CASE i = 1 -> <<0, -r>> [] i = 2 -> <<r, 0>> [] i = 3 -> <<0, r>> [] i = 4 -> <<-r, 0>>
        [] k \in 1..(2 * r + 1) -> <<k - 1 - r, -r>>
        [] k \in (2 * r + 2)..(4 * r + 1) -> <<r, k - 3 * r - 1>>
        [] k \in (4 * r + 2)..(6 * r + 1) -> <<5 * r + 1 - k, r>>
        [] OTHER -> <<-r, 7 * r + 1 - k>>

on_ring(p, r, i) == <<p[1] + square_ring(r, i)[1], p[2] + square_ring(r, i)[2]>>
Hit(p, r, free) == \E i \in 1..(8 * r + 4) : on_ring(p, r, i) \in free

(* p, or the first of the nearest that are free; p if none is.             *)
nearest(p, span, free) ==
  LET r == CHOOSE q \in 1..span : Hit(p, q, free) /\ \A s \in 1..(q - 1) : ~Hit(p, s, free)
      i == CHOOSE j \in 1..(8 * r + 4) :
             on_ring(p, r, j) \in free /\ \A k \in 1..(j - 1) : on_ring(p, r, k) \notin free
  IN  IF p \in free \/ \A q \in 1..span : ~Hit(p, q, free) THEN p ELSE on_ring(p, r, i)

reserve_slot(p, occupied) == nearest(p, 4095, (Int \X Int) \ occupied)

reserve_bounded_cell(p, occupied, size) ==
  nearest(p, size[1] + size[2], Cells(size) \ occupied)

(* Bug: a node is drawn over another one at the edge.                      *)
clipped_cell(p, occupied, size) == p

EdgeCells(size) == {c \in Cells(size) : c[1] \in {1, size[1]} \/ c[2] \in {1, size[2]}}

reserve_edge_cell(p, occupied, size) ==
  LET edge == nearest(p, size[1] + size[2], EdgeCells(size) \ occupied)
  IN  IF edge \in occupied THEN reserve_bounded_cell(p, occupied, size) ELSE edge

-----------------------------------------------------------------------------
(* assign_grid_slots.  `at` gives the places of YOU and of the remotes.    *)

Directions == <<"N", "NE", "E", "SE", "S", "SW", "W", "NW">>
Regions == <<"N", "NE", "E", "SE", "S", "SW", "W", "NW", "GPS_RELATIVE", "UNKNOWN">>
Vectors == << <<0, -1>>, <<1, -1>>, <<1, 0>>, <<1, 1>>, <<0, 1>>, <<-1, 1>>, <<-1, 0>>,
             <<-1, -1>> >>

(* The octant of an offset to the east and north; tan 22.5 is 0.414.       *)
direction_bucket(east, north) ==
  LET flat(a, b) == 1000 * abs_value(a) < 414 * abs_value(b)
      v == IF east = 0 /\ north = 0 THEN <<0, -1>>
           ELSE <<IF flat(east, north) THEN 0 ELSE sign(east),
                  IF flat(north, east) THEN 0 ELSE -sign(north)>>
  IN  Directions[CHOOSE i \in 1..8 : Vectors[i] = v]

(* The remotes that are placed by their own geography: YOU has no place.   *)
gps_cluster(at, remotes) ==
  LET gps == {n \in remotes : at[n] # Nowhere}
  IN  IF at[You] = Nowhere /\ Cardinality(gps) >= 2 THEN gps ELSE {}

region_of(n, at, remotes) ==
  IF n \in gps_cluster(at, remotes) THEN "GPS_RELATIVE"
  ELSE IF Nowhere \in {at[n], at[You]} THEN "UNKNOWN"
  ELSE direction_bucket(at[n][1] - at[You][1], at[n][2] - at[You][2])

(* _project_remote_gps_cluster: around the mean, the farthest at TopRing.  *)
projected(n, at, gps) ==
  LET off(m, axis) == at[m][axis] * Cardinality(gps) - MapThenSumSet(LAMBDA k : at[k][axis], gps)
      reach == Max({abs_value(off(m, axis)) : m \in gps, axis \in {1, 2}})
  IN  IF reach = 0 THEN <<0, 0>>
      ELSE <<rounded(off(n, 1) * TopRing, reach), rounded(-off(n, 2) * TopRing, reach)>>

(* v's direction at the distance of the ring; due north from the origin.   *)
scale_to_radius(v, ring) ==
  LET norm == square_norm(v)
      scaled(x) == sign(x) * CHOOSE k \in 0..ring :
                     /\ (2 * k + 1) * (2 * k + 1) * norm > 4 * x * x * ring * ring
                     /\ k > 0 => (2 * k - 1) * (2 * k - 1) * norm <= 4 * x * x * ring * ring
  IN  IF norm = 0 THEN <<0, -ring>> ELSE <<scaled(v[1]), scaled(v[2])>>

(* The index-th of some nodes fanned out from due east, by whole degrees.  *)
ring_spread(index, count, ring) ==
  LET angle == (180 * ((index + 1) \div 2)) \div count
      side == IF index % 2 = 0 THEN 1 ELSE -1
  IN  <<rounded(ring * Cosine[angle], 1000), side * rounded(ring * Sine[angle], 1000)>>

InRegion(region, at, remotes) == {n \in remotes : region_of(n, at, remotes) = region}

(* The nodes of a region in the order they are placed.                     *)
members(region, at, remotes, ring) ==
  LET far(n) == IF region = "UNKNOWN" THEN ring[n] ELSE IF region = "GPS_RELATIVE" THEN 0
                ELSE LET e == at[n][1] - at[You][1]
                         s == at[n][2] - at[You][2]
                     IN  e * e + s * s
  IN  in_order(InRegion(region, at, remotes),
               [n \in InRegion(region, at, remotes) |-> <<far(n), n>>])

ideal_slot(n, region, at, remotes, ring) ==
  LET r == clamp(ring[n], 1, TopRing)
      alike == {m \in InRegion("UNKNOWN", at, remotes) : ring[m] = ring[n]}
  IN  IF region = "GPS_RELATIVE" THEN scale_to_radius(projected(n, at, gps_cluster(at, remotes)), r)
      ELSE IF region = "UNKNOWN" THEN
        ring_spread(Cardinality({m \in alike : m < n}), Cardinality(alike), r)
      ELSE LET v == Vectors[CHOOSE i \in 1..8 : Directions[i] = region]
           IN  <<v[1] * r, v[2] * r>>

Slot(at, region) == [at |-> at, region |-> region]
slot_cells(slots) == {slots[n].at : n \in DOMAIN slots}

(* Bug: a remembered cell is not looked for first.                         *)
forget_slot(slots, n, region, sticky) == slots

(* The cell a node had in this region, if nobody has taken it.             *)
claim_slot(slots, n, region, sticky) ==
  IF n \in DOMAIN sticky /\ sticky[n].region = region /\ sticky[n].at \notin slot_cells(slots)
  THEN put(slots, n, sticky[n])
  ELSE slots

(* The nearest free cell to its ideal one, if it has none.                 *)
fresh_slot(slots, n, region, ideal) ==
  IF n \in DOMAIN slots THEN slots
  ELSE put(slots, n, Slot(reserve_slot(ideal[n], slot_cells(slots)), region))

(* _place_group_sticky_first.                                              *)
place_group(slots, nodes, region, ideal, sticky) ==
  FoldLeft(LAMBDA s, n : fresh_slot(s, n, region, ideal),
           FoldLeft(LAMBDA s, n : claim_slot(s, n, region, sticky), slots, nodes),
           nodes)

place_region(slots, region, at, remotes, ring, sticky) ==
  place_group(slots, members(region, at, remotes, ring), region,
              [n \in InRegion(region, at, remotes) |-> ideal_slot(n, region, at, remotes, ring)],
              sticky)

LocalSlot(you) == [n \in (IF you THEN {You} ELSE {}) |-> Slot(<<0, 0>>, "LOCAL")]

assign_grid_slots(you, at, remotes, ring, sticky) ==
  FoldLeft(LAMBDA slots, region : place_region(slots, region, at, remotes, ring, sticky),
           LocalSlot(you), Regions)

-----------------------------------------------------------------------------
(* place_within_bounds: cells are <<row, column>> from here on.            *)

(* The farthest step on each side of YOU.                                  *)
extents(slots) ==
  LET reach(axis, s) == Max({0} \cup {s * slots[n].at[axis] : n \in DOMAIN slots})
  IN  [up |-> reach(2, -1), down |-> reach(2, 1), left |-> reach(1, -1), right |-> reach(1, 1)]

(* A step, stretched to use the room of its half-axis.                     *)
spread(step, far, room) ==
  IF far <= 0 \/ room <= far THEN step ELSE rounded(step * room, far)

stretched(v, extent) ==
  LET c == Center(Grid)
  IN  <<IF v[2] < 0 THEN c[1] - spread(-v[2], extent.up, c[1] - 2)
        ELSE c[1] + spread(v[2], extent.down, GridRows - c[1] - 1),
        IF v[1] < 0 THEN c[2] - spread(-v[1], extent.left, c[2] - 2)
        ELSE c[2] + spread(v[1], extent.right, GridCols - c[2] - 1)>>

place_cell(cells, n, slots, extent) ==
  LET p == stretched(slots[n].at, extent)
  IN  put(cells, n, reserve_bounded_cell(<<clamp(p[1], 1, GridRows), clamp(p[2], 1, GridCols)>>,
                                         Range(cells), Grid))

(* The nodes from the middle outwards.                                     *)
outward(slots) ==
  in_order(DOMAIN slots, [n \in DOMAIN slots |-> <<square_norm(slots[n].at), n>>])

place_within_bounds(slots, extent) ==
  FoldLeft(LAMBDA cells, n : place_cell(cells, n, slots, extent), <<>>, outward(slots))

-----------------------------------------------------------------------------
(* Connectors, in screen cells <<x, y>>.                                   *)

pixel(cell) == <<4 * cell[2], 2 * cell[1]>>

(* The cells strictly between two of one row or of one column.             *)
run(a, b) ==
  [i \in 1..Max({0, abs_value(b[1] - a[1]) + abs_value(b[2] - a[2]) - 1}) |->
     <<a[1] + i * sign(b[1] - a[1]), a[2] + i * sign(b[2] - a[2])>>]

elbow(a, corner, b) ==
  run(a, corner) \o (IF corner \in {a, b} THEN <<>> ELSE <<corner>>) \o run(corner, b)

route_connector(a, b) == elbow(a, <<b[1], a[2]>>, b)
alternate_elbow(a, b) == elbow(a, <<a[1], b[2]>>, b)

route_connector_avoiding(a, b, obstacles) ==
  LET Clear(cells) == ToSet(cells) \cap obstacles = {}
  IN  IF ~Clear(route_connector(a, b)) /\ Clear(alternate_elbow(a, b))
      THEN alternate_elbow(a, b)
      ELSE route_connector(a, b)

route_chain_avoiding(points, obstacles) ==
  FlattenSeq([i \in 1..(Len(points) - 1) |->
                route_connector_avoiding(points[i], points[i + 1], obstacles)])

-----------------------------------------------------------------------------
(* build_relay_stages: hops[n] markers between YOU and n; a marker is      *)
(* <<n, step>>.  Its segment keeps clear of the nodes, of the markers and  *)
(* of the segments of its own chain, if any cell allows it.                *)

segment(a, b) == ToSet(route_connector(pixel(a), pixel(b)))

Chain(taken, blocked, previous, cells) ==
  [taken |-> taken, blocked |-> blocked, previous |-> previous, cells |-> cells]

reserve_relay_stage_cell(chain, ideal, last, end) ==
  LET clear == {c \in Cells(Grid) \ chain.taken :
                  /\ segment(chain.previous, c) \cap chain.blocked = {}
                  /\ last => segment(c, end) \cap chain.blocked = {}}
      found == nearest(ideal, GridRows + GridCols, clear)
  IN  IF found \in clear THEN found ELSE reserve_bounded_cell(ideal, chain.taken, Grid)

(* A marker is a number too, after those of the nodes.                     *)
marker(n, step) == Span * n + step

place_stage(chain, n, step, cells, hops) ==
  LET you == cells[You]
      end == cells[n]
      toward(axis) == rounded(you[axis] * (hops[n] + 1) + (end[axis] - you[axis]) * step,
                              hops[n] + 1)
      last == step = hops[n]
      c == reserve_relay_stage_cell(chain,
             <<clamp(toward(1), 1, GridRows), clamp(toward(2), 1, GridCols)>>, last, end)
  IN  Chain(chain.taken \cup {c},
            chain.blocked \cup {pixel(c)} \cup segment(chain.previous, c)
              \cup (IF last THEN segment(c, end) ELSE {}),
            c, put(chain.cells, marker(n, step), c))

place_stages(chain, n, cells, hops) ==
  FoldLeft(LAMBDA ch, step : place_stage(ch, n, step, cells, hops),
           Chain(chain.taken, {pixel(c) : c \in chain.taken}, cells[You], chain.cells),
           [i \in 1..hops[n] |-> i])

build_relay_stages(cells, hops) ==
  LET clients == DOMAIN hops \cap DOMAIN cells
  IN  IF You \notin DOMAIN cells THEN <<>>
      ELSE FoldLeft(LAMBDA chain, n : place_stages(chain, n, cells, hops),
                    Chain(Range(cells), {}, cells[You], <<>>),
                    in_order(clients, [n \in clients |-> <<n>>])).cells

-----------------------------------------------------------------------------
(* _mesh_translated_positions and project_to_viewport.                     *)

translated(cells, selected, size) ==
  LET c == Center(size)
      from == cells[selected]
  IN  [n \in DOMAIN cells |-> <<cells[n][1] + c[1] - from[1], cells[n][2] + c[2] - from[2]>>]

edge_nodes(cells, size) == {n \in DOMAIN cells : cells[n] \notin Cells(size)}

clip(placed, n, cells, size) ==
  put(placed, n, reserve_edge_cell(<<clamp(cells[n][1], 1, size[1]), clamp(cells[n][2], 1, size[2])>>,
                                   Range(placed), size))

project_to_viewport(cells, size) ==
  LET out == edge_nodes(cells, size)
  IN  FoldLeft(LAMBDA placed, n : clip(placed, n, cells, size),
               [n \in DOMAIN cells \ out |-> cells[n]],
               in_order(out, [n \in out |-> <<n>>]))

-----------------------------------------------------------------------------
(* One destination of build_connector_scene: the chain of nodes or markers *)
(* it goes through, the cells drawn, and the markers they justify.  YOU is *)
(* among the obstacles.                                                    *)

Connector(via, points, cells, markers) ==
  [via |-> via, points |-> points, cells |-> cells, markers |-> markers]

connector(via, markers, centers, edges) ==
  LET at(chain) == [i \in DOMAIN chain |-> centers[chain[i]]]
      obstacles == {centers[m] : m \in DOMAIN centers \ (ToSet(via) \ {You})}
      direct == at(<<You, Last(via)>>)
      routed == route_chain_avoiding(at(via), obstacles)
  IN  IF ToSet(markers) \cap edges # {} \/ ~IsInjective(routed)
      THEN Connector(via, direct, route_chain_avoiding(direct, obstacles), {})
      ELSE Connector(via, at(via), routed, ToSet(markers))

-----------------------------------------------------------------------------
(* directional_target: the nearest in the direction, then the straightest. *)

Arrows == {"up", "down", "left", "right"}

directional_target(cells, from, arrow) ==
  LET down(n) == cells[n][1] - cells[from][1]
      right(n) == cells[n][2] - cells[from][2]
      primary(n) == CASE arrow = "up" -> -down(n) [] arrow = "down" -> down(n)
                      [] arrow = "left" -> -right(n) [] arrow = "right" -> right(n)
      cross(n) == abs_value(IF arrow \in {"up", "down"} THEN right(n) ELSE down(n))
      norm(n) == primary(n) * primary(n) + cross(n) * cross(n)
      Better(m, n) ==
        Before(norm(m), norm(n),
               Before(cross(m) * primary(n), cross(n) * primary(m), m < n))
      ahead == {n \in DOMAIN cells : primary(n) > 0}
  IN  IF ahead = {} THEN from
      ELSE CHOOSE n \in ahead : \A m \in ahead \ {n} : Better(n, m)
=============================================================================

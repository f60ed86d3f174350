----------------------------- MODULE Encounters -----------------------------
(***************************************************************************)
(* PASSES: everyone this radio has ever known of.  Each refresh of MESH    *)
(* sweeps the nodes the radio knows into the store, except for those whose *)
(* last sweep said the same; each message records its sender.  The table   *)
(* outlives the radio's own list, the radios and the app.  A simulated     *)
(* radio records nothing, and is left out.                                 *)
(***************************************************************************)
EXTENDS Integers, FiniteSets

CONSTANTS
  MeshNodes,  \* remote nodes, by their ids
  MaxTime,    \* bound: moments
  MaxHops,    \* bound: hops_away
  MaxEvents   \* bound: changes of the node database, messages and failures

ASSUME EncountersAssumption ==
  /\ MeshNodes \subseteq Nat /\ IsFiniteSet(MeshNodes)
  /\ MaxTime \in Nat \ {0} /\ MaxHops \in Nat /\ MaxEvents \in Nat

VARIABLES
  now,          \* wall clock
  nodeDb,       \* get_known_nodes(): hops, last_heard and whether it is named
  encountered,  \* node_encounters
  sightings,    \* what was recorded, ever
  recorded,     \* _recorded_passes
  unswept,      \* nodes whose entry has changed, or failed, since it was swept
  passesDirty, onPasses, passOrder,
  passes,       \* PassesView.passes
  unreadable,   \* the last read of the table failed
  events

recordVars == <<encountered, sightings, recorded, passesDirty>>
viewVars == <<onPasses, passOrder, passes, unreadable>>
passVars == <<now, nodeDb, recordVars, unswept, viewVars, events>>

Unknown == -1     \* hops_away None
Never == 0        \* a time that is None
Hops == {Unknown} \cup 0..MaxHops
Times == 1..MaxTime
Entry(hops, heard, named) == [hops |-> hops, heard |-> heard, named |-> named]
Sighting(n, seen, direct, hops, named) ==
  [node |-> n, seen |-> seen, direct |-> direct, hops |-> hops, named |-> named]
Recorded(seen, direct) == [seen |-> seen, direct |-> direct]
Row(named, hops, first, last, firstHeard, lastHeard) ==
  [named |-> named, hops |-> hops, first |-> first, last |-> last,
   firstHeard |-> firstHeard, lastHeard |-> lastHeard]

PassesInit ==
  /\ now = 1 /\ nodeDb = <<>> /\ encountered = <<>> /\ sightings = {} /\ recorded = <<>>
  /\ unswept = {} /\ passesDirty = FALSE /\ onPasses = FALSE /\ passOrder = "recent"
  /\ passes = <<>> /\ unreadable = FALSE /\ events = 0

-----------------------------------------------------------------------------
(* ChatStore.record_encounter.                                             *)

least(a, b) == IF a <= b THEN a ELSE b
most(a, b) == IF a >= b THEN a ELSE b

(* Bug: the last sighting says how the node was heard.                     *)
LastHearing(old, heard_at, extreme) == heard_at
hearing(old, heard_at, extreme) ==
  IF heard_at = Never THEN old ELSE IF old = Never THEN heard_at ELSE extreme

upserted(s) ==
  LET heard_at == IF s.direct THEN s.seen ELSE Never
      old == encountered[s.node]
  IN  IF s.node \notin DOMAIN encountered
      THEN Row(s.named, s.hops, s.seen, s.seen, heard_at, heard_at)
      ELSE Row(s.named \/ old.named, IF s.hops = Unknown THEN old.hops ELSE s.hops,
               least(old.first, s.seen), most(old.last, s.seen),
               hearing(old.firstHeard, heard_at, least(old.firstHeard, heard_at)),
               hearing(old.lastHeard, heard_at, most(old.lastHeard, heard_at)))

(* One sighting of each of some nodes.                                     *)
record_all(set) ==
  LET of(n) == CHOOSE s \in set : s.node = n
      nodes == {s.node : s \in set}
  IN  /\ encountered' = [n \in DOMAIN encountered \cup nodes |->
                           IF n \in nodes THEN upserted(of(n)) ELSE encountered[n]]
      /\ sightings' = sightings \cup set

-----------------------------------------------------------------------------
(* The app's two sources.                                                  *)

seen_at(n) == IF nodeDb[n].heard # Never THEN nodeDb[n].heard ELSE now
is_direct(n) == nodeDb[n].hops = 0

(* Bug: only the time counts.                                              *)
SameTime(n) == n \in DOMAIN recorded /\ recorded[n].seen = seen_at(n)
is_suppressed(n) == n \in DOMAIN recorded /\ recorded[n] = Recorded(seen_at(n), is_direct(n))

swept_nodes == {n \in DOMAIN nodeDb : ~is_suppressed(n)}

(* _record_pass_encounters: writes may fail, each for itself.              *)
Sweep ==
  /\ \E failed \in SUBSET swept_nodes :
       LET written == swept_nodes \ failed IN
       /\ events + Cardinality(failed) <= MaxEvents
       /\ events' = events + Cardinality(failed)
       /\ record_all({Sighting(n, seen_at(n), is_direct(n), nodeDb[n].hops, nodeDb[n].named) :
                        n \in written})
       /\ recorded' = [n \in DOMAIN recorded \cup written |->
                         IF n \in written THEN Recorded(seen_at(n), is_direct(n))
                         ELSE recorded[n]]
       /\ passesDirty' = (passesDirty \/ written # {})
       /\ unswept' = failed
  /\ UNCHANGED <<now, nodeDb, viewVars>>

(* Bug: a message that is recorded does not ask for a repaint.             *)
StillClean == passesDirty
dirtied == TRUE

(* _record_pass_from_message: never direct, nor ever suppressed.           *)
Message(n, seen, named) ==
  /\ events < MaxEvents /\ events' = events + 1
  /\ seen <= now
  /\ record_all({Sighting(n, seen, FALSE, Unknown, named)})
  /\ passesDirty' = dirtied
  /\ recorded' = [m \in DOMAIN recorded \ {n} |-> recorded[m]]
  /\ UNCHANGED <<now, nodeDb, unswept, viewVars>>

-----------------------------------------------------------------------------
(* The view.                                                               *)

(* sort_encounters.  A node without a name is shown by its id, which sorts *)
(* before the names.                                                       *)
by_name(m, n) ==
  LET named(k) == encountered[k].named
  IN  IF named(m) # named(n) THEN named(n) ELSE m < n
by_hops(m, n) ==
  LET hops(k) == encountered[k].hops
  IN  IF hops(m) = hops(n) THEN by_name(m, n)
      ELSE hops(n) = Unknown \/ (hops(m) # Unknown /\ hops(m) < hops(n))
by_time(m, n) ==
  LET last(k) == encountered[k].last
  IN  IF last(m) = last(n) THEN by_name(m, n) ELSE last(m) > last(n)
comes_before(order, m, n) ==
  CASE order = "alpha" -> by_name(m, n)
    [] order = "hops" -> by_hops(m, n)
    [] order = "recent" -> by_time(m, n)

(* ChatStore.encounters.                                                   *)
encounters_by(order) ==
  LET rank(n) == Cardinality({m \in DOMAIN encountered : comes_before(order, m, n)})
  IN  [i \in 1..Cardinality(DOMAIN encountered) |->
         LET n == CHOOSE k \in DOMAIN encountered : rank(k) = i - 1
         IN  [node |-> n, row |-> encountered[n]]]

(* _refresh_passes: a read that fails shows nobody.                        *)
refresh_passes(order) ==
  \/ passes' = encounters_by(order) /\ unreadable' = FALSE /\ UNCHANGED events
  \/ /\ events < MaxEvents /\ events' = events + 1
     /\ passes' = <<>> /\ unreadable' = TRUE

ShowPasses ==
  /\ onPasses' = TRUE
  /\ refresh_passes(passOrder)
  /\ UNCHANGED <<now, nodeDb, recordVars, unswept, passOrder>>

LeavePasses ==
  /\ onPasses /\ onPasses' = FALSE
  /\ UNCHANGED <<now, nodeDb, recordVars, unswept, passOrder, passes, unreadable, events>>

Reorder(order) ==
  /\ onPasses /\ passOrder' = order
  /\ refresh_passes(order)
  /\ UNCHANGED <<now, nodeDb, recordVars, unswept, onPasses>>

(* _refresh_chat_timestamps; the sweep that follows is Sweep.              *)
Tick ==
  /\ onPasses /\ passesDirty
  /\ passesDirty' = FALSE
  /\ refresh_passes(passOrder)
  /\ UNCHANGED <<now, nodeDb, encountered, sightings, recorded, unswept, onPasses, passOrder>>

-----------------------------------------------------------------------------
(* What happens elsewhere.                                                 *)

(* The radio hears of a node; another radio may know other nodes.          *)
Hear(n, entry) ==
  /\ events < MaxEvents /\ events' = events + 1
  /\ entry.heard <= now
  /\ nodeDb' = [m \in DOMAIN nodeDb \cup {n} |-> IF m = n THEN entry ELSE nodeDb[m]]
  /\ unswept' = unswept \cup {n}
  /\ UNCHANGED <<now, recordVars, viewVars>>

Unlink ==
  /\ nodeDb # <<>> /\ nodeDb' = <<>>
  /\ unswept' = {}
  /\ UNCHANGED <<now, recordVars, viewVars, events>>

TimeGoesOn ==
  /\ now < MaxTime /\ now' = now + 1
  /\ UNCHANGED <<nodeDb, recordVars, unswept, viewVars, events>>

(* The app starts again, with the default order.                           *)
Restart ==
  /\ recorded' = <<>> /\ passesDirty' = FALSE /\ onPasses' = FALSE
  /\ passOrder' = "recent" /\ passes' = <<>> /\ unreadable' = FALSE
  /\ unswept' = DOMAIN nodeDb
  /\ UNCHANGED <<now, nodeDb, encountered, sightings, events>>

PassesNext ==
  \/ Sweep
  \/ \E n \in MeshNodes, seen \in Times, named \in BOOLEAN : Message(n, seen, named)
  \/ ShowPasses \/ LeavePasses \/ Tick
  \/ \E order \in {"alpha", "hops", "recent"} : Reorder(order)
  \/ \E n \in MeshNodes, hops \in Hops, heard \in Times \cup {Never}, named \in BOOLEAN :
       Hear(n, Entry(hops, heard, named))
  \/ Unlink \/ TimeGoesOn \/ Restart

PassesSpec == PassesInit /\ [][PassesNext]_passVars

-----------------------------------------------------------------------------
Rows == [named : BOOLEAN, hops : Hops, first : Times, last : Times,
         firstHeard : Times \cup {Never}, lastHeard : Times \cup {Never}]

PassesTypeOK ==
  /\ now \in Times
  /\ DOMAIN nodeDb \subseteq MeshNodes /\ unswept \subseteq MeshNodes
  /\ nodeDb \in [DOMAIN nodeDb -> [hops : Hops, heard : Times \cup {Never}, named : BOOLEAN]]
  /\ DOMAIN encountered \subseteq MeshNodes /\ encountered \in [DOMAIN encountered -> Rows]
  /\ sightings \subseteq [node : MeshNodes, seen : Times, direct : BOOLEAN, hops : Hops,
                          named : BOOLEAN]
  /\ DOMAIN recorded \subseteq MeshNodes
  /\ recorded \in [DOMAIN recorded -> [seen : Times, direct : BOOLEAN]]
  /\ passesDirty \in BOOLEAN /\ onPasses \in BOOLEAN /\ unreadable \in BOOLEAN
  /\ passOrder \in {"alpha", "hops", "recent"}
  /\ events \in 0..MaxEvents

(* A row is the sum of everything that was ever recorded of its node, in   *)
(* whatever order and from whichever source: the earliest and the latest   *)
(* time, and the earliest and latest of the direct ones.                   *)
spans(first, last, times) ==
  IF times = {} THEN first = Never /\ last = Never
  ELSE first \in times /\ last \in times /\ \A t \in times : first <= t /\ t <= last
RowIsWhole(n) ==
  LET mine == {s \in sightings : s.node = n}
      row == encountered[n]
  IN  /\ spans(row.first, row.last, {s.seen : s \in mine})
      /\ spans(row.firstHeard, row.lastHeard, {s.seen : s \in {q \in mine : q.direct}})
      /\ row.named = (\E s \in mine : s.named)
RecordIsWhole ==
  /\ DOMAIN encountered = {s.node : s \in sightings}
  /\ \A n \in DOMAIN encountered : RowIsWhole(n)

(* A node that the radio states no hops away is on record as heard, once a *)
(* sweep has passed it: what a sweep skips, it has recorded before.        *)
NeighboursAreHeard ==
  \A n \in DOMAIN nodeDb \ unswept :
    is_direct(n) => n \in DOMAIN encountered /\ encountered[n].firstHeard # Never

(* The two together: no evidence of a node is lost.                        *)
NothingIsForgotten == RecordIsWhole /\ NeighboursAreHeard

(* The list on the screen is the table, in the order chosen, unless a      *)
(* repaint is due or the last read failed.                                 *)
ListIsRecord ==
  onPasses /\ ~passesDirty /\ ~unreadable => passes = encounters_by(passOrder)
=============================================================================

-------------------------- MODULE MeshBoardProofs ---------------------------
(***************************************************************************)
(* Theorems about MeshBoard, for any nodes, reports, places, viewports and *)
(* bounds: the types, the depths that the rings and the markers tell, the  *)
(* cells that are drawn, and the slots that the nodes keep.                *)
(***************************************************************************)
EXTENDS MeshBoard, MeshGridProofs

-----------------------------------------------------------------------------
(* The rings.                                                              *)

Deeper(depth, depths) == {d \in depths : 0 < d /\ d <= depth}
Rungs(depths) == {ladder(d, depths) : d \in depths}

LEMMA LadderOf ==
  ASSUME NEW depths \in SUBSET Nat, IsFiniteSet(depths), NEW depth \in depths
  PROVE  /\ ladder(depth, depths) \in 1..(TopRing - 1)
         /\ ladder(depth, depths) = 1 <=> depth = 0
<1>1. TopRing \in Nat /\ TopRing > 2
  BY MeshGridAssumption
<1>2. CASE depth = 0
  BY <1>1, <1>2 DEF ladder
<1>3. CASE depth # 0
  <2> DEFINE c == Cardinality(Deeper(depth, depths))
             two == {1 + c, TopRing - 1}
  <2>1. IsFiniteSet(Deeper(depth, depths)) /\ depth \in Deeper(depth, depths)
    BY <1>3, FS_Subset DEF Deeper
  <2>2. c \in Nat /\ c # 0
    BY <2>1, FS_CardinalityType, FS_EmptySet
  <2>3. two \in SUBSET Nat /\ two # {} /\ \A x \in two : x \in 2..(TopRing - 1) \/ x = 1 + c
    BY <1>1, <2>2
  <2> HIDE DEF c
  <2>4. Min(two) \in two /\ \A x \in two : Min(two) <= x
    <3> HIDE DEF two
    <3> QED BY <2>3, LeastOf
  <2>5. Min(two) \in 2..(TopRing - 1)
    BY <1>1, <2>2, <2>4
  <2>6. ladder(depth, depths) = Min(two)
    BY <1>3 DEF ladder, Deeper, c
  <2> QED BY <1>1, <1>3, <2>5, <2>6
<1> QED BY <1>2, <1>3

LEMMA DeeperIsNoNearer ==
  ASSUME NEW depths \in SUBSET Nat, IsFiniteSet(depths), NEW k \in depths, NEW l \in depths, k < l
  PROVE  ladder(k, depths) <= ladder(l, depths)
<1>1. TopRing \in Nat /\ TopRing > 2
  BY MeshGridAssumption
<1>2. CASE k = 0
  <2>1. ladder(k, depths) = 1
    BY <1>2 DEF ladder
  <2>2. ladder(l, depths) \in 1..(TopRing - 1)
    BY LadderOf
  <2> QED BY <1>1, <2>1, <2>2
<1>3. CASE k # 0
  <2> DEFINE a == Cardinality(Deeper(k, depths))
             b == Cardinality(Deeper(l, depths))
             first == {1 + a, TopRing - 1}
             second == {1 + b, TopRing - 1}
  <2>1. Deeper(k, depths) \in SUBSET Deeper(l, depths) /\ IsFiniteSet(Deeper(l, depths))
    <3>1. Deeper(l, depths) \in SUBSET depths
      BY DEF Deeper
    <3>2. \A d \in depths : d <= k => d <= l
      OBVIOUS
    <3> QED BY <3>1, <3>2, FS_Subset DEF Deeper
  <2>2. a \in Nat /\ b \in Nat /\ a <= b
    BY <2>1, FS_Subset, FS_CardinalityType
  <2>3. ladder(k, depths) = Min(first) /\ ladder(l, depths) = Min(second)
    BY <1>3 DEF ladder, Deeper
  <2> HIDE DEF a, b
  <2>4. first \in SUBSET Nat /\ first # {} /\ second \in SUBSET Nat /\ second # {}
    BY <1>1, <2>2
  <2>5. /\ Min(first) \in first /\ \A x \in first : Min(first) <= x
        /\ Min(second) \in second /\ \A x \in second : Min(second) <= x
    <3> HIDE DEF first, second
    <3> QED BY <2>4, LeastOf
  <2>6. Min(first) \in Nat /\ Min(first) <= 1 + a /\ Min(first) <= TopRing - 1
    BY <2>4, <2>5
  <2>7. Min(second) = 1 + b \/ Min(second) = TopRing - 1
    BY <2>5
  <2> QED BY <1>1, <2>2, <2>3, <2>6, <2>7
<1> QED BY <1>2, <1>3

LEMMA RungsAreFinite ==
  ASSUME NEW depths, IsFiniteSet(depths)
  PROVE  IsFiniteSet(Rungs(depths))
<1> DEFINE f == [d \in depths |-> ladder(d, depths)]
<1>1. f \in [depths -> Rungs(depths)]
  BY DEF Rungs
<1>2. Rungs(depths) = {f[d] : d \in depths}
  BY DEF Rungs
<1> HIDE DEF f
<1>3. IsFiniteSet({f[d] : d \in depths})
  BY <1>1, ImageIsFinite
<1> QED BY <1>2, <1>3

LEMMA UnknownIsBeyond ==
  ASSUME NEW depths \in SUBSET Nat, IsFiniteSet(depths)
  PROVE  /\ unknown_ring(depths) \in 2..TopRing
         /\ \A d \in depths : ladder(d, depths) < unknown_ring(depths)
<1> DEFINE all == {0} \cup Rungs(depths) \cup {1}
           two == {Max(all) + 1, TopRing}
<1>1. TopRing \in Nat /\ TopRing > 2
  BY MeshGridAssumption
<1>2. Rungs(depths) \in SUBSET (1..(TopRing - 1))
  BY LadderOf DEF Rungs
<1>3. all \in SUBSET Nat /\ all # {} /\ IsFiniteSet(all) /\ 1 \in all
  <2>1. IsFiniteSet({0}) /\ IsFiniteSet({1})
    BY FS_Singleton
  <2>2. IsFiniteSet({0} \cup Rungs(depths))
    BY <2>1, RungsAreFinite, FS_Union
  <2>3. IsFiniteSet(all)
    BY <2>1, <2>2, FS_Union
  <2> QED BY <1>1, <1>2, <2>3
<1>4. \A d \in depths : ladder(d, depths) \in all
  BY DEF Rungs
<1>5. unknown_ring(depths) = Min(two)
  BY DEF unknown_ring, Rungs
<1> HIDE DEF all
<1>6. Max(all) \in Nat /\ \A x \in all : x <= Max(all)
  BY <1>3, GreatestOf
<1>7. two \in SUBSET Nat /\ two # {}
  BY <1>1, <1>6
<1>8. Min(two) \in two /\ \A x \in two : Min(two) <= x
  <2> HIDE DEF two
  <2> QED BY <1>7, LeastOf
<1>9. Min(two) \in 2..TopRing /\ (Min(two) = Max(all) + 1 \/ Min(two) = TopRing)
  BY <1>1, <1>3, <1>6, <1>8
<1>10. ASSUME NEW d \in depths
       PROVE  ladder(d, depths) < Min(two)
  <2>1. ladder(d, depths) \in 1..(TopRing - 1) /\ ladder(d, depths) <= Max(all)
    BY <1>4, <1>6, LadderOf
  <2> QED BY <1>1, <1>6, <1>9, <2>1
<1> QED BY <1>5, <1>9, <1>10

RingsAreOf(nodes, rings, depths) ==
  /\ \A n \in DOMAIN nodes : nodes[n].depth \in depths \cup {NoDepth}
  /\ rings = hop_rings(nodes, depths)

RingsInv ==
  /\ layout.depths \subseteq Nat \cap Reports
  /\ RingsAreOf(view.nodes, view.rings, layout.depths)

LEMMA RingsTell ==
  ASSUME RingsInv
  PROVE  DepthOrder
<1> DEFINE D == layout.depths
<1>1. D \in SUBSET Nat /\ IsFiniteSet(D)
  BY MeshBoardAssumption, FS_Subset DEF RingsInv
<1>2. ASSUME NEW n \in DOMAIN view.nodes
      PROVE  /\ view.nodes[n].depth \in D \/ view.nodes[n].depth = NoDepth
             /\ view.rings[n] = IF view.nodes[n].depth = NoDepth THEN unknown_ring(D)
                                ELSE ladder(view.nodes[n].depth, D)
  BY <1>2 DEF RingsInv, RingsAreOf, hop_rings
<1>3. NoDepth \in Int /\ NoDepth < 0 /\ NoDepth \notin D
  BY <1>1 DEF NoDepth
<1>4. TopRing \in Nat
  BY MeshGridAssumption
<1> HIDE DEF D
<1>5. ASSUME NEW n \in DOMAIN view.nodes
      PROVE  view.rings[n] = 1 <=> view.nodes[n].depth = 0
  <2>1. CASE view.nodes[n].depth = NoDepth
    <3>1. view.rings[n] = unknown_ring(D)
      BY <1>2, <2>1
    <3>2. unknown_ring(D) \in 2..TopRing
      BY <1>1, UnknownIsBeyond
    <3> QED BY <1>3, <1>4, <2>1, <3>1, <3>2
  <2>2. CASE view.nodes[n].depth \in D
    <3>1. view.rings[n] = ladder(view.nodes[n].depth, D)
      BY <1>2, <1>3, <2>2
    <3>2. ladder(view.nodes[n].depth, D) = 1 <=> view.nodes[n].depth = 0
      BY <1>1, <2>2, LadderOf
    <3> QED BY <3>1, <3>2
  <2> QED BY <1>2, <2>1, <2>2
<1>6. ASSUME NEW n \in DOMAIN view.nodes, NEW m \in DOMAIN view.nodes,
             view.nodes[n].depth # NoDepth, view.nodes[m].depth = NoDepth
      PROVE  view.rings[n] < view.rings[m]
  <2>1. view.nodes[n].depth \in D /\ view.rings[n] = ladder(view.nodes[n].depth, D)
    BY <1>2, <1>6
  <2>2. view.rings[m] = unknown_ring(D)
    BY <1>2, <1>6
  <2>3. ladder(view.nodes[n].depth, D) < unknown_ring(D)
    BY <1>1, <2>1, UnknownIsBeyond
  <2> QED BY <2>1, <2>2, <2>3
<1>7. ASSUME NEW n \in DOMAIN view.nodes, NEW m \in DOMAIN view.nodes,
             view.nodes[n].depth # NoDepth, view.nodes[n].depth < view.nodes[m].depth
      PROVE  view.rings[n] <= view.rings[m]
  <2>1. view.nodes[n].depth \in D /\ view.rings[n] = ladder(view.nodes[n].depth, D)
    BY <1>2, <1>7
  <2>2. view.nodes[m].depth \in D /\ view.nodes[m].depth # NoDepth
    <3>1. view.nodes[n].depth \in Nat
      BY <1>1, <2>1
    <3>2. view.nodes[m].depth # NoDepth
      BY <1>3, <1>7, <3>1
    <3> QED BY <1>2, <3>2
  <2>3. view.rings[m] = ladder(view.nodes[m].depth, D)
    BY <1>2, <2>2
  <2>4. ladder(view.nodes[n].depth, D) <= ladder(view.nodes[m].depth, D)
    BY <1>1, <1>7, <2>1, <2>2, DeeperIsNoNearer
  <2> QED BY <2>1, <2>3, <2>4
<1> QED BY <1>5, <1>6, <1>7 DEF DepthOrder

LEMMA HopRingsAre ==
  ASSUME NEW nodes, NEW depths \in SUBSET Nat, IsFiniteSet(depths),
         \A n \in DOMAIN nodes : nodes[n].depth \in depths \cup {NoDepth}
  PROVE  /\ DOMAIN hop_rings(nodes, depths) = DOMAIN nodes
         /\ \A n \in DOMAIN nodes : hop_rings(nodes, depths)[n] \in 1..TopRing
<1>1. TopRing \in Nat /\ TopRing > 2
  BY MeshGridAssumption
<1>2. unknown_ring(depths) \in 1..TopRing
  <2>1. unknown_ring(depths) \in 2..TopRing
    BY UnknownIsBeyond
  <2> QED BY <1>1, <2>1
<1>3. \A d \in depths : ladder(d, depths) \in 1..TopRing
  <2>1. \A d \in depths : ladder(d, depths) \in 1..(TopRing - 1)
    BY LadderOf
  <2> QED BY <1>1, <2>1
<1>4. ASSUME NEW n \in DOMAIN nodes PROVE hop_rings(nodes, depths)[n] \in 1..TopRing
  <2>1. hop_rings(nodes, depths)[n] = IF nodes[n].depth = NoDepth THEN unknown_ring(depths)
                                      ELSE ladder(nodes[n].depth, depths)
    BY DEF hop_rings
  <2>2. CASE nodes[n].depth = NoDepth
    BY <1>2, <2>1, <2>2
  <2>3. CASE nodes[n].depth # NoDepth
    <3>1. nodes[n].depth \in depths
      BY <2>3
    <3> QED BY <1>3, <2>1, <2>3, <3>1
  <2> QED BY <2>2, <2>3
<1>5. DOMAIN hop_rings(nodes, depths) = DOMAIN nodes
  BY DEF hop_rings
<1> QED BY <1>4, <1>5

-----------------------------------------------------------------------------
(* What is known.                                                          *)

MeshFields == {"known", "chat", "routes", "you", "now"}
Records == [heard : Int, depth : Reports \cup {NoDepth}, at : Offsets \cup {Nowhere}]

KnownIs(known) == /\ DOMAIN known \subseteq Remotes
                  /\ \A n \in DOMAIN known : known[n] \in Records

MeshIs ==
  /\ DOMAIN mesh = MeshFields
  /\ KnownIs(mesh.known)
  /\ DOMAIN mesh.chat \subseteq Remotes /\ \A n \in DOMAIN mesh.chat : mesh.chat[n] \in Int
  /\ /\ DOMAIN mesh.routes \subseteq Remotes
     /\ \A n \in DOMAIN mesh.routes : ToSet(mesh.routes[n]) \subseteq Remotes
  /\ mesh.you \in Places \cup {Nowhere}
  /\ mesh.now \in 0..MaxWindows

LEMMA MeshNodesAre ==
  /\ Remotes \subseteq Nat \ {You} /\ IsFiniteSet(Remotes)
  /\ \A n \in Remotes : n \in 1..(Span - 1)
<1>1. Remotes \subseteq 1..(Span - 1)
  BY MeshBoardAssumption
<1>2. 1 \in Int /\ Span - 1 \in Int
  BY MeshGridAssumption
<1> DEFINE I == 1..(Span - 1)
<1>3. IsFiniteSet(I)
  BY <1>2, FS_Interval
<1>4. I \subseteq Nat \ {You}
  BY <1>2 DEF You
<1> HIDE DEF I
<1>5. Remotes \subseteq I
  BY <1>1 DEF I
<1>6. IsFiniteSet(Remotes)
  BY <1>3, <1>5, FS_Subset
<1> QED BY <1>1, <1>4, <1>5, <1>6

LEMMA MeshStarts == MeshInit => MeshIs
<1> SUFFICES ASSUME MeshInit PROVE MeshIs
  OBVIOUS
<1>1. mesh = [known |-> FirstKnown, chat |-> <<>>, routes |-> <<>>,
              you |-> CHOOSE p \in Places : TRUE, now |-> 0]
  BY DEF MeshInit
<1>2. (CHOOSE p \in Places : TRUE) \in Places
  BY MeshBoardAssumption
<1>3. KnownIs(FirstKnown)
  <2>1. DOMAIN FirstKnown \subseteq Remotes
    BY MeshBoardAssumption
  <2>2. ASSUME NEW n \in DOMAIN FirstKnown PROVE FirstKnown[n] \in Records
    <3>1. FirstKnown[n] \in [heard : Int, depth : Nat \cup {NoDepth}, at : (Int \X Int) \cup {Nowhere}]
      BY MeshBoardAssumption
    <3>2. FirstKnown[n].depth \in Reports
      BY DEF Reports
    <3> QED BY <3>1, <3>2 DEF Records, Offsets
  <2> QED BY <2>1, <2>2 DEF KnownIs
<1>4. 0 \in 0..MaxWindows
  BY MeshBoardAssumption
<1>5. DOMAIN <<>> = {}
  OBVIOUS
<1>6. mesh.known = FirstKnown /\ mesh.chat = <<>> /\ mesh.routes = <<>> /\ mesh.now = 0
      /\ mesh.you \in Places /\ DOMAIN mesh = MeshFields
  BY <1>1, <1>2 DEF MeshFields
<1> QED BY <1>3, <1>4, <1>5, <1>6 DEF MeshIs

LEMMA KnownKeeps ==
  ASSUME MeshIs, NEW known, KnownIs(known), Knows(known)
  PROVE  MeshIs'
<1>1. /\ DOMAIN mesh' = MeshFields /\ mesh'.known = known /\ mesh'.chat = mesh.chat
      /\ mesh'.routes = mesh.routes /\ mesh'.you = mesh.you /\ mesh'.now = mesh.now
  BY DEF Knows, MeshIs, MeshFields
<1> QED BY <1>1 DEF MeshIs

LEMMA LearnKeeps ==
  ASSUME MeshIs, Learn
  PROVE  MeshIs'
<1>1. KnownIs(mesh.known) /\ mesh.now \in Int
  BY DEF MeshIs
<1>2. \A now \in Int : Record(now, NoDepth, Nowhere) \in Records
  BY DEF Records, Record
<1>3. ASSUME NEW n \in Remotes, HearNode(n) PROVE MeshIs'
  <2> DEFINE r == IF n \in DOMAIN mesh.known THEN [mesh.known[n] EXCEPT !.heard = mesh.now]
                  ELSE Record(mesh.now, NoDepth, Nowhere)
             known == put(mesh.known, n, r)
  <2>1. r \in Records
    <3>1. CASE n \in DOMAIN mesh.known
      <4>1. mesh.known[n] \in Records
        BY <1>1, <3>1 DEF KnownIs
      <4>2. [mesh.known[n] EXCEPT !.heard = mesh.now] \in Records
        BY <1>1, <4>1 DEF Records
      <4> QED BY <3>1, <4>2
    <3>2. CASE n \notin DOMAIN mesh.known
      BY <1>1, <1>2, <3>2
    <3> QED BY <3>1, <3>2
  <2>2. Knows(known)
    BY <1>3 DEF HearNode
  <2> HIDE DEF r
  <2>3. KnownIs(known)
    BY <1>1, <2>1 DEF KnownIs, put
  <2> HIDE DEF known
  <2> QED BY <2>2, <2>3, KnownKeeps
<1>4. ASSUME NEW n \in Remotes, NEW depth \in Depths, LearnDepth(n, depth) PROVE MeshIs'
  <2> DEFINE known == [mesh.known EXCEPT ![n].depth = depth]
  <2>1. Knows(known)
    BY <1>4 DEF LearnDepth
  <2>2. depth \in Reports
    BY DEF Reports
  <2>3. KnownIs(known)
    BY <1>1, <2>2 DEF KnownIs, Records
  <2> HIDE DEF known
  <2> QED BY <2>1, <2>3, KnownKeeps
<1>5. ASSUME NEW n \in Remotes, NEW p \in Places \cup {Nowhere}, LearnPlace(n, p)
      PROVE  MeshIs'
  <2> DEFINE known == [mesh.known EXCEPT ![n].at = p]
  <2>1. Knows(known)
    BY <1>5 DEF LearnPlace
  <2>2. p \in Offsets \cup {Nowhere}
    BY MeshBoardAssumption DEF Offsets
  <2>3. KnownIs(known)
    BY <1>1, <2>2 DEF KnownIs, Records
  <2> HIDE DEF known
  <2> QED BY <2>1, <2>3, KnownKeeps
<1>6. ASSUME NEW n \in Remotes, ForgetNode(n) PROVE MeshIs'
  <2> DEFINE known == Restrict(mesh.known, DOMAIN mesh.known \ {n})
  <2>1. Knows(known)
    BY <1>6 DEF ForgetNode
  <2>2. KnownIs(known)
    BY <1>1 DEF KnownIs, Restrict
  <2> HIDE DEF known
  <2> QED BY <2>1, <2>2, KnownKeeps
<1>7. ASSUME SwitchRadio PROVE MeshIs'
  <2> DEFINE known == [n \in Remotes \ DOMAIN mesh.known |-> Record(mesh.now, NoDepth, Nowhere)]
  <2>1. Knows(known)
    BY <1>7 DEF SwitchRadio
  <2>2. KnownIs(known)
    BY <1>1, <1>2 DEF KnownIs
  <2> HIDE DEF known
  <2> QED BY <2>1, <2>2, KnownKeeps
<1>8. ASSUME NEW n \in Remotes, Chat(n) PROVE MeshIs'
  <2> DEFINE chat == put(mesh.chat, n, mesh.now)
  <2>1. DOMAIN chat \subseteq Remotes /\ \A m \in DOMAIN chat : chat[m] \in Int
    BY <1>1 DEF MeshIs, put
  <2>2. mesh' = [mesh EXCEPT !.chat = chat]
    BY <1>8 DEF Chat
  <2> HIDE DEF chat
  <2>3. /\ DOMAIN mesh' = MeshFields /\ mesh'.known = mesh.known /\ mesh'.chat = chat
        /\ mesh'.routes = mesh.routes /\ mesh'.you = mesh.you /\ mesh'.now = mesh.now
    BY <2>2 DEF MeshIs, MeshFields
  <2> QED BY <2>1, <2>3 DEF MeshIs
<1>9. ASSUME NEW n \in Remotes, NEW forward \in Routes(n), Trace(n, forward) PROVE MeshIs'
  <2> DEFINE routes == put(mesh.routes, n, forward)
  <2>1. ToSet(forward) \subseteq Remotes
    <3>1. forward = <<>> \/ \E m \in Remotes : forward = <<m>>
      BY DEF Routes
    <3>2. CASE forward = <<>>
      BY <3>2 DEF ToSet
    <3>3. CASE \E m \in Remotes : forward = <<m>>
      <4>1. PICK m \in Remotes : forward = <<m>>
        BY <3>3
      <4>2. DOMAIN forward = {1} /\ forward[1] = m
        BY <4>1
      <4> QED BY <4>2 DEF ToSet
    <3> QED BY <3>1, <3>2, <3>3
  <2>2. DOMAIN routes \subseteq Remotes /\ \A m \in DOMAIN routes : ToSet(routes[m]) \subseteq Remotes
    BY <2>1 DEF MeshIs, put
  <2>3. mesh' = [mesh EXCEPT !.routes = routes]
    BY <1>9 DEF Trace
  <2> HIDE DEF routes
  <2>4. /\ DOMAIN mesh' = MeshFields /\ mesh'.known = mesh.known /\ mesh'.chat = mesh.chat
        /\ mesh'.routes = routes /\ mesh'.you = mesh.you /\ mesh'.now = mesh.now
    BY <2>3 DEF MeshIs, MeshFields
  <2> QED BY <2>2, <2>4 DEF MeshIs
<1>10. ASSUME NEW p \in Places \cup {Nowhere}, OwnPlace(p) PROVE MeshIs'
  <2>1. /\ DOMAIN mesh' = MeshFields /\ mesh'.known = mesh.known /\ mesh'.chat = mesh.chat
        /\ mesh'.routes = mesh.routes /\ mesh'.you = p /\ mesh'.now = mesh.now
    BY <1>10 DEF OwnPlace, MeshIs, MeshFields
  <2> QED BY <2>1 DEF MeshIs
<1>11. ASSUME TimePasses PROVE MeshIs'
  <2>1. /\ DOMAIN mesh' = MeshFields /\ mesh'.known = mesh.known /\ mesh'.chat = mesh.chat
        /\ mesh'.routes = mesh.routes /\ mesh'.you = mesh.you /\ mesh'.now = mesh.now + 1
    BY <1>11 DEF TimePasses, MeshIs, MeshFields
  <2>2. mesh.now < MaxWindows /\ mesh.now \in 0..MaxWindows /\ MaxWindows \in Nat
    BY <1>11, MeshBoardAssumption DEF TimePasses, MeshIs
  <2>3. mesh.now + 1 \in 0..MaxWindows
    BY <2>2
  <2> QED BY <2>1, <2>3 DEF MeshIs
<1> QED BY <1>3, <1>4, <1>5, <1>6, <1>7, <1>8, <1>9, <1>10, <1>11 DEF Learn

-----------------------------------------------------------------------------
(* What is shown: the nodes in their order.                                *)

NodeStates == [heard : Int, depth : Reports \cup {NoDepth}, at : Offsets \cup {Nowhere},
               chat : Int, relay : BOOLEAN]

LEMMA NodeStateIs ==
  ASSUME MeshIs, NEW known, KnownIs(known), NEW n
  PROVE  /\ node_state(n, known) \in NodeStates
         /\ freshest(node_state(n, known)) \in Int
<1> DEFINE record == IF n \in DOMAIN known THEN known[n] ELSE Record(NeverHeard, NoDepth, Nowhere)
           chat == IF n \in DOMAIN mesh.chat THEN mesh.chat[n] ELSE NeverHeard
           state == node_state(n, known)
<1>1. record \in Records
  <2>1. CASE n \in DOMAIN known
    BY <2>1 DEF KnownIs
  <2>2. CASE n \notin DOMAIN known
    BY <2>2 DEF Record, Records, NeverHeard
  <2> QED BY <2>1, <2>2
<1>2. chat \in Int
  BY DEF MeshIs, NeverHeard
<1>3. state = [heard |-> record.heard, depth |-> record.depth, at |-> record.at,
               chat |-> chat, relay |-> n \in relays(mesh.routes)]
  BY DEF node_state
<1> HIDE DEF record, chat, state
<1>4. state \in NodeStates
  BY <1>1, <1>2, <1>3 DEF Records, NodeStates
<1>5. state.heard \in Int /\ state.chat \in Int
  BY <1>4 DEF NodeStates
<1>6. freshest(state) \in Int
  <2>1. Max({state.heard, state.chat}) \in {state.heard, state.chat}
    BY <1>5, GreaterOf
  <2> QED BY <1>5, <2>1 DEF freshest
<1> QED BY <1>4, <1>6 DEF state

LEMMA CandidatesAre ==
  ASSUME MeshIs, NEW known, KnownIs(known)
  PROVE  candidates(known) \subseteq Remotes
<1>1. relays(mesh.routes) \subseteq Remotes
  BY DEF relays, MeshIs
<1> QED BY <1>1 DEF candidates, KnownIs, MeshIs

(* The order of the nodes is one, of nodes that are known.                 *)
LEMMA RankedIs ==
  ASSUME MeshIs, NEW known, KnownIs(known)
  PROVE  /\ ranked(known) \in Seq(Remotes)
         /\ ToSet(ranked(known)) \subseteq Remotes
<1> DEFINE all == candidates(known)
           key == [n \in all |-> rank(n, known)]
           S == {n \in all : \/ Cardinality(earlier(all, key, n)) < MaxRemote
                             \/ n \in relays(mesh.routes)}
           N == Cardinality(S)
           order == in_order(S, key)
<1>1. ranked(known) = order
  BY DEF ranked
<1>2. all \subseteq Remotes
  BY CandidatesAre
<1>3. ASSUME NEW n \in all PROVE key[n] \in Keys(4) /\ key[n][4] = n
  <2> DEFINE a == IF Active(node_state(n, known), mesh.now) THEN 0 ELSE 1
             b == IF n \in Favorites THEN 0 ELSE 1
             c == -freshest(node_state(n, known))
  <2>1. a \in Int /\ b \in Int /\ n \in Int
    <3>1. n \in Remotes
      BY <1>2
    <3>2. n \in Int
      BY <3>1, MeshNodesAre
    <3>3. a \in {0, 1} /\ b \in {0, 1}
      BY Zenon
    <3> HIDE DEF a, b
    <3> QED BY <3>2, <3>3
  <2>2. c \in Int
    BY NodeStateIs
  <2>3. key[n] = <<a, b, c, n>>
    BY DEF rank
  <2> HIDE DEF a, b, c, key
  <2>4. <<a, b, c, n>> \in Seq(Int) /\ Len(<<a, b, c, n>>) = 4 /\ <<a, b, c, n>>[4] = n
    BY <2>1, <2>2
  <2> QED BY <2>3, <2>4 DEF Keys
<1>4. S \subseteq all
  OBVIOUS
<1> HIDE DEF S, all, key
<1>5. IsFiniteSet(S)
  BY <1>2, <1>4, MeshNodesAre, FS_Subset
<1>6. \A m \in S : key[m] \in Keys(4)
  BY <1>3, <1>4
<1>7. \A m, n \in S : key[m] = key[n] => m = n
  BY <1>3, <1>4
<1>8. Sorts(order, S, key)
  <2>1. 4 \in Nat
    OBVIOUS
  <2> QED BY <1>5, <1>6, <1>7, <2>1, SortedBy
<1> HIDE DEF order
<1>9. N \in Nat /\ order \in [1..N -> S]
  BY <1>8 DEF Sorts, Bijection, Injection
<1>10. order \in [1..N -> Remotes]
  BY <1>2, <1>4, <1>9
<1> HIDE DEF N
<1>11. order \in Seq(Remotes)
  BY <1>9, <1>10
<1>12. ToSet(order) \subseteq Remotes
  BY <1>10 DEF ToSet
<1> QED BY <1>1, <1>11, <1>12

-----------------------------------------------------------------------------
(* The layout.                                                             *)

(* All that may have a slot.                                               *)
Everyone == Remotes \cup {You}

IsLayout(l) ==
  /\ l.sticky \in PartialMaps(Everyone, Slots)
  /\ Few(Everyone) => CellsApart(l.sticky)
  /\ l.depths \subseteq Nat \cap Reports
  /\ DOMAIN l.extent = Sides /\ \A s \in Sides : l.extent[s] \in Nat

AreNodes(nodes) == /\ DOMAIN nodes \subseteq Remotes
                   /\ \A n \in DOMAIN nodes : nodes[n] \in NodeStates

LEMMA NoLayoutIs == IsLayout(NoLayout)
<1>1. NoLayout.sticky = <<>> /\ NoLayout.depths = {}
      /\ NoLayout.extent = [up |-> 0, down |-> 0, left |-> 0, right |-> 0]
  BY DEF NoLayout
<1>2. <<>> \in PartialMaps(Everyone, Slots)
  BY NoMap
<1>3. CellsApart(<<>>)
  BY DEF CellsApart
<1>4. DOMAIN NoLayout.extent = Sides /\ \A s \in Sides : NoLayout.extent[s] \in Nat
  BY <1>1 DEF Sides
<1> QED BY <1>1, <1>2, <1>3, <1>4 DEF IsLayout

LEMMA EvictedIs ==
  ASSUME NEW last, IsLayout(last), NEW rings
  PROVE  /\ AreRemembered(evicted(last, rings))
         /\ Few(Everyone) => CellsApart(evicted(last, rings))
         /\ \A n \in DOMAIN evicted(last, rings) :
              n \in DOMAIN last.sticky /\ evicted(last, rings)[n] = last.sticky[n]
         /\ \A n \in DOMAIN last.sticky :
              ~(n \in DOMAIN rings \cap DOMAIN last.rings /\ rings[n] # last.rings[n]) =>
                n \in DOMAIN evicted(last, rings)
<1> DEFINE moved == {n \in DOMAIN rings \cap DOMAIN last.rings : rings[n] # last.rings[n]}
           kept == DOMAIN last.sticky \ moved
<1>1. evicted(last, rings) = [n \in kept |-> last.sticky[n]]
  BY DEF evicted, Restrict
<1>2. \A n \in DOMAIN last.sticky : last.sticky[n] \in Slots
  <2>1. last.sticky \in [DOMAIN last.sticky -> Slots]
    BY PartialMapsAre DEF IsLayout
  <2> QED BY <2>1
<1>3. \A n \in DOMAIN last.sticky :
        ~(n \in DOMAIN rings \cap DOMAIN last.rings /\ rings[n] # last.rings[n]) => n \in kept
  OBVIOUS
<1>4. kept \subseteq DOMAIN last.sticky
  OBVIOUS
<1> HIDE DEF kept
<1>5. DOMAIN evicted(last, rings) = kept /\ \A n \in kept : evicted(last, rings)[n] = last.sticky[n]
  BY <1>1
<1>6. AreRemembered(evicted(last, rings))
  BY <1>2, <1>4, <1>5 DEF AreRemembered
<1>7. Few(Everyone) => CellsApart(evicted(last, rings))
  BY <1>4, <1>5 DEF IsLayout, CellsApart
<1> QED BY <1>3, <1>4, <1>5, <1>6, <1>7

(* A layout made from the last one, of these nodes.                        *)
IsLaidOut(l, last, nodes, local) ==
  /\ IsLayout(l)
  /\ DOMAIN l.sticky = local \cup DOMAIN nodes
  /\ \A m \in local : l.sticky[m].at = <<0, 0>>
  /\ RingsAreOf(nodes, l.rings, l.depths)
  /\ \E at : /\ AreAt(at, DOMAIN nodes)
             /\ IsAssigned(l.sticky, local, at, DOMAIN nodes, evicted(last, l.rings))

LEMMA FewerIs ==
  ASSUME NEW D, Few(D), NEW S \in SUBSET D
  PROVE  Few(S)
<1>1. IsFiniteSet(D) /\ Cardinality(D) <= 4095
  BY DEF Few
<1>2. IsFiniteSet(S) /\ Cardinality(S) <= Cardinality(D)
  BY <1>1, FS_Subset
<1>3. Cardinality(S) \in Nat /\ Cardinality(D) \in Nat
  BY <1>1, <1>2, FS_CardinalityType
<1>4. Cardinality(S) <= 4095
  BY <1>1, <1>2, <1>3
<1> QED BY <1>2, <1>4 DEF Few

LEMMA DepthsAre ==
  ASSUME NEW last, IsLayout(last), NEW nodes, AreNodes(nodes)
  PROVE  LET depths == last.depths \cup depths_of(nodes)
         IN  /\ depths \subseteq Nat \cap Reports /\ IsFiniteSet(depths)
             /\ \A n \in DOMAIN nodes : nodes[n].depth \in depths \cup {NoDepth}
<1> DEFINE depths == last.depths \cup depths_of(nodes)
<1>1. \A n \in DOMAIN nodes : nodes[n].depth \in Reports \cup {NoDepth}
  BY DEF AreNodes, NodeStates
<1>2. Reports \subseteq Nat \cup {NoDepth} /\ IsFiniteSet(Reports)
  <2>1. Depths \subseteq Nat /\ IsFiniteSet(Reports)
    BY MeshBoardAssumption
  <2>2. \A n \in DOMAIN FirstKnown : FirstKnown[n].depth \in Nat \cup {NoDepth}
    BY MeshBoardAssumption
  <2> QED BY <2>1, <2>2 DEF Reports
<1>3. depths_of(nodes) \subseteq Nat \cap Reports
  BY <1>1, <1>2 DEF depths_of
<1>4. depths \subseteq Nat \cap Reports
  BY <1>3 DEF IsLayout
<1>5. \A n \in DOMAIN nodes : nodes[n].depth \in depths \cup {NoDepth}
  BY DEF depths_of
<1> HIDE DEF depths
<1>6. IsFiniteSet(depths)
  <2>1. depths \subseteq Reports
    BY <1>4
  <2> QED BY <1>2, <2>1, FS_Subset
<1> QED BY <1>4, <1>5, <1>6 DEF depths

LEMMA RatchetIs ==
  ASSUME NEW extent, DOMAIN extent = Sides, \A s \in Sides : extent[s] \in Nat,
         NEW slots, IsFiniteSet(DOMAIN slots), \A n \in DOMAIN slots : slots[n].at \in Offsets
  PROVE  /\ DOMAIN ratchet(extent, slots) = Sides
         /\ \A s \in Sides : ratchet(extent, slots)[s] \in Nat
<1>1. \A s \in Sides : extents(slots)[s] \in Nat
  BY ExtentsAre
<1>2. ratchet(extent, slots) = [s \in Sides |-> Max({extent[s], extents(slots)[s]})]
  BY DEF ratchet
<1>3. ASSUME NEW s \in Sides PROVE ratchet(extent, slots)[s] \in Nat
  <2>1. extent[s] \in Nat /\ extents(slots)[s] \in Nat
    BY <1>1
  <2>2. \A a, b \in Int : Max({a, b}) \in {a, b}
    BY GreaterOf
  <2> DEFINE a == extent[s]
             b == extents(slots)[s]
  <2>4. a \in Int /\ b \in Int
    BY <2>1
  <2>5. Max({a, b}) \in {a, b}
    BY <2>2, <2>4
  <2>3. ratchet(extent, slots)[s] = Max({extent[s], extents(slots)[s]})
    BY <1>2
  <2> QED BY <2>1, <2>3, <2>5
<1>4. DOMAIN ratchet(extent, slots) = Sides
  BY <1>2
<1> QED BY <1>3, <1>4

LEMMA LaidOutIs ==
  ASSUME MeshIs, NEW last, IsLayout(last), NEW nodes, AreNodes(nodes), NEW you \in BOOLEAN,
         last = IF turnover(DOMAIN nodes, you) THEN NoLayout ELSE layout
  PROVE  IsLaidOut(laid_out(nodes, you), last, nodes, DOMAIN LocalSlot(you))
<1> DEFINE remotes == DOMAIN nodes
           depths == last.depths \cup depths_of(nodes)
           rings == hop_rings(nodes, depths)
           at == [n \in remotes \cup {You} |-> IF n \in remotes THEN nodes[n].at
                                             ELSE IF you THEN mesh.you ELSE Nowhere]
           sticky == evicted(last, rings)
           slots == assign_grid_slots(you, at, remotes, rings, sticky)
           extent == ratchet(last.extent, slots)
           local == DOMAIN LocalSlot(you)
           l == laid_out(nodes, you)
<1>1. l = [sticky |-> slots, depths |-> depths, rings |-> rings, extent |-> extent]
  BY DEF laid_out
<1>2. /\ depths \subseteq Nat \cap Reports /\ IsFiniteSet(depths)
      /\ \A n \in remotes : nodes[n].depth \in depths \cup {NoDepth}
  BY DepthsAre
<1>3. remotes \subseteq Remotes /\ remotes \subseteq Nat \ {You} /\ IsFiniteSet(remotes)
  <2>1. remotes \subseteq Remotes
    BY DEF AreNodes
  <2> QED BY <2>1, MeshNodesAre, FS_Subset
<1>4. AreAt(at, remotes)
  <2>1. \A n \in remotes : nodes[n].at \in Offsets \cup {Nowhere}
    BY DEF AreNodes, NodeStates
  <2>2. mesh.you \in Offsets \cup {Nowhere}
    BY MeshBoardAssumption DEF MeshIs, Offsets
  <2>3. \A n \in remotes \cup {You} : at[n] \in Offsets \cup {Nowhere}
    BY <1>3, <2>1, <2>2
  <2> HIDE DEF at
  <2> QED BY <1>3, <2>3 DEF AreAt
<1>5. AreRinged(rings, remotes)
  <2>1. depths \in SUBSET Nat
    BY <1>2
  <2> HIDE DEF depths
  <2>2. \A n \in DOMAIN nodes : hop_rings(nodes, depths)[n] \in 1..TopRing
    BY <1>2, <2>1, HopRingsAre
  <2> QED BY <2>2 DEF AreRinged
<1>6. AreRemembered(sticky)
  BY EvictedIs
<1> HIDE DEF at, rings, sticky, depths
<1>7. IsMapped(at, remotes, rings, sticky)
  BY <1>4, <1>5, <1>6 DEF IsMapped
<1> HIDE DEF remotes
<1>8. IsAssigned(slots, local, at, remotes, sticky)
  BY <1>7, AssignedIs
<1>9. local = IF you THEN {You} ELSE {}
  BY LocalIs
<1> HIDE DEF slots, local, l
<1>10. /\ slots \in PartialMaps(remotes \cup {You}, Slots) /\ DOMAIN slots = local \cup remotes
       /\ \A m \in local : slots[m] = Slot(<<0, 0>>, "LOCAL")
       /\ Few(remotes \cup {You}) => CellsApart(slots)
  BY <1>8 DEF IsAssigned
<1>11. slots \in [DOMAIN slots -> Slots] /\ DOMAIN slots \subseteq remotes \cup {You}
  BY <1>10, PartialMapsAre
<1>12. slots \in PartialMaps(Everyone, Slots)
  BY <1>3, <1>11, PartialMapsAre DEF Everyone
<1>13. Few(Everyone) => CellsApart(slots)
  <2>1. remotes \cup {You} \subseteq Everyone
    BY <1>3 DEF Everyone
  <2> QED BY <1>10, <2>1, FewerIs
<1>14. DOMAIN extent = Sides /\ \A s \in Sides : extent[s] \in Nat
  <2>1. IsFiniteSet(DOMAIN slots)
    <3>1. IsFiniteSet(remotes \cup {You})
      BY <1>3, FS_AddElement
    <3> QED BY <1>11, <3>1, FS_Subset
  <2>2. \A n \in DOMAIN slots : slots[n].at \in Offsets
    BY <1>11 DEF Slots
  <2> QED BY <2>1, <2>2, RatchetIs DEF IsLayout
<1> HIDE DEF extent
<1>15. l.sticky = slots /\ l.depths = depths /\ l.rings = rings /\ l.extent = extent
  BY <1>1
<1>16. IsLayout(l)
  BY <1>2, <1>12, <1>13, <1>14, <1>15 DEF IsLayout
<1>17. RingsAreOf(nodes, l.rings, l.depths)
  BY <1>2, <1>15 DEF RingsAreOf, rings, remotes
<1>18. \A m \in local : l.sticky[m].at = <<0, 0>>
  BY <1>10, <1>15 DEF Slot
<1>19. DOMAIN l.sticky = local \cup DOMAIN nodes
  BY <1>10, <1>15 DEF remotes
<1>20. IsAssigned(l.sticky, local, at, DOMAIN nodes, evicted(last, l.rings))
  BY <1>8, <1>15 DEF sticky, remotes
<1>21. AreAt(at, DOMAIN nodes)
  BY <1>4 DEF remotes
<1> QED BY <1>16, <1>17, <1>18, <1>19, <1>20, <1>21 DEF IsLaidOut, l, local

-----------------------------------------------------------------------------
(* The view.                                                               *)

ViewFields == {"nodes", "order", "you", "place", "now", "rings", "base", "markers", "routes",
               "selected", "size"}

(* The nodes of a view, and YOU.                                           *)
Shown(v) == DOMAIN v.nodes \cup DOMAIN LocalSlot(v.you)

IsBase(base, D) ==
  /\ DOMAIN base = D /\ Range(base) \subseteq Cells(Grid)
  /\ Cardinality(D) <= Cardinality(Cells(Grid)) => Apart(base)
  /\ You \in D => base[You] = Center(Grid)

(* What set_nodes starts from.                                             *)
IsDraft(v) ==
  /\ DOMAIN v = ViewFields
  /\ v.you \in BOOLEAN /\ v.size \in Sizes
  /\ AreNodes(v.nodes)
  /\ v.order \in Seq(Remotes) /\ ToSet(v.order) = DOMAIN v.nodes
  /\ DOMAIN v.rings = DOMAIN v.nodes /\ AreRinged(v.rings, DOMAIN v.nodes)
  /\ IsBase(v.base, Shown(v))

HopsOf(v) == active_hop_counts(v.nodes, v.rings, v.routes, v.now)

IsView(v) ==
  /\ IsDraft(v)
  /\ IsMap(v.base)
  /\ v.markers = build_relay_stages(v.base, HopsOf(v))
  /\ v.selected \in Shown(v) \cup {Nowhere}
  /\ Shown(v) # {} => v.selected \in Shown(v)

LEMMA ShownIs ==
  ASSUME NEW v, v.you \in BOOLEAN
  PROVE  Shown(v) = DOMAIN v.nodes \cup (IF v.you THEN {You} ELSE {})
<1>1. \A you \in BOOLEAN : DOMAIN LocalSlot(you) = IF you THEN {You} ELSE {}
  BY LocalIs
<1>2. DOMAIN LocalSlot(v.you) = IF v.you THEN {You} ELSE {}
  BY <1>1
<1> QED BY <1>2 DEF Shown

LEMMA NoViewIs ==
  ASSUME NEW size \in Sizes
  PROVE  IsView(NoView(size))
<1> DEFINE v == NoView(size)
<1>1. /\ DOMAIN v = ViewFields /\ v.nodes = <<>> /\ v.order = <<>> /\ v.you = FALSE
      /\ v.rings = <<>> /\ v.base = <<>> /\ v.markers = <<>> /\ v.selected = Nowhere
      /\ v.size = size
  BY DEF NoView, ViewFields
<1> HIDE DEF v
<1>2. DOMAIN <<>> = {}
  OBVIOUS
<1>3. Shown(v) = {}
  <2>1. v.you \in BOOLEAN /\ ~v.you
    BY <1>1
  <2>2. Shown(v) = DOMAIN v.nodes \cup (IF v.you THEN {You} ELSE {})
    BY <2>1, ShownIs
  <2> QED BY <1>1, <1>2, <2>1, <2>2
<1>4. AreNodes(<<>>)
  BY <1>2 DEF AreNodes
<1>5. <<>> \in Seq(Remotes) /\ ToSet(<<>>) = {}
  BY <1>2 DEF ToSet
<1>6. AreRinged(<<>>, {})
  BY DEF AreRinged
<1>7. IsBase(<<>>, {})
  BY <1>2 DEF IsBase, Range, Apart
<1>8. IsDraft(v)
  <2>1. v.you \in BOOLEAN
    BY <1>1
  <2>2. DOMAIN v.nodes = {} /\ DOMAIN v.rings = {}
    BY <1>1, <1>2
  <2> QED BY <1>1, <1>3, <1>4, <1>5, <1>6, <1>7, <2>1, <2>2 DEF IsDraft
<1>9. IsMap(<<>>)
  <2>1. <<>> \in [{} -> {}]
    OBVIOUS
  <2>2. \A f \in [{} -> {}] : f = [m \in DOMAIN f |-> f[m]]
    OBVIOUS
  <2> QED BY <2>1, <2>2 DEF IsMap
<1>10. build_relay_stages(v.base, HopsOf(v)) = <<>>
  BY <1>1, <1>2 DEF build_relay_stages
<1> QED BY <1>1, <1>3, <1>8, <1>9, <1>10 DEF IsView, v

LEMMA SetNodesFields ==
  ASSUME MeshIs, NEW v, IsDraft(v)
  PROVE  LET w == set_nodes(v)
             real == [n \in Shown(v) |-> v.base[n]]
         IN  /\ DOMAIN w = ViewFields
             /\ w.nodes = v.nodes /\ w.order = v.order /\ w.you = v.you /\ w.place = v.place
             /\ w.rings = v.rings /\ w.size = v.size
             /\ w.base = real /\ w.now = mesh.now /\ w.routes = mesh.routes
             /\ w.markers = build_relay_stages(real,
                              active_hop_counts(v.nodes, v.rings, mesh.routes, mesh.now))
             /\ w.selected = IF v.selected \in Shown(v) THEN v.selected
                             ELSE fallback(v.you, v.order)
<1> DEFINE D == DOMAIN v.nodes \cup (IF v.you THEN {You} ELSE {})
           real == [n \in D |-> v.base[n]]
           hops == active_hop_counts(v.nodes, v.rings, mesh.routes, mesh.now)
           markers == build_relay_stages(real, hops)
           first == fallback(v.you, v.order)
           w == set_nodes(v)
<1>1. DOMAIN v = ViewFields /\ v.you \in BOOLEAN
  BY DEF IsDraft
<1>2. D = Shown(v) /\ DOMAIN real = D
  BY <1>1, ShownIs
<1>3. w = [v EXCEPT !.base = real, !.now = mesh.now, !.routes = mesh.routes, !.markers = markers,
                    !.selected = IF v.selected \in DOMAIN real THEN @ ELSE first]
  BY Zenon DEF set_nodes
<1> HIDE DEF markers, real, first, w, D
<1>4. /\ DOMAIN w = ViewFields
      /\ w.nodes = v.nodes /\ w.order = v.order /\ w.you = v.you /\ w.place = v.place
      /\ w.rings = v.rings /\ w.size = v.size
      /\ w.base = real /\ w.now = mesh.now /\ w.routes = mesh.routes
      /\ w.markers = markers
      /\ w.selected = IF v.selected \in DOMAIN real THEN v.selected ELSE first
  BY <1>1, <1>3 DEF ViewFields
<1>5. real = [n \in Shown(v) |-> v.base[n]]
  BY <1>2 DEF real
<1>6. markers = build_relay_stages([n \in Shown(v) |-> v.base[n]], hops)
  BY <1>5 DEF markers
<1> HIDE DEF hops
<1>7. w.selected = IF v.selected \in Shown(v) THEN v.selected ELSE first
  BY <1>2, <1>4
<1> QED BY <1>4, <1>5, <1>6, <1>7 DEF hops, first, w

LEMMA SetNodesIs ==
  ASSUME MeshIs, NEW v, IsDraft(v), v.order # <<>> \/ v.you
  PROVE  IsView(set_nodes(v))
<1> DEFINE w == set_nodes(v)
           D == Shown(v)
           real == [n \in D |-> v.base[n]]
<1>1. /\ DOMAIN w = ViewFields
      /\ w.nodes = v.nodes /\ w.order = v.order /\ w.you = v.you
      /\ w.rings = v.rings /\ w.size = v.size
      /\ w.base = real /\ w.now = mesh.now /\ w.routes = mesh.routes
      /\ w.markers = build_relay_stages(real,
                       active_hop_counts(v.nodes, v.rings, mesh.routes, mesh.now))
      /\ w.selected = IF v.selected \in D THEN v.selected ELSE fallback(v.you, v.order)
  BY SetNodesFields
<1> HIDE DEF w
<1>2. Shown(w) = D
  BY <1>1 DEF Shown
<1>3. v.you \in BOOLEAN /\ D = DOMAIN v.nodes \cup (IF v.you THEN {You} ELSE {})
  <2>1. v.you \in BOOLEAN
    BY DEF IsDraft
  <2> QED BY <2>1, ShownIs
<1>4. IsBase(v.base, D)
  BY DEF IsDraft
<1> HIDE DEF D
<1>5. DOMAIN real = D /\ (\A n \in D : real[n] = v.base[n]) /\ IsMap(real)
  BY DEF IsMap
<1> HIDE DEF real
<1>6. IsBase(real, D)
  <2>1. DOMAIN v.base = D
    BY <1>4 DEF IsBase
  <2>2. Range(real) \subseteq Range(v.base)
    BY <1>5, <2>1 DEF Range
  <2>3. Apart(v.base) => Apart(real)
    BY <1>5, <2>1 DEF Apart
  <2> QED BY <1>4, <1>5, <2>2, <2>3 DEF IsBase
<1>7. IsDraft(w)
  BY <1>1, <1>2, <1>6 DEF IsDraft
<1>8. w.markers = build_relay_stages(w.base, HopsOf(w))
  BY <1>1 DEF HopsOf
<1>9. w.selected \in D
  <2>1. CASE v.selected \in D
    BY <1>1, <2>1
  <2>2. CASE v.selected \notin D
    <3>1. w.selected = fallback(v.you, v.order)
      BY <1>1, <2>2
    <3>2. CASE v.you
      BY <1>3, <3>1, <3>2 DEF fallback
    <3>3. CASE ~v.you
      <4>1. v.order \in Seq(Remotes) /\ v.order # <<>> /\ ToSet(v.order) = DOMAIN v.nodes
        BY <3>3 DEF IsDraft
      <4>2. Head(v.order) = v.order[1] /\ 1 \in DOMAIN v.order
        BY <4>1
      <4>3. Head(v.order) \in DOMAIN v.nodes
        BY <4>1, <4>2 DEF ToSet
      <4> QED BY <1>3, <3>1, <3>3, <4>3 DEF fallback
    <3> QED BY <1>3, <3>2, <3>3
  <2> QED BY <2>1, <2>2
<1> QED BY <1>1, <1>2, <1>5, <1>7, <1>8, <1>9 DEF IsView, w

-----------------------------------------------------------------------------
(* Every step keeps the layout and the view.                               *)

MeshInv ==
  /\ MeshIs /\ IsLayout(layout) /\ IsView(view)
  /\ RingsAreOf(view.nodes, view.rings, layout.depths)
  /\ changes \in 0..MaxChanges

LEMMA NoViewRings ==
  ASSUME NEW size, NEW depths
  PROVE  RingsAreOf(NoView(size).nodes, NoView(size).rings, depths)
<1>1. NoView(size).nodes = <<>> /\ NoView(size).rings = <<>> /\ DOMAIN <<>> = {}
  BY DEF NoView
<1>2. <<>> \in [{} -> {}] /\ hop_rings(<<>>, depths) \in [{} -> {}]
  BY <1>1 DEF hop_rings
<1>3. \A f, g \in [{} -> {}] : f = g
  OBVIOUS
<1>4. hop_rings(<<>>, depths) = <<>>
  BY <1>2, <1>3
<1> QED BY <1>1, <1>4 DEF RingsAreOf

LEMMA BoardStarts == MeshInit => MeshInv
<1> SUFFICES ASSUME MeshInit PROVE MeshInv
  OBVIOUS
<1>1. MeshIs
  BY MeshStarts
<1>2. layout = NoLayout /\ changes = 0
  BY DEF MeshInit
<1>3. PICK size \in Sizes : view = NoView(size)
  BY DEF MeshInit
<1>4. IsLayout(layout)
  BY <1>2, NoLayoutIs
<1>5. IsView(view)
  BY <1>3, NoViewIs
<1>6. RingsAreOf(view.nodes, view.rings, layout.depths)
  BY <1>3, NoViewRings
<1>7. changes \in 0..MaxChanges
  BY <1>2, MeshBoardAssumption
<1> QED BY <1>1, <1>4, <1>5, <1>6, <1>7 DEF MeshInv

(* What a refresh leaves, of the nodes it read.                            *)
IsRefreshed(you) ==
  \E nodes :
    /\ AreNodes(nodes)
    /\ IsLaidOut(layout', IF turnover(DOMAIN nodes, you) THEN NoLayout ELSE layout, nodes,
                 DOMAIN LocalSlot(you))

LEMMA RefreshIs ==
  ASSUME MeshIs, IsLayout(layout), view.size \in Sizes, DOMAIN view = ViewFields,
         NEW known, KnownIs(known), NEW you \in BOOLEAN,
         refresh(known, you), ranked(known) # <<>> \/ you
  PROVE  /\ IsRefreshed(you)
         /\ IsView(view') /\ RingsAreOf(view'.nodes, view'.rings, layout'.depths)
<1> DEFINE order == ranked(known)
           nodes == [n \in ToSet(order) |-> node_state(n, known)]
           last == IF turnover(DOMAIN nodes, you) THEN NoLayout ELSE layout
           l == laid_out(nodes, you)
           local == DOMAIN LocalSlot(you)
           place == IF you THEN mesh.you ELSE Nowhere
           base == place_within_bounds(l.sticky, l.extent)
           v == [view EXCEPT !.nodes = nodes, !.order = order, !.you = you, !.place = place,
                             !.rings = l.rings, !.base = base]
<1>1. order \in Seq(Remotes) /\ ToSet(order) \subseteq Remotes
  BY RankedIs
<1>2. AreNodes(nodes) /\ DOMAIN nodes = ToSet(order)
  <2>1. \A n \in ToSet(order) : node_state(n, known) \in NodeStates
    BY NodeStateIs
  <2> QED BY <1>1, <2>1 DEF AreNodes
<1>3. layout' = l /\ view' = set_nodes(v)
  <2>1. ~(order = <<>> /\ ~you)
    OBVIOUS
  <2>2. IF order = <<>> /\ ~you
        THEN view' = NoView(view.size) /\ UNCHANGED layout
        ELSE /\ layout' = laid_out(nodes, you)
             /\ view' = set_nodes([view EXCEPT
                          !.nodes = nodes, !.order = order, !.you = you,
                          !.place = IF you THEN mesh.you ELSE Nowhere,
                          !.rings = layout'.rings,
                          !.base = place_within_bounds(layout'.sticky, layout'.extent)])
    BY Zenon DEF refresh
  <2> HIDE DEF order, nodes
  <2>3. /\ layout' = l
        /\ view' = set_nodes([view EXCEPT
                      !.nodes = nodes, !.order = order, !.you = you,
                      !.place = IF you THEN mesh.you ELSE Nowhere,
                      !.rings = layout'.rings,
                      !.base = place_within_bounds(layout'.sticky, layout'.extent)])
    BY <2>1, <2>2, Zenon
  <2> QED BY <2>3, Zenon
<1> HIDE DEF nodes, order
<1>4. IsLayout(last)
  BY NoLayoutIs
<1>5. IsLaidOut(l, last, nodes, local)
  BY <1>2, <1>4, LaidOutIs
<1>6. local = IF you THEN {You} ELSE {}
  BY LocalIs
<1> HIDE DEF last, l, local
<1>7. DOMAIN l.sticky = local \cup DOMAIN nodes
  BY <1>5 DEF IsLaidOut
<1>8. DOMAIN nodes \subseteq Nat \ {You} /\ IsFiniteSet(DOMAIN nodes)
  <2>1. DOMAIN nodes \subseteq Remotes
    BY <1>2 DEF AreNodes
  <2> QED BY <2>1, MeshNodesAre, FS_Subset
<1> DEFINE D == DOMAIN l.sticky
<1>9. D \in SUBSET Nat /\ IsFiniteSet(D)
  <2>1. IsFiniteSet(local)
    BY <1>6, FS_EmptySet, FS_Singleton
  <2>2. local \subseteq Nat
    BY <1>6 DEF You
  <2> QED BY <1>7, <1>8, <2>1, <2>2, FS_Union
<1>10. \A m \in D : l.sticky[m].at \in Offsets
  <2>1. l.sticky \in [D -> Slots]
    BY <1>5, PartialMapsAre DEF IsLaidOut, IsLayout
  <2> QED BY <2>1 DEF Slots
<1>11. \A s \in Sides : l.extent[s] \in Nat
  BY <1>5 DEF IsLaidOut, IsLayout
<1>12. IsPlaced(base, D, l.sticky)
  BY <1>9, <1>10, <1>11, PlacedWithin
<1>13. \A m \in local : l.sticky[m].at = <<0, 0>>
  BY <1>5 DEF IsLaidOut
<1> HIDE DEF base, place, v
<1>14. IsBase(base, D)
  <2>1. You \in D => You \in local
    BY <1>7, <1>8
  <2> QED BY <1>12, <1>13, <2>1 DEF IsPlaced, IsBase
<1>15. /\ DOMAIN v = ViewFields /\ v.nodes = nodes /\ v.order = order /\ v.you = you
       /\ v.rings = l.rings /\ v.base = base /\ v.size = view.size
  BY DEF v, ViewFields
<1>16. RingsAreOf(nodes, l.rings, l.depths)
  BY <1>5 DEF IsLaidOut
<1>17. DOMAIN l.rings = DOMAIN nodes /\ AreRinged(l.rings, DOMAIN nodes)
  <2>1. l.depths \in SUBSET Nat /\ IsFiniteSet(l.depths)
    <3>1. l.depths \subseteq Nat \cap Reports
      BY <1>5 DEF IsLaidOut, IsLayout
    <3> QED BY <3>1, MeshBoardAssumption, FS_Subset
  <2> DEFINE depths == l.depths
  <2> HIDE DEF depths
  <2>2. depths \in SUBSET Nat /\ IsFiniteSet(depths)
    BY <2>1 DEF depths
  <2>3. l.rings = hop_rings(nodes, depths) /\ \A n \in DOMAIN nodes : nodes[n].depth \in depths \cup {NoDepth}
    BY <1>16 DEF RingsAreOf, depths
  <2>4. /\ DOMAIN hop_rings(nodes, depths) = DOMAIN nodes
        /\ \A n \in DOMAIN nodes : hop_rings(nodes, depths)[n] \in 1..TopRing
    BY <2>2, <2>3, HopRingsAre
  <2> QED BY <2>3, <2>4 DEF AreRinged
<1>18. Shown(v) = D
  <2>1. Shown(v) = DOMAIN v.nodes \cup DOMAIN LocalSlot(v.you)
    BY DEF Shown
  <2> QED BY <1>7, <1>15, <2>1 DEF local
<1>19. IsDraft(v)
  BY <1>1, <1>2, <1>14, <1>15, <1>17, <1>18 DEF IsDraft
<1>20. IsView(set_nodes(v))
  <2>1. v.order # <<>> \/ v.you
    BY <1>15 DEF order
  <2> QED BY <1>19, <2>1, SetNodesIs
<1>21. set_nodes(v).nodes = v.nodes /\ set_nodes(v).rings = v.rings
  BY <1>19, SetNodesFields
<1>22. RingsAreOf(view'.nodes, view'.rings, layout'.depths)
  BY <1>3, <1>15, <1>16, <1>21
<1>23. IsRefreshed(you)
  BY <1>2, <1>3, <1>5 DEF IsRefreshed, local, last
<1> QED BY <1>3, <1>20, <1>22, <1>23

(* The moves of the user.                                                  *)
LEMMA SelectKeeps ==
  ASSUME MeshIs, IsView(view), view.order # <<>> \/ view.you, NEW n,
         view' = set_nodes([view EXCEPT !.selected = n])
  PROVE  IsView(view') /\ view'.nodes = view.nodes /\ view'.rings = view.rings
<1> DEFINE v == [view EXCEPT !.selected = n]
<1>1. IsDraft(view)
  BY DEF IsView
<1>2. /\ DOMAIN v = ViewFields /\ v.nodes = view.nodes /\ v.order = view.order /\ v.you = view.you
      /\ v.rings = view.rings /\ v.base = view.base /\ v.size = view.size
  BY <1>1 DEF IsDraft, ViewFields
<1>3. view' = set_nodes(v)
  OBVIOUS
<1> HIDE DEF v
<1>4. Shown(v) = Shown(view)
  BY <1>2 DEF Shown
<1>5. IsDraft(v)
  BY <1>1, <1>2, <1>4 DEF IsDraft
<1>6. IsView(set_nodes(v))
  BY <1>2, <1>5, SetNodesIs
<1>7. set_nodes(v).nodes = v.nodes /\ set_nodes(v).rings = v.rings
  BY <1>5, SetNodesFields
<1> QED BY <1>2, <1>3, <1>6, <1>7

LEMMA ResizeKeeps ==
  ASSUME MeshIs, IsView(view), NEW size \in Sizes, Resize(size)
  PROVE  IsView(view') /\ view'.nodes = view.nodes /\ view'.rings = view.rings
<1> DEFINE v == [view EXCEPT !.size = size]
           hops == active_hop_counts(view.nodes, view.rings, mesh.routes, view.now)
           markers == build_relay_stages(view.base, hops)
           w == set_nodes(v)
           u == [w EXCEPT !.now = view.now, !.markers = markers]
<1>1. IsDraft(view) /\ IsMap(view.base)
  BY DEF IsView
<1>2. /\ DOMAIN v = ViewFields /\ v.nodes = view.nodes /\ v.order = view.order /\ v.you = view.you
      /\ v.rings = view.rings /\ v.base = view.base /\ v.size = size
      /\ v.markers = view.markers /\ v.selected = view.selected /\ v.now = view.now
      /\ v.routes = view.routes
  BY <1>1 DEF IsDraft, ViewFields
<1>3. IF view.order # <<>> \/ view.you THEN view' = u ELSE view' = v
  BY Zenon DEF Resize
<1> HIDE DEF v, w, markers
<1>4. Shown(v) = Shown(view)
  BY <1>2 DEF Shown
<1>5. IsDraft(v)
  BY <1>1, <1>2, <1>4 DEF IsDraft
<1>6. CASE view.order # <<>> \/ view.you
  <2>1. IsView(w)
    BY <1>2, <1>5, <1>6, SetNodesIs DEF w
  <2>2. /\ DOMAIN w = ViewFields /\ w.nodes = v.nodes /\ w.rings = v.rings /\ w.routes = mesh.routes
        /\ w.base = [n \in Shown(v) |-> v.base[n]]
    BY <1>5, SetNodesFields DEF w
  <2>3. w.base = view.base
    <3>1. DOMAIN view.base = Shown(view)
      BY <1>1 DEF IsDraft, IsBase
    <3>2. view.base = [n \in DOMAIN view.base |-> view.base[n]]
      BY <1>1 DEF IsMap
    <3> QED BY <1>2, <1>4, <2>2, <3>1, <3>2, Zenon
  <2>4. /\ DOMAIN u = ViewFields /\ u.nodes = w.nodes /\ u.rings = w.rings /\ u.routes = w.routes
        /\ u.base = w.base /\ u.order = w.order /\ u.you = w.you /\ u.size = w.size
        /\ u.selected = w.selected /\ u.now = view.now /\ u.markers = markers
    BY <2>2 DEF ViewFields
  <2> HIDE DEF u
  <2>5. Shown(u) = Shown(w)
    BY <2>4 DEF Shown
  <2>6. IsDraft(u)
    BY <2>1, <2>4, <2>5 DEF IsView, IsDraft
  <2>7. u.markers = build_relay_stages(u.base, HopsOf(u))
    BY <1>2, <2>2, <2>3, <2>4 DEF HopsOf, markers
  <2>8. IsView(u)
    BY <2>1, <2>4, <2>5, <2>6, <2>7 DEF IsView
  <2> QED BY <1>2, <1>3, <1>6, <2>2, <2>4, <2>8
<1>7. CASE ~(view.order # <<>> \/ view.you)
  <2>1. v.markers = build_relay_stages(v.base, HopsOf(v))
    BY <1>2 DEF IsView, HopsOf
  <2>2. IsView(v)
    BY <1>2, <1>4, <1>5, <2>1 DEF IsView
  <2>3. view' = v
    BY <1>3, <1>7
  <2> QED BY <1>2, <2>2, <2>3
<1> QED BY <1>6, <1>7

LEMMA SomethingShown ==
  ASSUME IsView(view), Shown(view) # {}
  PROVE  view.order # <<>> \/ view.you
<1>1. view.you \in BOOLEAN /\ ToSet(view.order) = DOMAIN view.nodes
  BY DEF IsView, IsDraft
<1>2. Shown(view) = DOMAIN view.nodes \cup (IF view.you THEN {You} ELSE {})
  BY <1>1, ShownIs
<1>3. ToSet(<<>>) = {}
  BY DEF ToSet
<1> QED BY <1>1, <1>2, <1>3

LEMMA NavigateKeeps ==
  ASSUME MeshIs, IsView(view), Navigate
  PROVE  IsView(view') /\ view'.nodes = view.nodes /\ view'.rings = view.rings
<1> DEFINE Result == IsView(view') /\ view'.nodes = view.nodes /\ view'.rings = view.rings
<1>1. ASSUME NEW n \in Everyone, Select(n) PROVE Result
  <2>1. DOMAIN view.base = Shown(view)
    BY DEF IsView, IsDraft, IsBase
  <2>2. n \in DOMAIN view.base /\ view' = set_nodes([view EXCEPT !.selected = n])
    BY <1>1 DEF Select
  <2>3. view.order # <<>> \/ view.you
    BY <2>1, <2>2, SomethingShown
  <2> QED BY <2>2, <2>3, SelectKeeps
<1>2. ASSUME NEW arrow \in Arrows, Move(arrow) PROVE Result
  <2> DEFINE n == directional_target(view.base, view.selected, arrow)
  <2>1. view.order # <<>> \/ view.you
    BY <1>2 DEF Move
  <2>2. view' = set_nodes([view EXCEPT !.selected = n])
    BY <1>2, Zenon DEF Move
  <2> HIDE DEF n
  <2> QED BY <2>1, <2>2, SelectKeeps
<1>3. ASSUME NEW size \in Sizes, Resize(size) PROVE Result
  BY <1>3, ResizeKeeps
<1> HIDE DEF Result
<1>4. Result
  BY <1>1, <1>2, <1>3, Zenon DEF Navigate, Everyone
<1> QED BY <1>4 DEF Result

LEMMA ChangeCounts ==
  ASSUME changes \in 0..MaxChanges, Change
  PROVE  changes' \in 0..MaxChanges
BY MeshBoardAssumption DEF Change

LEMMA BoardKeeps == MeshInv /\ [MeshNext]_meshVars => MeshInv'
<1> SUFFICES ASSUME MeshInv, [MeshNext]_meshVars PROVE MeshInv'
  OBVIOUS
<1>1. /\ MeshIs /\ IsLayout(layout) /\ IsView(view)
      /\ RingsAreOf(view.nodes, view.rings, layout.depths)
      /\ changes \in 0..MaxChanges
  BY DEF MeshInv
<1>2. view.size \in Sizes /\ DOMAIN view = ViewFields
  BY <1>1 DEF IsView, IsDraft
<1>3. ASSUME NEW you \in BOOLEAN, IsRefreshed(you) PROVE IsLayout(layout')
  BY <1>3 DEF IsRefreshed, IsLaidOut
<1>4. CASE Refresh
  <2>1. refresh(mesh.known, TRUE) /\ UNCHANGED mesh /\ UNCHANGED changes
    BY <1>4 DEF Refresh
  <2>2. KnownIs(mesh.known)
    BY <1>1 DEF MeshIs
  <2>3. /\ IsRefreshed(TRUE)
        /\ IsView(view') /\ RingsAreOf(view'.nodes, view'.rings, layout'.depths)
    BY <1>1, <1>2, <2>1, <2>2, RefreshIs
  <2>4. MeshIs'
    BY <1>1, <2>1 DEF MeshIs
  <2> QED BY <1>1, <1>3, <2>1, <2>3, <2>4 DEF MeshInv
<1>5. CASE RefreshUnread
  <2>1. refresh(<<>>, FALSE) /\ UNCHANGED mesh /\ Change
    BY <1>5 DEF RefreshUnread
  <2>2. MeshIs'
    BY <1>1, <2>1 DEF MeshIs
  <2>3. changes' \in 0..MaxChanges
    BY <1>1, <2>1, ChangeCounts
  <2>4. KnownIs(<<>>)
    BY DEF KnownIs
  <2>5. CASE ranked(<<>>) = <<>>
    <3>1. view' = NoView(view.size) /\ UNCHANGED layout
      BY <2>1, <2>5 DEF refresh
    <3>2. IsView(view')
      BY <1>2, <3>1, NoViewIs
    <3>3. RingsAreOf(view'.nodes, view'.rings, layout'.depths)
      BY <3>1, NoViewRings
    <3> QED BY <1>1, <2>2, <2>3, <3>1, <3>2, <3>3 DEF MeshInv
  <2>6. CASE ranked(<<>>) # <<>>
    <3>1. /\ IsRefreshed(FALSE)
          /\ IsView(view') /\ RingsAreOf(view'.nodes, view'.rings, layout'.depths)
      BY <1>1, <1>2, <2>1, <2>4, <2>6, RefreshIs
    <3> QED BY <1>3, <2>2, <2>3, <3>1 DEF MeshInv
  <2> QED BY <2>5, <2>6
<1>6. CASE Learn
  <2>1. MeshIs'
    BY <1>1, <1>6, LearnKeeps
  <2>2. UNCHANGED layout /\ UNCHANGED view /\ Change
    BY <1>6 DEF Learn
  <2>3. changes' \in 0..MaxChanges
    BY <1>1, <2>2, ChangeCounts
  <2> QED BY <1>1, <2>1, <2>2, <2>3 DEF MeshInv
<1>7. CASE Navigate
  <2>1. UNCHANGED mesh /\ UNCHANGED layout /\ Change
    BY <1>7 DEF Navigate
  <2>2. IsView(view') /\ view'.nodes = view.nodes /\ view'.rings = view.rings
    BY <1>1, <1>7, NavigateKeeps
  <2>3. MeshIs'
    BY <1>1, <2>1 DEF MeshIs
  <2>4. changes' \in 0..MaxChanges
    BY <1>1, <2>1, ChangeCounts
  <2> QED BY <1>1, <2>1, <2>2, <2>3, <2>4 DEF MeshInv
<1>8. CASE UNCHANGED meshVars
  BY <1>1, <1>8 DEF meshVars, MeshInv, MeshIs
<1> QED BY <1>4, <1>5, <1>6, <1>7, <1>8 DEF MeshNext

(* What is known, the layout and the view are as they should be.           *)
THEOREM MeshInvariant == MeshSpec => []MeshInv
<1>1. MeshInit => MeshInv
  BY BoardStarts
<1>2. MeshInv /\ [MeshNext]_meshVars => MeshInv'
  BY BoardKeeps
<1> QED BY <1>1, <1>2, PTL DEF MeshSpec

(* The types of the MESH tab, whatever becomes known and whatever the user *)
(* does.                                                                   *)
THEOREM MeshTypes == MeshSpec => []MeshTypeOK
<1>1. MeshInv => MeshTypeOK
  <2> SUFFICES ASSUME MeshInv PROVE MeshTypeOK
    OBVIOUS
  <2>1. /\ MeshIs /\ IsLayout(layout) /\ IsView(view) /\ IsDraft(view)
        /\ changes \in 0..MaxChanges
    BY DEF MeshInv, IsView
  <2>2. /\ DOMAIN mesh.known \cup DOMAIN mesh.chat \cup DOMAIN mesh.routes \subseteq Remotes
        /\ mesh.now \in 0..MaxWindows /\ mesh.you \in Places \cup {Nowhere}
    BY <2>1 DEF MeshIs, KnownIs
  <2>3. DOMAIN layout.sticky \subseteq Remotes \cup {You}
    BY <2>1, PartialMapsAre DEF IsLayout, Everyone
  <2>4. DOMAIN view.nodes = ToSet(view.order) /\ DOMAIN view.rings = DOMAIN view.nodes
    BY <2>1 DEF IsDraft
  <2>5. Range(view.rings) \subseteq 1..TopRing
    BY <2>1 DEF IsDraft, AreRinged, Range
  <2>6. view.selected \in DOMAIN view.base \cup {Nowhere}
    BY <2>1 DEF IsView, IsDraft, IsBase
  <2> QED BY <2>1, <2>2, <2>3, <2>4, <2>5, <2>6 DEF MeshTypeOK
<1> QED BY <1>1, MeshInvariant, PTL

-----------------------------------------------------------------------------
(* The markers of a view.                                                  *)

LEMMA HopsAre ==
  ASSUME NEW v, IsView(v)
  PROVE  /\ DOMAIN HopsOf(v) \subseteq DOMAIN v.nodes
         /\ \A n \in DOMAIN HopsOf(v) :
              /\ HopsOf(v)[n] = v.rings[n] - 1 /\ HopsOf(v)[n] \in 1..TopRing
              /\ v.nodes[n].depth > 0 /\ Active(v.nodes[n], v.now) /\ n \notin DOMAIN v.routes
<1> DEFINE D == {n \in DOMAIN v.nodes : /\ v.nodes[n].depth > 0 /\ Active(v.nodes[n], v.now)
                                        /\ n \notin DOMAIN v.routes /\ v.rings[n] > 1}
<1>1. HopsOf(v) = [n \in D |-> v.rings[n] - 1]
  BY DEF HopsOf, active_hop_counts
<1>2. \A n \in DOMAIN v.nodes : v.rings[n] \in 1..TopRing
  BY DEF IsView, IsDraft, AreRinged
<1>3. TopRing \in Nat
  BY MeshGridAssumption
<1>4. ASSUME NEW n \in D PROVE v.rings[n] - 1 \in 1..TopRing
  <2>1. v.rings[n] \in 1..TopRing /\ v.rings[n] > 1
    BY <1>2
  <2> QED BY <1>3, <2>1
<1>5. \A n \in D : /\ n \in DOMAIN v.nodes /\ v.nodes[n].depth > 0
                   /\ Active(v.nodes[n], v.now) /\ n \notin DOMAIN v.routes
  OBVIOUS
<1> HIDE DEF D
<1>6. DOMAIN HopsOf(v) = D /\ \A n \in D : HopsOf(v)[n] = v.rings[n] - 1
  BY <1>1
<1> QED BY <1>4, <1>5, <1>6

LEMMA ShownNumbers ==
  ASSUME NEW v, IsView(v)
  PROVE  /\ Shown(v) \subseteq 0..(Span - 1) /\ Shown(v) \subseteq Nat /\ IsFiniteSet(Shown(v))
         /\ DOMAIN v.nodes \subseteq Remotes
         /\ DOMAIN v.base = Shown(v) /\ DOMAIN v.nodes \subseteq Shown(v)
<1>1. Shown(v) = DOMAIN v.nodes \cup (IF v.you THEN {You} ELSE {})
  BY ShownIs DEF IsView, IsDraft
<1>2. DOMAIN v.nodes \subseteq Remotes /\ DOMAIN v.base = Shown(v)
  BY DEF IsView, IsDraft, AreNodes, IsBase
<1>3. Shown(v) \subseteq Everyone
  BY <1>1, <1>2 DEF Everyone
<1>4. IsFiniteSet(Everyone)
  BY MeshNodesAre, FS_AddElement DEF Everyone
<1>5. Everyone \subseteq 0..(Span - 1)
  <2>1. \A n \in Remotes : n \in 1..(Span - 1)
    BY MeshNodesAre
  <2>2. Span \in Nat \ {0}
    BY MeshGridAssumption
  <2>3. ASSUME NEW n \in Everyone PROVE n \in 0..(Span - 1)
    <3>1. CASE n = You
      BY <2>2, <3>1 DEF You
    <3>2. CASE n # You
      <4>1. n \in 1..(Span - 1)
        BY <2>1, <3>2 DEF Everyone
      <4> QED BY <2>2, <4>1
    <3> QED BY <3>1, <3>2
  <2> QED BY <2>3
<1>6. Everyone \subseteq Nat
  BY MeshNodesAre DEF Everyone, You
<1> QED BY <1>1, <1>2, <1>3, <1>4, <1>5, <1>6, FS_Subset

LEMMA MarkersOfView ==
  ASSUME NEW v, IsView(v)
  PROVE  /\ You \in Shown(v) => /\ IsBoard(v.base, HopsOf(v))
                                /\ AreMarkers(v.markers, v.base, HopsOf(v))
         /\ You \notin Shown(v) => v.markers = <<>>
<1>1. /\ IsBase(v.base, Shown(v)) /\ v.markers = build_relay_stages(v.base, HopsOf(v))
  BY DEF IsView, IsDraft
<1>2. DOMAIN v.base = Shown(v) /\ Range(v.base) \subseteq Cells(Grid)
      /\ (Cardinality(Shown(v)) <= Cardinality(Cells(Grid)) => Apart(v.base))
  BY <1>1 DEF IsBase
<1>3. CASE You \in Shown(v)
  <2>1. \A n \in DOMAIN HopsOf(v) : HopsOf(v)[n] \in 0..TopRing
    <3>1. \A n \in DOMAIN HopsOf(v) : HopsOf(v)[n] \in 1..TopRing
      BY HopsAre
    <3>2. TopRing \in Nat
      BY MeshGridAssumption
    <3>3. \A k \in 1..TopRing : k \in 0..TopRing
      BY <3>2
    <3> QED BY <3>1, <3>3
  <2>2. DOMAIN HopsOf(v) \subseteq Nat \ {0}
    <3>1. DOMAIN HopsOf(v) \subseteq Remotes
      BY HopsAre, ShownNumbers
    <3> QED BY <3>1, MeshNodesAre DEF You
  <2>3. IsBoard(v.base, HopsOf(v))
    BY <1>2, <1>3, <2>1, <2>2, ShownNumbers DEF IsBoard
  <2>4. IsFiniteSet(DOMAIN v.base)
    BY ShownNumbers
  <2>5. AreMarkers(build_relay_stages(v.base, HopsOf(v)), v.base, HopsOf(v))
    BY <1>2, <2>3, <2>4, MarkersBuilt
  <2> QED BY <1>1, <1>3, <2>3, <2>5
<1>4. CASE You \notin Shown(v)
  BY <1>1, <1>2, <1>4 DEF build_relay_stages
<1> QED BY <1>3, <1>4

(* The markers that are there.                                             *)
LEMMA MarkerIsThere ==
  ASSUME NEW v, IsView(v), You \in Shown(v), NEW n \in DOMAIN v.nodes, NEW s \in 1..TopRing
  PROVE  marker(n, s) \in DOMAIN v.markers <=> n \in DOMAIN HopsOf(v) /\ s \in 1..HopsOf(v)[n]
<1> DEFINE hops == HopsOf(v)
<1>1. DOMAIN v.markers = Markers(hops, Clients(v.base, hops))
  BY MarkersOfView DEF AreMarkers
<1>2. Clients(v.base, hops) = DOMAIN hops
  BY HopsAre, ShownNumbers DEF Clients
<1>3. /\ DOMAIN hops \subseteq Remotes
      /\ \A m \in DOMAIN hops : hops[m] \in 1..TopRing
  BY HopsAre, ShownNumbers
<1>4. n \in Remotes
  BY ShownNumbers
<1>5. Remotes \subseteq Nat /\ TopRing \in Nat /\ Span \in Nat /\ TopRing < Span
  BY MeshNodesAre, MeshGridAssumption
<1> HIDE DEF hops
<1>6. \A t \in 1..TopRing : t \in 0..(Span - 1)
  BY <1>5
<1>7. ASSUME NEW m \in DOMAIN hops, NEW t \in 1..hops[m], marker(n, s) = marker(m, t)
      PROVE  n = m /\ s = t
  <2>1. m \in Nat /\ n \in Nat
    BY <1>3, <1>4, <1>5
  <2>2. t \in 1..TopRing
    <3>1. hops[m] \in 1..TopRing
      BY <1>3
    <3> QED BY <1>5, <3>1
  <2> QED BY <1>6, <1>7, <2>1, <2>2, MarkersDiffer
<1>8. marker(n, s) \in DOMAIN v.markers <=>
        \E m \in DOMAIN hops : \E t \in 1..hops[m] : marker(n, s) = marker(m, t)
  BY <1>1, <1>2 DEF Markers, markersOf
<1> QED BY <1>7, <1>8 DEF hops

LEMMA StagesAre ==
  ASSUME NEW v, IsView(v), NEW n \in DOMAIN v.nodes
  PROVE  \/ ToSet(stages(v, n)) = {}
         \/ /\ You \in Shown(v) /\ n \in DOMAIN HopsOf(v)
            /\ ToSet(stages(v, n)) = markersOf(n, HopsOf(v)[n])
<1> DEFINE placed == {step \in 1..TopRing : marker(n, step) \in DOMAIN v.markers}
           N == Cardinality(placed)
<1>1. stages(v, n) = [step \in 1..N |-> marker(n, step)]
  BY DEF stages
<1> HIDE DEF N
<1>2. ToSet(stages(v, n)) = markersOf(n, N)
  <2>1. DOMAIN stages(v, n) = 1..N /\ \A step \in 1..N : stages(v, n)[step] = marker(n, step)
    BY <1>1
  <2> QED BY <2>1 DEF ToSet, markersOf
<1>3. CASE placed = {}
  <2>1. N = 0
    BY <1>3, FS_EmptySet DEF N
  <2> QED BY <1>2, <2>1 DEF markersOf
<1>4. CASE placed # {}
  <2>1. You \in Shown(v)
    <3> SUFFICES ASSUME You \notin Shown(v) PROVE FALSE
      OBVIOUS
    <3>1. v.markers = <<>> /\ DOMAIN <<>> = {}
      BY MarkersOfView
    <3> QED BY <1>4, <3>1
  <2>2. \A s \in 1..TopRing :
          marker(n, s) \in DOMAIN v.markers <=> n \in DOMAIN HopsOf(v) /\ s \in 1..HopsOf(v)[n]
    BY <2>1, MarkerIsThere
  <2>3. n \in DOMAIN HopsOf(v)
    BY <1>4, <2>2
  <2> DEFINE k == HopsOf(v)[n]
  <2>4. k \in 1..TopRing /\ TopRing \in Nat
    BY <2>3, HopsAre, MeshGridAssumption
  <2> HIDE DEF k
  <2>5. placed = 1..k
    <3>1. \A s \in 1..TopRing : marker(n, s) \in DOMAIN v.markers <=> s \in 1..k
      BY <2>2, <2>3 DEF k
    <3>2. 1..k \subseteq 1..TopRing
      BY <2>4
    <3> QED BY <3>1, <3>2
  <2>6. N = k
    <3>1. 1 \in Int /\ k \in Int /\ 1 <= k
      BY <2>4
    <3>2. Cardinality(1..k) = IF 1 > k THEN 0 ELSE k - 1 + 1
      BY <3>1, FS_Interval
    <3>3. N = Cardinality(1..k)
      BY <2>5, Zenon DEF N
    <3>4. ~(1 > k) /\ k - 1 + 1 = k
      BY <3>1
    <3> QED BY <3>2, <3>3, <3>4
  <2> QED BY <1>2, <2>1, <2>3, <2>6 DEF k
<1> QED BY <1>3, <1>4

(* The markers that a connector shows are all those of its node, or none.  *)
LEMMA DrawnAre ==
  ASSUME NEW v, IsView(v), NEW n \in DOMAIN v.nodes
  PROVE  \/ drawn(v, n).markers = {}
         \/ /\ You \in Shown(v) /\ n \in DOMAIN HopsOf(v)
            /\ drawn(v, n).markers = markersOf(n, HopsOf(v)[n])
<1> DEFINE M == IF explicit(v, n) \/ stale(v, n) THEN <<>> ELSE stages(v, n)
           via == node_chain(v, n)
           centers == [m \in DOMAIN viewport(v) |-> pixel(viewport(v)[m])]
           edges == edge_nodes(positions(v), v.size)
<1>1. drawn(v, n) = connector(via, M, centers, edges)
  BY DEF drawn
<1>2. \A c, e, w, m : connector(w, m, c, e).markers \in {{}, ToSet(m)}
  BY DEF connector, Connector
<1> HIDE DEF via, centers, edges, M
<1>3. drawn(v, n).markers = {} \/ drawn(v, n).markers = ToSet(M)
  BY <1>1, <1>2
<1>4. ToSet(<<>>) = {}
  BY DEF ToSet
<1>5. M = <<>> \/ M = stages(v, n)
  BY DEF M
<1> QED BY <1>3, <1>4, <1>5, StagesAre

ShownOf(v, n) == {m \in connected_relay_ids(v) : m \div Span = n}

LEMMA MarkersOf ==
  ASSUME NEW v, IsView(v), NEW n \in DOMAIN HopsOf(v)
  PROVE  /\ \A m \in markersOf(n, HopsOf(v)[n]) : m \div Span = n
         /\ Cardinality(markersOf(n, HopsOf(v)[n])) = HopsOf(v)[n]
<1> DEFINE k == HopsOf(v)[n]
           M == markersOf(n, k)
           f == [s \in 1..k |-> marker(n, s)]
<1>1. n \in Nat /\ TopRing \in Nat /\ Span \in Nat /\ TopRing < Span
  <2>1. n \in Remotes
    BY HopsAre, ShownNumbers
  <2> QED BY <2>1, MeshNodesAre, MeshGridAssumption
<1>2. k \in 1..TopRing
  BY HopsAre
<1> HIDE DEF k
<1>3. \A s \in 1..k : s \in 0..(Span - 1)
  BY <1>1, <1>2
<1>4. \A s \in 1..k : marker(n, s) \div Span = n
  BY <1>1, <1>3, MarkerIs
<1>5. \A s, t \in 1..k : marker(n, s) = marker(n, t) => s = t
  BY <1>1, <1>3, MarkersDiffer
<1>6. f \in Bijection(1..k, M)
  <2>1. f \in [1..k -> M] /\ \A m \in M : \E s \in 1..k : f[s] = m
    BY DEF markersOf
  <2> QED BY <1>5, <2>1 DEF Bijection, Injection, Surjection, IsInjective
<1> HIDE DEF f
<1>7. Cardinality(M) = k
  <2>1. 1 \in Int /\ k \in Int /\ ~(1 > k) /\ k - 1 + 1 = k
    BY <1>1, <1>2
  <2>2. IsFiniteSet(1..k) /\ Cardinality(1..k) = IF 1 > k THEN 0 ELSE k - 1 + 1
    BY <2>1, FS_Interval
  <2>3. Cardinality(M) = Cardinality(1..k)
    BY <1>6, <2>2, FS_Bijection DEF ExistsBijection
  <2> QED BY <2>1, <2>2, <2>3
<1> QED BY <1>4, <1>7 DEF markersOf, k

LEMMA ConnectedAre ==
  ASSUME NEW v, IsView(v), NEW n \in DOMAIN v.nodes
  PROVE  \/ ShownOf(v, n) = {}
         \/ /\ n \in DOMAIN HopsOf(v)
            /\ ShownOf(v, n) = markersOf(n, HopsOf(v)[n])
<1>1. connected_relay_ids(v) = UNION {drawn(v, k).markers : k \in destinations(v)}
  BY DEF connected_relay_ids
<1>2. destinations(v) \subseteq DOMAIN v.nodes
  BY DEF destinations
<1>3. ASSUME NEW k \in DOMAIN v.nodes, NEW m \in drawn(v, k).markers PROVE m \div Span = k
  <2>1. k \in DOMAIN HopsOf(v) /\ m \in markersOf(k, HopsOf(v)[k])
    BY <1>3, DrawnAre
  <2> QED BY <2>1, MarkersOf
<1>4. ShownOf(v, n) = IF n \in destinations(v) THEN drawn(v, n).markers ELSE {}
  BY <1>1, <1>2, <1>3 DEF ShownOf
<1>5. CASE n \in destinations(v)
  BY <1>4, <1>5, DrawnAre
<1>6. CASE n \notin destinations(v)
  BY <1>4, <1>6
<1> QED BY <1>5, <1>6

(* What the markers say of a node.                                         *)
Tell(v, n, some) ==
  /\ Cardinality(some) \in {0, v.rings[n] - 1}
  /\ some # {} => /\ v.nodes[n].depth > 0 /\ Active(v.nodes[n], v.now) /\ ~explicit(v, n)

LEMMA MarkersTell ==
  ASSUME IsView(view)
  PROVE  MarkersCountRings
<1>1. ASSUME NEW n \in DOMAIN view.nodes PROVE Tell(view, n, ShownOf(view, n))
  <2> DEFINE some == ShownOf(view, n)
  <2> HIDE DEF some
  <2>1. ASSUME some = {} PROVE Tell(view, n, some)
    <3>1. Cardinality(some) = 0
      BY <2>1, FS_EmptySet
    <3> QED BY <2>1, <3>1 DEF Tell
  <2>2. ASSUME some # {} PROVE Tell(view, n, some)
    <3>1. n \in DOMAIN HopsOf(view) /\ some = markersOf(n, HopsOf(view)[n])
      BY <2>2, ConnectedAre DEF some
    <3>2. Cardinality(some) = HopsOf(view)[n]
      BY <3>1, MarkersOf
    <3>3. /\ HopsOf(view)[n] = view.rings[n] - 1
          /\ view.nodes[n].depth > 0 /\ Active(view.nodes[n], view.now)
          /\ n \notin DOMAIN view.routes
      BY <3>1, HopsAre
    <3>4. Cardinality(some) = view.rings[n] - 1
      BY <3>2, <3>3
    <3> QED BY <3>3, <3>4 DEF Tell, explicit
  <2>3. Tell(view, n, some)
    BY <2>1, <2>2
  <2> QED BY <2>3 DEF some
<1> QED BY <1>1, Zenon DEF MarkersCountRings, Tell, ShownOf

(* What the board says of depth, by its rings and by its markers, is what  *)
(* the radio reports.                                                      *)
THEOREM RingsAndMarkersTellDepth == MeshSpec => []RingsTellDepth
<1>1. MeshInv => RingsTellDepth
  <2> SUFFICES ASSUME MeshInv PROVE RingsTellDepth
    OBVIOUS
  <2>1. RingsInv
    BY DEF MeshInv, IsLayout, RingsInv
  <2>2. IsView(view)
    BY DEF MeshInv
  <2> QED BY <2>1, <2>2, RingsTell, MarkersTell DEF RingsTellDepth
<1> QED BY <1>1, MeshInvariant, PTL

-----------------------------------------------------------------------------
(* The cells of what is shown.                                             *)

LEMMA TranslatedIs ==
  ASSUME NEW cells, \A n \in DOMAIN cells : cells[n] \in Offsets, Apart(cells),
         NEW s \in DOMAIN cells, NEW size \in Measures
  PROVE  LET moved == translated(cells, s, size)
         IN  /\ DOMAIN moved = DOMAIN cells /\ \A n \in DOMAIN cells : moved[n] \in Offsets
             /\ Apart(moved) /\ moved[s] = Center(size)
<1> DEFINE c == Center(size)
           from == cells[s]
           moved == translated(cells, s, size)
<1>1. moved = [n \in DOMAIN cells |-> <<cells[n][1] + c[1] - from[1], cells[n][2] + c[2] - from[2]>>]
  BY DEF translated
<1>2. c \in Offsets /\ from \in Offsets
  BY CenterIs, CellsAre
<1>3. \A n \in DOMAIN cells : cells[n] \in Int \X Int
  BY DEF Offsets
<1>4. c[1] \in Int /\ c[2] \in Int /\ from[1] \in Int /\ from[2] \in Int /\ c = <<c[1], c[2]>>
  BY <1>2 DEF Offsets
<1> HIDE DEF c, from, moved
<1>5. DOMAIN moved = DOMAIN cells
  BY <1>1
<1>6. ASSUME NEW n \in DOMAIN cells
      PROVE  moved[n] = <<cells[n][1] + c[1] - from[1], cells[n][2] + c[2] - from[2]>>
  BY <1>1
<1>7. \A n \in DOMAIN cells : moved[n] \in Offsets
  BY <1>3, <1>4, <1>6 DEF Offsets
<1>8. ASSUME NEW m \in DOMAIN cells, NEW n \in DOMAIN cells, moved[m] = moved[n] PROVE m = n
  <2>1. /\ cells[m][1] + c[1] - from[1] = cells[n][1] + c[1] - from[1]
        /\ cells[m][2] + c[2] - from[2] = cells[n][2] + c[2] - from[2]
    BY <1>6, <1>8
  <2>2. cells[m][1] = cells[n][1] /\ cells[m][2] = cells[n][2]
    BY <1>3, <1>4, <2>1
  <2>3. cells[m] = cells[n]
    BY <1>3, <2>2
  <2> QED BY <2>3 DEF Apart
<1>9. moved[s] = c
  <2>1. moved[s] = <<from[1] + c[1] - from[1], from[2] + c[2] - from[2]>>
    BY <1>6 DEF from
  <2>2. from[1] + c[1] - from[1] = c[1] /\ from[2] + c[2] - from[2] = c[2]
    BY <1>4
  <2> QED BY <1>4, <2>1, <2>2
<1> QED BY <1>5, <1>7, <1>8, <1>9 DEF Apart, moved, c

AllOf(v) == merged(v.base, v.markers)

(* There are as many cells as nodes and markers.                           *)
Fits(v) == /\ Cardinality(DOMAIN AllOf(v)) <= Cardinality(Cells(Grid))
           /\ Cardinality(DOMAIN AllOf(v)) <= Cardinality(Cells(v.size))

IsAll(v) ==
  /\ DOMAIN AllOf(v) \subseteq Nat /\ IsFiniteSet(DOMAIN AllOf(v))
  /\ Shown(v) \subseteq DOMAIN AllOf(v)
  /\ Range(AllOf(v)) \subseteq Cells(Grid)
  /\ Cardinality(DOMAIN AllOf(v)) <= Cardinality(Cells(Grid)) => Apart(AllOf(v))

LEMMA AllAre ==
  ASSUME NEW v, IsView(v)
  PROVE  IsAll(v)
<1> DEFINE B == Shown(v)
           M == DOMAIN v.markers
           all == AllOf(v)
<1>1. /\ DOMAIN v.base = B /\ Range(v.base) \subseteq Cells(Grid)
      /\ (Cardinality(B) <= Cardinality(Cells(Grid)) => Apart(v.base))
  BY DEF IsView, IsDraft, IsBase
<1>2. B \subseteq Nat /\ IsFiniteSet(B)
  BY ShownNumbers
<1>3. all = [m \in B \cup M |-> IF m \in B THEN v.base[m] ELSE v.markers[m]]
  BY <1>1 DEF AllOf, merged
<1> HIDE DEF all, B
<1>4. DOMAIN all = B \cup M
  BY <1>3
<1>5. ASSUME Range(v.markers) \subseteq Cells(Grid) PROVE Range(all) \subseteq Cells(Grid)
  <2>1. \A m \in B : all[m] \in Range(v.base)
    BY <1>1, <1>3 DEF Range
  <2>2. \A m \in M \ B : all[m] \in Range(v.markers)
    BY <1>3 DEF Range
  <2>3. \A m \in DOMAIN all : all[m] \in Cells(Grid)
    BY <1>1, <1>4, <1>5, <2>1, <2>2
  <2> QED BY <2>3 DEF Range
<1>6. CASE You \in B
  <2>1. IsBoard(v.base, HopsOf(v)) /\ AreMarkers(v.markers, v.base, HopsOf(v))
    BY <1>6, MarkersOfView DEF B
  <2>2. M \in SUBSET Nat /\ IsFiniteSet(M)
    <3>1. M = Markers(HopsOf(v), Clients(v.base, HopsOf(v)))
      BY <2>1 DEF AreMarkers
    <3> QED BY <1>1, <1>2, <2>1, <3>1, MarkersAre
  <2>3. Range(v.markers) \subseteq Cells(Grid)
        /\ (Cardinality(DOMAIN v.base \cup M) <= Cardinality(Cells(Grid)) =>
              Apart(merged(v.base, v.markers)))
    BY <2>1 DEF AreMarkers
  <2>4. IsFiniteSet(B \cup M)
    BY <1>2, <2>2, FS_Union
  <2>5. Cardinality(DOMAIN all) <= Cardinality(Cells(Grid)) => Apart(all)
    BY <1>1, <1>4, <2>3 DEF all, AllOf
  <2> HIDE DEF M
  <2> QED BY <1>2, <1>4, <1>5, <2>2, <2>3, <2>4, <2>5 DEF IsAll, all, B
<1>7. CASE You \notin B
  <2>1. v.markers = <<>>
    BY <1>7, MarkersOfView DEF B
  <2>2. M = {} /\ Range(v.markers) = {}
    BY <2>1 DEF Range
  <2> HIDE DEF M
  <2>3. DOMAIN all = B
    BY <1>4, <2>2
  <2>4. Apart(v.base) => Apart(all)
    BY <1>1, <1>3, <2>2, <2>3 DEF Apart
  <2> QED BY <1>1, <1>2, <1>5, <2>2, <2>3, <2>4 DEF IsAll, all, B
<1> QED BY <1>6, <1>7

LEMMA ViewportIs ==
  ASSUME NEW v, IsView(v), Fits(v), Shown(v) # {}
  PROVE  /\ DOMAIN viewport(v) = DOMAIN AllOf(v) /\ Apart(viewport(v))
         /\ Range(viewport(v)) \subseteq Cells(v.size)
         /\ viewport(v)[v.selected] = Center(v.size)
<1> DEFINE all == AllOf(v)
           cells == positions(v)
           D == DOMAIN all
<1>1. /\ D \in SUBSET Nat /\ IsFiniteSet(D) /\ Shown(v) \subseteq D
      /\ Range(all) \subseteq Cells(Grid) /\ Apart(all)
  BY AllAre DEF IsAll, Fits
<1>2. v.size \in Measures
  BY MeshBoardAssumption DEF IsView, IsDraft, Measures
<1>3. v.selected \in D
  BY <1>1 DEF IsView
<1>4. \A n \in D : all[n] \in Offsets
  <2>1. \A n \in D : all[n] \in Cells(Grid)
    BY <1>1 DEF Range
  <2>2. Cells(Grid) \subseteq Offsets
    BY GridIsThere, CellsAre DEF GridIs
  <2> QED BY <2>1, <2>2
<1>5. cells = translated(all, v.selected, v.size)
  BY DEF positions, AllOf
<1> HIDE DEF all
<1>6. /\ DOMAIN cells = D /\ (\A n \in D : cells[n] \in Offsets)
      /\ Apart(cells) /\ cells[v.selected] = Center(v.size)
  BY <1>1, <1>2, <1>3, <1>4, <1>5, TranslatedIs
<1>7. viewport(v) = project_to_viewport(cells, v.size)
  BY DEF viewport
<1> HIDE DEF cells, D
<1>8. IsProjected(project_to_viewport(cells, v.size), cells, v.size)
  BY <1>1, <1>2, <1>6, ProjectedIs
<1>9. cells[v.selected] \in Cells(v.size)
  BY <1>2, <1>6, CenterIs
<1>10. Cardinality(D) <= Cardinality(Cells(v.size))
  BY DEF Fits, D, all
<1> QED BY <1>3, <1>6, <1>7, <1>8, <1>9, <1>10 DEF IsProjected, D, all

LEMMA ConnectedAreThere ==
  ASSUME NEW v, IsView(v)
  PROVE  connected_relay_ids(v) \subseteq DOMAIN AllOf(v)
<1>1. ASSUME NEW n \in DOMAIN v.nodes PROVE drawn(v, n).markers \subseteq DOMAIN v.markers
  <2> SUFFICES ASSUME NEW m \in drawn(v, n).markers PROVE m \in DOMAIN v.markers
    OBVIOUS
  <2>1. You \in Shown(v) /\ n \in DOMAIN HopsOf(v) /\ m \in markersOf(n, HopsOf(v)[n])
    BY DrawnAre
  <2>2. PICK s \in 1..HopsOf(v)[n] : m = marker(n, s)
    BY <2>1 DEF markersOf
  <2>3. s \in 1..TopRing
    <3>1. HopsOf(v)[n] \in 1..TopRing /\ TopRing \in Nat
      BY <2>1, HopsAre, MeshGridAssumption
    <3> QED BY <3>1
  <2> QED BY <2>1, <2>2, <2>3, MarkerIsThere
<1>2. destinations(v) \subseteq DOMAIN v.nodes
  BY DEF destinations
<1>3. DOMAIN AllOf(v) = DOMAIN v.base \cup DOMAIN v.markers
  BY DEF AllOf, merged
<1> QED BY <1>1, <1>2, <1>3 DEF connected_relay_ids

(* Nothing on the board or in the viewport covers anything else, as long as *)
(* there are as many cells.                                                *)
THEOREM NodesHaveTheirCells == MeshSpec => []EveryNodeHasItsCell
<1>1. MeshInv => EveryNodeHasItsCell
  <2> SUFFICES ASSUME MeshInv, RoomForAll PROVE EveryNodeHasItsCell
    BY DEF EveryNodeHasItsCell
  <2>1. IsView(view) /\ Fits(view)
    BY DEF MeshInv, RoomForAll, Fits, AllOf
  <2>2. /\ view.you \in BOOLEAN /\ DOMAIN view.base = Shown(view)
        /\ (You \in Shown(view) => view.base[You] = Center(Grid))
    BY <2>1 DEF IsView, IsDraft, IsBase
  <2>3. Distinct(AllOf(view)) /\ Range(AllOf(view)) \subseteq Cells(Grid)
        /\ Shown(view) \subseteq DOMAIN AllOf(view)
    BY <2>1, AllAre DEF IsAll, Fits, Apart, Distinct
  <2>4. view.you => view.base[You] = Center(Grid)
    <3>1. Shown(view) = DOMAIN view.nodes \cup (IF view.you THEN {You} ELSE {})
      BY <2>2, ShownIs
    <3>2. view.you => You \in Shown(view)
      BY <3>1
    <3> QED BY <2>2, <3>2
  <2>5. ASSUME Shown(view) # {}
        PROVE  /\ Distinct(Restrict(viewport(view), Shown(view) \cup connected_relay_ids(view)))
               /\ \A n \in Shown(view) : viewport(view)[n] \in Cells(view.size)
               /\ viewport(view)[view.selected] = Center(view.size)
    <3>1. /\ DOMAIN viewport(view) = DOMAIN AllOf(view) /\ Apart(viewport(view))
          /\ Range(viewport(view)) \subseteq Cells(view.size)
          /\ viewport(view)[view.selected] = Center(view.size)
      BY <2>1, <2>5, ViewportIs
    <3>2. connected_relay_ids(view) \subseteq DOMAIN AllOf(view)
      BY <2>1, ConnectedAreThere
    <3>3. \A n \in Shown(view) : viewport(view)[n] \in Cells(view.size)
      BY <2>3, <3>1 DEF Range
    <3>4. \A f : Apart(f) => \A S \in SUBSET DOMAIN f : Distinct(Restrict(f, S))
      BY DEF Apart, Distinct, Restrict
    <3>5. Shown(view) \cup connected_relay_ids(view) \in SUBSET DOMAIN viewport(view)
      BY <2>3, <3>1, <3>2
    <3> QED BY <3>1, <3>3, <3>4, <3>5
  <2>6. DOMAIN view.base # {} =>
          /\ Distinct(Restrict(viewport(view), DOMAIN view.base \cup connected_relay_ids(view)))
          /\ \A n \in DOMAIN view.base : viewport(view)[n] \in Cells(view.size)
          /\ viewport(view)[view.selected] = Center(view.size)
    BY <2>2, <2>5, Zenon
  <2> QED BY <2>3, <2>4, <2>6, Zenon DEF EveryNodeHasItsCell, AllOf
<1> QED BY <1>1, MeshInvariant, PTL

-----------------------------------------------------------------------------
(* From one layout to the next.                                            *)

LEMMA PlacedAre ==
  /\ Placed("LOCAL") = 0
  /\ \A i \in 1..10 : Placed(Regions[i]) = i
<1> DEFINE I(region) == {i \in 1..Len(Regions) : Regions[i] = region}
<1>1. \A region : Placed(region) = IF I(region) # {} THEN Min(I(region)) ELSE 0
  BY DEF Placed, SelectInSeq
<1>2. I("LOCAL") = {}
  BY RegionsAre
<1>3. ASSUME NEW i \in 1..10 PROVE Placed(Regions[i]) = i
  <2> DEFINE J == I(Regions[i])
  <2>1. J = {i}
    BY RegionsAre
  <2>2. J \in SUBSET Nat /\ J # {}
    BY <2>1
  <2> HIDE DEF J
  <2>3. Min(J) = i
    BY <2>1, <2>2, LeastOf
  <2>4. Placed(Regions[i]) = IF J # {} THEN Min(J) ELSE 0
    BY <1>1 DEF J
  <2> QED BY <2>2, <2>3, <2>4
<1>4. Placed("LOCAL") = 0
  BY <1>1, <1>2
<1> QED BY <1>3, <1>4

(* A node stays where it was, or another one is there first.               *)
Stays(n, before, after) ==
  LET was == before.sticky[n]
      is == after.sticky[n]
  IN  is.region = was.region /\ before.rings[n] = after.rings[n] =>
        \/ is = was
        \/ \E m \in DOMAIN after.sticky :
             /\ after.sticky[m].at = was.at
             /\ Placed(after.sticky[m].region) < Placed(was.region)

LEMMA RefreshedStays ==
  ASSUME Few(Everyone), IsLayout(layout), NEW you \in BOOLEAN, IsRefreshed(you),
         NEW n, n \in DOMAIN layout.sticky, n \in DOMAIN layout'.sticky, n # You
  PROVE  Stays(n, layout, layout')
<1> DEFINE local == DOMAIN LocalSlot(you)
           slots == layout'.sticky
           sticky == evicted(layout, layout'.rings)
           was == layout.sticky[n]
           is == slots[n]
<1>1. PICK nodes :
        /\ AreNodes(nodes)
        /\ IsLaidOut(layout', IF turnover(DOMAIN nodes, you) THEN NoLayout ELSE layout, nodes, local)
  BY DEF IsRefreshed
<1> DEFINE remotes == DOMAIN nodes
<1>2. local = IF you THEN {You} ELSE {}
  BY LocalIs
<1> HIDE DEF local
<1>3. n \in remotes
  <2>1. DOMAIN slots = local \cup remotes
    BY <1>1 DEF IsLaidOut
  <2> QED BY <1>2, <2>1
<1>4. ~turnover(remotes, you)
  BY <1>3 DEF turnover
<1>5. IsLaidOut(layout', layout, nodes, local)
  BY <1>1, <1>4
<1> HIDE DEF remotes, slots, sticky, was, is
<1>6. PICK at : AreAt(at, remotes) /\ IsAssigned(slots, local, at, remotes, sticky)
  BY <1>5 DEF IsLaidOut, remotes, slots, sticky
<1>7. is.region = region_of(n, at, remotes) /\ region_of(n, at, remotes) \in AllRegions
  BY <1>3, <1>6, RegionIs DEF IsAssigned, is
<1>8. SUFFICES ASSUME is.region = was.region, layout.rings[n] = layout'.rings[n], is # was
      PROVE  \E m \in DOMAIN slots : slots[m].at = was.at /\ Placed(slots[m].region) < Placed(was.region)
  BY Zenon DEF Stays, is, was, slots
<1>9. n \in DOMAIN sticky /\ sticky[n] = was
  BY <1>8, EvictedIs DEF sticky, was
<1>10. CellsApart(sticky)
  BY EvictedIs DEF sticky
<1>11. PICK k \in DOMAIN slots :
         /\ slots[k].at = was.at
         /\ \/ k \in local
            \/ /\ k \in remotes
               /\ \E a, b \in 1..10 : /\ a < b /\ Regions[a] = region_of(k, at, remotes)
                                      /\ Regions[b] = region_of(n, at, remotes)
  BY <1>3, <1>6, <1>7, <1>8, <1>9, <1>10 DEF IsAssigned, is
<1>12. Placed("LOCAL") = 0 /\ \A i \in 1..10 : Placed(Regions[i]) = i
  BY PlacedAre
<1>13. CASE k \in local
  <2>1. slots[k].region = "LOCAL"
    BY <1>6, <1>13 DEF IsAssigned, Slot
  <2>2. PICK b \in 1..10 : Regions[b] = was.region
    BY <1>7, <1>8, RegionsAre
  <2>3. Placed(was.region) = b
    BY <1>12, <2>2
  <2> QED BY <1>11, <1>12, <2>1, <2>3
<1>14. CASE k \in remotes /\ \E a, b \in 1..10 : /\ a < b /\ Regions[a] = region_of(k, at, remotes)
                                                  /\ Regions[b] = region_of(n, at, remotes)
  <2>1. PICK a \in 1..10, b \in 1..10 : /\ a < b /\ Regions[a] = region_of(k, at, remotes)
                                        /\ Regions[b] = region_of(n, at, remotes)
    BY <1>14
  <2>2. slots[k].region = Regions[a]
    BY <1>6, <1>14, <2>1 DEF IsAssigned
  <2>3. was.region = Regions[b]
    BY <1>7, <1>8, <2>1
  <2>4. Placed(slots[k].region) = a /\ Placed(was.region) = b
    BY <1>12, <2>2, <2>3
  <2> QED BY <1>11, <2>1, <2>4
<1> QED BY <1>11, <1>13, <1>14

LEMMA SameStays ==
  ASSUME NEW n, NEW l
  PROVE  Stays(n, l, l)
BY DEF Stays

(* A node stays in its slot as long as it stays on its ring and in its     *)
(* region, unless a region that is placed before has taken the slot.       *)
THEOREM LayoutStays ==
  ASSUME Few(Everyone)
  PROVE  MeshSpec => LayoutIsStable
<1> DEFINE Kept == \A n \in (DOMAIN layout.sticky \cap DOMAIN layout'.sticky) \ {You} :
                     Stays(n, layout, layout')
<1>1. MeshInv /\ [MeshNext]_meshVars => Kept
  <2> SUFFICES ASSUME MeshInv, [MeshNext]_meshVars,
                      NEW n \in (DOMAIN layout.sticky \cap DOMAIN layout'.sticky) \ {You}
               PROVE  Stays(n, layout, layout')
    OBVIOUS
  <2>1. /\ MeshIs /\ IsLayout(layout) /\ view.size \in Sizes /\ DOMAIN view = ViewFields
    BY DEF MeshInv, IsView, IsDraft
  <2>2. CASE UNCHANGED layout
    BY <2>2, SameStays
  <2>3. CASE Refresh
    <3>1. refresh(mesh.known, TRUE) /\ KnownIs(mesh.known)
      BY <2>1, <2>3 DEF Refresh, MeshIs
    <3>2. IsRefreshed(TRUE)
      BY <2>1, <3>1, RefreshIs
    <3> QED BY <2>1, <3>2, RefreshedStays
  <2>4. CASE RefreshUnread
    <3>1. refresh(<<>>, FALSE)
      BY <2>4 DEF RefreshUnread
    <3>2. CASE ranked(<<>>) = <<>>
      <4>1. UNCHANGED layout
        BY <3>1, <3>2 DEF refresh
      <4> QED BY <4>1, SameStays
    <3>3. CASE ranked(<<>>) # <<>>
      <4>1. KnownIs(<<>>)
        BY DEF KnownIs
      <4>2. IsRefreshed(FALSE)
        BY <2>1, <3>1, <3>3, <4>1, RefreshIs
      <4> QED BY <2>1, <4>2, RefreshedStays
    <3> QED BY <3>2, <3>3
  <2>5. CASE Learn \/ Navigate
    <3>1. UNCHANGED layout
      BY <2>5 DEF Learn, Navigate
    <3> QED BY <3>1, SameStays
  <2>6. CASE UNCHANGED meshVars
    <3>1. UNCHANGED layout
      BY <2>6 DEF meshVars
    <3> QED BY <3>1, SameStays
  <2> QED BY <2>3, <2>4, <2>5, <2>6 DEF MeshNext
<1>2. MeshSpec => []MeshInv /\ [][MeshNext]_meshVars
  BY MeshInvariant, PTL DEF MeshSpec
<1>3. MeshSpec => [][Kept]_meshVars
  BY <1>1, <1>2, PTL
<1>4. LayoutIsStable <=> [][Kept]_meshVars
  BY Zenon DEF LayoutIsStable, Stays
<1> QED BY <1>3, <1>4
=============================================================================

------------------------- MODULE RouteUpdateProofs -------------------------
(***************************************************************************)
(* What RouteUpdate keeps for every set of destinations, every bound and   *)
(* every kind of position update.                                          *)
(*                                                                         *)
(* Nothing is assumed of malloc: the block of a graph may be handed out    *)
(* again and a stray write may clear the busy flag of a new graph; hit     *)
(* remembers that, and the statements say what is then still true.         *)
(* PathLeadsToNext, GraphServesDst, StatusHonest claim nothing while an    *)
(* import goes on (the run route_import shows why), but its last message   *)
(* restores them.                                                          *)
(***************************************************************************)
EXTENDS RouteUpdate, TLAPS

-----------------------------------------------------------------------------
(* Lists of destinations.                                                   *)

\* DestLists by its members' properties instead of their construction.
LEMMA DestListsMember ==
    \A s : s \in DestLists <=>
        /\ s \in Seq(DestId) /\ Len(s) <= MaxDest
        /\ \A i, j \in DOMAIN s : s[i] = s[j] => i = j
<1>1. ASSUME NEW s, s \in DestLists
      PROVE  /\ s \in Seq(DestId) /\ Len(s) <= MaxDest
             /\ \A i, j \in DOMAIN s : s[i] = s[j] => i = j
  <2>1. PICK n \in 0 .. MaxDest : s \in [1 .. n -> DestId]
    BY <1>1 DEF DestLists
  <2>2. s \in Seq(DestId) /\ Len(s) = n
    BY <2>1, BoundAssumption
  <2> QED BY <1>1, <2>1, <2>2, BoundAssumption DEF DestLists
<1>2. ASSUME NEW s, s \in Seq(DestId), Len(s) <= MaxDest,
             \A i, j \in DOMAIN s : s[i] = s[j] => i = j
      PROVE  s \in DestLists
  <2>1. s \in [1 .. Len(s) -> DestId] /\ Len(s) \in 0 .. MaxDest
    BY <1>2, BoundAssumption
  <2> QED BY <1>2, <2>1 DEF DestLists
<1> QED BY <1>1, <1>2

\* What route_add_destination and route_remove_waypoint make of a list.
LEMMA DestListsAppend ==
    ASSUME NEW s \in DestLists, NEW id \in DestId,
           Len(s) < MaxDest, id \notin Range(s)
    PROVE  Append(s, id) \in DestLists
<1>1. /\ s \in Seq(DestId)
      /\ \A i, j \in DOMAIN s : s[i] = s[j] => i = j
      /\ \A i \in DOMAIN s : s[i] # id
  BY DestListsMember DEF Range
<1>2. Append(s, id) \in Seq(DestId) /\ Len(Append(s, id)) <= MaxDest
  BY <1>1, BoundAssumption
<1>3. \A i, j \in DOMAIN Append(s, id) : Append(s, id)[i] = Append(s, id)[j] => i = j
  BY <1>1
<1> QED BY <1>2, <1>3, DestListsMember

LEMMA DestListsTail ==
    ASSUME NEW s \in DestLists, s # <<>>
    PROVE  /\ Tail(s) \in DestLists
           /\ Len(Tail(s)) = Len(s) - 1
           /\ \A i \in DOMAIN Tail(s) : Tail(s)[i] = s[i + 1]
<1>1. s \in Seq(DestId) /\ Len(s) <= MaxDest
  BY DestListsMember
<1>2. \A i, j \in DOMAIN s : s[i] = s[j] => i = j
  BY DestListsMember
<1>3. /\ Tail(s) \in Seq(DestId) /\ Len(Tail(s)) = Len(s) - 1
      /\ \A i \in DOMAIN Tail(s) : Tail(s)[i] = s[i + 1]
  BY <1>1
<1>4. \A i, j \in DOMAIN Tail(s) : Tail(s)[i] = Tail(s)[j] => i = j
  BY <1>1, <1>2, <1>3
<1>5. Len(Tail(s)) <= MaxDest
  BY <1>1, <1>3, BoundAssumption
<1>6. Tail(s) \in DestLists
  BY <1>3, <1>4, <1>5, DestListsMember
<1> QED BY <1>3, <1>6

LEMMA DestListsShort ==
    <<>> \in DestLists /\ \A id \in DestId : <<id>> \in DestLists
<1>1. <<>> \in DestLists
  <2>1. <<>> \in Seq(DestId) /\ Len(<<>>) <= MaxDest /\ DOMAIN <<>> = {}
    BY BoundAssumption
  <2> QED BY <2>1, DestListsMember
<1>2. ASSUME NEW id \in DestId PROVE <<id>> \in DestLists
  <2>1. <<id>> \in Seq(DestId) /\ Len(<<id>>) <= MaxDest
    BY BoundAssumption
  <2>2. \A i, j \in DOMAIN <<id>> : <<id>>[i] = <<id>>[j] => i = j
    OBVIOUS
  <2> QED BY <2>1, <2>2, DestListsMember
<1> QED BY <1>1, <1>2

\* The last destination and the one before current_dst.
LEMMA LastDestination ==
    ASSUME NEW d \in DestLists
    PROVE  /\ route_get_dst(d) \in DestId \union {NoDest}
           /\ d # <<>> => route_get_dst(d) \in Range(d) /\ route_get_dst(d) \in DestId
<1>1. d \in Seq(DestId)
  BY DestListsMember
<1> QED BY <1>1 DEF route_get_dst, Range

LEMMA PreviousDestination ==
    ASSUME destinations \in DestLists
    PROVE  /\ route_previous_destination \in DestId \union {PosInfo}
           /\ \A k \in DOMAIN destinations : current_dst = destinations[k] =>
                IF k = 1 THEN route_previous_destination = PosInfo
                ELSE /\ route_previous_destination = destinations[k - 1]
                     /\ k - 1 \in DOMAIN destinations
                     /\ route_previous_destination # PosInfo
<1>1. destinations \in Seq(DestId)
  BY DestListsMember
<1>2. \A i, j \in DOMAIN destinations : destinations[i] = destinations[j] => i = j
  BY DestListsMember
<1> DEFINE before == {i \in 2 .. Len(destinations) : destinations[i] = current_dst}
<1>3. CASE before = {}
  <2>1. route_previous_destination = PosInfo
    BY <1>3 DEF route_previous_destination
  <2>2. \A k \in DOMAIN destinations : current_dst = destinations[k] => k = 1
    BY <1>1, <1>3
  <2> QED BY <2>1, <2>2
<1>4. CASE before # {}
  <2>1. PICK i \in before : i = CHOOSE j \in before : TRUE
    BY <1>4
  <2>2. route_previous_destination = destinations[i - 1]
    BY <1>4, <2>1 DEF route_previous_destination
  <2>3. i \in 2 .. Len(destinations) /\ destinations[i] = current_dst
    BY <2>1
  <2>4. destinations[i - 1] \in DestId /\ i - 1 \in DOMAIN destinations
    BY <1>1, <2>3
  <2>5. \A k \in DOMAIN destinations : current_dst = destinations[k] => k = i
    BY <1>1, <1>2, <2>3
  <2>6. i # 1 /\ destinations[i - 1] # PosInfo
    BY <2>3, <2>4, DestAssumption
  <2> QED BY <2>2, <2>4, <2>5, <2>6
<1> QED BY <1>3, <1>4

-----------------------------------------------------------------------------
(* The first inductive invariant: who holds the graph in which state.       *)

\* Between handlers nothing of a handler is left over.
Idle == pc = "ready" => frame = "none"

\* busy and "the idle event is registered" differ while the done callback of a build
\* is on the stack, and on a graph that a stray write fell on.
BuildFrame ==
    /\ graph.building => graph.exists
    /\ graph.hit => graph.building
    /\ IF frame = "build" THEN ~graph.building
       ELSE (graph.busy <=> graph.building /\ ~graph.hit)

\* A stray write falls on a graph that the search over a larger area has just begun.
StrayFrame ==
    /\ frame = "stray" => (graph.exists => graph.building) /\ try_harder
    /\ graph.hit => try_harder \/ importing

\* No build is registered, but for one whose busy flag is lost.
Usable(g) == g.exists /\ (g.building => g.hit)

\* A flood, and the extraction of a path, work on such a graph.
Flooding == pc \in {"flood", "done"} => Usable(graph)

\* A graph that is not under construction was flooded from a destination.
StartKnown ==
    /\ graph.exists /\ ~graph.busy => current_dst # NoDest
    /\ pc \in {"done", "return"} => current_dst # NoDest

PathOver == path2 # <<>> => Usable(graph)

GraphInv == Idle /\ BuildFrame /\ StrayFrame /\ Flooding /\ StartKnown /\ PathOver

IInv == TypeOK /\ GraphInv

\* Graphs that differ in no more than the position's being in their area.
SameBuild(a, b) ==
    /\ a.exists = b.exists /\ a.busy = b.busy /\ a.building = b.building
    /\ a.flood = b.flood /\ a.hit = b.hit

LEMMA GraphTypes ==
    /\ NoGraph \in Graph /\ NewGraph \in Graph
    /\ ~NoGraph.exists /\ ~NoGraph.busy /\ ~NoGraph.building /\ ~NoGraph.hit
    /\ NewGraph.exists /\ NewGraph.busy /\ NewGraph.building /\ ~NewGraph.hit
    /\ NoGraph.flood = NoDest /\ NewGraph.flood = NoDest
    /\ NoGraph.covers /\ NewGraph.covers
<1>1. /\ NoGraph \in Graph /\ NoGraph.exists = FALSE /\ NoGraph.busy = FALSE
      /\ NoGraph.building = FALSE /\ NoGraph.hit = FALSE
      /\ NoGraph.flood = NoDest /\ NoGraph.covers = TRUE
  BY BoundAssumption DEF NoGraph, Graph
<1>2. /\ NewGraph \in Graph /\ NewGraph.exists = TRUE /\ NewGraph.busy = TRUE
      /\ NewGraph.building = TRUE /\ NewGraph.hit = NoGraph.hit
      /\ NewGraph.flood = NoGraph.flood /\ NewGraph.covers = NoGraph.covers
  BY <1>1 DEF NewGraph, Graph
<1> QED BY <1>1, <1>2

LEMMA LeftSame ==
    ASSUME graph \in Graph, NEW p
    PROVE  /\ Left(graph, p) \in Graph /\ SameBuild(Left(graph, p), graph)
           /\ Left(graph, p).covers <=> p # "far" \/ ~graph.exists
  BY DEF Left, Graph, SameBuild

\* route_path_update, from any list and position, keeps what concerns it:
\* the caller says which graph it passes on and what becomes of current_dst.
LEMMA UpdateKeeps ==
    ASSUME IInv, pc = "ready",
           NEW p, NEW d, NEW g \in Graph, NEW cancel \in BOOLEAN,
           NEW st \in Status \union {Undefined},
           g = NoGraph \/ (/\ SameBuild(g, graph)
                          /\ current_dst' = current_dst /\ try_harder' = try_harder
                          /\ importing' = importing),
           cancel \/ SameBuild(g, graph),
           route_path_update(p, d, g, cancel, st)
    PROVE  /\ graph' \in Graph
           /\ path2' \in Seq(DestId)
           /\ route_status' \in Status \union {Undefined}
           /\ pc' \in {"ready", "done"}
           /\ frame' \in {"none", "update"}
           /\ new_graph' \in BOOLEAN
           /\ GraphInv'
<1> USE GraphTypes
<1>0. TypeOK /\ GraphInv /\ frame = "none"
  BY DEF IInv, GraphInv, Idle
<1>a. ~NoGraph.exists /\ ~NoGraph.building /\ ~NoGraph.hit /\ ~NoGraph.busy
  OBVIOUS
<1>b. SameBuild(g, graph) =>
        /\ g.building => g.exists
        /\ g.hit => g.building
        /\ g.busy <=> g.building /\ ~g.hit
        /\ path2 # <<>> => Usable(g)
  BY <1>0 DEF SameBuild, GraphInv, BuildFrame, PathOver, Usable
<1>c. SameBuild(g, graph) /\ g # NoGraph =>
        /\ g.hit => try_harder' \/ importing'
        /\ g.exists /\ ~g.busy => current_dst' # NoDest
  BY <1>0 DEF SameBuild, GraphInv, StrayFrame, StartKnown
<1> DEFINE g2 == IF cancel THEN NoGraph ELSE g
<1>3. CASE path2' = <<>> /\ graph' = g /\ route_status' = st /\ Ready
  <2>1. path2' \in Seq(DestId) /\ path2' = <<>> /\ new_graph' \in BOOLEAN
    BY <1>0, <1>3 DEF Ready, TypeOK
  <2>2. CASE g = NoGraph
    BY <1>a, <1>3, <2>1, <2>2 DEF Ready, GraphInv, Idle, BuildFrame, StrayFrame, Flooding,
       StartKnown, PathOver
  <2>3. CASE g # NoGraph
    BY <1>b, <1>c, <1>3, <2>1, <2>3 DEF Ready, GraphInv, Idle, BuildFrame, StrayFrame,
       Flooding, StartKnown, PathOver
  <2> QED BY <2>2, <2>3
<1>4. CASE Rebuild /\ Ready
  <2>1. /\ graph' = NewGraph /\ path2' = <<>> /\ route_status' = "building_graph"
        /\ pc' = "ready" /\ frame' = "none" /\ new_graph' = new_graph
    BY <1>4 DEF Ready, Rebuild
  <2>2. path2' \in Seq(DestId) /\ new_graph' \in BOOLEAN
    BY <1>0, <2>1 DEF TypeOK
  <2>3. GraphInv'
    BY <2>1 DEF GraphInv, Idle, BuildFrame, StrayFrame, Flooding, StartKnown, PathOver
  <2> QED BY <2>1, <2>2, <2>3 DEF Status
<1>5. CASE /\ g2.exists /\ Busy(g2)
           /\ graph' = g2 /\ route_status' = st
           /\ UNCHANGED path2
           /\ Ready
  <2>1. g2 = g /\ SameBuild(g, graph) /\ g # NoGraph
    BY <1>5
  <2>2. path2' \in Seq(DestId) /\ new_graph' \in BOOLEAN
    BY <1>0, <1>5 DEF Ready, TypeOK
  <2>3. GraphInv'
    BY <1>b, <1>c, <1>5, <2>1 DEF Ready, GraphInv, Idle, BuildFrame, StrayFrame, Flooding,
       StartKnown, PathOver, Usable
  <2> QED BY <1>5, <2>1, <2>2, <2>3 DEF Ready
<1>6. CASE /\ g2.exists /\ ~Busy(g2)
           /\ graph' = g2 /\ route_status' = st
           /\ pc' = "done" /\ frame' = "update" /\ new_graph' = FALSE
           /\ UNCHANGED path2
  <2>1. g2 = g /\ SameBuild(g, graph) /\ g # NoGraph
    BY <1>6
  <2>2. path2' \in Seq(DestId)
    BY <1>0, <1>6 DEF TypeOK
  <2>3. GraphInv'
    BY <1>b, <1>c, <1>6, <2>1 DEF Busy, GraphInv, Idle, BuildFrame, StrayFrame, Flooding,
       StartKnown, PathOver, Usable
  <2> QED BY <1>6, <2>1, <2>2, <2>3
<1> QED BY <1>3, <1>4, <1>5, <1>6 DEF route_path_update

\* At the start there is nothing.
LEMMA InitIInv == Init => IInv
<1> SUFFICES ASSUME Init PROVE IInv
  OBVIOUS
<1>1. destinations \in DestLists /\ path2 \in Seq(DestId)
  BY DestListsShort DEF Init
<1>2. TypeOK
  <2>1. graph \in Graph
    BY GraphTypes DEF Init
  <2> QED BY <1>1, <2>1 DEF Init, TypeOK, Position, Status
<1>3. GraphInv
  BY GraphTypes DEF Init, GraphInv, Idle, BuildFrame, StrayFrame, Flooding, StartKnown, PathOver
<1> QED BY <1>2, <1>3 DEF IInv

\* The commands that throw the graph away and start over from the list.
LEMMA StartRouteIInv ==
    ASSUME IInv, pc = "ready",
           NEW d \in DestLists, NEW st \in Status \union {Undefined},
           destinations' = d, importing' \in BOOLEAN,
           StartRoute(d, st)
    PROVE  IInv'
<1>1. /\ route_path_update(pos, d, NoGraph, TRUE, st)
      /\ current_dst' = route_get_dst(d) /\ try_harder' = FALSE
      /\ UNCHANGED <<pos, link_path>>
  BY DEF StartRoute
<1>4. /\ graph' \in Graph
      /\ path2' \in Seq(DestId)
      /\ route_status' \in Status \union {Undefined}
      /\ pc' \in {"ready", "done"}
      /\ frame' \in {"none", "update"}
      /\ new_graph' \in BOOLEAN
      /\ GraphInv'
  BY <1>1, GraphTypes, UpdateKeeps
<1>5. current_dst' \in DestId \union {NoDest}
  BY <1>1, LastDestination
<1> QED BY <1>1, <1>4, <1>5 DEF IInv, TypeOK

\* The commands and position updates that keep list and current_dst.
LEMMA RunUpdateIInv ==
    ASSUME IInv, pc = "ready",
           NEW p, NEW g \in Graph, SameBuild(g, graph),
           NEW cancel \in BOOLEAN, pos' \in Position,
           route_path_update(p, destinations, g, cancel, route_status),
           UNCHANGED <<destinations, current_dst, link_path, try_harder, importing>>
    PROVE  IInv'
<1>2. TypeOK /\ route_status \in Status \union {Undefined}
  BY DEF IInv, TypeOK
<1>3. /\ graph' \in Graph
      /\ path2' \in Seq(DestId)
      /\ route_status' \in Status \union {Undefined}
      /\ pc' \in {"ready", "done"}
      /\ frame' \in {"none", "update"}
      /\ new_graph' \in BOOLEAN
      /\ GraphInv'
  BY <1>2, UpdateKeeps
<1> QED BY <1>2, <1>3 DEF IInv, TypeOK

LEMMA UserCommandIInv == IInv /\ UserCommand => IInv'
<1> SUFFICES ASSUME IInv, UserCommand PROVE IInv'
  OBVIOUS
<1>0. TypeOK /\ GraphInv
  BY DEF IInv
<1>1. ASSUME NEW d \in DestLists, SetDestinations(d) PROVE IInv'
  <2>1. PICK st \in {"no_destination", "destination_set"} : StartRoute(d, st)
    BY <1>1 DEF SetDestinations
  <2>2. st \in Status \union {Undefined}
    BY <2>1 DEF Status
  <2>3. pc = "ready" /\ destinations' = d /\ importing' \in BOOLEAN
    BY <1>0, <1>1 DEF SetDestinations, TypeOK
  <2> QED BY <2>1, <2>2, <2>3, StartRouteIInv
<1>2. ASSUME NEW id \in DestId, AddDestination(id) PROVE IInv'
  <2>1. /\ pc = "ready" /\ importing' \in BOOLEAN
        /\ Len(destinations) < MaxDest /\ id \notin Range(destinations)
        /\ destinations \in DestLists
    BY <1>0, <1>2 DEF AddDestination, TypeOK
  <2>2. Append(destinations, id) \in DestLists
    BY <2>1, DestListsAppend
  <2>3. PICK d \in DestLists, st \in Status \union {Undefined} :
          destinations' = d /\ StartRoute(d, st)
    BY <1>2, <2>1, <2>2 DEF AddDestination, Status
  <2> QED BY <2>1, <2>3, StartRouteIInv
<1>3. ASSUME NEW id \in DestId, SetNoCalc(id) PROVE IInv'
  <2>1. destinations' \in DestLists
    BY <1>3, DestListsShort DEF SetNoCalc
  <2>2. TypeOK'
    BY <1>0, <1>3, <2>1 DEF SetNoCalc, NoCalc, TypeOK
  <2>3. GraphInv'
    BY <1>0, <1>3 DEF SetNoCalc, NoCalc, GraphInv, Idle, BuildFrame, StrayFrame, Flooding,
       StartKnown, PathOver
  <2> QED BY <2>2, <2>3 DEF IInv
<1>4. ASSUME NEW id \in DestId, AddNoCalc(id) PROVE IInv'
  <2>1. destinations' \in DestLists
    <3>1. /\ Len(destinations) < MaxDest /\ id \notin Range(destinations)
          /\ destinations \in DestLists
          /\ destinations' = destinations \/ destinations' = Append(destinations, id)
      BY <1>0, <1>4 DEF AddNoCalc, TypeOK
    <3>2. Append(destinations, id) \in DestLists
      BY <3>1, DestListsAppend
    <3> QED BY <3>1, <3>2
  <2>2. TypeOK'
    BY <1>0, <1>4, <2>1 DEF AddNoCalc, NoCalc, TypeOK
  <2>3. GraphInv'
    BY <1>0, <1>4 DEF AddNoCalc, NoCalc, GraphInv, Idle, BuildFrame, StrayFrame, Flooding,
       StartKnown, PathOver
  <2> QED BY <2>2, <2>3 DEF IInv
<1>5. ASSUME NEW cancel \in BOOLEAN, Recalculate(cancel) PROVE IInv'
  BY <1>0, <1>5, RunUpdateIInv DEF Recalculate, TypeOK, SameBuild
<1>6. CASE StartCalc
  <2>1. PICK st \in {route_status, "destination_set"} : StartRoute(destinations, st)
    BY <1>6 DEF StartCalc
  <2>2. st \in Status \union {Undefined}
    BY <1>0, <2>1 DEF TypeOK, Status
  <2>3. /\ pc = "ready" /\ destinations \in DestLists
        /\ destinations' = destinations /\ importing' \in BOOLEAN
    BY <1>0, <1>6 DEF StartCalc, TypeOK
  <2> QED BY <2>1, <2>2, <2>3, StartRouteIInv
<1> QED BY <1>1, <1>2, <1>3, <1>4, <1>5, <1>6 DEF UserCommand

\* Position updates and reached waypoints.
LEMMA DrivingIInv == IInv /\ (PositionUpdate \/ RemoveWaypoint) => IInv'
<1> SUFFICES ASSUME IInv, PositionUpdate \/ RemoveWaypoint PROVE IInv'
  OBVIOUS
<1>0. TypeOK /\ GraphInv
  BY DEF IInv
<1>a. ASSUME NEW p PROVE Left(graph, p) \in Graph /\ SameBuild(Left(graph, p), graph)
  BY <1>0, LeftSame DEF TypeOK
<1>b. ASSUME NEW p \in PositionKinds PROVE Place(p) \in Position
  BY KindAssumption DEF PositionKind, Position, Place
<1>1. ASSUME NEW p \in PositionKinds, SetPosition(p) PROVE IInv'
  <2>1. pos' \in Position /\ pc = "ready"
    BY <1>b, <1>1 DEF SetPosition
  <2>2. CASE route_path_update("street", destinations, Left(graph, p), FALSE, route_status)
    BY <1>a, <1>1, <2>1, <2>2, RunUpdateIInv DEF SetPosition
  <2>3. CASE UNCHANGED <<graph, path2, route_status, pc, frame, new_graph>>
    BY <1>0, <1>1, <2>1, <2>3 DEF SetPosition, IInv, TypeOK, GraphInv, Idle, BuildFrame,
       StrayFrame, Flooding, StartKnown, PathOver
  <2> QED BY <1>1, <2>2, <2>3 DEF SetPosition
<1>2. ASSUME NEW p \in PositionKinds, SetPositionFromTracking(p) PROVE IInv'
  <2>1. pos' \in Position /\ pc = "ready"
    BY <1>b, <1>2 DEF SetPositionFromTracking
  <2>2. CASE destinations # <<>>
    BY <1>a, <1>2, <2>1, <2>2, RunUpdateIInv DEF SetPositionFromTracking
  <2>3. CASE destinations = <<>>
    <3>1. graph' \in Graph /\ SameBuild(graph', graph)
      BY <1>a, <1>2, <2>3 DEF SetPositionFromTracking
    <3> QED BY <1>0, <1>2, <2>1, <2>3, <3>1 DEF SetPositionFromTracking, IInv, TypeOK,
           GraphInv, Idle, BuildFrame, StrayFrame, Flooding, StartKnown, PathOver, SameBuild,
           Usable
  <2> QED BY <2>2, <2>3
<1>3. CASE RemoveWaypoint
  <2>1. /\ destinations' \in DestLists /\ destinations'[1] \in DestId
        /\ Tail(path2) \in Seq(DestId)
    <3>1. destinations \in DestLists /\ destinations # <<>> /\ Len(destinations) > 1
      BY <1>0, <1>3 DEF RemoveWaypoint, TypeOK
    <3>2. destinations' \in DestLists /\ Len(destinations') = Len(destinations) - 1
      BY <1>3, <3>1, DestListsTail DEF RemoveWaypoint
    <3>3. destinations' \in Seq(DestId) /\ destinations \in Seq(DestId)
      BY <3>1, <3>2, DestListsMember
    <3>4. 1 \in DOMAIN destinations'
      BY <3>1, <3>2, <3>3
    <3> QED BY <1>0, <1>3, <3>2, <3>3, <3>4 DEF RemoveWaypoint, TypeOK
  <2>2. TypeOK'
    BY <1>0, <1>3, <2>1 DEF RemoveWaypoint, TypeOK, Graph
  <2>3. Usable(graph)
    BY <1>0, <1>3 DEF RemoveWaypoint, GraphInv, PathOver
  <2>4. /\ graph'.exists = graph.exists /\ graph'.building = graph.building
        /\ graph'.busy = graph.busy /\ graph'.hit = graph.hit
    BY <1>0, <1>3, <2>3 DEF RemoveWaypoint, TypeOK, Graph
  <2>5. GraphInv'
    BY <1>0, <1>3, <2>1, <2>3, <2>4, DestAssumption DEF RemoveWaypoint, GraphInv, Idle,
       BuildFrame, StrayFrame, Flooding, StartKnown, PathOver, Usable
  <2> QED BY <2>2, <2>5 DEF IInv
<1> QED BY <1>1, <1>2, <1>3 DEF PositionUpdate

LEMMA BuildIInv == IInv /\ Build => IInv'
<1> SUFFICES ASSUME IInv, Build PROVE IInv'
  OBVIOUS
<1>0. TypeOK /\ GraphInv /\ graph \in Graph
  BY DEF IInv, TypeOK
<1>1. CASE BuildSlice
  <2>1. graph' \in Graph /\ SameBuild(graph', graph)
    <3>1. /\ graph.built < BuildSteps /\ graph.built \in 0 .. BuildSteps
          /\ graph' = [graph EXCEPT !.built = graph.built + 1]
      BY <1>0, <1>1 DEF BuildSlice, Graph
    <3>2. graph.built + 1 \in 0 .. BuildSteps
      BY <3>1, BoundAssumption
    <3> QED BY <1>0, <3>1, <3>2 DEF Graph, SameBuild
  <2>2. TypeOK'
    BY <1>0, <1>1, <2>1 DEF BuildSlice, TypeOK
  <2>3. GraphInv'
    BY <1>0, <1>1, <2>1 DEF BuildSlice, GraphInv, Idle, BuildFrame, StrayFrame, Flooding,
       StartKnown, PathOver, SameBuild, Usable
  <2> QED BY <2>2, <2>3 DEF IInv
<1>2. CASE BuildDone
  <2>1. graph.exists /\ frame = "none" /\ pc = "ready" /\ graph.building
    BY <1>0, <1>2 DEF BuildDone, GraphInv, BuildFrame, Idle
  <2>2. /\ graph' \in Graph
        /\ graph'.exists = graph.exists /\ graph'.busy = graph.busy
        /\ ~graph'.building /\ ~graph'.hit
    BY <1>0, <1>2 DEF BuildDone, Graph
  <2>3. TypeOK'
    BY <1>0, <1>2, <2>2 DEF BuildDone, TypeOK
  <2>4. GraphInv'
    BY <1>0, <1>2, <2>1, <2>2 DEF BuildDone, GraphInv, Idle, BuildFrame, StrayFrame,
       Flooding, StartKnown, PathOver, Usable
  <2> QED BY <2>3, <2>4 DEF IInv
<1> QED BY <1>1, <1>2 DEF Build

\* The chain of calls in a handler.  Return is where the stray write hurts.
LEMMA HandlerIInv == IInv /\ Handler => IInv'
<1> SUFFICES ASSUME IInv, Handler PROVE IInv'
  OBVIOUS
<1>0. TypeOK /\ GraphInv /\ graph \in Graph
  BY DEF IInv, TypeOK
<1>a. NoGraph \in Graph /\ NewGraph \in Graph
  BY GraphTypes
<1>b. pc = "done" => current_dst \in DestId /\ NewChain \in Seq(DestId)
  <2>1. pc = "done" => current_dst \in DestId /\ path2 \in Seq(DestId)
    BY <1>0 DEF TypeOK, GraphInv, StartKnown
  <2>2. pc = "done" => /\ <<current_dst>> \o path2 \in Seq(DestId)
                       /\ path2 # <<>> => <<current_dst>> \o Tail(path2) \in Seq(DestId)
                       /\ <<current_dst>> \in Seq(DestId)
    BY <2>1
  <2> QED BY <2>1, <2>2 DEF NewChain
<1>1. CASE Flood
  <2>1. /\ graph' \in Graph
        /\ graph'.exists = graph.exists /\ graph'.busy = graph.busy
        /\ graph'.building = graph.building /\ graph'.hit = graph.hit
    BY <1>0, <1>1 DEF Flood, TypeOK, Graph
  <2>2. TypeOK'
    BY <1>0, <1>1, <2>1 DEF Flood, TypeOK
  <2>3. GraphInv'
    BY <1>0, <1>1, <2>1 DEF Flood, GraphInv, Idle, BuildFrame, StrayFrame, Flooding,
       StartKnown, PathOver, Usable
  <2> QED BY <2>2, <2>3 DEF IInv
<1>2. CASE DoneLink
  <2>1. route_previous_destination \in DestId
    BY <1>0, <1>2, PreviousDestination DEF DoneLink, TypeOK
  <2>2. /\ graph' \in Graph
        /\ graph'.exists = graph.exists /\ graph'.busy = graph.busy
        /\ graph'.building = graph.building /\ graph'.hit = graph.hit
    BY <1>0, <1>2 DEF DoneLink, Graph
  <2>3. TypeOK'
    BY <1>0, <1>b, <1>2, <2>1, <2>2 DEF DoneLink, TypeOK, Status
  <2>4. GraphInv'
    BY <1>0, <1>2, <2>1, <2>2, DestAssumption DEF DoneLink, GraphInv, Idle, BuildFrame,
       StrayFrame, Flooding, StartKnown, PathOver, Usable
  <2> QED BY <2>3, <2>4 DEF IInv
<1>3. CASE DonePath
  <2>1. route_status' \in Status
    BY <1>3 DEF DonePath, Status, Done
  <2>2. TypeOK'
    BY <1>0, <1>b, <1>3, <2>1 DEF DonePath, TypeOK
  <2>3. GraphInv'
    BY <1>0, <1>3 DEF DonePath, GraphInv, Idle, BuildFrame, StrayFrame, Flooding, StartKnown,
         PathOver
  <2> QED BY <2>2, <2>3 DEF IInv
<1>4. CASE DoneHarder
  <2>1. path2' = <<>> /\ path2' \in Seq(DestId)
    BY <1>4 DEF DoneHarder
  <2>2. graph' = NoGraph \/ graph' = NewGraph
    BY <1>4 DEF DoneHarder
  <2>3. TypeOK'
    BY <1>0, <1>a, <1>4, <2>1, <2>2 DEF DoneHarder, TypeOK, Status
  <2>4. /\ frame' # "build" /\ try_harder' /\ pc' = "return"
        /\ current_dst' = current_dst /\ current_dst # NoDest
    BY <1>0, <1>4 DEF DoneHarder, GraphInv, StartKnown
  <2>5. /\ (graph'.busy <=> graph'.exists) /\ (graph'.building <=> graph'.exists)
        /\ ~graph'.hit
    BY <2>2, GraphTypes
  <2>6. GraphInv'
    BY <2>1, <2>4, <2>5 DEF GraphInv, Idle, BuildFrame, StrayFrame, Flooding, StartKnown,
       PathOver
  <2> QED BY <2>3, <2>6 DEF IInv
<1>5. CASE DoneNotFound
  <2>1. path2' = <<>> /\ path2' \in Seq(DestId)
    BY <1>5 DEF DoneNotFound
  <2>2. TypeOK'
    BY <1>0, <1>5, <2>1 DEF DoneNotFound, TypeOK, Status
  <2> QED BY <1>0, <1>5, <2>1, <2>2 DEF DoneNotFound, IInv, GraphInv, Idle, BuildFrame, StrayFrame,
         Flooding, StartKnown, PathOver
<1>6. CASE Return
  <2>0. /\ current_dst # NoDest /\ pc = "return" /\ pc' = "ready" /\ frame' = "none"
        /\ UNCHANGED <<pos, destinations, current_dst, link_path, try_harder, importing,
                       new_graph>>
    BY <1>0, <1>6 DEF Return, Ready, GraphInv, StartKnown
  <2>1. CASE Rebuild
    <3>1. /\ graph' = NewGraph /\ path2' = <<>> /\ path2' \in Seq(DestId)
          /\ route_status' = "building_graph"
      BY <2>1 DEF Rebuild
    <3>2. TypeOK'
      BY <1>0, <1>a, <2>0, <3>1 DEF TypeOK, Status
    <3>3. GraphInv'
      BY <2>0, <3>1, GraphTypes DEF GraphInv, Idle, BuildFrame, StrayFrame, Flooding,
         StartKnown, PathOver
    <3> QED BY <3>2, <3>3 DEF IInv
  <2>2. CASE frame # "build" /\ UNCHANGED <<graph, path2, route_status>>
    <3>1. TypeOK'
      BY <1>0, <2>0, <2>2 DEF TypeOK
    <3>2. GraphInv'
      BY <1>0, <2>0, <2>2 DEF GraphInv, Idle, BuildFrame, StrayFrame, Flooding,
         StartKnown, PathOver, Usable
    <3> QED BY <3>1, <3>2 DEF IInv
  <2>3. CASE frame = "build" /\ graph' = NotBusy(graph) /\ UNCHANGED <<path2, route_status>>
    <3>1. /\ graph' \in Graph
          /\ graph'.exists = graph.exists /\ ~graph'.busy
          /\ graph'.building = graph.building /\ graph'.hit = graph.hit
      BY <1>0, <2>3 DEF NotBusy, Graph
    <3>2. ~graph.building
      BY <1>0, <2>3 DEF GraphInv, BuildFrame
    <3>3. TypeOK'
      BY <1>0, <2>0, <2>3, <3>1 DEF TypeOK
    <3>4. GraphInv'
      BY <1>0, <2>0, <2>3, <3>1, <3>2 DEF GraphInv, Idle, BuildFrame, StrayFrame, Flooding,
         StartKnown, PathOver, Usable
    <3> QED BY <3>3, <3>4 DEF IInv
  <2>4. CASE frame = "stray" /\ graph.exists /\ graph' = Hit(graph)
             /\ UNCHANGED <<path2, route_status>>
    <3>1. /\ graph' \in Graph
          /\ graph'.exists = graph.exists /\ ~graph'.busy
          /\ graph'.building = graph.building /\ graph'.hit
      BY <1>0, <2>4 DEF Hit, NotBusy, Graph
    <3>2. graph.building /\ try_harder
      BY <1>0, <2>4 DEF GraphInv, StrayFrame
    <3>3. TypeOK'
      BY <1>0, <2>0, <2>4, <3>1 DEF TypeOK
    <3>4. GraphInv'
      BY <1>0, <2>0, <2>4, <3>1, <3>2 DEF GraphInv, Idle, BuildFrame, StrayFrame, Flooding,
         StartKnown, PathOver, Usable
    <3> QED BY <3>3, <3>4 DEF IInv
  <2> QED BY <1>6, <2>1, <2>2, <2>3, <2>4 DEF Return
<1> QED BY <1>1, <1>2, <1>3, <1>4, <1>5, <1>6 DEF Handler

\* IInv holds in every reachable state, whatever the sets and bounds, and whatever
\* block malloc returns.
THEOREM RouteIInv == Spec => []IInv
<1>1. ASSUME IInv, [Next]_vars PROVE IInv'
  <2>1. CASE UNCHANGED vars
    BY <1>1, <2>1 DEF vars, IInv, TypeOK, GraphInv, Idle, BuildFrame, StrayFrame, Usable, Flooding,
       StartKnown, PathOver
  <2> QED BY <1>1, <2>1, UserCommandIInv, DrivingIInv, BuildIInv, HandlerIInv DEF Next
<1> QED BY <1>1, InitIInv, PTL DEF Spec

\* Every variable keeps its type; above all the chain of paths holds addresses
\* of destinations only, never a null current_dst.
THEOREM RouteTypeOK == Spec => []TypeOK
<1>1. IInv => TypeOK
  BY DEF IInv
<1> QED BY <1>1, RouteIInv, PTL

\* Between handlers a path is only shown over a finished graph, or over one that the
\* stray write of route_graph_build_done has marked as finished.
THEOREM RoutePathHasGraph == Spec => []PathHasGraph
<1>1. IInv => PathHasGraph
  BY DEF IInv, GraphInv, PathOver, PathHasGraph, Usable
<1> QED BY <1>1, RouteIInv, PTL

\* busy is set exactly while the idle event of a build is registered, unless a write to
\* freed memory has cleared it, which happens to no graph but that of a larger search.
THEOREM RouteBusyUnlessHit == Spec => []BusyUnlessHit
<1>1. IInv => BusyUnlessHit
  BY DEF IInv, GraphInv, Idle, BuildFrame, StrayFrame, BusyUnlessHit
<1> QED BY <1>1, RouteIInv, PTL

-----------------------------------------------------------------------------
(* The second invariant: which destinations the chain of paths leads to.    *)

\* A flood always starts at one of the destinations.
StartInList ==
    /\ destinations # <<>> => current_dst \in Range(destinations)
    /\ graph.exists \/ pc \in {"flood", "done", "return"} => destinations # <<>>

\* While legs are being put together, from the last one back to the position,
\* the chain holds the destinations after current_dst; afterwards it begins
\* with the first one, and current_dst is the first one.
ChainFits ==
    path2 # <<>> =>
        \E k \in DOMAIN destinations :
            /\ current_dst = destinations[k]
            /\ IF link_path
               THEN /\ Len(path2) + k <= Len(destinations)
                    /\ \A i \in DOMAIN path2 : path2[i] = destinations[k + i]
               ELSE /\ k = 1 /\ Len(path2) <= Len(destinations)
                    /\ \A i \in DOMAIN path2 : path2[i] = destinations[i]

\* The graph carries the costs of the last flood's start; under construction it
\* carries none, unless it is taken for finished.
FloodFits ==
    graph.exists /\ pc \in {"ready", "done", "return"} =>
        graph.flood = current_dst \/ (graph.building /\ graph.flood = NoDest)

ChainInv ==
    /\ StartInList /\ ChainFits /\ FloodFits /\ ~importing
    /\ link_path => pc \notin {"ready", "return"}

CInv == IInv /\ ChainInv

\* A command that starts over leaves no path and at most a graph to build.
LEMMA StartRouteStartsOver ==
    ASSUME NEW d, NEW st, StartRoute(d, st)
    PROVE  /\ path2' = <<>> /\ pc' = "ready" /\ link_path' = link_path
           /\ ~graph'.exists \/ (graph' = NewGraph /\ d # <<>>)
           /\ current_dst' = route_get_dst(d)
  BY GraphTypes DEF StartRoute, route_path_update, Ready, Rebuild

\* An update keeps the chain or drops it, and keeps the graph or its flood.
LEMMA UpdateKeepsChain ==
    ASSUME NEW p, NEW d, NEW g, SameBuild(g, graph), NEW cancel \in BOOLEAN, NEW st,
           route_path_update(p, d, g, cancel, st)
    PROVE  /\ path2' = path2 \/ path2' = <<>>
           /\ pc' = "ready" \/ (pc' = "done" /\ d # <<>>)
           /\ SameBuild(graph', graph) \/ (graph' = NewGraph /\ d # <<>>)
<1>1. ~NoGraph.exists
  BY GraphTypes
<1> QED BY <1>1 DEF route_path_update, Ready, Rebuild

LEMMA InitCInv == Init => CInv
  BY InitIInv DEF Init, CInv, ChainInv, StartInList, ChainFits, FloodFits, NoGraph

\* Steps that keep list and start, and the graph or its flood.
LEMMA KeptGraphChain ==
    ASSUME ChainInv, pc = "ready",
           UNCHANGED <<destinations, current_dst, link_path, importing>>,
           path2' = path2 \/ path2' = <<>>,
           pc' = "ready" \/ (pc' = "done" /\ destinations # <<>>),
           SameBuild(graph', graph) \/ (graph' = NewGraph /\ destinations # <<>>)
    PROVE  ChainInv'
<1>1. FloodFits'
  BY GraphTypes DEF ChainInv, FloodFits, SameBuild
<1>2. StartInList'
  BY DEF ChainInv, StartInList, SameBuild
<1>3. ChainFits'
  BY DEF ChainInv, ChainFits
<1> QED BY <1>1, <1>2, <1>3 DEF ChainInv

LEMMA UserCommandChain == CInv /\ UserCommand /\ ~importing' => ChainInv'
<1> SUFFICES ASSUME CInv, UserCommand, ~importing' PROVE ChainInv'
  OBVIOUS
<1>0. TypeOK /\ ChainInv
  BY DEF CInv, IInv
<1>1. ASSUME pc = "ready", NEW d \in DestLists, NEW st, destinations' = d,
             UNCHANGED importing, StartRoute(d, st)
      PROVE  ChainInv'
  <2>1. /\ path2' = <<>> /\ pc' = "ready" /\ link_path' = link_path
        /\ ~graph'.exists \/ (graph' = NewGraph /\ d # <<>>)
        /\ current_dst' = route_get_dst(d)
    BY <1>1, StartRouteStartsOver
  <2>2. d # <<>> => current_dst' \in Range(d)
    BY <2>1, LastDestination
  <2>3. FloodFits'
    BY <2>1, GraphTypes DEF FloodFits
  <2>4. StartInList'
    BY <1>1, <2>1, <2>2 DEF StartInList
  <2> QED BY <1>0, <1>1, <2>1, <2>3, <2>4 DEF ChainInv, ChainFits
<1>2. ASSUME NEW d \in DestLists, SetDestinations(d) PROVE ChainInv'
  BY <1>1, <1>2 DEF SetDestinations
<1>3. ASSUME NEW id \in DestId, AddDestination(id) PROVE ChainInv'
  <2>1. /\ destinations \in DestLists
        /\ Len(destinations) < MaxDest /\ id \notin Range(destinations)
    BY <1>0, <1>3 DEF AddDestination, TypeOK
  <2>2. Append(destinations, id) \in DestLists
    BY <2>1, DestListsAppend
  <2> QED BY <1>1, <1>3, <2>1, <2>2 DEF AddDestination
<1>4. ASSUME NEW cancel \in BOOLEAN, Recalculate(cancel) PROVE ChainInv'
  <2>1. /\ path2' = path2 \/ path2' = <<>>
        /\ pc' = "ready" \/ (pc' = "done" /\ destinations # <<>>)
        /\ SameBuild(graph', graph) \/ (graph' = NewGraph /\ destinations # <<>>)
    BY <1>4, UpdateKeepsChain DEF Recalculate, SameBuild
  <2> QED BY <1>0, <1>4, <2>1, KeptGraphChain DEF Recalculate
<1>5. ASSUME NEW id \in DestId PROVE ~SetNoCalc(id) /\ ~AddNoCalc(id)
  BY <1>0 DEF SetNoCalc, AddNoCalc, ChainInv
<1>6. ~StartCalc
  BY <1>0 DEF StartCalc, ChainInv
<1> QED BY <1>2, <1>3, <1>4, <1>5, <1>6 DEF UserCommand

LEMMA DrivingChain == CInv /\ (PositionUpdate \/ RemoveWaypoint) => ChainInv'
<1> SUFFICES ASSUME CInv, PositionUpdate \/ RemoveWaypoint PROVE ChainInv'
  OBVIOUS
<1>0. TypeOK /\ ChainInv
  BY DEF CInv, IInv
<1>1. ASSUME NEW p, NEW g, SameBuild(g, graph), pc = "ready",
             route_path_update(p, destinations, g, FALSE, route_status),
             UNCHANGED <<destinations, current_dst, link_path, importing>>
      PROVE  ChainInv'
  <2>1. /\ path2' = path2 \/ path2' = <<>>
        /\ pc' = "ready" \/ (pc' = "done" /\ destinations # <<>>)
        /\ SameBuild(graph', graph) \/ (graph' = NewGraph /\ destinations # <<>>)
    BY <1>1, UpdateKeepsChain
  <2> QED BY <1>0, <1>1, <2>1, KeptGraphChain
<1>2. ASSUME NEW p \in PositionKinds, SetPosition(p) \/ SetPositionFromTracking(p)
      PROVE  ChainInv'
  <2>1. SameBuild(Left(graph, p), graph) /\ SameBuild(graph, graph)
    BY <1>0, LeftSame DEF TypeOK, SameBuild
  <2>2. CASE /\ UNCHANGED <<destinations, current_dst, path2, link_path, pc, importing>>
             /\ graph' = graph \/ graph' = Left(graph, p)
    BY <1>0, <1>2, <2>1, <2>2, KeptGraphChain DEF SetPosition, SetPositionFromTracking
  <2> QED BY <1>1, <1>2, <2>1, <2>2 DEF SetPosition, SetPositionFromTracking
<1>3. CASE RemoveWaypoint
  <2>1. /\ destinations \in DestLists /\ destinations # <<>> /\ Len(destinations) > 1
        /\ path2 \in Seq(DestId) /\ path2 # <<>> /\ ~link_path
    BY <1>0, <1>3 DEF RemoveWaypoint, TypeOK, ChainInv
  <2>2. /\ destinations' \in DestLists /\ Len(destinations') = Len(destinations) - 1
        /\ \A i \in DOMAIN destinations' : destinations'[i] = destinations[i + 1]
    BY <1>3, <2>1, DestListsTail DEF RemoveWaypoint
  <2>3. destinations' \in Seq(DestId) /\ destinations \in Seq(DestId)
    BY <2>1, <2>2, DestListsMember
  <2>4. /\ destinations' # <<>> /\ 1 \in DOMAIN destinations'
        /\ current_dst' = destinations'[1]
    <3>1. 1 \in DOMAIN destinations' /\ destinations' # <<>>
      BY <2>1, <2>2, <2>3
    <3> QED BY <1>3, <3>1 DEF RemoveWaypoint
  <2>5. /\ Len(path2) <= Len(destinations)
        /\ \A i \in DOMAIN path2 : path2[i] = destinations[i]
    BY <1>0, <2>1 DEF ChainInv, ChainFits
  <2>6. /\ path2' \in Seq(DestId) /\ Len(path2') <= Len(destinations')
        /\ \A i \in DOMAIN path2' : path2'[i] = destinations'[i]
    BY <1>3, <2>1, <2>2, <2>3, <2>5 DEF RemoveWaypoint
  <2>7. StartInList'
    BY <2>4 DEF StartInList, Range
  <2>8. ChainFits' /\ FloodFits' /\ ~importing' /\ ~link_path'
    BY <1>0, <1>3, <2>1, <2>4, <2>6 DEF RemoveWaypoint, ChainFits, FloodFits, ChainInv
  <2> QED BY <2>7, <2>8 DEF ChainInv
<1> QED BY <1>2, <1>3 DEF PositionUpdate

LEMMA BuildChain == CInv /\ Build => ChainInv'
<1> SUFFICES ASSUME CInv, Build PROVE ChainInv'
  OBVIOUS
<1>0. TypeOK /\ ChainInv /\ GraphInv
  BY DEF CInv, IInv
<1>1. CASE BuildSlice
  <2>1. SameBuild(graph', graph)
    BY <1>0, <1>1 DEF BuildSlice, TypeOK, Graph, SameBuild
  <2> QED BY <1>0, <1>1, <2>1, KeptGraphChain DEF BuildSlice
<1>2. CASE BuildDone
  <2>1. graph'.exists = graph.exists /\ graph.exists
    BY <1>0, <1>2 DEF BuildDone, TypeOK, Graph, GraphInv, BuildFrame
  <2> QED BY <1>0, <1>2, <2>1 DEF BuildDone, ChainInv, StartInList, ChainFits, FloodFits
<1> QED BY <1>1, <1>2 DEF Build

\* The head of the chain that DoneLink or DonePath makes is destinations[k].
LEMMA NewChainFits ==
    ASSUME CInv, pc = "done", NEW k \in DOMAIN destinations, current_dst = destinations[k]
    PROVE  /\ NewChain \in Seq(DestId)
           /\ (link_path \/ path2 = <<>> \/ k = 1) =>
                 /\ Len(NewChain) + k <= Len(destinations) + 1
                 /\ \A i \in DOMAIN NewChain : NewChain[i] = destinations[k + i - 1]
           /\ path2 # <<>> /\ ~link_path => k = 1
<1>1. /\ destinations \in Seq(DestId) /\ path2 \in Seq(DestId)
      /\ \A i, j \in DOMAIN destinations : destinations[i] = destinations[j] => i = j
  BY DestListsMember DEF CInv, IInv, TypeOK
<1>2. ChainFits
  BY DEF CInv, ChainInv
<1>3. k \in 1 .. Len(destinations) /\ current_dst \in DestId
  BY <1>1
<1>4. CASE path2 = <<>>
  <2>1. NewChain = <<current_dst>>
    BY <1>4 DEF NewChain
  <2> QED BY <1>1, <1>3, <1>4, <2>1
<1>5. CASE path2 # <<>> /\ link_path
  <2>1. NewChain = <<current_dst>> \o path2
    BY <1>5 DEF NewChain
  <2>2. PICK l \in DOMAIN destinations :
          /\ current_dst = destinations[l]
          /\ Len(path2) + l <= Len(destinations)
          /\ \A i \in DOMAIN path2 : path2[i] = destinations[l + i]
    BY <1>2, <1>5 DEF ChainFits
  <2>3. l = k
    BY <1>1, <2>2
  <2>4. NewChain \in Seq(DestId) /\ Len(NewChain) = Len(path2) + 1
    BY <1>1, <1>3, <2>1
  <2>5. ASSUME NEW i \in DOMAIN NewChain PROVE NewChain[i] = destinations[k + i - 1]
    <3>1. CASE i = 1
      BY <1>1, <1>3, <2>1, <3>1
    <3>2. CASE i # 1
      <4>1. i - 1 \in DOMAIN path2 /\ NewChain[i] = path2[i - 1]
        BY <1>1, <1>3, <2>1, <2>4, <3>2
      <4>2. k + (i - 1) = k + i - 1
        BY <1>3, <2>4
      <4> QED BY <2>2, <2>3, <4>1, <4>2
    <3> QED BY <3>1, <3>2
  <2>6. Len(NewChain) + k <= Len(destinations) + 1
    BY <1>1, <1>3, <2>2, <2>3, <2>4
  <2> QED BY <1>5, <2>4, <2>5, <2>6
<1>6. CASE path2 # <<>> /\ ~link_path
  <2>1. NewChain = <<current_dst>> \o Tail(path2)
    BY <1>6 DEF NewChain
  <2>2. PICK l \in DOMAIN destinations :
          /\ current_dst = destinations[l] /\ l = 1
          /\ Len(path2) <= Len(destinations)
          /\ \A i \in DOMAIN path2 : path2[i] = destinations[i]
    BY <1>2, <1>6 DEF ChainFits
  <2>3. l = k /\ k = 1
    BY <1>1, <2>2
  <2>4. NewChain \in Seq(DestId) /\ Len(NewChain) = Len(path2)
    BY <1>1, <1>3, <1>6, <2>1
  <2>5. ASSUME NEW i \in DOMAIN NewChain PROVE NewChain[i] = destinations[i]
    <3>1. CASE i = 1
      BY <1>1, <1>3, <2>1, <2>3, <3>1
    <3>2. CASE i # 1
      BY <1>1, <1>3, <1>6, <2>1, <2>2, <2>4, <3>2
    <3> QED BY <3>1, <3>2
  <2>6. \A i \in DOMAIN NewChain : k + i - 1 = i
    BY <2>3, <2>4
  <2> QED BY <1>1, <2>2, <2>3, <2>4, <2>5, <2>6
<1> QED BY <1>4, <1>5, <1>6

LEMMA HandlerChain == CInv /\ Handler => ChainInv'
<1> SUFFICES ASSUME CInv, Handler PROVE ChainInv'
  OBVIOUS
<1>0. TypeOK /\ ChainInv /\ GraphInv
  BY DEF CInv, IInv
<1>a. destinations \in DestLists /\ destinations \in Seq(DestId)
  BY <1>0, DestListsMember DEF TypeOK
<1>b. pc \in {"done", "return"} =>
          destinations # <<>> /\ \E k \in DOMAIN destinations : current_dst = destinations[k]
  BY <1>0 DEF ChainInv, StartInList, Range
<1>1. CASE Flood
  <2>1. graph'.exists = graph.exists
    BY <1>0, <1>1 DEF Flood, TypeOK, Graph
  <2>2. pc' = "done" => graph'.flood = current_dst
    BY <1>0, <1>1 DEF Flood, TypeOK, Graph
  <2> QED BY <1>0, <1>1, <2>1, <2>2 DEF Flood, ChainInv, StartInList, ChainFits, FloodFits
<1>2. CASE DoneLink
  <2>1. PICK k \in DOMAIN destinations : current_dst = destinations[k]
    BY <1>2, <1>b DEF DoneLink
  <2>2. /\ k # 1 /\ k - 1 \in DOMAIN destinations
        /\ current_dst' = destinations[k - 1]
    BY <1>0, <1>2, <2>1, PreviousDestination DEF DoneLink, TypeOK
  <2>3. link_path \/ path2 = <<>>
    BY <1>2, <2>1, <2>2, NewChainFits DEF DoneLink
  <2>4. /\ path2' \in Seq(DestId) /\ Len(path2') + k <= Len(destinations) + 1
        /\ \A i \in DOMAIN path2' : path2'[i] = destinations[k + i - 1]
    BY <1>2, <2>1, <2>3, NewChainFits DEF DoneLink
  <2>5. /\ Len(path2') + (k - 1) <= Len(destinations)
        /\ \A i \in DOMAIN path2' : path2'[i] = destinations[(k - 1) + i]
    <3>1. k \in Nat /\ Len(path2') \in Nat /\ Len(destinations) \in Nat
          /\ DOMAIN path2' = 1 .. Len(path2')
      BY <1>a, <2>1, <2>4
    <3>2. \A i \in DOMAIN path2' : k + i - 1 = (k - 1) + i
      BY <3>1
    <3>3. Len(path2') + (k - 1) <= Len(destinations)
      BY <2>4, <3>1
    <3> QED BY <2>4, <3>2, <3>3
  <2>6. destinations' = destinations /\ link_path' /\ pc' = "flood" /\ ~importing'
    BY <1>0, <1>2 DEF DoneLink, ChainInv
  <2>7. ChainFits'
    BY <2>2, <2>5, <2>6 DEF ChainFits
  <2>8. StartInList'
    BY <1>2, <1>b, <2>2, <2>6 DEF DoneLink, StartInList, Range
  <2> QED BY <2>6, <2>7, <2>8 DEF ChainInv, FloodFits
<1>3. CASE DonePath
  <2>1. PICK k \in DOMAIN destinations : current_dst = destinations[k]
    BY <1>3, <1>b DEF DonePath
  <2>2. k = 1
    BY <1>0, <1>3, <2>1, PreviousDestination DEF DonePath, TypeOK
  <2>3. /\ path2' \in Seq(DestId) /\ Len(path2') + k <= Len(destinations) + 1
        /\ \A i \in DOMAIN path2' : path2'[i] = destinations[k + i - 1]
    BY <1>3, <2>1, <2>2, NewChainFits DEF DonePath
  <2>4. /\ Len(path2') <= Len(destinations)
        /\ \A i \in DOMAIN path2' : path2'[i] = destinations[i]
    <3>1. /\ Len(path2') \in Nat /\ Len(destinations) \in Nat
          /\ DOMAIN path2' = 1 .. Len(path2')
      BY <1>a, <2>3
    <3>2. \A i \in DOMAIN path2' : k + i - 1 = i
      BY <2>2, <3>1
    <3>3. Len(path2') <= Len(destinations)
      BY <2>2, <2>3, <3>1
    <3> QED BY <2>3, <3>2, <3>3
  <2>5. /\ UNCHANGED <<destinations, current_dst, graph, importing>>
        /\ pc' = "return" /\ ~link_path'
    BY <1>3 DEF DonePath
  <2>6. ChainFits'
    BY <2>1, <2>2, <2>4, <2>5 DEF ChainFits
  <2> QED BY <1>0, <1>3, <2>5, <2>6 DEF DonePath, ChainInv, StartInList, FloodFits
<1>4. CASE DoneHarder
  <2>1. graph' = NewGraph /\ destinations # <<>>
    BY <1>4, <1>b DEF DoneHarder
  <2>2. graph'.building /\ graph'.flood = NoDest
    BY <2>1, GraphTypes
  <2> QED BY <1>0, <1>4, <2>1, <2>2 DEF DoneHarder, ChainInv, StartInList, ChainFits,
         FloodFits
<1>5. CASE DoneNotFound
  BY <1>0, <1>5 DEF DoneNotFound, ChainInv, StartInList, ChainFits, FloodFits
<1>6. CASE Return
  <2>1. /\ UNCHANGED <<destinations, current_dst, link_path, importing>>
        /\ pc = "return" /\ pc' = "ready" /\ destinations # <<>>
    BY <1>6, <1>b DEF Return, Ready
  <2>2. CASE Rebuild
    <3>1. path2' = <<>> /\ graph'.building /\ graph'.flood = NoDest
      BY <2>2, GraphTypes DEF Rebuild
    <3> QED BY <1>0, <2>1, <3>1 DEF ChainInv, StartInList, ChainFits, FloodFits
  <2>3. CASE graph' \in {graph, NotBusy(graph), Hit(graph)} /\ UNCHANGED path2
    <3>1. /\ graph'.exists = graph.exists /\ graph'.building = graph.building
          /\ graph'.flood = graph.flood
      BY <1>0, <2>3 DEF NotBusy, Hit, TypeOK, Graph
    <3> QED BY <1>0, <2>1, <2>3, <3>1 DEF ChainInv, StartInList, ChainFits, FloodFits
  <2> QED BY <1>6, <2>2, <2>3 DEF Return
<1> QED BY <1>1, <1>2, <1>3, <1>4, <1>5, <1>6 DEF Handler

\* The second invariant may fail while a list is imported; no path is being put
\* together between two handlers, then or otherwise.
LinkIdle == link_path => pc \notin {"ready", "return"}

WInv == IInv /\ LinkIdle /\ (importing \/ ChainInv)

LEMMA LinkIdleKept == LinkIdle /\ [Next]_vars => LinkIdle'
<1> SUFFICES ASSUME LinkIdle, [Next]_vars PROVE LinkIdle'
  OBVIOUS
<1> USE DEF LinkIdle
<1>1. CASE UserCommand
  <2>1. pc = "ready" /\ link_path' = link_path
    BY <1>1 DEF UserCommand, SetDestinations, AddDestination, SetNoCalc, AddNoCalc, NoCalc,
       Recalculate, StartCalc, StartRoute
  <2> QED BY <2>1
<1>2. CASE PositionUpdate
  <2>1. pc = "ready" /\ link_path' = link_path
    BY <1>2 DEF PositionUpdate, SetPosition, SetPositionFromTracking
  <2> QED BY <2>1
<1>3. CASE RemoveWaypoint
  BY <1>3 DEF RemoveWaypoint
<1>4. CASE Build
  BY <1>4 DEF Build, BuildSlice, BuildDone
<1>5. CASE Handler
  BY <1>5 DEF Handler, Flood, DoneLink, DonePath, DoneHarder, DoneNotFound, Return, Ready
<1>6. CASE UNCHANGED vars
  BY <1>6 DEF vars
<1> QED BY <1>1, <1>2, <1>3, <1>4, <1>5, <1>6 DEF Next

\* The last message of an import throws away graph and path.
LEMMA StartCalcChain == TypeOK /\ LinkIdle /\ StartCalc => ChainInv'
<1> SUFFICES ASSUME TypeOK, LinkIdle, StartCalc PROVE ChainInv'
  OBVIOUS
<1>1. PICK st : StartRoute(destinations, st)
  BY DEF StartCalc
<1>2. /\ path2' = <<>> /\ pc' = "ready" /\ link_path' = link_path
      /\ ~graph'.exists \/ (graph' = NewGraph /\ destinations # <<>>)
      /\ current_dst' = route_get_dst(destinations)
  BY <1>1, StartRouteStartsOver
<1>3. destinations # <<>> => current_dst' \in Range(destinations)
  BY <1>2, LastDestination DEF TypeOK
<1>4. ~link_path /\ ~importing' /\ destinations' = destinations
  BY DEF StartCalc, LinkIdle
<1>5. FloodFits'
  BY <1>2, GraphTypes DEF FloodFits
<1> QED BY <1>2, <1>3, <1>4, <1>5 DEF ChainInv, StartInList, ChainFits

\* Both invariants together.
THEOREM RouteWInv == Spec => []WInv
<1>1. ASSUME WInv, [Next]_vars PROVE WInv'
  <2>1. IInv'
    <3>1. CASE UNCHANGED vars
      BY <1>1, <3>1 DEF vars, WInv, IInv, TypeOK, GraphInv, Idle, BuildFrame, StrayFrame, Usable, Flooding,
         StartKnown, PathOver
    <3> QED BY <1>1, <3>1, UserCommandIInv, DrivingIInv, BuildIInv, HandlerIInv
         DEF Next, WInv
  <2>2. LinkIdle'
    BY <1>1, LinkIdleKept DEF WInv
  <2>3. ASSUME ~importing, ~importing' PROVE ChainInv'
    <3>1. CInv
      BY <1>1, <2>3 DEF WInv, CInv
    <3>2. CASE UNCHANGED vars
      BY <3>1, <3>2 DEF vars, CInv, ChainInv, StartInList, ChainFits, FloodFits
    <3> QED BY <1>1, <2>3, <3>1, <3>2, UserCommandChain, DrivingChain, BuildChain,
         HandlerChain DEF Next
  <2>4. ASSUME importing, ~importing' PROVE ChainInv'
    <3>1. StartCalc
      BY <1>1, <2>4 DEF Next, UserCommand, SetDestinations, AddDestination, SetNoCalc,
         AddNoCalc, Recalculate, PositionUpdate, SetPosition, SetPositionFromTracking,
         RemoveWaypoint, Build, BuildSlice, BuildDone, Handler, Flood, DoneLink, DonePath,
         DoneHarder, DoneNotFound, Return, vars
    <3> QED BY <1>1, <3>1, StartCalcChain DEF WInv, IInv
  <2> QED BY <2>1, <2>2, <2>3, <2>4 DEF WInv
<1>2. Init => WInv
  BY InitCInv DEF Init, CInv, WInv, LinkIdle
<1> QED BY <1>1, <1>2, PTL DEF Spec

\* The chain of paths leads to the next destinations in their order: no leg to
\* a destination reached, removed or freed, and none skipped, when no import
\* goes on.
THEOREM RoutePathLeadsToNext == Spec => []PathLeadsToNext
<1>1. WInv => PathLeadsToNext
  <2> SUFFICES ASSUME WInv, pc = "ready", ~importing
               PROVE  /\ Len(path2) <= Len(destinations)
                      /\ \A i \in DOMAIN path2 : path2[i] = destinations[i]
    BY DEF PathLeadsToNext
  <2>1. ~link_path /\ ChainFits
    BY DEF WInv, ChainInv
  <2>2. CASE path2 = <<>>
    <3>1. destinations \in Seq(DestId)
      BY DestListsMember DEF WInv, IInv, TypeOK
    <3> QED BY <2>2, <3>1
  <2>3. CASE path2 # <<>>
    BY <2>1, <2>3 DEF ChainFits
  <2> QED BY <2>2, <2>3
<1> QED BY <1>1, RouteWInv, PTL

\* The graph a position update extracts a path from carries the costs of a
\* destination that is still in the list, when no import goes on.
THEOREM RouteGraphServesDst == Spec => []GraphServesDst
<1>1. WInv => GraphServesDst
  BY DEF WInv, IInv, GraphInv, BuildFrame, Idle, ChainInv, FloodFits, StartInList,
     GraphServesDst, GraphFitsList
<1> QED BY <1>1, RouteWInv, PTL

-----------------------------------------------------------------------------
(* The third inductive invariant: the status.                               *)

Building == {"building_graph", "building_path"}

\* A graph under construction is what "building" says, without a path there is none that
\* is done, and without a graph there is nothing to route. As the chain, it may fail during an
\* import.
StatusInv ==
    pc \in {"ready", "return"} =>
        IF graph.exists
        THEN /\ route_status \in Building => graph.building
             /\ graph.building => route_status \in Building \/ graph.hit
             /\ route_status \in Done /\ pos # "none" /\ destinations # <<>> => path2 # <<>>
             /\ route_status = "not_found" => path2 = <<>>
        ELSE destinations = <<>> \/ pos = "none"

LEMMA RebuildStatus == Rebuild => StatusInv'
  BY GraphTypes DEF Rebuild, StatusInv, Building, Done

\* A command that starts over begins a build when there is something to route.
LEMMA StartRouteStatus ==
    ASSUME NEW d, NEW st, destinations' = d, StartRoute(d, st)
    PROVE  StatusInv'
<1>1. pos' = pos /\ route_path_update(pos, d, NoGraph, TRUE, st)
  BY DEF StartRoute
<1>2. CASE graph' = NoGraph /\ (pos = "none" \/ d = <<>>)
  BY <1>1, <1>2, GraphTypes DEF StatusInv
<1>3. CASE Rebuild
  BY <1>3, RebuildStatus
<1> QED BY <1>1, <1>2, <1>3, GraphTypes DEF route_path_update

\* An update begins a build, looks for a path, or keeps the status of what there is.
LEMMA UpdateStatus ==
    ASSUME IInv, StatusInv, pc = "ready", NEW cancel \in BOOLEAN,
           NEW g, SameBuild(g, graph), UNCHANGED destinations,
           route_path_update(pos', destinations, g, cancel, route_status)
    PROVE  StatusInv'
<1>1. graph.busy <=> graph.building /\ ~graph.hit
  BY DEF IInv, GraphInv, Idle, BuildFrame
<1>2. CASE (pos' = "none" \/ destinations = <<>>) /\ path2' = <<>> /\ graph' = g /\ UNCHANGED route_status
  BY <1>2 DEF StatusInv, SameBuild
<1>3. CASE Rebuild
  BY <1>3, RebuildStatus
<1>4. CASE g.exists /\ g.busy /\ graph' = g /\ UNCHANGED <<path2, route_status>>
  BY <1>1, <1>4 DEF StatusInv, Building, Done, SameBuild
<1>5. CASE pc' = "done"
  BY <1>5 DEF StatusInv
<1> QED BY <1>2, <1>3, <1>4, <1>5, GraphTypes DEF route_path_update, Busy

LEMMA UserCommandStatus == IInv /\ StatusInv /\ UserCommand /\ ~importing /\ ~importing' => StatusInv'
<1> SUFFICES ASSUME IInv, StatusInv, UserCommand, ~importing, ~importing' PROVE StatusInv'
  OBVIOUS
<1>1. ASSUME NEW d \in DestLists, SetDestinations(d) PROVE StatusInv'
  BY <1>1, StartRouteStatus DEF SetDestinations
<1>2. ASSUME NEW id \in DestId, AddDestination(id) PROVE StatusInv'
  BY <1>2, StartRouteStatus DEF AddDestination
<1>3. ASSUME NEW cancel \in BOOLEAN, Recalculate(cancel) PROVE StatusInv'
  <2>1. route_path_update(pos', destinations, graph, cancel, route_status)
    BY <1>3 DEF Recalculate
  <2> QED BY <1>3, <2>1, UpdateStatus DEF Recalculate, SameBuild
<1>4. ASSUME NEW id \in DestId PROVE ~SetNoCalc(id) /\ ~AddNoCalc(id)
  BY DEF SetNoCalc, AddNoCalc
<1>5. ~StartCalc
  BY DEF StartCalc
<1> QED BY <1>1, <1>2, <1>3, <1>4, <1>5 DEF UserCommand

LEMMA DrivingStatus == IInv /\ StatusInv /\ (PositionUpdate \/ RemoveWaypoint) => StatusInv'
<1> SUFFICES ASSUME IInv, StatusInv, PositionUpdate \/ RemoveWaypoint PROVE StatusInv'
  OBVIOUS
<1>1. ASSUME NEW p \in PositionKinds, SetPosition(p) \/ SetPositionFromTracking(p)
      PROVE  StatusInv'
  <2>0. SameBuild(Left(graph, p), graph) /\ SameBuild(graph, graph)
    BY LeftSame DEF IInv, TypeOK, SameBuild
  <2>1. CASE /\ pc = "ready" /\ (pos' = "none" \/ destinations = <<>>)
             /\ UNCHANGED <<destinations, path2, route_status, pc>>
             /\ graph' = graph \/ graph' = Left(graph, p)
    BY <2>0, <2>1 DEF StatusInv, SameBuild
  <2>2. CASE /\ pc = "ready" /\ UNCHANGED destinations
             /\ route_path_update(pos', destinations, Left(graph, p), FALSE, route_status)
    BY <2>0, <2>2, UpdateStatus
  <2>3. pos' = Place(p) /\ (p \in {"street", "far"} => pos' = "street") /\ (p = "none" => pos' = "none")
    BY <1>1 DEF SetPosition, SetPositionFromTracking, Place
  <2> QED BY <1>1, <2>1, <2>2, <2>3 DEF SetPosition, SetPositionFromTracking
<1>2. CASE RemoveWaypoint
  BY <1>2 DEF RemoveWaypoint, StatusInv
<1> QED BY <1>1, <1>2 DEF PositionUpdate

LEMMA BuildStatus == IInv /\ StatusInv /\ Build => StatusInv'
<1> SUFFICES ASSUME IInv, StatusInv, Build PROVE StatusInv'
  OBVIOUS
<1>1. CASE BuildSlice
  <2>1. graph'.exists = graph.exists /\ graph'.building = graph.building
    BY <1>1 DEF BuildSlice, IInv, TypeOK, Graph
  <2>2. graph'.hit = graph.hit
    BY <1>1 DEF BuildSlice, IInv, TypeOK, Graph
  <2> QED BY <1>1, <2>1, <2>2 DEF BuildSlice, StatusInv
<1>2. CASE BuildDone
  BY <1>2 DEF BuildDone, StatusInv
<1> QED BY <1>1, <1>2 DEF Build

LEMMA HandlerStatus == IInv /\ StatusInv /\ Handler => StatusInv'
<1> SUFFICES ASSUME IInv, StatusInv, Handler PROVE StatusInv'
  OBVIOUS
<1>1. pc = "done" => graph.exists /\ (graph.building => graph.hit)
  BY DEF IInv, GraphInv, Flooding, Usable
<1>2. CASE Flood
  BY <1>2 DEF Flood, StatusInv
<1>3. CASE DoneLink
  BY <1>3 DEF DoneLink, StatusInv
<1>4. CASE DonePath
  <2>1. path2' # <<>>
    <3>1. path2' = NewChain /\ path2 \in Seq(DestId)
      BY <1>4 DEF DonePath, IInv, TypeOK
    <3>2. CASE current_dst \in DestId
      BY <3>1, <3>2 DEF NewChain
    <3>3. current_dst \in DestId
      BY <1>4 DEF DonePath, IInv, GraphInv, StartKnown, TypeOK
    <3> QED BY <3>2, <3>3
  <2> QED BY <1>1, <1>4, <2>1 DEF DonePath, StatusInv, Building, Done
<1>5. CASE DoneHarder
  BY <1>5, GraphTypes DEF DoneHarder, StatusInv, Building, Done
<1>6. CASE DoneNotFound
  BY <1>1, <1>6 DEF DoneNotFound, StatusInv, Building, Done
<1>7. CASE Return
  <2>1. CASE Rebuild
    BY <2>1, RebuildStatus
  <2>2. CASE UNCHANGED <<graph, path2, route_status>>
    BY <1>7, <2>2 DEF Return, StatusInv
  <2>3. CASE frame = "build" /\ graph' = NotBusy(graph) /\ UNCHANGED <<path2, route_status>>
    <3>1. /\ graph'.exists = graph.exists /\ graph'.building = graph.building
          /\ graph'.hit = graph.hit
      BY <2>3 DEF NotBusy, IInv, TypeOK, Graph
    <3> QED BY <1>7, <2>3, <3>1 DEF Return, StatusInv
  <2>4. CASE graph' = Hit(graph) /\ UNCHANGED <<path2, route_status>>
    <3>1. /\ graph'.exists = graph.exists /\ graph'.building = graph.building
          /\ graph'.hit
      BY <2>4 DEF NotBusy, Hit, IInv, TypeOK, Graph
    <3> QED BY <1>7, <2>4, <3>1 DEF Return, StatusInv
  <2> QED BY <1>7, <2>1, <2>2, <2>3, <2>4 DEF Return
<1> QED BY <1>2, <1>3, <1>4, <1>5, <1>6, <1>7 DEF Handler

\* The status the user is shown is true of path and graph, whatever commands come in
\* while a graph is built, also after the last message of an import.
THEOREM RouteStatusHonest == Spec => []StatusHonest
<1> DEFINE Inv == importing \/ StatusInv
<1>1. IInv /\ Inv /\ [Next]_vars => Inv'
  <2> SUFFICES ASSUME IInv, Inv, [Next]_vars, ~importing' PROVE StatusInv'
    OBVIOUS
  <2>1. CASE importing
    <3>1. PICK st : StartRoute(destinations, st) /\ destinations' = destinations
      BY <2>1 DEF Next, UserCommand, SetDestinations, AddDestination, SetNoCalc, StartCalc,
         AddNoCalc, Recalculate, PositionUpdate, SetPosition, SetPositionFromTracking,
         RemoveWaypoint, Build, BuildSlice, BuildDone, Handler, Flood, DoneLink, DonePath,
         DoneHarder, DoneNotFound, Return, vars
    <3> QED BY <3>1, StartRouteStatus
  <2>2. CASE ~importing
    <3>1. CASE UNCHANGED vars
      BY <2>2, <3>1 DEF vars, StatusInv
    <3> QED BY <2>2, <3>1, UserCommandStatus, DrivingStatus, BuildStatus, HandlerStatus DEF Next
  <2> QED BY <2>1, <2>2
<1>2. Init => Inv
  BY GraphTypes DEF Init, StatusInv
<1>3. IInv /\ Inv => StatusHonest
  <2> SUFFICES ASSUME StatusInv, pc = "ready", destinations # <<>>, pos # "none"
               PROVE  /\ route_status \in Done => path2 # <<>>
                      /\ route_status = "not_found" => path2 = <<>>
                      /\ route_status \in {"building_graph", "building_path"} => graph.building
    BY DEF StatusHonest
  <2> QED BY DEF StatusInv, Building
<1> QED BY <1>1, <1>2, <1>3, RouteIInv, PTL DEF Spec

=============================================================================

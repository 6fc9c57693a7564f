------------------------- MODULE RouteHistoryProofs -------------------------
(* What a flood reads, for any destinations and bounds: the position, its    *)
(* segment and the destination are there while nobody took the position off  *)
(* the streets of the graph or imported a list, and no freed block was hit.  *)
EXTENDS MCRouteHistory, RouteUpdateProofs

\* There is only a graph, or a handler at work, when the position is on a street.
EndsInv ==
    /\ pc # "crashed" /\ pos \in {"none", "street"} /\ graph.covers /\ ~graph.hit
    /\ graph.exists \/ pc \in {"flood", "done", "return"} => pos = "street"

HInv == IInv /\ (strayed \/ (ChainInv /\ EndsInv))

\* route_path_update begins a build, or goes on to a path, only for a position.
LEMMA UpdateEnds ==
    ASSUME EndsInv, NEW d, NEW cancel \in BOOLEAN, NEW st,
           NEW g, g = NoGraph \/ SameBuild(g, graph),
           pos' \in {"none", "street"}, pos = "street" => pos' = "street",
           graph'.covers, ~graph'.hit,
           route_path_update(pos', d, g, cancel, st)
    PROVE  EndsInv'
  BY GraphTypes DEF route_path_update, Ready, Rebuild, EndsInv, SameBuild

\* No step takes one of the ends away.
LEMMA EndsNext ==
    ASSUME IInv, ChainInv, EndsInv, [Next]_vars, ~importing', pos' \in {pos, "street"},
           graph'.covers, ~graph'.hit
    PROVE  EndsInv'
<1>0. pos' \in {"none", "street"} /\ (pos = "street" => pos' = "street") /\ ~importing
  BY DEF EndsInv, ChainInv
<1>1. CASE UserCommand
  <2>1. ASSUME NEW d, NEW st, StartRoute(d, st) PROVE EndsInv'
    <3>1. route_path_update(pos', d, NoGraph, TRUE, st)
      BY <2>1 DEF StartRoute
    <3> QED BY <1>0, <3>1, UpdateEnds
  <2>2. ASSUME NEW cancel \in BOOLEAN, Recalculate(cancel) PROVE EndsInv'
    <3>1. route_path_update(pos', destinations, graph, cancel, route_status)
      BY <2>2 DEF Recalculate
    <3> QED BY <1>0, <3>1, UpdateEnds DEF SameBuild
  <2>3. ASSUME NEW id \in DestId PROVE ~SetNoCalc(id) /\ ~AddNoCalc(id)
    BY <1>0 DEF SetNoCalc, AddNoCalc
  <2>4. ASSUME NEW d \in DestLists, SetDestinations(d) PROVE EndsInv'
    BY <2>1, <2>4 DEF SetDestinations
  <2>5. ASSUME NEW id \in DestId, AddDestination(id) PROVE EndsInv'
    BY <2>1, <2>5 DEF AddDestination
  <2>6. ~StartCalc
    BY <1>0 DEF StartCalc
  <2> QED BY <1>1, <2>2, <2>3, <2>4, <2>5, <2>6 DEF UserCommand
<1>2. CASE PositionUpdate
  <2> SUFFICES ASSUME NEW p \in PositionKinds, SetPosition(p) \/ SetPositionFromTracking(p)
               PROVE  EndsInv'
    BY <1>2 DEF PositionUpdate
  <2>0. SameBuild(Left(graph, p), graph) /\ SameBuild(graph, graph)
    BY LeftSame DEF IInv, TypeOK, SameBuild
  <2>1. CASE pc' = pc /\ (graph' = graph \/ graph' = Left(graph, p))
    BY <1>0, <2>0, <2>1 DEF EndsInv, SameBuild
  <2>2. CASE route_path_update(pos', destinations, Left(graph, p), FALSE, route_status)
    BY <1>0, <2>0, <2>2, UpdateEnds
  <2>3. pos' = Place(p) /\ (p \in {"street", "far"} => pos' = "street")
    BY DEF SetPosition, SetPositionFromTracking, Place
  <2> QED BY <2>1, <2>2, <2>3 DEF SetPosition, SetPositionFromTracking
<1>3. CASE RemoveWaypoint
  BY <1>3 DEF RemoveWaypoint, EndsInv
<1>4. CASE Build
  <2>1. graph.exists /\ pos' = pos
    BY <1>4 DEF Build, BuildSlice, BuildDone, IInv, GraphInv, BuildFrame
  <2> QED BY <1>4, <2>1 DEF Build, BuildSlice, BuildDone, EndsInv
<1>5. CASE Flood
  <2>1. current_dst # NoDest
    <3>1. current_dst \in Range(destinations) /\ destinations \in DestLists
      BY <1>5 DEF Flood, ChainInv, StartInList, IInv, TypeOK
    <3> QED BY <3>1, DestListsMember, DestAssumption DEF Range
  <2>2. ~graph.building
    BY <1>5 DEF Flood, EndsInv, IInv, GraphInv, Flooding, Usable
  <2> QED BY <1>5, <2>1, <2>2 DEF Flood, EndsInv
<1>6. CASE DoneLink \/ DonePath \/ DoneHarder \/ DoneNotFound \/ Return
  <2>1. pos = "street" /\ pos' = pos /\ pc' # "crashed"
    BY <1>6 DEF DoneLink, DonePath, DoneHarder, DoneNotFound, Return, Ready, EndsInv
  <2> QED BY <2>1 DEF EndsInv
<1>7. CASE UNCHANGED vars
  BY <1>7 DEF vars, EndsInv
<1> QED BY <1>1, <1>2, <1>3, <1>4, <1>5, <1>6, <1>7 DEF Next, Handler

\* Position, its segment in the graph and destination of a flood exist, although
\* route_graph_flood and the calls that lead to it test none of them, while the position
\* has stayed on the streets of the graph, nothing was imported and no stray write has
\* cleared the busy flag of a graph.
THEOREM RouteFloodHasBothEnds == HistorySpec => []FloodHasBothEnds
<1>1. ASSUME HInv, [HistoryNext]_historyVars PROVE HInv'
  <2>1. [Next]_vars
    BY <1>1 DEF HistoryNext, historyVars
  <2>2. IInv'
    <3>1. CASE UNCHANGED vars
      BY <1>1, <3>1 DEF vars, HInv, IInv, TypeOK, GraphInv, Idle, BuildFrame, StrayFrame,
         Flooding, Usable,
         StartKnown, PathOver
    <3> QED BY <1>1, <2>1, <3>1, UserCommandIInv, DrivingIInv, BuildIInv, HandlerIInv
         DEF Next, HInv
  <2>3. ASSUME ~strayed' PROVE ChainInv' /\ EndsInv'
    <3>1. ~strayed /\ (~Strays \/ UNCHANGED vars)
      <4>1. CASE HistoryNext
        <5>1. ~ (strayed \/ Strays)
          BY <2>3, <4>1, Zenon DEF HistoryNext
        <5> QED BY <5>1
      <4>2. CASE UNCHANGED historyVars
        BY <2>3, <4>2 DEF historyVars
      <4> QED BY <1>1, <4>1, <4>2
    <3>2. IInv /\ ChainInv /\ EndsInv
      BY <1>1, <3>1, Zenon DEF HInv
    <3>4. ~importing' /\ pos' \in {pos, "street"} /\ graph'.covers /\ ~graph'.hit
      BY <3>1, <3>2 DEF vars, Strays, ChainInv, EndsInv
    <3>3. ChainInv'
      <4>1. CASE UNCHANGED vars
        BY <3>2, <4>1 DEF vars, ChainInv, StartInList, ChainFits, FloodFits
      <4> QED BY <2>1, <3>2, <3>4, <4>1, UserCommandChain, DrivingChain, BuildChain,
           HandlerChain DEF Next, CInv
    <3> QED BY <2>1, <3>2, <3>3, <3>4, EndsNext
  <2> QED BY <2>2, <2>3 DEF HInv
<1>2. HistoryInit => HInv
  <2> SUFFICES ASSUME HistoryInit PROVE HInv
    OBVIOUS
  <2>1. CInv
    BY InitCInv DEF HistoryInit
  <2> QED BY <2>1, GraphTypes DEF HistoryInit, Init, CInv, HInv, EndsInv
<1>3. HInv => FloodHasBothEnds
  BY DEF HInv, EndsInv, FloodHasBothEnds
<1> QED BY <1>1, <1>2, <1>3, PTL DEF HistorySpec

=============================================================================

---------------------------- MODULE RouteUpdate ----------------------------
(***************************************************************************)
(* The route controller of route.c: when the route graph is built, flooded *)
(* and thrown away, and how the path to the next destination - a chain of  *)
(* paths when there are waypoints - and the route status follow position,  *)
(* destination and profile changes.                                        *)
(*                                                                         *)
(* All of it runs on one thread, so a command is never interrupted; but    *)
(* the graph is built by an idle callback in slices, and any command can   *)
(* come between two slices.  Inside one handler the functions call each    *)
(* other through callbacks (flood -> path_update_done -> flood ...); pc    *)
(* and frame say where that chain of calls is.                             *)
(*                                                                         *)
(* Abstracted: coordinates, the graph's points and segments, the path's    *)
(* segments.  Whether a path is found is open; a path of the chain is      *)
(* represented by the destination it leads to.  At least one map is open:  *)
(* a build without any would flood before the route has its graph.         *)
(***************************************************************************)
EXTENDS Naturals, Sequences, FiniteSets

CONSTANTS
    DestId,            \* addresses of route_info blocks of destinations
    NoDest,            \* the null pointer
    PosInfo,           \* the position's route_info, as a start of a path
    MaxDest,           \* bound on the number of destinations
    BuildSteps,        \* idle slices a graph build takes
    PositionKinds,     \* what a position update can yield: see PositionKind
    Osrm,              \* whether routes are imported (the *_no_calc messages)
    FreedBlockReused   \* whether malloc returns the block of the last graph

Position == {"none", "offroad", "street"}

\* "far": on a street that is not in the graph, outside the area it is built for.
PositionKind == Position \union {"far"}

ASSUME DestAssumption == NoDest \notin DestId /\ PosInfo \notin DestId \union {NoDest}
ASSUME BoundAssumption == MaxDest \in Nat \ {0} /\ BuildSteps \in Nat \ {0}
ASSUME KindAssumption ==
    PositionKinds \subseteq PositionKind /\ Osrm \in BOOLEAN /\ FreedBlockReused \in BOOLEAN

VARIABLES
    pos,           \* route.pos: absent, on no street, on a street
    destinations,  \* route.destinations, the next one first
    current_dst,   \* route.current_dst: where the current flood starts
    graph,         \* route.graph
    path2,         \* route.path2 and its next chain, as destinations led to
    link_path,     \* route.link_path
    try_harder,    \* route.try_harder
    route_status,  \* route.route_status
    pc,            \* where the running handler is; "ready" between handlers
    frame,         \* the caller the running route_path_update_done returns to
    new_graph,     \* the argument of that route_path_update_done
    importing      \* an imported list is being sent, message by message

vars == <<pos, destinations, current_dst, graph, path2, link_path, try_harder,
          route_status, pc, frame, new_graph, importing>>

Status == {"no_destination", "destination_set", "not_found", "building_path",
           "building_graph", "path_done_new", "path_done_incremental"}

Done == {"path_done_new", "path_done_incremental"}

\* A status read from an uninitialised variable.
Undefined == "undefined"

NoGraph ==
    [exists |-> FALSE, busy |-> FALSE, building |-> FALSE, built |-> 0, flood |-> NoDest,
     covers |-> TRUE, hit |-> FALSE]

Graph ==
    [exists : BOOLEAN, busy : BOOLEAN, building : BOOLEAN, built : 0 .. BuildSteps,
     flood : DestId \union {NoDest}, covers : BOOLEAN, hit : BOOLEAN]

\* busy is the field of the struct; building is "the idle event is registered".
\* covers: the area the graph is built for has the street the position is on, as
\* it has when the build begins.  hit is no state of the program: it remembers
\* that a write to freed memory fell on this graph while it was built.
NewGraph == [NoGraph EXCEPT !.exists = TRUE, !.busy = TRUE, !.building = TRUE]

Range(s) == {s[i] : i \in DOMAIN s}

\* The lists of up to MaxDest different destinations.
DestLists ==
    {s \in UNION {[1 .. n -> DestId] : n \in 0 .. MaxDest} :
        \A i, j \in DOMAIN s : s[i] = s[j] => i = j}

TypeOK ==
    /\ pos \in Position
    /\ destinations \in DestLists
    /\ current_dst \in DestId \union {NoDest}
    /\ graph \in Graph
    /\ path2 \in Seq(DestId)
    /\ link_path \in BOOLEAN
    /\ try_harder \in BOOLEAN
    /\ route_status \in Status \union {Undefined}
    /\ pc \in {"ready", "flood", "done", "return", "crashed"}
    /\ frame \in {"none", "update", "build", "stray"}
    /\ new_graph \in BOOLEAN
    /\ importing \in BOOLEAN

Init ==
    /\ pos = "none"
    /\ destinations = <<>>
    /\ current_dst = NoDest
    /\ graph = NoGraph
    /\ path2 = <<>>
    /\ link_path = FALSE
    /\ try_harder = FALSE
    /\ route_status = "no_destination"
    /\ pc = "ready"
    /\ frame = "none"
    /\ new_graph = FALSE
    /\ importing = FALSE

-----------------------------------------------------------------------------
(* route_path_update, as the last call of a command.  p and d are the       *)
(* position and destinations the command leaves, g and st graph and status. *)

\* route_get_dst: the last destination, where the chain of paths ends.
route_get_dst(d) == IF d = <<>> THEN NoDest ELSE d[Len(d)]

\* Variant for the mutation runs: an update does not wait for a build.
NeverBusy(g) == FALSE

Busy(g) == g.busy

\* Variant: a new graph leaves the old path in place.
RebuildKeepsPath ==
    /\ graph' = NewGraph
    /\ UNCHANGED path2
    /\ route_status' = "building_graph"

\* route_graph_update, after the path was destroyed: the build is scheduled.
Rebuild ==
    /\ graph' = NewGraph
    /\ path2' = <<>>
    /\ route_status' = "building_graph"

Ready == pc' = "ready" /\ frame' = "none" /\ UNCHANGED new_graph

route_path_update(p, d, g, cancel, st) ==
    LET g2 == IF cancel THEN NoGraph ELSE g IN
    \/ /\ p = "none" \/ d = <<>>
       /\ path2' = <<>> /\ graph' = g /\ route_status' = st
       /\ Ready
    \/ /\ p # "none" /\ d # <<>>
       /\ ~g2.exists
       /\ Rebuild
       /\ Ready
    \/ /\ p # "none" /\ d # <<>>
       /\ g2.exists /\ Busy(g2)
       /\ graph' = g2 /\ route_status' = st
       /\ UNCHANGED path2
       /\ Ready
    \/ /\ p # "none" /\ d # <<>>
       /\ g2.exists /\ ~Busy(g2)
       /\ graph' = g2 /\ route_status' = st
       /\ pc' = "done" /\ frame' = "update" /\ new_graph' = FALSE
       /\ UNCHANGED path2

-----------------------------------------------------------------------------
(* Commands.                                                                *)

\* Where a position is, and the graph that it has or has not left.
Place(p) == IF p = "far" THEN "street" ELSE p

Left(g, p) == [g EXCEPT !.covers = (p # "far" \/ ~g.exists)]

\* route_set_position: with no nearest street the position is dropped and
\* nothing else happens.
SetPosition(p) ==
    /\ pc = "ready"
    /\ pos' = Place(p)
    /\ \/ /\ p \in {"street", "far"}
          /\ route_path_update("street", destinations, Left(graph, p), FALSE, route_status)
       \/ /\ p = "none"
          /\ UNCHANGED <<graph, path2, route_status, pc, frame, new_graph>>
    /\ UNCHANGED <<destinations, current_dst, link_path, try_harder,
                   importing>>

\* route_set_position_from_tracking: the tracked position may lie on no
\* street, and without destinations the route is left alone.
SetPositionFromTracking(p) ==
    /\ pc = "ready"
    /\ p # "none"
    /\ pos' = Place(p)
    /\ IF destinations # <<>>
       THEN route_path_update(Place(p), destinations, Left(graph, p), FALSE, route_status)
       ELSE /\ graph' = Left(graph, p)
            /\ UNCHANGED <<path2, route_status, pc, frame, new_graph>>
    /\ UNCHANGED <<destinations, current_dst, link_path, try_harder,
                   importing>>

\* Variant: the flood goes on from where the last one started.
StartRouteKeepsDst(d, st) ==
    /\ try_harder' = FALSE
    /\ route_path_update(pos, d, NoGraph, TRUE, st)
    /\ UNCHANGED <<pos, current_dst, link_path>>

\* What route_set_destinations, route_add_destination and
\* route_after_destination_start_calc do once the list is d.
StartRoute(d, st) ==
    /\ current_dst' = route_get_dst(d)
    /\ try_harder' = FALSE
    /\ route_path_update(pos, d, NoGraph, TRUE, st)
    /\ UNCHANGED <<pos, link_path>>

\* route_set_destinations.  Requested destinations without a street nearby
\* are left out, so the list can be empty although one was requested.
SetDestinations(d) ==
    /\ pc = "ready"
    /\ destinations' = d
    /\ \E st \in IF d = <<>> THEN {"no_destination", "destination_set"}
                             ELSE {"destination_set"} : StartRoute(d, st)
    /\ UNCHANGED importing

\* route_add_destination.  When no street is near the status is read from an
\* uninitialised variable.
AddDestination(id) ==
    /\ pc = "ready"
    /\ Len(destinations) < MaxDest /\ id \notin Range(destinations)
    /\ \/ /\ destinations' = Append(destinations, id)
          /\ StartRoute(destinations', "destination_set")
       \/ /\ destinations' = destinations
          /\ \E st \in Status \union {Undefined} : StartRoute(destinations, st)
    /\ UNCHANGED importing

\* An imported route arrives as a message per destination - the first one
\* starts a list, the others append - and a last message that starts the
\* calculation.  route_set_destination_no_calc and
\* route_add_destination_no_calc change the list and nothing else.
NoCalc ==
    /\ try_harder' = FALSE
    /\ UNCHANGED <<pos, current_dst, graph, path2, link_path, route_status, pc,
                   frame, new_graph>>

SetNoCalc(id) ==
    /\ pc = "ready" /\ Osrm /\ ~importing
    /\ importing' = TRUE
    /\ destinations' \in {<<>>, <<id>>}
    /\ NoCalc

AddNoCalc(id) ==
    /\ pc = "ready" /\ importing
    /\ Len(destinations) < MaxDest /\ id \notin Range(destinations)
    /\ destinations' \in {destinations, Append(destinations, id)}
    /\ NoCalc
    /\ UNCHANGED importing

\* route_after_destination_start_calc: the type of the status attribute is
\* not initialised, so that the status may or may not be set.
StartCalc ==
    /\ pc = "ready" /\ importing
    /\ importing' = FALSE
    /\ \E st \in {route_status, "destination_set"} : StartRoute(destinations, st)
    /\ UNCHANGED destinations

\* A new vehicle profile, changed road priorities, the "recalculate" messages
\* 72 (cancel = FALSE) and 73 (TRUE).
Recalculate(cancel) ==
    /\ pc = "ready"
    /\ route_path_update(pos, destinations, graph, cancel, route_status)
    /\ UNCHANGED <<pos, destinations, current_dst, link_path, try_harder,
                   importing>>

\* Variant: the flood starts where the last one did.
RemoveWaypointKeepsDst ==
    /\ pc = "ready"
    /\ pos = "street" /\ path2 # <<>> /\ Len(destinations) > 1
    /\ destinations' = Tail(destinations)
    /\ path2' = Tail(path2)
    /\ graph' = [graph EXCEPT !.flood = NoDest]
    /\ pc' = "flood" /\ frame' = "none"
    /\ UNCHANGED <<pos, current_dst, link_path, try_harder, route_status, new_graph,
                   importing>>

\* Variant: the path of the leg just driven stays at the head of the chain.
RemoveWaypointKeepsPath ==
    /\ pc = "ready"
    /\ pos = "street" /\ path2 # <<>> /\ Len(destinations) > 1
    /\ destinations' = Tail(destinations)
    /\ current_dst' = destinations'[1]
    /\ graph' = [graph EXCEPT !.flood = NoDest]
    /\ pc' = "flood" /\ frame' = "none"
    /\ UNCHANGED <<pos, path2, link_path, try_harder, route_status, new_graph,
                   importing>>

\* route_remove_waypoint, called when route_destination_reached says that a
\* destination other than the last one is reached.
RemoveWaypoint ==
    /\ pc = "ready"
    /\ pos = "street" /\ path2 # <<>> /\ Len(destinations) > 1
    /\ destinations' = Tail(destinations)
    /\ path2' = Tail(path2)
    /\ current_dst' = destinations'[1]
    /\ graph' = [graph EXCEPT !.flood = NoDest]
    /\ pc' = "flood" /\ frame' = "none"
    /\ UNCHANGED <<pos, link_path, try_harder, route_status, new_graph,
                   importing>>

-----------------------------------------------------------------------------
(* Building and flooding the graph.                                         *)

\* route_graph_build_idle: a slice that is not the last.
BuildSlice ==
    /\ pc = "ready"
    /\ graph.building /\ graph.built < BuildSteps
    /\ graph' = [graph EXCEPT !.built = @ + 1]
    /\ UNCHANGED <<pos, destinations, current_dst, path2, link_path, try_harder,
                   route_status, pc, frame, new_graph, importing>>

\* The last slice: route_graph_build_done removes the idle event and calls
\* route_graph_update_done.  busy stays set until that has returned.
BuildDone ==
    /\ pc = "ready"
    /\ graph.building /\ graph.built = BuildSteps
    /\ graph' = [graph EXCEPT !.building = FALSE, !.hit = FALSE]
    /\ pc' = "flood" /\ frame' = "build"
    /\ UNCHANGED <<pos, destinations, current_dst, path2, link_path, try_harder,
                   route_status, new_graph, importing>>

\* route_graph_flood from current_dst, then its callback.  It reads the street
\* of the position and of the destination without a test.  It looks up the
\* position's segment in the graph and compares it with every segment it gives
\* a cost to: when the graph does not have it, or not yet, a flood that gets
\* anywhere crashes.
Flood ==
    /\ pc = "flood"
    /\ \/ /\ pos = "street" /\ current_dst # NoDest
          /\ graph' = [graph EXCEPT !.flood = current_dst]
          /\ pc' = "done" /\ new_graph' = TRUE
       \/ /\ \/ pos # "street" \/ current_dst = NoDest
             \/ ~graph.covers \/ graph.building
          /\ pc' = "crashed" /\ UNCHANGED <<graph, new_graph>>
    /\ UNCHANGED <<pos, destinations, current_dst, path2, link_path, try_harder,
                   route_status, frame, importing>>

-----------------------------------------------------------------------------
(* route_path_update_done.                                                  *)

\* route_previous_destination: the destination before current_dst, or the
\* position - also when current_dst is not in the list.
route_previous_destination ==
    LET before == {i \in 2 .. Len(destinations) : destinations[i] = current_dst}
    IN  IF before = {} THEN PosInfo
        ELSE destinations[(CHOOSE i \in before : TRUE) - 1]

\* A path can only be found from a street; from one that is not in the graph, an
\* offroad path.
CanFind == route_previous_destination # PosInfo \/ pos = "street"

\* The chain with the new path in it: before the old chain when a leg is put
\* before the legs already found, else in place of its head.
NewChain ==
    IF link_path THEN <<current_dst>> \o path2
    ELSE IF path2 = <<>> THEN <<current_dst>>
    ELSE <<current_dst>> \o Tail(path2)

\* Variant: the loop over the legs does not stop at the position.
DoneLinkAlways ==
    /\ pc = "done" /\ CanFind
    /\ path2' = NewChain
    /\ link_path' = TRUE
    /\ current_dst' = route_previous_destination
    /\ graph' = [graph EXCEPT !.flood = NoDest]
    /\ route_status' = "building_path"
    /\ pc' = "flood"
    /\ UNCHANGED <<pos, destinations, try_harder, frame, new_graph, importing>>

\* A path, but not from the position yet: go on with the leg before.
DoneLink ==
    /\ pc = "done" /\ CanFind
    /\ route_previous_destination # PosInfo
    /\ path2' = NewChain
    /\ link_path' = TRUE
    /\ current_dst' = route_previous_destination
    /\ graph' = [graph EXCEPT !.flood = NoDest]
    /\ route_status' = "building_path"
    /\ pc' = "flood"
    /\ UNCHANGED <<pos, destinations, try_harder, frame, new_graph, importing>>

DonePath ==
    /\ pc = "done" /\ CanFind
    /\ route_previous_destination = PosInfo
    /\ path2' = NewChain
    /\ link_path' = FALSE
    /\ route_status' \in IF new_graph THEN {"path_done_new"} ELSE Done
    /\ pc' = "return"
    /\ UNCHANGED <<pos, destinations, current_dst, graph, try_harder, frame, new_graph,
                   importing>>

\* No path: once, the graph is thrown away and built over a larger area, unless
\* the destinations are gone.  The status set by that build is overwritten with
\* building_path at the end.
DoneHarder ==
    /\ pc = "done" /\ ~try_harder
    /\ try_harder' = TRUE
    /\ graph' = IF destinations = <<>> THEN NoGraph ELSE NewGraph
    /\ path2' = <<>>
    /\ link_path' = FALSE
    /\ route_status' = "building_path"
    /\ pc' = "return"
    /\ frame' = IF frame = "build" THEN "stray" ELSE frame
    /\ UNCHANGED <<pos, destinations, current_dst, new_graph, importing>>

\* Variant: a failed search leaves the status it began with.
DoneNotFoundSilent ==
    /\ pc = "done" /\ try_harder
    /\ path2' = <<>>
    /\ link_path' = FALSE
    /\ route_status' = "building_path"
    /\ pc' = "return"
    /\ UNCHANGED <<pos, destinations, current_dst, graph, try_harder, frame, new_graph,
                   importing>>

DoneNotFound ==
    /\ pc = "done" /\ try_harder
    /\ path2' = <<>>
    /\ link_path' = FALSE
    /\ route_status' = "not_found"
    /\ pc' = "return"
    /\ UNCHANGED <<pos, destinations, current_dst, graph, try_harder, frame, new_graph,
                   importing>>

\* Variant: the busy flag is not cleared when the build is over.
NotBusyForgotten(g) == g

NotBusy(g) == [g EXCEPT !.busy = FALSE]

\* The write to freed memory falls on the graph under construction.
Hit(g) == [NotBusy(g) EXCEPT !.hit = TRUE]

\* The callers go on: route_path_update starts a build when there is no path;
\* route_graph_build_done clears busy.  When the graph it was called for was
\* destroyed meanwhile ("stray") the write goes to freed memory, which may be
\* the block of the graph now under construction.
Return ==
    /\ pc = "return"
    /\ \/ /\ frame = "update" /\ path2 = <<>>
          /\ Rebuild
       \/ /\ frame = "none" \/ (frame = "update" /\ path2 # <<>>)
          /\ UNCHANGED <<graph, path2, route_status>>
       \/ /\ frame = "build"
          /\ graph' = NotBusy(graph)
          /\ UNCHANGED <<path2, route_status>>
       \/ /\ frame = "stray"
          /\ \/ UNCHANGED graph
             \/ FreedBlockReused /\ graph.exists /\ graph' = Hit(graph)
          /\ UNCHANGED <<path2, route_status>>
    /\ Ready
    /\ UNCHANGED <<pos, destinations, current_dst, link_path, try_harder,
                   importing>>

-----------------------------------------------------------------------------
\* What the user asks for; PositionUpdate and RemoveWaypoint come with driving.
UserCommand ==
    \/ \E d \in DestLists : SetDestinations(d)
    \/ \E id \in DestId : AddDestination(id) \/ SetNoCalc(id) \/ AddNoCalc(id)
    \/ \E cancel \in BOOLEAN : Recalculate(cancel)
    \/ StartCalc

PositionUpdate ==
    \E p \in PositionKinds : SetPosition(p) \/ SetPositionFromTracking(p)

Handler == Flood \/ DoneLink \/ DonePath \/ DoneHarder \/ DoneNotFound \/ Return

Build == BuildSlice \/ BuildDone

Next == UserCommand \/ PositionUpdate \/ RemoveWaypoint \/ Build \/ Handler

Spec == Init /\ [][Next]_vars

\* A handler runs to its end, and the idle timer of a build ticks.
Fairness == WF_vars(Handler) /\ WF_vars(Build)

FairSpec == Spec /\ Fairness

-----------------------------------------------------------------------------
(* Properties.                                                              *)

\* Between handlers a path is only shown over a finished graph, or over one that
\* a stray write has made look finished.  route_remove_waypoint resets and floods
\* the graph whenever there is a path, without looking at graph or busy.
PathHasGraph ==
    pc = "ready" /\ path2 # <<>> => graph.exists /\ (graph.building => graph.hit)

\* The chain of paths leads to the next destinations in their order: no leg to
\* a destination that is reached, removed or freed, and none skipped - before
\* the first and after the last message of an import.
PathLeadsToNext ==
    pc = "ready" /\ ~importing =>
        Len(path2) <= Len(destinations) /\ \A i \in DOMAIN path2 : path2[i] = destinations[i]

\* A graph that position updates extract paths from without a new flood carries
\* the costs of a destination that still exists.  A graph whose busy flag a stray
\* write has cleared may not carry any yet.
GraphFitsList ==
    pc = "ready" /\ graph.exists /\ ~graph.busy =>
        /\ current_dst \in Range(destinations)
        /\ graph.flood = current_dst \/ (graph.hit /\ graph.flood = NoDest)

\* So it is whenever no list is being imported: the messages of an import
\* leave nothing behind once the last one has come.
GraphServesDst == ~importing => GraphFitsList

\* busy says what its comment says: the graph is being built.
BusyMeansBuilding == pc = "ready" => (graph.busy <=> graph.building)

\* Nothing but a write to freed memory makes busy untrue, and only of the graph
\* the larger search has just begun to build: it is over with that build.
BusyUnlessHit ==
    pc = "ready" =>
        /\ graph.busy <=> graph.building /\ ~graph.hit
        /\ graph.hit => graph.building /\ (try_harder \/ importing)

\* The status the user is shown between handlers: a finished path exists, a
\* failed search left none, and "building" is shown only during a build.
StatusHonest ==
    pc = "ready" /\ ~importing /\ destinations # <<>> /\ pos # "none" =>
        /\ route_status \in Done => path2 # <<>>
        /\ route_status = "not_found" => path2 = <<>>
        /\ route_status \in {"building_graph", "building_path"} => graph.building

=============================================================================

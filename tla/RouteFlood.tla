----------------------------- MODULE RouteFlood -----------------------------
(***************************************************************************)
(* The search for a way in route.c: the points with turn restrictions are  *)
(* split when a graph is finished, route_graph_flood gives the segments    *)
(* their costs from the destination backwards, and route_path_new follows  *)
(* the costs from the position.                                            *)
(*                                                                         *)
(* A segment is driven in two directions, each with a cost of its own, its *)
(* predecessor and its element of the heap. The flood is Dijkstra's        *)
(* algorithm over segments, with a shortcut once the street of the         *)
(* position is met.                                                        *)
(*                                                                         *)
(* When the position moves, a path is read back from the old costs first   *)
(* (route_path_update): the graph is built anew only when there is none.   *)
(*                                                                         *)
(* The profile of the vehicle decides which one-way streets it must keep   *)
(* to: a car all of them, a bicycle all but those that are free for it, or *)
(* none (global_vehicle_profile). The clones that are made for the turn    *)
(* restrictions are one-way streets, and so are no barrier to a bicycle    *)
(* where one-way streets are none.                                         *)
(*                                                                         *)
(* Abstracted: coordinates (names), the rest of the profile (for each      *)
(* street a cost, whether it is closed to the vehicle and "no through      *)
(* traffic"), the order of the lists, which is that of the map (any). One  *)
(* segment per street before the restrictions are processed, and no street *)
(* is a loop. The streets of the position and of the destination are in    *)
(* the graph. The destination stays; what a new one does, a position whose *)
(* street is not in the graph, waypoints and the second search with        *)
(* smaller roads are in RouteUpdate.                                       *)
(***************************************************************************)
EXTENDS Integers, Sequences, FiniteSetsExt

CONSTANTS
    Maps,            \* streets and turn restrictions to choose from
    Inf,             \* INT_MAX
    Penalty,         \* through_traffic_penalty
    TurnAround,      \* the 4000 of route_path_new
    Percent,         \* where on a street position and destination may be
    MaxMoves         \* bound on the new positions

\* A street with its two ends at different places, as route_process_street_graph adds it:
\* dirs are the directions that its one-way flags leave to the vehicle, free says that
\* they mean nothing to it, closed that it may not go there at all.
Street(s) ==
    /\ DOMAIN s = {"item", "start", "end", "len", "dirs", "free", "closed", "limited"}
    /\ s.start = <<s.start[1]>> /\ s.end = <<s.end[1]>> /\ s.start # s.end
    /\ s.len \in Nat /\ s.dirs \subseteq {1, -1} /\ s.closed \in BOOLEAN
    /\ s.free \in BOOLEAN /\ (s.free => s.dirs = {1, -1})

\* route_graph_clone_segment makes a segment longer by one, for each point at most once:
\* no length comes to INT_MAX. A map has finitely many streets.
ASSUME ConstantsAssumption ==
    /\ Inf \in Nat /\ Penalty \in Nat /\ TurnAround \in Nat /\ MaxMoves \in Nat
    /\ Percent \subseteq 0 .. 100
    /\ \A m \in Maps :
          /\ IsFiniteSet(m.streets) /\ IsFiniteSet(m.restriction)
          /\ \A s \in m.streets : Street(s) /\ s.len + Cardinality(m.restriction) <= Inf

VARIABLES
    map,         \* [street, restriction], as they were added to the graph
    pos, dst,    \* struct route_info: street and percent; direction of the position
    at,          \* where the computation is
    pending,     \* the points with restrictions that are not split yet
    graph,       \* the segments
    cost,        \* seg_start_out_cost and seg_end_out_cost
    from,        \* end_from_seg and start_from_seg
    handle,      \* the drives whose el_start or el_end is set
    heap,        \* the drives that an element of the heap was made for
    found,       \* max_cost # INT_MAX
    path,        \* what route_path_new returns, a sequence of drives
    next,        \* its s and start, as a drive
    newGraph,    \* new_graph of route_path_update_done
    moves,       \* the number of new positions
    \* history variables
    badElement,  \* fh_replacekey was called with an element that is not in the heap
    least        \* the least costs of the drives, by definition

flooding == <<cost, from, handle, heap, found, badElement, least>>
following == <<path, next, newGraph, moves>>
vars == <<map, pos, dst, at, pending, graph, flooding, following>>

-----------------------------------------------------------------------------
(* The graph *)

\* A point is a tuple of its place and, when it was made for the restrictions there,
\* the segment one comes in by.
Place(p) == p[1]
Restricted == {<<r.via>> : r \in map.restriction}

\* NULL
NoSeg == [none |-> TRUE]

\* A drive is a segment in a direction: 1 from its start to its end, or -1.
Drive == graph \X {1, -1}
MapDrive == map.streets \X {1, -1}
TailOf(d) == IF d[2] = 1 THEN d[1].start ELSE d[1].end
HeadOf(d) == IF d[2] = 1 THEN d[1].end ELSE d[1].start
Item(d) == d[1].item

\* route_get_real_oneway_flag: the direction is not the wrong one of a one-way street.
RightWay(d) == d[2] \in d[1].dirs

\* The masks of the profile, as route_get_real_oneway_mask changes them
Open(d) == RightWay(d) /\ ~d[1].closed

\* is_turn_allowed from the end of the drive d to the drive e
TurnAllowed(d, e) ==
    /\ Item(d) # Item(e)
    /\ \A r \in map.restriction :
          r.prev = Place(TailOf(d)) /\ r.via = Place(HeadOf(d))
              => (r.kind = "no" <=> r.next # Place(HeadOf(e)))

\* route_graph_clone_segment: the drive d from tail to head. The clone is a one-way
\* street, where that means something to the vehicle.
Clone(d, tail, head) ==
    [d[1] EXCEPT !.start = IF d[2] = 1 THEN tail ELSE head,
                 !.end = IF d[2] = 1 THEN head ELSE tail,
                 !.len = @ + 1, !.dirs = IF d[1].free THEN @ ELSE {d[2]}]

\* Mutant: the streets to turn into are not asked for restrictions.
SplitForAll(p, d) ==
    LET pn == <<Place(p), d[1]>>
        out == {e \in Drive : TailOf(e) = p /\ e[1] # d[1] /\ RightWay(e)}
    IN  {Clone(d, TailOf(d), pn)} \union {Clone(e, pn, HeadOf(e)) : e \in out}

\* route_graph_process_restriction_segment for the drive d that comes in at p: a
\* point of its own, which leads to the streets one may turn into.
SplitFor(p, d) ==
    LET pn == <<Place(p), d[1]>>
        out == {e \in Drive : TailOf(e) = p /\ e[1] # d[1] /\ RightWay(e) /\ TurnAllowed(d, e)}
    IN  {Clone(d, TailOf(d), pn)} \union {Clone(e, pn, HeadOf(e)) : e \in out}

\* route_graph_process_restriction_point: the points come in the order of a table.
ProcessRestrictions ==
    /\ at = "build"
    /\ \E p \in pending :
          /\ pending' = pending \ {p}
          /\ graph' = graph \union
                UNION {SplitFor(p, d) : d \in {e \in Drive : HeadOf(e) = p /\ RightWay(e)}}
    /\ UNCHANGED <<map, pos, dst, at, flooding, following>>

-----------------------------------------------------------------------------
(* The flood *)

\* route_value_seg: the cost of the drive d when the segment s comes after it.
Value(s, d) ==
    IF ~Open(d) \/ TailOf(d) \in Restricted \/ d[1] = s THEN Inf
    ELSE d[1].len + (IF d[1].limited /\ s # NoSeg /\ ~s.limited THEN Penalty ELSE 0)

\* The cost of the drive d when the drive e, of cost c, comes after it.
Via(d, e, c) ==
    IF Item(d) = Item(e) \/ Value(e[1], d) = Inf THEN Inf ELSE c + Value(e[1], d)

\* Mutant: the difference the wrong way around
BeforeTurned(d, info) == IF d[2] = 1 THEN info.percent ELSE info.percent - 100

\* The part of the drive d before the place on its street
Before(d, info) == IF d[2] = 1 THEN info.percent ELSE 100 - info.percent
SeedCost(d) ==
    IF Item(d) = dst.item /\ Value(NoSeg, d) # Inf
    THEN (Value(NoSeg, d) * Before(d, dst)) \div 100 ELSE Inf

\* The least costs by definition, as pairs of a drive and its cost: each round allows
\* one more drive on the way, and a least way has every drive once at most.
Improved(P) ==
    {<<d, Min({p[2] : p \in {q \in P : q[1] = d}}
              \union {Via(d, p[1], p[2]) : p \in {q \in P : TailOf(q[1]) = HeadOf(d)}})>> :
        d \in {e \in Drive : \E p \in P : p[1] = e \/ TailOf(p[1]) = HeadOf(e)}}
Rounds[n \in 0 .. Cardinality(Drive)] ==
    IF n = 0 THEN {<<d, SeedCost(d)>> : d \in {e \in Drive : SeedCost(e) # Inf}}
    ELSE LET P == Rounds[n - 1] IN Improved(P)
CostBy(P, d) == Min({Inf} \union {p[2] : p \in {q \in P : q[1] = d}})
LeastCosts ==
    LET P == Rounds[Cardinality(Drive)] IN [d \in Drive |-> CostBy(P, d)]

\* Mutant: the segments get only their element for the end.
EndsOnly == {d \in Drive : SeedCost(d) # Inf /\ d[2] = -1}

Seeds == {d \in Drive : SeedCost(d) # Inf}

\* The segments of the street of the destination are put into the heap.
Seed ==
    /\ at = "build" /\ pending = {} /\ at' = "flood"
    /\ cost' = [d \in Drive |-> SeedCost(d)]
    /\ from' = [d \in Drive |-> NoSeg]
    /\ heap' = Seeds
    /\ handle' = heap'
    /\ least' = LeastCosts
    /\ UNCHANGED <<map, pos, dst, pending, graph, found, badElement, following>>
\* An element of the heap is only known to be of the segment s: which of its two
\* drives it stands for is told by their costs.
Cheaper(s) ==
    IF <<s, -1>> \in handle /\ ~(<<s, 1>> \in handle /\ cost[<<s, 1>>] < cost[<<s, -1>>])
    THEN <<s, -1>> ELSE <<s, 1>>

\* The drives that are looked at from the drive m: the segments that start at its
\* tail, all of them; then those that end there, up to the first one of the street of
\* the position, and none if one was met before.
Looks(m) ==
    LET reach(k) == {d \in Drive : d[2] = k /\ HeadOf(d) = TailOf(m) /\ Via(d, m, 0) # Inf}
        mine(k) == {d \in reach(k) : Item(d) = pos.item}
    IN  IF found \/ mine(-1) # {} THEN {[at |-> reach(-1), found |-> TRUE]}
        ELSE IF mine(1) = {} THEN {[at |-> reach(-1) \union reach(1), found |-> FALSE]}
        ELSE {[at |-> reach(-1) \union before \union {d}, found |-> TRUE] :
                 before \in SUBSET (reach(1) \ mine(1)), d \in mine(1)}

\* Mutant: a cost is replaced by an equal one.
OrEqual(m, D) == {d \in D : Via(d, m, cost[m]) <= cost[d]}

\* Those of the drives D that get a better cost by m.
Better(m, D) == {d \in D : Via(d, m, cost[m]) < cost[d]}

\* One round of the flood, for an element e of the heap with the least cost.
Extract ==
    /\ at = "flood"
    /\ \E e \in heap :
       /\ \A d \in heap : cost[e] <= cost[d]
       /\ LET m == Cheaper(e[1]) IN
          \E look \in Looks(m) :
             LET D == Better(m, look.at) IN
             /\ cost' = [d \in Drive |-> IF d \in D THEN Via(d, m, cost[m]) ELSE cost[d]]
             /\ from' = [d \in Drive |-> IF d \in D THEN m[1] ELSE from[d]]
             /\ found' = look.found
             /\ handle' = (handle \ {m}) \union D
             /\ heap' = (heap \ {e}) \union D
             /\ badElement' = (badElement \/ \E d \in D : d \in handle \ {m} /\ d \notin heap \ {e})
    /\ UNCHANGED <<map, pos, dst, at, pending, graph, least, following>>

-----------------------------------------------------------------------------
(* The path: route_path_new *)

\* What is left of the drive d, and of the way after it, from the position.
Left(d) == cost[d] - (Value(NoSeg, d) * Before(d, pos)) \div 100

\* The drives of the street of the position that are cheapest, forwards or backwards.
Starts(k) ==
    LET mine == {d \in Drive : /\ d[2] = k /\ Item(d) = pos.item
                               /\ Value(NoSeg, d) # Inf /\ cost[d] # Inf}
    IN  {d \in mine : \A e \in mine : Left(d) <= Left(e)}
Around(d) == IF pos.dir = -d[2] THEN TurnAround ELSE 0
StartCost(d) == Left(d) + Around(d)

\* Mutant: the direction of the vehicle decides.
AsDriven(f, b) ==
    IF pos.dir = 0 THEN StartCost(f) < StartCost(b) ELSE pos.dir = 1

\* The way begins forwards (f) rather than backwards (b). When both cost the same the
\* costs of the other directions decide.
Forwards(f, b) ==
    IF StartCost(f) = StartCost(b) THEN cost[<<f[1], -1>>] < cost[<<b[1], 1>>]
    ELSE StartCost(f) < StartCost(b)

NoDrive == <<>>
OneOf(S) == IF S = {} THEN {NoDrive} ELSE S

\* The flood has ended and its callback updates the path, or the position is new. When
\* the old graph shows no way a new one is built.
Choose ==
    /\ at = "flood" /\ heap = {}
    /\ \E f \in OneOf(Starts(1)), b \in OneOf(Starts(-1)) :
          next' = IF b = NoDrive \/ (f # NoDrive /\ Forwards(f, b)) THEN f ELSE b
    /\ path' = <<>>
    /\ at' = IF next' # NoDrive THEN "follow" ELSE IF newGraph THEN "done" ELSE "build"
    /\ IF at' = "build"
       THEN /\ graph' = map.streets /\ pending' = Restricted
            /\ newGraph' = TRUE /\ found' = FALSE
            /\ cost' = <<>> /\ from' = <<>> /\ least' = <<>> /\ handle' = {}
       ELSE UNCHANGED <<graph, pending, newGraph, found, cost, from, least, handle>>
    /\ UNCHANGED <<map, pos, dst, heap, badElement, moves>>

\* The drive of the segment s that begins at the point p
Onwards(s, p) == <<s, IF s.start = p THEN 1 ELSE -1>>

\* The segments are followed to the first one of the street of the destination, but
\* for the one of the position, or to one without a successor.
Follow ==
    /\ at = "follow"
    /\ path' = Append(path, next)
    /\ IF from[next] = NoSeg \/ (Item(next) = dst.item /\ path # <<>>)
       THEN at' = "done" /\ UNCHANGED next
       ELSE next' = Onwards(from[next], HeadOf(next)) /\ UNCHANGED at
    /\ UNCHANGED <<map, pos, dst, pending, graph, flooding, newGraph, moves>>

Positions == [item : {st.item : st \in map.streets}, percent : Percent, dir : {-1, 0, 1}]

\* route_path_update for a new position, when there is a path: the costs stay.
NewPosition ==
    /\ at = "done" /\ path # <<>> /\ moves < MaxMoves
    /\ pos' \in Positions
    /\ at' = "flood" /\ newGraph' = FALSE /\ moves' = moves + 1
    /\ UNCHANGED <<map, dst, pending, graph, flooding, path, next>>

Next ==
    \/ ProcessRestrictions \/ Seed \/ Extract \/ Choose \/ Follow \/ NewPosition

-----------------------------------------------------------------------------
Init ==
    /\ map \in Maps
    /\ pos \in Positions
    /\ dst \in [item : {d[1].item : d \in {e \in MapDrive : Open(e)}}, percent : Percent]
    /\ at = "build"
    /\ graph = map.streets
    /\ pending = Restricted
    /\ cost = <<>> /\ from = <<>> /\ least = <<>>
    /\ handle = {} /\ heap = {} /\ found = FALSE /\ badElement = FALSE
    /\ path = <<>> /\ next = NoDrive /\ newGraph = TRUE /\ moves = 0

Spec == Init /\ [][Next]_vars

-----------------------------------------------------------------------------
(* Properties *)

\* The kinds of values. The cost of a drive is at most INT_MAX: route_value_seg's
\* INT_MAX is never added to another cost.
TypeOK ==
    /\ at \in {"build", "flood", "follow", "done"} /\ map \in Maps /\ pos \in Positions
    /\ handle \subseteq Drive /\ heap \subseteq Drive
    /\ found \in BOOLEAN /\ badElement \in BOOLEAN /\ newGraph \in BOOLEAN
    /\ at # "build" => cost \in [Drive -> 0 .. Inf] /\ from \in [Drive -> graph \union {NoSeg}]
    /\ at \in {"follow", "done"} => path \in Seq(Drive) /\ next \in Drive \union {NoDrive}
    /\ moves \in 0 .. MaxMoves

\* A cost that is found to be lower is moved in the heap by the element that the
\* drive remembers (fh_replacekey), and that element is in the heap: although one that
\* is taken out names only the segment, and the code forgets the element of its
\* cheaper direction whichever direction it was made for.
ElementsInHeap == ~badElement

\* The flood is Dijkstra's: until the street of the position is met, a drive that has
\* left the heap has its least cost for good; and when the street is never met every
\* drive ends with it, those without a way to the destination with none.
LeastFirst ==
    at # "build" /\ ~found =>
        \A d \in Drive \ heap : cost[d] # Inf \/ heap = {} => cost[d] = least[d]

\* A way in the map itself, without the points that are made for the restrictions:
\* the drives that a vehicle may take one after the other.
Legal(d, e) == HeadOf(d) = TailOf(e) /\ Open(e) /\ TurnAllowed(d, e)

\* One may be on the street: a street that leaves a restricted junction which nobody
\* may turn into does not count.
Entered(d) ==
    /\ Item(d) = pos.item /\ Open(d)
    /\ TailOf(d) \in Restricted => \E e \in MapDrive : Open(e) /\ Legal(e, d)
Spread(R) == R \union UNION {{e \in MapDrive : Legal(d, e)} : d \in R}
Within[n \in 0 .. Cardinality(MapDrive)] ==
    IF n = 0 THEN {d \in MapDrive : Entered(d)}
    ELSE LET Q == Within[n - 1] IN Spread(Q)
Reachable == Within[Cardinality(MapDrive)]

\* A turn that the points and their clones permit: a legal one, or one out of a street
\* that is free, where a bicycle may have got to a point by a clone that leads away from
\* it and finds the streets of others there.
Taken(d, e) ==
    /\ HeadOf(d) = TailOf(e) /\ Item(d) # Item(e) /\ Open(e)
    /\ d[1].free \/ TurnAllowed(d, e)

\* A path begins on the street of the position and leads to that of the destination,
\* against no one-way street that means something to the vehicle and, but for turns out
\* of streets where none does, by no turn that a restriction forbids: by new costs as by
\* those of an old position.
LegalPath ==
    at = "done" /\ path # <<>> =>
        /\ Item(path[1]) = pos.item /\ Item(path[Len(path)]) = dst.item
        /\ \A i \in 1 .. Len(path) : Open(path[i])
        /\ \A i \in 1 .. Len(path) - 1 : Taken(path[i], path[i + 1])

\* What a drive costs at most; and no way costs INT_MAX, not even one with all the drives
\* of the graph, each as dear as the dearest.
Worth(d) == d[1].len + (IF d[1].limited THEN Penalty ELSE 0)
ShortWays ==
    \E w \in 0 .. Inf : (Cardinality(Drive) + 1) * w < Inf /\ \A d \in Drive : Worth(d) <= w

\* When route_path_new finds no path there is no way to the destination.
PathIfAny == at = "done" /\ path = <<>> => \A d \in Reachable : Item(d) # dst.item

\* The successors that route_path_new follows never come back to a drive, although a
\* street may cost nothing: its loop, which has no bound, ends.
NoLoop ==
    at \in {"follow", "done"} => \A i, j \in 1 .. Len(path) : path[i] = path[j] => i = j

\* A path is a way to the destination as LegalPath says, with no drive twice, and there
\* is one whenever there is a way.
LeadsToDst == LegalPath /\ NoLoop /\ PathIfAny

\* With new costs, the beginning that route_path_new chooses costs at most one length of
\* the street of the position, with its penalty, and one turn more than the best one would.
Best ==
    Min({least[d] - (Value(NoSeg, d) * Before(d, pos)) \div 100 + Around(d) :
            d \in {e \in Drive : Item(e) = pos.item /\ least[e] # Inf}})
NearBest ==
    at = "follow" /\ path = <<>> /\ newGraph =>
        \E d \in Drive : Item(d) = pos.item /\ StartCost(next) <= Best + Worth(d) + TurnAround
=============================================================================
